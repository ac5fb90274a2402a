----------------------------- MODULE NamedMutex -----------------------------
(***************************************************************************)
(* WaitForMutex and ReleaseMutex on one named mutex that every process has *)
(* open (Src/100_System/KernelObject_Linux_Mac.cpp).  A process has one    *)
(* handle, which its threads share.                                        *)
(*                                                                         *)
(*   count               the value of the kernel semaphore                 *)
(*   nOwnerPID           the owner mark in the shared table                *)
(*   tid[p], depth[p]    nOwnerTID and nLockCount of the handle            *)
(*                                                                         *)
(* MarkOwner, UnmarkOwner and CheckAbandoned run under the lock of module  *)
(* OwnerLock and are one action each.                                      *)
(***************************************************************************)
EXTENDS Naturals, FiniteSets

CONSTANTS Threads, Procs, PidOf,
          NoThread, NoPid,
          Creator,        (* the thread that made the mutex                  *)
          InitialOwner,   (* what it may have passed as bInitialOwner        *)
          Mortal,         (* processes that may exit                         *)
          ExitsAt,        (* the points of a call where they may             *)
          StrayReleasers, (* threads that call ReleaseMutex without holding  *)
          MaxRepairers,   (* calls repairing an abandoned mutex at a time    *)
          MaxDepth        (* bound of the recursion                          *)

ASSUME PidAssumption == PidOf \in [Threads -> Procs] /\ Mortal \subseteq Procs
ASSUME NullAssumption == /\ NoThread \notin Threads /\ NoPid \notin Procs
                         /\ NoPid \notin Threads \cup {NoThread}
ASSUME CreatorAssumption == /\ Creator \in Threads
                            /\ StrayReleasers \subseteq Threads
                            /\ InitialOwner \subseteq BOOLEAN
ASSUME BoundAssumption == MaxDepth \in Nat \ {0} /\ MaxRepairers \in Nat

VARIABLES count, nOwnerPID, tid, depth,
          gone,       (* processes that exited                               *)
          stranded,   (* one of them held the mutex and nobody gave it back  *)
          pc,
          told,       (* threads whose last wait returned WAIT_ABANDONED_    *)
          held        (* waits that succeeded less releases that did         *)

shared == <<count, nOwnerPID>>
handle == <<tid, depth>>
vars == <<count, nOwnerPID, tid, depth, gone, stranded, pc, told, held>>

Pid(t) == PidOf[t]
Goto(t, from, to) == pc[t] = from /\ pc' = [pc EXCEPT ![t] = to]

\* CreateMutex(bInitialOwner, pszName); the other handles come from OpenMutex.  The
\* new table entry is marked with the creator's process either way.
Init ==
  /\ \E bInitialOwner \in InitialOwner :
       /\ count = IF bInitialOwner THEN 0 ELSE 1
       /\ depth = [p \in Procs |-> IF bInitialOwner /\ p = Pid(Creator) THEN 1 ELSE 0]
       /\ held = [t \in Threads |-> IF bInitialOwner /\ t = Creator THEN 1 ELSE 0]
  /\ nOwnerPID = Pid(Creator)
  /\ tid = [p \in Procs |-> IF p = Pid(Creator) THEN Creator ELSE NoThread]
  /\ gone = {}
  /\ stranded = FALSE
  /\ pc = [t \in Threads |-> "idle"]
  /\ told = {}

\* (Variants named Bug... are what a slip in the definition after them would be.)
\* Whoever else owns the mutex is taken for dead.
BugCheckAbandoned(p) == nOwnerPID # NoPid /\ nOwnerPID # p

\* The table names an owner that is neither this process nor alive.
CheckAbandoned(p) == nOwnerPID # NoPid /\ nOwnerPID # p /\ nOwnerPID \in gone

Owns(t) == tid[Pid(t)] = t /\ depth[Pid(t)] > 0

-----------------------------------------------------------------------------
(* WaitForMutex                                                             *)

WaitAbandoned(t) ==
  /\ CheckAbandoned(Pid(t))
  /\ Goto(t, "idle", "idle")
  /\ told' = told \cup {t}
  /\ UNCHANGED <<shared, handle, gone, stranded, held>>

WaitBegin(t) ==
  /\ ~CheckAbandoned(Pid(t))
  /\ held[t] < MaxDepth
  /\ Goto(t, "idle", "enter")
  /\ told' = told \ {t}
  /\ UNCHANGED <<shared, handle, gone, stranded, held>>

\* The handle does not count the second wait.
BugLockAgain(t) ==
  /\ Owns(t)
  /\ Goto(t, "enter", "idle")
  /\ held' = [held EXCEPT ![t] = @ + 1]
  /\ UNCHANGED <<shared, handle, gone, stranded, told>>

LockAgain(t) ==
  /\ Owns(t)
  /\ Goto(t, "enter", "idle")
  /\ depth' = [depth EXCEPT ![Pid(t)] = @ + 1]
  /\ held' = [held EXCEPT ![t] = @ + 1]
  /\ UNCHANGED <<shared, tid, gone, stranded, told>>

Take(t) ==
  /\ ~Owns(t)
  /\ count > 0
  /\ Goto(t, "enter", "mark")
  /\ count' = count - 1
  /\ UNCHANGED <<nOwnerPID, handle, gone, stranded, told, held>>

\* sem_timedwait gives up.
WaitTimeout(t) ==
  /\ ~Owns(t)
  /\ count = 0
  /\ Goto(t, "enter", "idle")
  /\ UNCHANGED <<shared, handle, gone, stranded, told, held>>

MarkOwner(t) ==
  /\ Goto(t, "mark", "idle")
  /\ nOwnerPID' = Pid(t)
  /\ tid' = [tid EXCEPT ![Pid(t)] = t]
  /\ depth' = [depth EXCEPT ![Pid(t)] = 1]
  /\ held' = [held EXCEPT ![t] = @ + 1]
  /\ UNCHANGED <<count, gone, stranded, told>>

-----------------------------------------------------------------------------
(* ReleaseMutex                                                             *)

MayRelease(t) == held[t] > 0 \/ t \in told \/ t \in StrayReleasers

Repairers == {t \in Threads : pc[t] \in {"repair", "repost"}}

ReleaseAbandoned(t) ==
  /\ MayRelease(t)
  /\ CheckAbandoned(Pid(t))
  /\ Cardinality(Repairers) < MaxRepairers
  /\ Goto(t, "idle", "repair")
  /\ UNCHANGED <<shared, handle, gone, stranded, told, held>>

RepairUnmark(t) ==
  /\ Goto(t, "repair", "repost")
  /\ nOwnerPID' = NoPid
  /\ tid' = [tid EXCEPT ![Pid(t)] = NoThread]
  /\ depth' = [depth EXCEPT ![Pid(t)] = 0]
  /\ UNCHANGED <<count, gone, stranded, told, held>>

RepairPost(t) ==
  /\ Goto(t, "repost", "idle")
  /\ count' = count + 1
  /\ stranded' = FALSE
  /\ told' = told \ {t}
  /\ UNCHANGED <<nOwnerPID, handle, gone, held>>

ReleaseBegin(t) ==
  /\ MayRelease(t)
  /\ ~CheckAbandoned(Pid(t))
  /\ Goto(t, "idle", "release")
  /\ UNCHANGED <<shared, handle, gone, stranded, told, held>>

ReleaseRefused(t) ==
  /\ tid[Pid(t)] # t
  /\ Goto(t, "release", "idle")
  /\ told' = told \ {t}
  /\ UNCHANGED <<shared, handle, gone, stranded, held>>

\* Every release posts.
BugReleaseInner(t) ==
  /\ tid[Pid(t)] = t /\ depth[Pid(t)] > 1
  /\ Goto(t, "release", "idle")
  /\ depth' = [depth EXCEPT ![Pid(t)] = @ - 1]
  /\ count' = count + 1
  /\ held' = [held EXCEPT ![t] = @ - 1]
  /\ UNCHANGED <<nOwnerPID, tid, gone, stranded, told>>

ReleaseInner(t) ==
  /\ tid[Pid(t)] = t /\ depth[Pid(t)] > 1
  /\ Goto(t, "release", "idle")
  /\ depth' = [depth EXCEPT ![Pid(t)] = @ - 1]
  /\ held' = [held EXCEPT ![t] = @ - 1]
  /\ UNCHANGED <<shared, tid, gone, stranded, told>>

\* The first release frees the mutex however often it was locked.
BugReleasePost(t) ==
  /\ tid[Pid(t)] = t
  /\ Goto(t, "release", "unmark")
  /\ tid' = [tid EXCEPT ![Pid(t)] = NoThread]
  /\ depth' = [depth EXCEPT ![Pid(t)] = 0]
  /\ count' = count + 1
  /\ held' = [held EXCEPT ![t] = 0]
  /\ UNCHANGED <<nOwnerPID, gone, stranded, told>>

\* The semaphore is posted before the mark is taken off.
ReleasePost(t) ==
  /\ tid[Pid(t)] = t /\ depth[Pid(t)] <= 1
  /\ Goto(t, "release", "unmark")
  /\ tid' = [tid EXCEPT ![Pid(t)] = NoThread]
  /\ depth' = [depth EXCEPT ![Pid(t)] = 0]
  /\ count' = count + 1
  /\ held' = [held EXCEPT ![t] = IF @ = 0 THEN 0 ELSE @ - 1]
  /\ UNCHANGED <<nOwnerPID, gone, stranded, told>>

\* The mark stays.
BugUnmarkOwner(t) ==
  /\ Goto(t, "unmark", "idle")
  /\ UNCHANGED <<shared, handle, gone, stranded, told, held>>

UnmarkOwner(t) ==
  /\ Goto(t, "unmark", "idle")
  /\ nOwnerPID' = NoPid
  /\ UNCHANGED <<count, handle, gone, stranded, told, held>>

-----------------------------------------------------------------------------
HoldsToken(t) == pc[t] = "mark" \/ held[t] > 0
Holders == {t \in Threads : HoldsToken(t)}
ThreadsOf(p) == {t \in Threads : Pid(t) = p}

\* A process exits without releasing or closing the mutex.
Exit(p) ==
  /\ p \in Mortal \ gone
  /\ \A t \in ThreadsOf(p) : pc[t] \in ExitsAt
  /\ gone' = gone \cup {p}
  /\ stranded' = (stranded \/ Holders \cap ThreadsOf(p) # {})
  /\ pc' = [t \in Threads |-> IF Pid(t) = p THEN "dead" ELSE pc[t]]
  /\ tid' = [tid EXCEPT ![p] = NoThread]
  /\ depth' = [depth EXCEPT ![p] = 0]
  /\ held' = [t \in Threads |-> IF Pid(t) = p THEN 0 ELSE held[t]]
  /\ told' = told \ ThreadsOf(p)
  /\ UNCHANGED shared

Wait(t) == \/ WaitAbandoned(t) \/ WaitBegin(t) \/ LockAgain(t) \/ Take(t)
           \/ WaitTimeout(t) \/ MarkOwner(t)

Release(t) == \/ ReleaseAbandoned(t) \/ RepairUnmark(t) \/ RepairPost(t)
              \/ ReleaseBegin(t) \/ ReleaseRefused(t) \/ ReleaseInner(t)
              \/ ReleasePost(t) \/ UnmarkOwner(t)

Next == \/ \E t \in Threads : Wait(t) \/ Release(t)
        \/ \E p \in Procs : Exit(p)

Spec == Init /\ [][Next]_vars

-----------------------------------------------------------------------------
(* Properties                                                              *)

\* Types, and a semaphore that is never posted above one.
TypeOK ==
  /\ count \in 0 .. 1
  /\ nOwnerPID \in Procs \cup {NoPid}
  /\ tid \in [Procs -> Threads \cup {NoThread}]
  /\ depth \in [Procs -> 0 .. MaxDepth]
  /\ gone \subseteq Procs
  /\ stranded \in BOOLEAN
  /\ pc \in [Threads -> {"idle", "enter", "mark", "repair", "repost",
                         "release", "unmark", "dead"}]
  /\ told \subseteq Threads
  /\ held \in [Threads -> 0 .. MaxDepth]

\* At most one thread is between a successful wait and its last release, whatever
\* processes exited in between.
MutualExclusion == Cardinality(Holders) <= 1

\* The handle a process shares between its threads says what its threads think:
\* who owns it and how often it locked it.
HandleMatches ==
  \A t \in Threads : pc[t] = "idle" =>
    held[t] = IF tid[Pid(t)] = t THEN depth[Pid(t)] ELSE 0

\* WAIT_ABANDONED_ is returned only while a process that exited holds the mutex or
\* its repair is under way.
AbandonedOnlyIfHeld == [][\A t \in Threads : WaitAbandoned(t) => stranded]_vars

\* When a process exited holding the mutex and no call is in progress, the next
\* wait of any other process reports it.
DeathReported ==
  stranded /\ (\A t \in Threads : pc[t] \in {"idle", "dead"}) => nOwnerPID \in gone

\* Together the calls implement a lock that can be abandoned.
Lock == INSTANCE AbandonableLock WITH
          Nobody <- NoThread,
          Abandoned <- NoPid,
          holder <- IF stranded THEN NoPid
                    ELSE IF Holders = {} THEN NoThread ELSE CHOOSE t \in Holders : TRUE,
          depth <- IF stranded \/ Holders = {} THEN 0
                   ELSE LET t == CHOOSE t \in Holders : TRUE
                        IN IF pc[t] = "mark" THEN 1 ELSE held[t]

ImplementsLock == Lock!Spec
=============================================================================
