------------------------------ MODULE OwnerLock ------------------------------
(***************************************************************************)
(* CGlobalSemaphoreMap::Owner (Src/100_System/GlobalSemaphoreMap.cpp): the *)
(* spin lock in shared memory that guards the table of named semaphores.   *)
(* Its word, nEnterPID, holds the process id of the holder, 0 when free.   *)
(* Threads of many processes contend; a process can die at any step, also  *)
(* while it holds the lock, and its id stays visible to the others until   *)
(* its parent reaps it.  Process ids are not reused.                       *)
(***************************************************************************)
EXTENDS FiniteSets

CONSTANTS Procs,    (* process ids                                      *)
          Threads,  (* threads that use the table                       *)
          ProcOf,   (* the process of each thread                       *)
          NoPid     (* the value 0 of nEnterPID                         *)

ASSUME ProcAssumption == /\ ProcOf \in [Threads -> Procs]
                         /\ NoPid \notin Procs

VARIABLES nEnterPID,  (* the lock word                                    *)
          running,    (* processes still executing                        *)
          listed,     (* processes with an entry in /proc                 *)
          pc,         (* where each thread is in Owner() ... ~Owner()     *)
          nLastPID    (* the holder each thread saw                       *)

vars == <<nEnterPID, running, listed, pc, nLastPID>>

Labels == {"out", "enter", "check", "steal", "cleanup", "inside", "dead"}
Holding == {"cleanup", "inside"}

\* (Variants named Bug... are what a slip in the definition after them would be.)
\* Every process id counts as alive, as in the build for Windows.
BugIsExistPid(p) == TRUE

IsExistPid(p) == p \in listed

-----------------------------------------------------------------------------
Init == /\ nEnterPID = NoPid
        /\ running = Procs
        /\ listed = Procs
        /\ pc = [t \in Threads |-> "out"]
        /\ nLastPID = [t \in Threads |-> NoPid]

Goto(t, from, to) == pc[t] = from /\ pc' = [pc EXCEPT ![t] = to]

\* nLastPID is local to one round of the loop.
Forget(t) == nLastPID' = [nLastPID EXCEPT ![t] = NoPid]

\* A table operation constructs an Owner.
Begin(t) == /\ Goto(t, "out", "enter")
            /\ UNCHANGED <<nEnterPID, running, listed, nLastPID>>

\* The thread's id in place of the process's.
BugEnterAsThread(t) == /\ nEnterPID = NoPid
                       /\ Goto(t, "enter", "inside")
                       /\ nEnterPID' = t
                       /\ UNCHANGED <<running, listed, nLastPID>>

\* A store in place of the compare-and-swap.
BugEnter(t) == /\ Goto(t, "enter", "inside")
               /\ nEnterPID' = ProcOf[t]
               /\ UNCHANGED <<running, listed, nLastPID>>

\* InterlockedCompareExchange_(&nEnterPID, nPID, 0)
Enter(t) == /\ nEnterPID = NoPid
            /\ Goto(t, "enter", "inside")
            /\ nEnterPID' = ProcOf[t]
            /\ UNCHANGED <<running, listed, nLastPID>>

EnterBusy(t) == /\ nEnterPID # NoPid
                /\ Goto(t, "enter", "check")
                /\ nLastPID' = [nLastPID EXCEPT ![t] = nEnterPID]
                /\ UNCHANGED <<nEnterPID, running, listed>>

HolderExists(t) == /\ IsExistPid(nLastPID[t])
                   /\ Goto(t, "check", "enter")
                   /\ Forget(t)
                   /\ UNCHANGED <<nEnterPID, running, listed>>

\* The holder is taken for dead without a look.
BugHolderGone(t) == /\ Goto(t, "check", "steal")
                    /\ UNCHANGED <<nEnterPID, running, listed, nLastPID>>

HolderGone(t) == /\ ~IsExistPid(nLastPID[t])
                 /\ Goto(t, "check", "steal")
                 /\ UNCHANGED <<nEnterPID, running, listed, nLastPID>>

\* A store in place of the compare-and-swap.
BugSteal(t) == /\ Goto(t, "steal", "cleanup")
               /\ nEnterPID' = ProcOf[t]
               /\ UNCHANGED <<running, listed, nLastPID>>

\* InterlockedCompareExchange_(&nEnterPID, nPID, nLastPID)
Steal(t) == /\ nEnterPID = nLastPID[t]
            /\ Goto(t, "steal", "cleanup")
            /\ nEnterPID' = ProcOf[t]
            /\ UNCHANGED <<running, listed, nLastPID>>

StealLost(t) == /\ nEnterPID # nLastPID[t]
                /\ Goto(t, "steal", "enter")
                /\ Forget(t)
                /\ UNCHANGED <<nEnterPID, running, listed>>

\* Remove(nCleanupPid): the table work is in module SemaphoreMap.
Cleanup(t) == /\ Goto(t, "cleanup", "inside")
              /\ Forget(t)
              /\ UNCHANGED <<nEnterPID, running, listed>>

\* ~Owner: InterlockedCompareExchange_(&nEnterPID, 0, m_nPID)
Leave(t) == /\ Goto(t, "inside", "out")
            /\ nEnterPID' = IF nEnterPID = ProcOf[t] THEN NoPid ELSE nEnterPID
            /\ UNCHANGED <<running, listed, nLastPID>>

Die(p) == /\ p \in running
          /\ running' = running \ {p}
          /\ pc' = [t \in Threads |-> IF ProcOf[t] = p THEN "dead" ELSE pc[t]]
          /\ nLastPID' = [t \in Threads |-> IF ProcOf[t] = p THEN NoPid ELSE nLastPID[t]]
          /\ UNCHANGED <<nEnterPID, listed>>

\* The parent waits for the zombie and /proc/<pid> disappears.
Reap(p) == /\ p \in listed \ running
           /\ listed' = listed \ {p}
           /\ UNCHANGED <<nEnterPID, running, pc, nLastPID>>

-----------------------------------------------------------------------------
Step(t) == \/ Enter(t) \/ EnterBusy(t) \/ HolderExists(t) \/ HolderGone(t)
           \/ Steal(t) \/ StealLost(t) \/ Cleanup(t) \/ Leave(t)

Next == \/ \E t \in Threads : Begin(t) \/ Step(t)
        \/ \E p \in Procs : Die(p) \/ Reap(p)

Spec == Init /\ [][Next]_vars

\* A thread inside an operation is scheduled again and a zombie gets reaped.
FairSpec == /\ Spec
            /\ \A t \in Threads : WF_vars(Step(t))
            /\ \A p \in Procs : WF_vars(Reap(p))

-----------------------------------------------------------------------------
(* Properties                                                              *)

\* Every variable has its type; the lock word is a process id or free.
TypeOK == /\ nEnterPID \in Procs \cup {NoPid}
          /\ running \subseteq Procs
          /\ listed \subseteq Procs
          /\ pc \in [Threads -> Labels]
          /\ nLastPID \in [Threads -> Procs \cup {NoPid}]

\* At most one thread of all live processes works on the table, whoever died
\* inside the lock before and however many saw it dead.
MutualExclusion ==
  \A t, u \in Threads : pc[t] \in Holding /\ pc[u] \in Holding => t = u

\* The inductive invariant behind it: a live holder's process id is in the lock
\* word, and a thread about to steal saw a holder that no longer exists.
HolderRecorded ==
  /\ running \subseteq listed
  /\ \A t \in Threads :
       /\ pc[t] # "dead" => ProcOf[t] \in running
       /\ pc[t] \in Holding => nEnterPID = ProcOf[t]
       /\ pc[t] \in {"check", "steal"} => nLastPID[t] # NoPid
       /\ pc[t] = "steal" => nLastPID[t] \notin listed

Inv == TypeOK /\ HolderRecorded /\ MutualExclusion

\* The lock word never passes from a live process to anybody but "free": only
\* the holder gives it up, and it is stolen from the dead alone.
StolenFromDeadOnly ==
  [][(nEnterPID \in running /\ nEnterPID' # nEnterPID) => nEnterPID' = NoPid]_vars

\* A lock that died with its holder is recovered as long as a live thread
\* waits for it: the word does not keep a dead process id forever.
Waiting(t) == pc[t] \in {"enter", "check", "steal"}

DeadHolderReplaced ==
  \A p \in Procs, t \in Threads :
    nEnterPID = p /\ p \notin running /\ Waiting(t) ~> nEnterPID # p \/ pc[t] = "dead"
=============================================================================
