--------------------------- MODULE NamedMutexProofs ---------------------------
(***************************************************************************)
(* A named mutex with any number of threads and processes is one lock that *)
(* can be abandoned, under the conditions of CleanUse: the mutex was made  *)
(* by its first owner, processes exit where no mark is half made, and one  *)
(* call at a time repairs an abandoned mutex.                              *)
(***************************************************************************)
EXTENDS NamedMutex, FiniteSetTheorems, TLAPS

\* The conditions of the run named_mutex.  Beyond them, finiteness apart, the code does
\* not keep what it promises: the mutex lets two in, or a death is not reported.
CleanUse == /\ IsFiniteSet(Threads)
            /\ InitialOwner = {TRUE}
            /\ ExitsAt \subseteq {"idle", "enter", "release", "repair"}
            /\ MaxRepairers <= 1

\* The semaphore, the threads that hold the mutex, and a death that nobody repaired
\* yet: one of the three at most.
Token ==
  /\ \A t, u \in Threads : HoldsToken(t) /\ HoldsToken(u) => t = u
  /\ count = 1 => ~stranded /\ \A t \in Threads : ~HoldsToken(t)
  /\ stranded => \A t \in Threads : ~HoldsToken(t)

\* The handle names the thread that holds the mutex, if it is one of its process, and
\* counts as that thread does.
Handle ==
  /\ \A p \in Procs : IF tid[p] = NoThread THEN depth[p] = 0 ELSE Pid(tid[p]) = p
  /\ \A t \in Threads :
       IF tid[Pid(t)] = t THEN held[t] = depth[Pid(t)] /\ held[t] >= 1 ELSE held[t] = 0
  /\ \A t \in Threads : pc[t] = "mark" => held[t] = 0
  /\ \A t \in Threads : pc[t] = "enter" => held[t] < MaxDepth

\* The mark of a living process is that of its holder, or about to be taken off; the
\* mark of a dead one means that it held the mutex when it died.
Mark ==
  /\ \A t \in Threads : pc[t] = "dead" <=> Pid(t) \in gone
  /\ nOwnerPID \in gone => stranded
  /\ nOwnerPID # NoPid /\ nOwnerPID \notin gone =>
       \E t \in Threads : Pid(t) = nOwnerPID /\ (held[t] >= 1 \/ pc[t] = "unmark")

\* At most one call repairs, and only a mutex whose holder died.
Repair ==
  /\ \A t, u \in Repairers : t = u
  /\ \A t \in Repairers : stranded
  /\ \A t \in Threads : pc[t] = "repost" => nOwnerPID = NoPid

Inv == TypeOK /\ Token /\ Handle /\ Mark /\ Repair

USE DEF Pid, HoldsToken, Owns, CheckAbandoned, Goto

-----------------------------------------------------------------------------
LEMMA InitInv == CleanUse /\ Init => Inv
<1> SUFFICES ASSUME CleanUse, Init PROVE Inv
  OBVIOUS
<1> USE PidAssumption, NullAssumption, CreatorAssumption, BoundAssumption DEF CleanUse, Init
<1>1. TypeOK
  <2>1. held \in [Threads -> 0 .. MaxDepth] /\ depth \in [Procs -> 0 .. MaxDepth]
    OBVIOUS
  <2>2. /\ pc \in [Threads -> {"idle", "enter", "mark", "repair", "repost",
                              "release", "unmark", "dead"}]
        /\ tid \in [Procs -> Threads \cup {NoThread}]
    OBVIOUS
  <2>3. count \in 0 .. 1 /\ nOwnerPID \in Procs \cup {NoPid}
    OBVIOUS
  <2> QED BY <2>1, <2>2, <2>3 DEF TypeOK
<1>2. Token
  BY DEF Token
<1>3. Handle
  BY DEF Handle
<1>4. Mark
  BY DEF Mark
<1>5. Repair
  BY DEF Repair, Repairers
<1> QED BY <1>1, <1>2, <1>3, <1>4, <1>5 DEF Inv

\* One step of one thread that does not repair.
LEMMA WaitStep ==
  ASSUME CleanUse, Inv, NEW t \in Threads, Wait(t) PROVE Inv'
<1> USE PidAssumption, NullAssumption, BoundAssumption
    DEF Inv, TypeOK, Token, Handle, Mark, Repair, Repairers, shared, handle
<1>1. CASE WaitAbandoned(t) \/ WaitBegin(t) \/ WaitTimeout(t)
  BY <1>1 DEF WaitAbandoned, WaitBegin, WaitTimeout
<1>2. CASE LockAgain(t)
  BY <1>2 DEF LockAgain
<1>3. CASE Take(t)
  BY <1>3 DEF Take
<1>4. CASE MarkOwner(t)
  BY <1>4 DEF MarkOwner
<1> QED BY <1>1, <1>2, <1>3, <1>4 DEF Wait

\* When nobody repairs, nobody is in the set.
LEMMA NobodyRepairs ==
  ASSUME CleanUse, Cardinality(Repairers) < MaxRepairers PROVE Repairers = {}
<1>1. IsFiniteSet(Repairers)
  BY FS_Subset DEF CleanUse, Repairers
<1>2. Cardinality(Repairers) = 0
  BY <1>1, FS_CardinalityType, BoundAssumption DEF CleanUse
<1> QED BY <1>1, <1>2, FS_EmptySet

LEMMA ReleaseStep ==
  ASSUME CleanUse, Inv, NEW t \in Threads, Release(t) PROVE Inv'
<1> USE PidAssumption, NullAssumption, BoundAssumption
    DEF Inv, TypeOK, Token, Handle, Mark, Repair, Repairers, shared, handle
<1>1. CASE ReleaseAbandoned(t)
  BY <1>1, NobodyRepairs DEF ReleaseAbandoned
<1>2. CASE RepairUnmark(t)
  BY <1>2 DEF RepairUnmark
<1>3. CASE RepairPost(t)
  <2> USE <1>3 DEF RepairPost
  <2>1. stranded /\ count = 0 /\ nOwnerPID = NoPid
    OBVIOUS
  <2>2. TypeOK'
    <3>1. count' \in 0 .. 1
      BY <2>1
    <3>2. told' \subseteq Threads /\ stranded' \in BOOLEAN
      OBVIOUS
    <3>3. pc' \in [Threads -> {"idle", "enter", "mark", "repair", "repost",
                              "release", "unmark", "dead"}]
      OBVIOUS
    <3> QED BY <3>1, <3>2, <3>3
  <2>3. Token'
    BY <2>1
  <2>4. Handle' /\ Mark' /\ Repair'
    BY <2>1
  <2> QED BY <2>2, <2>3, <2>4
<1>4. CASE ReleaseBegin(t) \/ ReleaseRefused(t)
  BY <1>4 DEF ReleaseBegin, ReleaseRefused
<1>5. CASE ReleaseInner(t)
  BY <1>5 DEF ReleaseInner
<1>6. CASE ReleasePost(t)
  <2> USE <1>6 DEF ReleasePost
  <2>1. held[t] = 1 /\ depth[Pid(t)] = 1
    OBVIOUS
  <2>2. TypeOK'
    BY <2>1
  <2>3. Token'
    BY <2>1
  <2>4. Handle'
    BY <2>1
  <2>5. Mark'
    BY <2>1
  <2>6. Repair'
    BY <2>1
  <2> QED BY <2>2, <2>3, <2>4, <2>5, <2>6
<1>7. CASE UnmarkOwner(t)
  BY <1>7 DEF UnmarkOwner
<1> QED BY <1>1, <1>2, <1>3, <1>4, <1>5, <1>6, <1>7 DEF Release

LEMMA ExitStep ==
  ASSUME CleanUse, Inv, NEW p \in Procs, Exit(p) PROVE Inv'
<1> USE PidAssumption, NullAssumption, BoundAssumption
    DEF Inv, TypeOK, Token, Handle, Mark, Repair, Repairers, shared, handle, Exit, Holders, ThreadsOf, CleanUse
<1>1. TypeOK'
  OBVIOUS
<1>2. Token'
  OBVIOUS
<1>3. Handle'
  OBVIOUS
<1>4. Mark'
  <2>1. \A t \in Threads : pc'[t] = "dead" <=> Pid(t) \in gone'
    OBVIOUS
  <2>2. nOwnerPID = p => stranded'
    <3> SUFFICES ASSUME nOwnerPID = p PROVE Holders \cap ThreadsOf(p) # {}
      OBVIOUS
    <3>1. PICK t \in Threads : Pid(t) = p /\ (held[t] >= 1 \/ pc[t] = "unmark")
      OBVIOUS
    <3> QED BY <3>1
  <2>3. nOwnerPID \in gone' => stranded'
    BY <2>2
  <2>4. nOwnerPID # NoPid /\ nOwnerPID \notin gone' =>
          \E t \in Threads : Pid(t) = nOwnerPID /\ (held'[t] >= 1 \/ pc'[t] = "unmark")
    <3> SUFFICES ASSUME nOwnerPID # NoPid, nOwnerPID \notin gone'
                 PROVE  \E t \in Threads : Pid(t) = nOwnerPID /\ (held'[t] >= 1 \/ pc'[t] = "unmark")
      OBVIOUS
    <3>1. PICK t \in Threads : Pid(t) = nOwnerPID /\ (held[t] >= 1 \/ pc[t] = "unmark")
      OBVIOUS
    <3> QED BY <3>1
  <2> QED BY <2>1, <2>3, <2>4
<1>5. Repair'
  OBVIOUS
<1> QED BY <1>1, <1>2, <1>3, <1>4, <1>5

LEMMA MutexInvariant == ASSUME CleanUse PROVE Spec => []Inv
<1>1. Inv /\ [Next]_vars => Inv'
  <2> SUFFICES ASSUME Inv, [Next]_vars PROVE Inv'
    OBVIOUS
  <2>1. CASE UNCHANGED vars
    BY <2>1 DEF vars, Inv, TypeOK, Token, Handle, Mark, Repair, Repairers
  <2> QED BY <2>1, WaitStep, ReleaseStep, ExitStep DEF Next
<1> QED BY InitInv, <1>1, PTL DEF Spec

-----------------------------------------------------------------------------
(* The properties of the run                                               *)

\* Types; the semaphore is never posted above one.
THEOREM MutexTypes == ASSUME CleanUse PROVE Spec => []TypeOK
<1>1. Inv => TypeOK
  BY DEF Inv
<1> QED BY MutexInvariant, <1>1, PTL

\* At most one thread is between a successful WaitForMutex and its last ReleaseMutex,
\* whatever processes exited in between.
THEOREM MutexMutualExclusion == ASSUME CleanUse PROVE Spec => []MutualExclusion
<1>1. Inv => MutualExclusion
  <2> SUFFICES ASSUME Inv PROVE MutualExclusion
    OBVIOUS
  <2>1. CASE Holders = {}
    BY <2>1, FS_EmptySet DEF MutualExclusion
  <2>2. CASE Holders # {}
    <3>1. PICK t \in Threads : Holders = {t}
      BY <2>2 DEF Holders, Inv, Token
    <3> QED BY <3>1, FS_Singleton DEF MutualExclusion
  <2> QED BY <2>1, <2>2
<1> QED BY MutexInvariant, <1>1, PTL

\* The handle that the threads of a process share says who of them holds the mutex and
\* how often it locked it.
THEOREM MutexHandleMatches == ASSUME CleanUse PROVE Spec => []HandleMatches
<1>1. Inv => HandleMatches
  BY DEF Inv, Handle, HandleMatches
<1> QED BY MutexInvariant, <1>1, PTL

\* WAIT_ABANDONED_ tells the truth.
THEOREM MutexAbandonedOnlyIfHeld == ASSUME CleanUse PROVE Spec => AbandonedOnlyIfHeld
<1>1. Inv => [\A t \in Threads : WaitAbandoned(t) => stranded]_vars
  BY DEF Inv, Mark, WaitAbandoned
<1> QED BY MutexInvariant, <1>1, PTL DEF AbandonedOnlyIfHeld

-----------------------------------------------------------------------------
(* The refinement of AbandonableLock                                       *)

\* The variables of AbandonableLock, as the mapping gives them.
Holder == IF stranded THEN NoPid
          ELSE IF Holders = {} THEN NoThread ELSE CHOOSE t \in Holders : TRUE
Depth == IF stranded \/ Holders = {} THEN 0
         ELSE LET t == CHOOSE t \in Holders : TRUE
              IN IF pc[t] = "mark" THEN 1 ELSE held[t]

LEMMA HolderIs ==
  ASSUME ~stranded, NEW t \in Threads, Holders = {t}
  PROVE  Holder = t /\ Depth = IF pc[t] = "mark" THEN 1 ELSE held[t]
BY DEF Holder, Depth

LEMMA HolderIsThen ==
  ASSUME ~stranded', NEW t \in Threads, Holders' = {t}
  PROVE  Holder' = t /\ Depth' = IF pc'[t] = "mark" THEN 1 ELSE held'[t]
BY DEF Holder, Depth

LEMMA InitRefines == CleanUse /\ Init => Lock!Init
<1> SUFFICES ASSUME CleanUse, Init PROVE Lock!Init
  OBVIOUS
<1> USE PidAssumption, NullAssumption, CreatorAssumption DEF CleanUse, Init
<1>1. Holders = {Creator}
  BY DEF Holders
<1>2. Holder = Creator /\ Depth = 1
  BY <1>1, HolderIs
<1> QED BY <1>2 DEF Lock!Init, Holder, Depth

\* With one holder at most, the step of one thread leaves the others as they are.
LEMMA StepRefines ==
  ASSUME CleanUse, Inv, Inv', [Next]_vars
  PROVE  \/ \E t \in Threads :
              \/ Holder = NoThread /\ Holder' = t /\ Depth' = 1
              \/ Holder = t /\ Holder' = t /\ Depth' = Depth + 1
              \/ /\ Holder = t /\ Depth' = Depth - 1
                 /\ Holder' = IF Depth = 1 THEN NoThread ELSE t
              \/ Holder = t /\ Holder' = NoPid /\ Depth' = 0
         \/ Holder = NoPid /\ Holder' = NoThread /\ UNCHANGED Depth
         \/ UNCHANGED <<Holder, Depth>>
<1> DEFINE Refines ==
             \/ \E t \in Threads :
                  \/ Holder = NoThread /\ Holder' = t /\ Depth' = 1
                  \/ Holder = t /\ Holder' = t /\ Depth' = Depth + 1
                  \/ /\ Holder = t /\ Depth' = Depth - 1
                     /\ Holder' = IF Depth = 1 THEN NoThread ELSE t
                  \/ Holder = t /\ Holder' = NoPid /\ Depth' = 0
             \/ Holder = NoPid /\ Holder' = NoThread /\ UNCHANGED Depth
             \/ UNCHANGED <<Holder, Depth>>
<1>b. ASSUME NEW t \in Threads, Holder = NoThread, Holder' = t, Depth' = 1 PROVE Refines
  BY <1>b
<1>c. ASSUME NEW t \in Threads, Holder = t, Holder' = t, Depth' = Depth + 1 PROVE Refines
  BY <1>c
<1>d. ASSUME NEW t \in Threads, Holder = t, Depth' = Depth - 1,
             Holder' = IF Depth = 1 THEN NoThread ELSE t
      PROVE  Refines
  BY <1>d
<1>e. ASSUME NEW t \in Threads, Holder = t, Holder' = NoPid, Depth' = 0 PROVE Refines
  BY <1>e
<1>f. ASSUME Holder = NoPid, Holder' = NoThread, UNCHANGED Depth PROVE Refines
  BY <1>f
<1>g. ASSUME UNCHANGED <<Holder, Depth>> PROVE Refines
  BY <1>g
<1> HIDE DEF Refines
<1>h. Token /\ Handle /\ Mark /\ Repair /\ TypeOK
  BY DEF Inv
<1> USE <1>h, PidAssumption, NullAssumption, BoundAssumption
    DEF TypeOK, Token, Handle, Repair, Repairers, Holders, shared, handle
<1>1. ASSUME stranded' = stranded, Holders' = Holders,
             \A t \in Threads : HoldsToken(t) =>
               (IF pc'[t] = "mark" THEN 1 ELSE held'[t]) = IF pc[t] = "mark" THEN 1 ELSE held[t]
      PROVE  Refines
  <2>1. CASE stranded \/ Holders = {}
    <3> HIDE DEF Holders
    <3>1. UNCHANGED <<Holder, Depth>>
      BY <1>1, <2>1 DEF Holder, Depth
    <3> QED BY <3>1, <1>g
  <2>2. CASE ~stranded /\ Holders # {}
    <3>1. PICK t \in Threads : Holders = {t}
      BY <2>2
    <3>2. HoldsToken(t)
      BY <3>1
    <3> HIDE DEF Holders
    <3>3. Holder = t /\ Depth = IF pc[t] = "mark" THEN 1 ELSE held[t]
      BY <2>2, <3>1, HolderIs
    <3>4. Holder' = t /\ Depth' = IF pc'[t] = "mark" THEN 1 ELSE held'[t]
      BY <1>1, <2>2, <3>1, HolderIsThen
    <3>5. UNCHANGED <<Holder, Depth>>
      BY <1>1, <3>2, <3>3, <3>4
    <3> QED BY <3>5, <1>g
  <2> QED BY <2>1, <2>2
<1>2. ASSUME UNCHANGED vars PROVE Refines
  <2>1. UNCHANGED <<Holder, Depth>>
    BY <1>2 DEF vars, Holder, Depth
  <2> QED BY <2>1, <1>g
<1>3. ASSUME NEW t \in Threads, WaitAbandoned(t) \/ WaitBegin(t) \/ WaitTimeout(t) PROVE Refines
  BY <1>1, <1>3 DEF WaitAbandoned, WaitBegin, WaitTimeout
<1>4. ASSUME NEW t \in Threads, MarkOwner(t) PROVE Refines
  BY <1>1, <1>4 DEF MarkOwner
<1>5. ASSUME NEW t \in Threads, ReleaseAbandoned(t) \/ RepairUnmark(t) \/ ReleaseBegin(t)
                                \/ ReleaseRefused(t) \/ UnmarkOwner(t) PROVE Refines
  BY <1>1, <1>5 DEF ReleaseAbandoned, RepairUnmark, ReleaseBegin, ReleaseRefused, UnmarkOwner
<1>6. ASSUME NEW t \in Threads, Take(t) PROVE Refines
  <2>1. ~stranded /\ Holders = {} /\ ~stranded' /\ Holders' = {t} /\ pc'[t] = "mark"
    BY <1>6 DEF Take
  <2>2. Holder = NoThread
    BY <2>1 DEF Holder
  <2>3. Holder' = t /\ Depth' = 1
    BY <2>1, HolderIsThen
  <2> QED BY <2>2, <2>3, <1>b
<1>7. ASSUME NEW t \in Threads, LockAgain(t) \/ ReleaseInner(t) PROVE Refines
  <2>1. ~stranded /\ Holders = {t} /\ pc[t] # "mark"
    BY <1>7 DEF LockAgain, ReleaseInner
  <2>2. ~stranded' /\ Holders' = {t} /\ pc'[t] # "mark"
    BY <1>7, <2>1 DEF LockAgain, ReleaseInner
  <2>3. Holder = t /\ Depth = held[t] /\ Holder' = t /\ Depth' = held'[t]
    BY <2>1, <2>2, HolderIs, HolderIsThen
  <2>4. CASE LockAgain(t)
    <3>1. held'[t] = held[t] + 1
      BY <2>4 DEF LockAgain
    <3> QED BY <2>3, <3>1, <1>c
  <2>5. CASE ReleaseInner(t)
    <3>1. held'[t] = held[t] - 1 /\ held[t] # 1
      BY <2>5 DEF ReleaseInner
    <3> QED BY <2>3, <3>1, <1>d
  <2> QED BY <1>7, <2>4, <2>5
<1>8. ASSUME NEW t \in Threads, ReleasePost(t) PROVE Refines
  <2>1. ~stranded /\ Holders = {t} /\ pc[t] # "mark" /\ held[t] = 1
    BY <1>8 DEF ReleasePost
  <2>2. ~stranded' /\ Holders' = {}
    BY <1>8, <2>1 DEF ReleasePost
  <2>3. Holder = t /\ Depth = 1
    BY <2>1, HolderIs
  <2>4. Holder' = NoThread /\ Depth' = 0
    BY <2>2 DEF Holder, Depth
  <2> QED BY <2>3, <2>4, <1>d
<1>9. ASSUME NEW t \in Threads, RepairPost(t) PROVE Refines
  <2>1. stranded /\ ~stranded' /\ Holders' = {}
    BY <1>9 DEF RepairPost
  <2>2. Holder = NoPid /\ Depth = 0 /\ Holder' = NoThread /\ Depth' = 0
    BY <2>1 DEF Holder, Depth
  <2> QED BY <2>2, <1>f
<1>10. ASSUME NEW p \in Procs, Exit(p) PROVE Refines
  <2>1. CASE Holders \cap ThreadsOf(p) = {}
    <3>1. stranded' = stranded /\ Holders' = Holders
      BY <1>10, <2>1 DEF Exit, ThreadsOf
    <3>2. \A t \in Threads : HoldsToken(t) => pc'[t] = pc[t] /\ held'[t] = held[t]
      BY <1>10, <2>1 DEF Exit, ThreadsOf
    <3> QED BY <1>1, <3>1, <3>2
  <2>2. CASE Holders \cap ThreadsOf(p) # {}
    <3>1. PICK t \in Threads : Holders = {t}
      BY <2>2
    <3>2. ~stranded /\ stranded'
      BY <1>10, <2>2 DEF Exit
    <3>3. Holder = t
      BY <3>1, <3>2, HolderIs
    <3>4. Holder' = NoPid /\ Depth' = 0
      BY <3>2 DEF Holder, Depth
    <3> QED BY <3>3, <3>4, <1>e
  <2> QED BY <2>1, <2>2
<1>11. ASSUME NEW t \in Threads, Wait(t) PROVE Refines
  BY <1>3, <1>4, <1>6, <1>7, <1>11 DEF Wait
<1>12. ASSUME NEW t \in Threads, Release(t) PROVE Refines
  BY <1>5, <1>7, <1>8, <1>9, <1>12 DEF Release
<1>13. ASSUME Next PROVE Refines
  BY <1>10, <1>11, <1>12, <1>13 DEF Next
<1>14. Refines
  BY <1>2, <1>13
<1> QED BY <1>14 DEF Refines

\* WaitForMutex and ReleaseMutex together are a lock that is abandoned when the process
\* of its holder exits, and free again once a survivor gave it back.
THEOREM MutexImplementsLock == ASSUME CleanUse PROVE Spec => ImplementsLock
<1>1. CleanUse /\ Init => Lock!Init
  BY InitRefines
<1>2. Inv /\ Inv' /\ [Next]_vars => [Lock!Next]_(Lock!vars)
  <2> SUFFICES ASSUME Inv, Inv', [Next]_vars PROVE [Lock!Next]_(Lock!vars)
    OBVIOUS
  <2> QED BY StepRefines
          DEF Holder, Depth, Lock!Next, Lock!vars, Lock!Lock, Lock!LockAgain, Lock!Unlock,
              Lock!Abandon, Lock!GiveBack
<1> QED BY MutexInvariant, <1>1, <1>2, PTL DEF Spec, ImplementsLock, Lock!Spec

=============================================================================
