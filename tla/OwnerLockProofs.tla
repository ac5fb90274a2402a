--------------------------- MODULE OwnerLockProofs ---------------------------
(***************************************************************************)
(* Mutual exclusion of the table lock for any number of processes and      *)
(* threads, whichever of them die and wherever they die.                   *)
(***************************************************************************)
EXTENDS OwnerLock, TLAPS

\* The initial state satisfies the inductive invariant.
LEMMA InitInv == Init => Inv
BY ProcAssumption
   DEF Init, Inv, TypeOK, HolderRecorded, MutualExclusion, Labels, Holding

\* Each thread's step preserves the types.
LEMMA TypeStep == Inv /\ [Next]_vars => TypeOK'
<1> SUFFICES ASSUME Inv, [Next]_vars PROVE TypeOK'
  OBVIOUS
<1> USE ProcAssumption DEF Inv, TypeOK, Labels
<1>1. CASE UNCHANGED vars
  BY <1>1 DEF vars
<1>2. ASSUME NEW t \in Threads, Begin(t) \/ Step(t) PROVE TypeOK'
  <2>1. pc' \in [Threads -> Labels]
    BY <1>2 DEF Begin, Step, Enter, EnterBusy, HolderExists, HolderGone, Steal,
                StealLost, Cleanup, Leave, Goto
  <2>2. nLastPID' \in [Threads -> Procs \cup {NoPid}]
    BY <1>2 DEF Begin, Step, Enter, EnterBusy, HolderExists, HolderGone, Steal,
                StealLost, Cleanup, Leave, Forget
  <2>3. nEnterPID' \in Procs \cup {NoPid} /\ UNCHANGED <<running, listed>>
    BY <1>2 DEF Begin, Step, Enter, EnterBusy, HolderExists, HolderGone, Steal,
                StealLost, Cleanup, Leave
  <2> QED BY <2>1, <2>2, <2>3
<1>3. ASSUME NEW p \in Procs, Die(p) \/ Reap(p) PROVE TypeOK'
  BY <1>3 DEF Die, Reap
<1> QED BY <1>1, <1>2, <1>3 DEF Next

\* A thread holds the lock only through its compare-and-swap on the word, and
\* nobody overwrites the word of a live holder.
LEMMA HolderStep == Inv /\ [Next]_vars => HolderRecorded'
<1> SUFFICES ASSUME Inv, [Next]_vars PROVE HolderRecorded'
  OBVIOUS
<1> USE ProcAssumption DEF Inv, TypeOK, HolderRecorded, Holding
<1>1. CASE UNCHANGED vars
  BY <1>1 DEF vars
<1>2. ASSUME NEW t \in Threads, Begin(t) PROVE HolderRecorded'
  BY <1>2 DEF Begin, Goto
<1>3. ASSUME NEW t \in Threads, Enter(t) PROVE HolderRecorded'
  BY <1>3 DEF Enter, Goto
<1>4. ASSUME NEW t \in Threads, EnterBusy(t) PROVE HolderRecorded'
  BY <1>4 DEF EnterBusy, Goto
<1>5. ASSUME NEW t \in Threads, HolderExists(t) PROVE HolderRecorded'
  BY <1>5 DEF HolderExists, Goto, Forget
<1>6. ASSUME NEW t \in Threads, HolderGone(t) PROVE HolderRecorded'
  BY <1>6 DEF HolderGone, Goto, IsExistPid
<1>7. ASSUME NEW t \in Threads, Steal(t) PROVE HolderRecorded'
  <2>1. \A u \in Threads : pc[u] \notin Holding
    \* the word holds a process id that no longer exists, so no live holder
    BY <1>7 DEF Steal, Goto
  <2> QED BY <1>7, <2>1 DEF Steal, Goto
<1>8. ASSUME NEW t \in Threads, StealLost(t) PROVE HolderRecorded'
  BY <1>8 DEF StealLost, Goto, Forget
<1>9. ASSUME NEW t \in Threads, Cleanup(t) PROVE HolderRecorded'
  BY <1>9 DEF Cleanup, Goto, Forget
<1>10. ASSUME NEW t \in Threads, Leave(t) PROVE HolderRecorded'
  <2>1. \A u \in Threads : u # t => pc[u] \notin Holding
    BY <1>10 DEF Leave, Goto, MutualExclusion
  <2> QED BY <1>10, <2>1 DEF Leave, Goto
<1>11. ASSUME NEW p \in Procs, Die(p) PROVE HolderRecorded'
  BY <1>11 DEF Die
<1>12. ASSUME NEW p \in Procs, Reap(p) PROVE HolderRecorded'
  BY <1>12 DEF Reap
<1> QED BY <1>1, <1>2, <1>3, <1>4, <1>5, <1>6, <1>7, <1>8, <1>9, <1>10, <1>11,
           <1>12 DEF Next, Step

\* The two compare-and-swaps that acquire the lock succeed only when no live
\* thread holds it; every other step leaves the holders as they are or fewer.
LEMMA ExclusionStep == Inv /\ [Next]_vars => MutualExclusion'
<1> SUFFICES ASSUME Inv, [Next]_vars PROVE MutualExclusion'
  OBVIOUS
<1> USE ProcAssumption DEF Inv, TypeOK, HolderRecorded, MutualExclusion, Holding
<1>1. CASE UNCHANGED vars
  BY <1>1 DEF vars
<1>2. ASSUME NEW t \in Threads, Enter(t) PROVE MutualExclusion'
  <2>1. \A u \in Threads : pc[u] \notin Holding
    BY <1>2 DEF Enter, Goto
  <2> QED BY <1>2, <2>1 DEF Enter, Goto
<1>3. ASSUME NEW t \in Threads, Steal(t) PROVE MutualExclusion'
  <2>1. \A u \in Threads : pc[u] \notin Holding
    BY <1>3 DEF Steal, Goto
  <2> QED BY <1>3, <2>1 DEF Steal, Goto
<1>4. ASSUME NEW t \in Threads,
             \/ Begin(t) \/ EnterBusy(t) \/ HolderExists(t) \/ HolderGone(t)
             \/ StealLost(t) \/ Cleanup(t) \/ Leave(t)
      PROVE  MutualExclusion'
  <2>1. \A u \in Threads : pc'[u] \in Holding => pc[u] \in Holding
    BY <1>4 DEF Begin, EnterBusy, HolderExists, HolderGone, StealLost, Cleanup,
                Leave, Goto
  <2> QED BY <2>1
<1>5. ASSUME NEW p \in Procs, Die(p) \/ Reap(p) PROVE MutualExclusion'
  <2>1. \A u \in Threads : pc'[u] \in Holding => pc[u] \in Holding
    BY <1>5 DEF Die, Reap
  <2> QED BY <2>1
<1> QED BY <1>1, <1>2, <1>3, <1>4, <1>5 DEF Next, Step

\* Inv is an invariant of the lock.
THEOREM LockInvariant == Spec => []Inv
<1>1. Inv /\ [Next]_vars => Inv'
  BY TypeStep, HolderStep, ExclusionStep DEF Inv
<1> QED BY InitInv, <1>1, PTL DEF Spec

\* Types: the lock word and every nLastPID is a process id or 0, every thread is at a
\* label of Owner.
THEOREM LockTypes == Spec => []TypeOK
<1>1. Inv => TypeOK
  BY DEF Inv
<1> QED BY LockInvariant, <1>1, PTL

\* While a thread is in the table the lock word is the id of its process, and a waiter
\* that found the holder gone from /proc will only ever take the lock from the dead.
THEOREM LockHolderRecorded == Spec => []HolderRecorded
<1>1. Inv => HolderRecorded
  BY DEF Inv
<1> QED BY LockInvariant, <1>1, PTL

\* No two live threads are ever in the table at once, for any set of processes,
\* any assignment of threads to them and any pattern of deaths.
THEOREM LockMutualExclusion == Spec => []MutualExclusion
<1>1. Inv => MutualExclusion
  BY DEF Inv
<1> QED BY LockInvariant, <1>1, PTL

\* The lock word of a live process changes only to 0: Owner's second
\* compare-and-swap takes the lock from processes that are gone, nobody else.
THEOREM LockStolenFromDeadOnly == Spec => StolenFromDeadOnly
<1>1. Inv /\ [Next]_vars
      => [(nEnterPID \in running /\ nEnterPID' # nEnterPID) => nEnterPID' = NoPid]_vars
  <2> SUFFICES ASSUME Inv, Next, nEnterPID \in running, nEnterPID' # nEnterPID
               PROVE  nEnterPID' = NoPid
    OBVIOUS
  <2> USE ProcAssumption DEF Inv, TypeOK, HolderRecorded
  <2>1. ASSUME NEW t \in Threads, Begin(t) \/ Step(t) PROVE nEnterPID' = NoPid
    <3>1. CASE Steal(t)
      BY <3>1 DEF Steal, Goto
    <3>2. CASE ~Steal(t)
      BY <2>1, <3>2 DEF Step, Begin, Enter, EnterBusy, HolderExists, HolderGone,
                        StealLost, Cleanup, Leave
    <3> QED BY <3>1, <3>2
  <2>2. ASSUME NEW p \in Procs, Die(p) \/ Reap(p) PROVE nEnterPID' = NoPid
    BY <2>2 DEF Die, Reap
  <2> QED BY <2>1, <2>2 DEF Next
<1> QED BY LockInvariant, <1>1, PTL DEF Spec, StolenFromDeadOnly
=============================================================================
