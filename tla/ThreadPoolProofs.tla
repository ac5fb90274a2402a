--------------------------- MODULE ThreadPoolProofs ---------------------------
(***************************************************************************)
(* The thread pool with any number of instances, callers and jobs: no job  *)
(* is given to two instances or to none, and an instance that waits for a  *)
(* job is really on its way to wait.                                       *)
(***************************************************************************)
EXTENDS ThreadPool, SequenceTheorems, TLAPS

Listening == {"loop", "test", "wait", "blocked"}
Calling(c) == caller[c] # "idle"
Aimed(i) == \E c \in Callers : Calling(c) /\ target[c] = i
FuncAimed(i) == \E c \in Callers : caller[c] = "func" /\ target[c] = i

\* Holds after a wait that came back unasked as well: an instance is given to one
\* caller at a time, as long as it has no job.
FreeInv ==
  /\ \A c \in Callers : Calling(c) => target[c] \in Instances /\ job[c] \in Jobs
  /\ \A i \in Instances :
       i \in ToSet(ready) \/ FuncAimed(i) => func[i] = NoJob /\ worker[i] \notin {"running", "return"}
  /\ \A i \in Instances : worker[i] = "return" => func[i] = NoJob
  /\ \A c \in Callers : caller[c] = "func" => target[c] \notin ToSet(ready)
  /\ \A c, d \in Callers :
       caller[c] = "func" /\ caller[d] = "func" /\ target[c] = target[d] => c = d
  /\ m_bEscapeFlag <=> destroyer # "idle"
  /\ m_bEscapeFlag => \A c \in Callers : ~Calling(c)

\* A caller has an instance to itself from the moment it takes it out of the queue
\* until it sets its event, and the worker waits meanwhile.
CallerAlone ==
  \A c \in Callers :
    Calling(c) =>
      /\ target[c] \notin ToSet(ready)
      /\ worker[target[c]] \in Listening /\ ~bSignaled[target[c]]
      /\ state[job[c]] = "given"
      /\ func[target[c]] = IF caller[c] = "func" THEN NoJob ELSE job[c]
      /\ context[target[c]] = IF caller[c] = "set" THEN job[c] ELSE NoJob
      /\ \A d \in Callers : Calling(d) /\ target[d] = target[c] => d = c

\* Nobody else touches an instance: with a job, it is signalled or past the signal;
\* without one, it is free or on its way back to the queue.
InstanceAlone ==
  \A i \in Instances :
    ~Aimed(i) =>
      /\ context[i] = func[i]
      /\ func[i] = NoJob => worker[i] # "running"
      /\ func[i] # NoJob => worker[i] # "return"
      /\ func[i] # NoJob => state[func[i]] = IF worker[i] = "running" THEN "running" ELSE "given"
      /\ ~m_bEscapeFlag =>
           IF func[i] = NoJob
             THEN worker[i] \in Listening \cup {"return"} /\ ~bSignaled[i]
             ELSE IF worker[i] \in {"take", "running"}
                    THEN ~bSignaled[i]
                    ELSE worker[i] \in Listening \cup {"reset", "woken"} /\ bSignaled[i]

\* A job is in one instance, or with one caller, or nowhere.
JobAlone ==
  /\ \A i, k \in Instances : func[i] = func[k] /\ func[i] # NoJob => i = k
  /\ \A c \in Callers : caller[c] = "func" => \A i \in Instances : func[i] # job[c]
  /\ \A c, d \in Callers : Calling(c) /\ Calling(d) /\ job[c] = job[d] => c = d
  /\ \A j \in Jobs :
       /\ state[j] = "out" => /\ \A i \in Instances : func[i] # j
                              /\ \A c \in Callers : Calling(c) => job[c] # j
       /\ state[j] = "given" => \/ \E c \in Callers : caller[c] = "func" /\ job[c] = j
                                \/ \E i \in Instances : func[i] = j /\ worker[i] # "running"

AskedInv == ~unasked => CallerAlone /\ InstanceAlone /\ JobAlone

Inv == TypeOK /\ FreeInv /\ AskedInv

-----------------------------------------------------------------------------
(* The queue of free instances                                             *)

LEMMA FirstFree ==
  ASSUME NEW s \in Seq(Instances), s # <<>>, IsInjective(s)
  PROVE  /\ Head(s) \in Instances /\ Head(s) \in ToSet(s)
         /\ Tail(s) \in Seq(Instances) /\ IsInjective(Tail(s))
         /\ \A i : i \in ToSet(Tail(s)) => i \in ToSet(s) /\ i # Head(s)
         /\ \A i : i \in ToSet(s) => i = Head(s) \/ i \in ToSet(Tail(s))
<1>1. Len(s) \in Nat /\ Len(s) # 0 /\ DOMAIN s = 1 .. Len(s)
  BY EmptySeq, LenProperties
<1>2. Tail(s) \in Seq(Instances) /\ Len(Tail(s)) = Len(s) - 1 /\ DOMAIN Tail(s) = 1 .. Len(s) - 1
      /\ \A k \in 1 .. Len(s) - 1 : Tail(s)[k] = s[k + 1]
  BY <1>1, HeadTailProperties, LenProperties
<1>3. Head(s) = s[1] /\ s[1] \in Instances
  BY <1>1
<1>4. \A a, b \in 1 .. Len(s) : s[a] = s[b] => a = b
  BY <1>1 DEF IsInjective
<1>5. IsInjective(Tail(s))
  BY <1>1, <1>2, <1>4 DEF IsInjective
<1>6. \A i : i \in ToSet(Tail(s)) => i \in ToSet(s) /\ i # Head(s)
  BY <1>1, <1>2, <1>3, <1>4 DEF ToSet
<1>7. \A i : i \in ToSet(s) => i = Head(s) \/ i \in ToSet(Tail(s))
  <2> SUFFICES ASSUME NEW k \in 1 .. Len(s), k # 1 PROVE s[k] \in ToSet(Tail(s))
    BY <1>1, <1>3 DEF ToSet
  <2>1. k - 1 \in 1 .. Len(s) - 1 /\ Tail(s)[k - 1] = s[k]
    BY <1>1, <1>2
  <2> QED BY <1>2, <2>1 DEF ToSet
<1> QED BY <1>1, <1>2, <1>3, <1>5, <1>6, <1>7 DEF ToSet

LEMMA AddFree ==
  ASSUME NEW s \in Seq(Instances), IsInjective(s), NEW i \in Instances, i \notin ToSet(s)
  PROVE  /\ Append(s, i) \in Seq(Instances) /\ IsInjective(Append(s, i))
         /\ \A k : k \in ToSet(Append(s, i)) <=> k = i \/ k \in ToSet(s)
<1>1. Len(s) \in Nat /\ DOMAIN s = 1 .. Len(s)
  BY LenProperties
<1>2. /\ Append(s, i) \in Seq(Instances) /\ DOMAIN Append(s, i) = 1 .. Len(s) + 1
      /\ \A k \in 1 .. Len(s) : Append(s, i)[k] = s[k]
      /\ Append(s, i)[Len(s) + 1] = i
  BY <1>1, AppendProperties, LenProperties
<1>3. \A k \in 1 .. Len(s) : s[k] # i
  BY <1>1 DEF ToSet
<1>4. IsInjective(Append(s, i))
  BY <1>1, <1>2, <1>3 DEF IsInjective
<1>5. \A k : k \in ToSet(Append(s, i)) <=> k = i \/ k \in ToSet(s)
  BY <1>1, <1>2 DEF ToSet
<1> QED BY <1>2, <1>4, <1>5

-----------------------------------------------------------------------------
(* The initial state                                                       *)

LEMMA InitInv == Init => Inv
<1> SUFFICES ASSUME Init PROVE Inv
  OBVIOUS
<1> USE PoolAssumption DEF Instances
<1>1. ready \in Seq(Instances) /\ IsInjective(ready) /\ ToSet(ready) = Instances
  BY DEF Init, IsInjective, ToSet
<1>2. TypeOK
  <2>1. joining \in Instances
    BY DEF Init
  <2>2. /\ worker \in [Instances -> {"loop", "test", "reset", "wait", "blocked", "woken",
                                     "take", "running", "return", "ended"}]
        /\ state \in [Jobs -> {"out", "given", "running"}]
        /\ caller \in [Callers -> {"idle", "func", "context", "set"}]
    BY DEF Init
  <2>3. /\ func \in [Instances -> Jobs \cup {NoJob}]
        /\ context \in [Instances -> Jobs \cup {NoJob}]
        /\ bSignaled \in [Instances -> BOOLEAN]
    BY DEF Init
  <2>4. /\ job \in [Callers -> Jobs \cup {NoJob}]
        /\ target \in [Callers -> Instances \cup {0}]
        /\ destroyer \in {"idle", "set", "join", "done"} /\ m_bEscapeFlag \in BOOLEAN
    BY DEF Init
  <2> QED BY <1>1, <2>1, <2>2, <2>3, <2>4 DEF TypeOK
<1>3. FreeInv
  BY <1>1 DEF Init, FreeInv, FuncAimed, Calling
<1>4. CallerAlone /\ JobAlone
  BY DEF Init, CallerAlone, JobAlone, Calling
<1>5. InstanceAlone
  BY DEF Init, InstanceAlone, Aimed, Calling, Listening
<1> QED BY <1>2, <1>3, <1>4, <1>5 DEF Inv, AskedInv

-----------------------------------------------------------------------------
(* Types and the free instances                                            *)

LEMMA TypeStep == TypeOK /\ FreeInv /\ [Next]_vars => TypeOK'
<1> SUFFICES ASSUME TypeOK, FreeInv, [Next]_vars PROVE TypeOK'
  OBVIOUS
<1> USE PoolAssumption DEF TypeOK, GotoWorker, GotoCaller, SetEvent, instance, calls, closing
<1>1. CASE UNCHANGED vars
  BY <1>1 DEF vars
<1>2. ASSUME NEW c \in Callers, NEW j \in Jobs, CreateThread(c, j) PROVE TypeOK'
  BY <1>2, FirstFree DEF CreateThread
<1>3. ASSUME NEW c \in Callers, GiveFunc(c) PROVE TypeOK'
  BY <1>3 DEF GiveFunc
<1>4. ASSUME NEW c \in Callers, GiveContext(c) PROVE TypeOK'
  BY <1>4 DEF GiveContext
<1>5. ASSUME NEW c \in Callers, GiveSignal(c) PROVE TypeOK'
  BY <1>5 DEF GiveSignal
<1>6. ASSUME NEW i \in Instances, Continue(i) \/ TestSignal(i) \/ CondWait(i) PROVE TypeOK'
  BY <1>6 DEF Continue, TestSignal, CondWait
<1>7. ASSUME NEW i \in Instances, ResetSignal(i) \/ WakeUnasked(i) \/ Escape(i) PROVE TypeOK'
  BY <1>7 DEF ResetSignal, WakeUnasked, Escape
<1>8. ASSUME NEW i \in Instances, Start(i) \/ Finish(i) PROVE TypeOK'
  BY <1>8 DEF Start, Finish
<1>9. ASSUME NEW i \in Instances, ReturnThread(i) PROVE TypeOK'
  <2>1. i \notin ToSet(ready)
    BY <1>9 DEF ReturnThread, FreeInv
  <2> QED BY <1>9, <2>1, AddFree DEF ReturnThread
<1>10. CASE Destroy \/ DestroySignal
  BY <1>10 DEF Destroy, DestroySignal
<1>11. CASE DestroyJoin
  BY <1>11 DEF DestroyJoin, Instances
<1> QED BY <1>1, <1>2, <1>3, <1>4, <1>5, <1>6, <1>7, <1>8, <1>9, <1>10, <1>11
        DEF Next, Call, Work

LEMMA FreeStep == TypeOK /\ FreeInv /\ [Next]_vars => FreeInv'
<1> SUFFICES ASSUME TypeOK, FreeInv, [Next]_vars PROVE FreeInv'
  OBVIOUS
<1> USE PoolAssumption DEF TypeOK, FreeInv, FuncAimed, Calling, GotoWorker, GotoCaller,
                           instance, calls, closing
<1>1. CASE UNCHANGED vars
  BY <1>1 DEF vars
<1>2. ASSUME NEW c \in Callers, NEW j \in Jobs, CreateThread(c, j) PROVE FreeInv'
  <2>1. /\ Head(ready) \in Instances /\ Head(ready) \in ToSet(ready)
        /\ \A i : i \in ToSet(Tail(ready)) => i \in ToSet(ready) /\ i # Head(ready)
    BY <1>2, FirstFree DEF CreateThread
  <2> QED BY <1>2, <2>1 DEF CreateThread
<1>3. ASSUME NEW c \in Callers, GiveFunc(c) PROVE FreeInv'
  BY <1>3 DEF GiveFunc
<1>4. ASSUME NEW c \in Callers, GiveContext(c) PROVE FreeInv'
  BY <1>4 DEF GiveContext
<1>5. ASSUME NEW c \in Callers, GiveSignal(c) PROVE FreeInv'
  BY <1>5 DEF GiveSignal, SetEvent
<1>6. ASSUME NEW i \in Instances, Continue(i) \/ TestSignal(i) \/ CondWait(i) PROVE FreeInv'
  BY <1>6 DEF Continue, TestSignal, CondWait
<1>7. ASSUME NEW i \in Instances, ResetSignal(i) \/ WakeUnasked(i) \/ Escape(i) PROVE FreeInv'
  BY <1>7 DEF ResetSignal, WakeUnasked, Escape
<1>8. ASSUME NEW i \in Instances, Start(i) PROVE FreeInv'
  BY <1>8 DEF Start
<1>9. ASSUME NEW i \in Instances, Finish(i) PROVE FreeInv'
  BY <1>9 DEF Finish
<1>10. ASSUME NEW i \in Instances, ReturnThread(i) PROVE FreeInv'
  <2>1. \A k : k \in ToSet(Append(ready, i)) <=> k = i \/ k \in ToSet(ready)
    BY <1>10, AddFree DEF ReturnThread
  <2> QED BY <1>10, <2>1 DEF ReturnThread
<1>11. CASE Destroy \/ DestroyJoin
  BY <1>11 DEF Destroy, DestroyJoin
<1>12. CASE DestroySignal
  BY <1>12 DEF DestroySignal, SetEvent
<1> QED BY <1>1, <1>2, <1>3, <1>4, <1>5, <1>6, <1>7, <1>8, <1>9, <1>10, <1>11, <1>12
        DEF Next, Call, Work

-----------------------------------------------------------------------------
(* As long as no wait came back unasked                                    *)

\* No step takes an instance away from the caller that prepares it.
LEMMA CallerStep == Inv /\ ~unasked' /\ [Next]_vars => CallerAlone'
<1> SUFFICES ASSUME Inv, ~unasked', [Next]_vars PROVE CallerAlone'
  OBVIOUS
<1>1. ~unasked /\ \A i \in Instances : ~WakeUnasked(i)
  BY DEF Next, Call, Work, vars, CreateThread, GiveFunc, GiveContext, GiveSignal, Continue,
         TestSignal, ResetSignal, CondWait, WakeUnasked, Escape, Start, Finish, ReturnThread,
         Destroy, DestroySignal, DestroyJoin
<1>2. CallerAlone /\ InstanceAlone /\ JobAlone /\ TypeOK /\ FreeInv
  BY <1>1 DEF Inv, AskedInv
<1> USE <1>2, PoolAssumption
    DEF TypeOK, FreeInv, CallerAlone, InstanceAlone, JobAlone, FuncAimed, Aimed, Calling,
        Listening, GotoWorker, GotoCaller, instance, calls, closing
<1>3. CASE UNCHANGED vars
  BY <1>3 DEF vars
<1>4. ASSUME NEW c \in Callers, NEW j \in Jobs, CreateThread(c, j) PROVE CallerAlone'
  <2>1. /\ Head(ready) \in Instances /\ Head(ready) \in ToSet(ready)
        /\ \A i : i \in ToSet(Tail(ready)) => i \in ToSet(ready) /\ i # Head(ready)
    BY <1>4, FirstFree DEF CreateThread
  <2> QED BY <1>4, <2>1 DEF CreateThread
<1>5. ASSUME NEW c \in Callers, GiveFunc(c) PROVE CallerAlone'
  BY <1>5 DEF GiveFunc
<1>6. ASSUME NEW c \in Callers, GiveContext(c) PROVE CallerAlone'
  BY <1>6 DEF GiveContext
<1>7. ASSUME NEW c \in Callers, GiveSignal(c) PROVE CallerAlone'
  BY <1>7 DEF GiveSignal, SetEvent
<1>8. ASSUME NEW i \in Instances, Continue(i) PROVE CallerAlone'
  BY <1>8 DEF Continue
<1>9. ASSUME NEW i \in Instances, TestSignal(i) PROVE CallerAlone'
  BY <1>9 DEF TestSignal
<1>10. ASSUME NEW i \in Instances, ResetSignal(i) PROVE CallerAlone'
  BY <1>10 DEF ResetSignal
<1>11. ASSUME NEW i \in Instances, CondWait(i) PROVE CallerAlone'
  BY <1>11 DEF CondWait
<1>12. ASSUME NEW i \in Instances, Escape(i) PROVE CallerAlone'
  BY <1>12 DEF Escape
<1>13. ASSUME NEW i \in Instances, Start(i) PROVE CallerAlone'
  BY <1>13 DEF Start
<1>14. ASSUME NEW i \in Instances, Finish(i) PROVE CallerAlone'
  BY <1>14 DEF Finish
<1>15. ASSUME NEW i \in Instances, ReturnThread(i) PROVE CallerAlone'
  <2>1. \A k : k \in ToSet(Append(ready, i)) <=> k = i \/ k \in ToSet(ready)
    BY <1>15, AddFree DEF ReturnThread
  <2> QED BY <1>15, <2>1 DEF ReturnThread
<1>16. CASE Destroy
  BY <1>16 DEF Destroy
<1>17. CASE DestroySignal
  BY <1>17 DEF DestroySignal, SetEvent
<1>18. CASE DestroyJoin
  BY <1>18 DEF DestroyJoin
<1> QED BY <1>1, <1>3, <1>4, <1>5, <1>6, <1>7, <1>8, <1>9, <1>10, <1>11, <1>12, <1>13,
           <1>14, <1>15, <1>16, <1>17, <1>18
        DEF Next, Call, Work

\* An instance nobody prepares has a signal exactly when it has a job to take.
LEMMA InstanceStep == Inv /\ ~unasked' /\ [Next]_vars => InstanceAlone'
<1> SUFFICES ASSUME Inv, ~unasked', [Next]_vars PROVE InstanceAlone'
  OBVIOUS
<1>1. ~unasked /\ \A i \in Instances : ~WakeUnasked(i)
  BY DEF Next, Call, Work, vars, CreateThread, GiveFunc, GiveContext, GiveSignal, Continue,
         TestSignal, ResetSignal, CondWait, WakeUnasked, Escape, Start, Finish, ReturnThread,
         Destroy, DestroySignal, DestroyJoin
<1>2. CallerAlone /\ InstanceAlone /\ JobAlone /\ TypeOK /\ FreeInv
  BY <1>1 DEF Inv, AskedInv
<1> USE <1>2, PoolAssumption
    DEF TypeOK, FreeInv, CallerAlone, InstanceAlone, JobAlone, FuncAimed, Aimed, Calling,
        Listening, GotoWorker, GotoCaller, instance, calls, closing
<1>3. CASE UNCHANGED vars
  BY <1>3 DEF vars
<1>4. ASSUME NEW c \in Callers, NEW j \in Jobs, CreateThread(c, j) PROVE InstanceAlone'
  <2>1. /\ Head(ready) \in Instances /\ Head(ready) \in ToSet(ready)
        /\ \A i : i \in ToSet(Tail(ready)) => i \in ToSet(ready) /\ i # Head(ready)
    BY <1>4, FirstFree DEF CreateThread
  <2> QED BY <1>4, <2>1 DEF CreateThread
<1>5. ASSUME NEW c \in Callers, GiveFunc(c) PROVE InstanceAlone'
  BY <1>5 DEF GiveFunc
<1>6. ASSUME NEW c \in Callers, GiveContext(c) PROVE InstanceAlone'
  BY <1>6 DEF GiveContext
<1>7. ASSUME NEW c \in Callers, GiveSignal(c) PROVE InstanceAlone'
  BY <1>7 DEF GiveSignal, SetEvent
<1>8. ASSUME NEW i \in Instances, Continue(i) PROVE InstanceAlone'
  BY <1>8 DEF Continue
<1>9. ASSUME NEW i \in Instances, TestSignal(i) PROVE InstanceAlone'
  BY <1>9 DEF TestSignal
<1>10. ASSUME NEW i \in Instances, ResetSignal(i) PROVE InstanceAlone'
  BY <1>10 DEF ResetSignal
<1>11. ASSUME NEW i \in Instances, CondWait(i) PROVE InstanceAlone'
  BY <1>11 DEF CondWait
<1>12. ASSUME NEW i \in Instances, Escape(i) PROVE InstanceAlone'
  BY <1>12 DEF Escape
<1>13. ASSUME NEW i \in Instances, Start(i) PROVE InstanceAlone'
  BY <1>13 DEF Start
<1>14. ASSUME NEW i \in Instances, Finish(i) PROVE InstanceAlone'
  BY <1>14 DEF Finish
<1>15. ASSUME NEW i \in Instances, ReturnThread(i) PROVE InstanceAlone'
  <2>1. \A k : k \in ToSet(Append(ready, i)) <=> k = i \/ k \in ToSet(ready)
    BY <1>15, AddFree DEF ReturnThread
  <2> QED BY <1>15, <2>1 DEF ReturnThread
<1>16. CASE Destroy
  BY <1>16 DEF Destroy
<1>17. CASE DestroySignal
  BY <1>17 DEF DestroySignal, SetEvent
<1>18. CASE DestroyJoin
  BY <1>18 DEF DestroyJoin
<1> QED BY <1>1, <1>3, <1>4, <1>5, <1>6, <1>7, <1>8, <1>9, <1>10, <1>11, <1>12, <1>13,
           <1>14, <1>15, <1>16, <1>17, <1>18
        DEF Next, Call, Work

\* No step puts a job into two instances or loses it.
LEMMA JobStep == Inv /\ ~unasked' /\ [Next]_vars => JobAlone'
<1> SUFFICES ASSUME Inv, ~unasked', [Next]_vars PROVE JobAlone'
  OBVIOUS
<1>1. ~unasked /\ \A i \in Instances : ~WakeUnasked(i)
  BY DEF Next, Call, Work, vars, CreateThread, GiveFunc, GiveContext, GiveSignal, Continue,
         TestSignal, ResetSignal, CondWait, WakeUnasked, Escape, Start, Finish, ReturnThread,
         Destroy, DestroySignal, DestroyJoin
<1>2. CallerAlone /\ InstanceAlone /\ JobAlone /\ TypeOK /\ FreeInv
  BY <1>1 DEF Inv, AskedInv
<1> USE <1>2, PoolAssumption
    DEF TypeOK, FreeInv, CallerAlone, InstanceAlone, JobAlone, FuncAimed, Aimed, Calling,
        Listening, GotoWorker, GotoCaller, instance, calls, closing
<1>3. CASE UNCHANGED vars
  BY <1>3 DEF vars
<1>4. ASSUME NEW c \in Callers, NEW j \in Jobs, CreateThread(c, j) PROVE JobAlone'
  <2>1. /\ Head(ready) \in Instances /\ Head(ready) \in ToSet(ready)
        /\ \A i : i \in ToSet(Tail(ready)) => i \in ToSet(ready) /\ i # Head(ready)
    BY <1>4, FirstFree DEF CreateThread
  <2> QED BY <1>4, <2>1 DEF CreateThread
<1>5. ASSUME NEW c \in Callers, GiveFunc(c) PROVE JobAlone'
  BY <1>5 DEF GiveFunc
<1>6. ASSUME NEW c \in Callers, GiveContext(c) PROVE JobAlone'
  BY <1>6 DEF GiveContext
<1>7. ASSUME NEW c \in Callers, GiveSignal(c) PROVE JobAlone'
  BY <1>7 DEF GiveSignal, SetEvent
<1>8. ASSUME NEW i \in Instances,
              \/ Continue(i) \/ TestSignal(i) \/ ResetSignal(i)
              \/ CondWait(i) \/ Escape(i) \/ ReturnThread(i)
      PROVE  JobAlone'
  <2>1. UNCHANGED <<func, job, caller, state>>
    BY <1>8 DEF Continue, TestSignal, ResetSignal, CondWait, Escape, ReturnThread
  <2>2. \A k \in Instances : worker'[k] = "running" => worker[k] = "running"
    BY <1>8 DEF Continue, TestSignal, ResetSignal, CondWait, Escape, ReturnThread
  <2> QED BY <2>1, <2>2
<1>9. ASSUME NEW i \in Instances, Start(i) PROVE JobAlone'
  BY <1>9 DEF Start
<1>10. ASSUME NEW i \in Instances, Finish(i) PROVE JobAlone'
  BY <1>10 DEF Finish
<1>11. CASE Destroy
  BY <1>11 DEF Destroy
<1>12. CASE DestroySignal
  BY <1>12 DEF DestroySignal, SetEvent
<1>13. CASE DestroyJoin
  BY <1>13 DEF DestroyJoin
<1> QED BY <1>1, <1>3, <1>4, <1>5, <1>6, <1>7, <1>8, <1>9, <1>10, <1>11, <1>12, <1>13
        DEF Next, Call, Work

LEMMA PoolInvariant == Spec => []Inv
<1>1. Inv /\ [Next]_vars => Inv'
  <2> SUFFICES ASSUME Inv, [Next]_vars PROVE TypeOK' /\ FreeInv' /\ AskedInv'
    BY DEF Inv
  <2>1. TypeOK' /\ FreeInv'
    BY TypeStep, FreeStep DEF Inv
  <2>2. AskedInv'
    BY CallerStep, InstanceStep, JobStep DEF AskedInv
  <2> QED BY <2>1, <2>2
<1> QED BY InitInv, <1>1, PTL DEF Spec

-----------------------------------------------------------------------------
(* The properties of the runs                                              *)

\* Every variable keeps its type, and m_queReady (ThreadPool.cpp:46-57, 96-99) never
\* holds an instance twice, even after a wait that came back unasked.
THEOREM PoolTypes == Spec => []TypeOK
<1>1. Inv => TypeOK
  BY DEF Inv
<1> QED BY PoolInvariant, <1>1, PTL

\* A free instance has neither job nor signal, and its worker is on its way to wait.
THEOREM PoolFreeInstancesListen == Spec => []FreeInstancesListen
<1>1. Inv => FreeInstancesListen
  <2> SUFFICES ASSUME Inv, Undisturbed, NEW i \in Instances, i \in ToSet(ready)
               PROVE  /\ worker[i] \in Listening /\ ~bSignaled[i]
                      /\ func[i] = NoJob /\ context[i] = NoJob
    <3>1. Inv => \A k : k \in ToSet(ready) => k \in Instances
      <4>1. Inv => ready \in Seq(Instances)
        BY DEF Inv, TypeOK
      <4> QED BY <4>1 DEF ToSet
    <3> QED BY <3>1 DEF FreeInstancesListen, Listening
  <2>1. CallerAlone /\ InstanceAlone /\ FreeInv /\ TypeOK
    BY DEF Inv, AskedInv, Undisturbed
  <2>2. ~Aimed(i)
    BY <2>1 DEF CallerAlone, Aimed
  <2> QED BY <2>1, <2>2 DEF InstanceAlone, FreeInv, Undisturbed
<1> QED BY PoolInvariant, <1>1, PTL

\* A job that CreateThread took is with its caller or in an instance whose worker will
\* take it.
THEOREM PoolGivenJobsAreHeld == Spec => []GivenJobsAreHeld
<1>1. Inv => GivenJobsAreHeld
  <2> SUFFICES ASSUME Inv, Undisturbed, NEW j \in Jobs, state[j] = "given",
                      NEW i \in Instances, func[i] = j, worker[i] # "running"
               PROVE  worker[i] \notin {"running", "return", "ended"}
    BY DEF GivenJobsAreHeld, Inv, AskedInv, JobAlone, Undisturbed
  <2>1. CallerAlone /\ InstanceAlone /\ FreeInv /\ TypeOK
    BY DEF Inv, AskedInv, Undisturbed
  <2>2. CASE Aimed(i)
    BY <2>1, <2>2 DEF CallerAlone, Aimed, Listening
  <2>3. CASE ~Aimed(i)
    BY <2>1, <2>3, PoolAssumption DEF InstanceAlone, Listening, Undisturbed
  <2> QED BY <2>2, <2>3
<1> QED BY PoolInvariant, <1>1, PTL

\* A worker calls pfThreadFunc (ThreadPool.cpp:40) once for each CreateThread, and with
\* the context of the same call.
THEOREM PoolStartsWhatWasGiven == Spec => StartsWhatWasGiven
<1>1. Inv => \A i \in Instances : Start(i) /\ ~unasked =>
                                   state[func[i]] = "given" /\ context[i] = func[i]
  <2> SUFFICES ASSUME Inv, NEW i \in Instances, Start(i), ~unasked
               PROVE  state[func[i]] = "given" /\ context[i] = func[i]
    OBVIOUS
  <2>1. CallerAlone /\ InstanceAlone /\ FreeInv /\ TypeOK
    BY DEF Inv, AskedInv
  <2>2. worker[i] = "take" /\ func[i] # NoJob
    BY DEF Start, GotoWorker
  <2>3. ~Aimed(i)
    BY <2>1, <2>2 DEF CallerAlone, Aimed, Listening
  <2> QED BY <2>1, <2>2, <2>3 DEF InstanceAlone
<1>2. Inv => [\A i \in Instances : Start(i) /\ ~unasked =>
                                    state[func[i]] = "given" /\ context[i] = func[i]]_vars
  BY <1>1
<1> QED BY PoolInvariant, <1>2, PTL DEF StartsWhatWasGiven

=============================================================================
