----------------------------- MODULE ThreadPool -----------------------------
(***************************************************************************)
(* CThreadPool (Src/200_Common/ThreadPool.cpp) on the event objects of     *)
(* Src/100_System/KernelObject_Linux_Mac.cpp: each instance has a worker   *)
(* thread that waits for its auto-reset event, and a queue holds the       *)
(* instances that are free.  CreateThread gives a job to the first of      *)
(* them; Destroy wakes and joins the workers one after the other.          *)
(*                                                                         *)
(* WaitForEvent looks at bSignaled before it locks the mutex of the event  *)
(* and does not look again before it waits: one action for each.           *)
(***************************************************************************)
EXTENDS Naturals, Sequences, SequencesExt

CONSTANTS PoolCount,  (* tPoolCount                                          *)
          Jobs,       (* pfEntry together with its pContext                  *)
          NoJob,      (* NULL                                                *)
          Callers     (* threads that call CreateThread                      *)

ASSUME PoolAssumption == PoolCount \in Nat \ {0} /\ NoJob \notin Jobs

Instances == 1 .. PoolCount

VARIABLES ready,            (* m_queReady                                    *)
          func, context,    (* pfThreadFunc, pContext of each instance       *)
          bSignaled,        (* of the event of each instance                 *)
          m_bEscapeFlag,
          worker,           (* where each worker thread is                   *)
          caller, job, target,  (* where each caller is, its job, its pThreadData *)
          destroyer,        (* where Destroy is                              *)
          joining,          (* its loop counter                              *)
          state,            (* of each job: "out", "given" or "running"      *)
          unasked           (* a wait came back though nobody set its event  *)

instance == <<func, context, bSignaled>>
calls == <<caller, job, target>>
closing == <<m_bEscapeFlag, destroyer, joining>>
vars == <<ready, func, context, bSignaled, m_bEscapeFlag, worker,
          caller, job, target, destroyer, joining, state, unasked>>

\* The pool after Init: a worker for each instance, all of them free.
Init == /\ ready = [i \in Instances |-> i]
        /\ func = [i \in Instances |-> NoJob]
        /\ context = [i \in Instances |-> NoJob]
        /\ bSignaled = [i \in Instances |-> FALSE]
        /\ m_bEscapeFlag = FALSE
        /\ worker = [i \in Instances |-> "loop"]
        /\ caller = [c \in Callers |-> "idle"]
        /\ job = [c \in Callers |-> NoJob]
        /\ target = [c \in Callers |-> 0]
        /\ destroyer = "idle"
        /\ joining = 1
        /\ state = [j \in Jobs |-> "out"]
        /\ unasked = FALSE

GotoWorker(i, from, to) == worker[i] = from /\ worker' = [worker EXCEPT ![i] = to]
GotoCaller(c, from, to) == caller[c] = from /\ caller' = [caller EXCEPT ![c] = to]

\* (Variants named Bug... are what a slip in the definition after them would be.)
\* A signal that only a thread already waiting gets.
BugSetEvent(i) ==
  /\ UNCHANGED bSignaled
  /\ worker' = IF worker[i] = "blocked" THEN [worker EXCEPT ![i] = "woken"] ELSE worker

\* SetEvent(hEvent): all of it under the mutex of the event.
SetEvent(i) ==
  /\ bSignaled' = [bSignaled EXCEPT ![i] = TRUE]
  /\ worker' = IF worker[i] = "blocked" THEN [worker EXCEPT ![i] = "woken"] ELSE worker

-----------------------------------------------------------------------------
(* CThreadPool::CreateThread                                                *)

\* The instance stays in the queue.
BugCreateThread(c, j) ==
  /\ ready # <<>>
  /\ state[j] = "out" /\ destroyer = "idle"
  /\ GotoCaller(c, "idle", "func")
  /\ target' = [target EXCEPT ![c] = Head(ready)]
  /\ job' = [job EXCEPT ![c] = j]
  /\ state' = [state EXCEPT ![j] = "given"]
  /\ UNCHANGED <<ready, instance, worker, closing, unasked>>

CreateThread(c, j) ==
  /\ ready # <<>>
  /\ state[j] = "out" /\ destroyer = "idle"
  /\ GotoCaller(c, "idle", "func")
  /\ target' = [target EXCEPT ![c] = Head(ready)]
  /\ ready' = Tail(ready)
  /\ job' = [job EXCEPT ![c] = j]
  /\ state' = [state EXCEPT ![j] = "given"]
  /\ UNCHANGED <<instance, worker, closing, unasked>>

GiveFunc(c) ==
  /\ GotoCaller(c, "func", "context")
  /\ func' = [func EXCEPT ![target[c]] = job[c]]
  /\ UNCHANGED <<ready, context, bSignaled, worker, job, target, closing, state, unasked>>

\* The context is forgotten.
BugGiveContext(c) ==
  /\ GotoCaller(c, "context", "set")
  /\ UNCHANGED <<ready, instance, worker, job, target, closing, state, unasked>>

GiveContext(c) ==
  /\ GotoCaller(c, "context", "set")
  /\ context' = [context EXCEPT ![target[c]] = job[c]]
  /\ UNCHANGED <<ready, func, bSignaled, worker, job, target, closing, state, unasked>>

GiveSignal(c) ==
  /\ GotoCaller(c, "set", "idle")
  /\ SetEvent(target[c])
  /\ job' = [job EXCEPT ![c] = NoJob]
  /\ target' = [target EXCEPT ![c] = 0]
  /\ UNCHANGED <<ready, func, context, closing, state, unasked>>

-----------------------------------------------------------------------------
(* ThreadPoolWorker and, inside it, WaitForEvent                            *)

Continue(i) ==
  /\ GotoWorker(i, "loop", IF m_bEscapeFlag THEN "ended" ELSE "test")
  /\ UNCHANGED <<ready, instance, calls, closing, state, unasked>>

TestSignal(i) ==
  /\ GotoWorker(i, "test", IF bSignaled[i] THEN "reset" ELSE "wait")
  /\ UNCHANGED <<ready, instance, calls, closing, state, unasked>>

\* bAutoReset is true; a thread that waited does the same once it is woken.
ResetSignal(i) ==
  /\ GotoWorker(i, "reset", "take") \/ GotoWorker(i, "woken", "take")
  /\ bSignaled' = [bSignaled EXCEPT ![i] = FALSE]
  /\ UNCHANGED <<ready, func, context, calls, closing, state, unasked>>

CondWait(i) ==
  /\ GotoWorker(i, "wait", "blocked")
  /\ UNCHANGED <<ready, instance, calls, closing, state, unasked>>

\* pthread_cond_timedwait may wake up unasked (bound: once).
WakeUnasked(i) ==
  /\ ~unasked
  /\ unasked' = TRUE
  /\ GotoWorker(i, "blocked", "woken")
  /\ UNCHANGED <<ready, instance, calls, closing, state>>

Escape(i) ==
  /\ func[i] = NoJob
  /\ GotoWorker(i, "take", "ended")
  /\ UNCHANGED <<ready, instance, calls, closing, state, unasked>>

Start(i) ==
  /\ func[i] # NoJob
  /\ GotoWorker(i, "take", "running")
  /\ state' = [state EXCEPT ![func[i]] = "running"]
  /\ UNCHANGED <<ready, instance, calls, closing, unasked>>

\* The job stays in the instance.
BugFinish(i) ==
  /\ GotoWorker(i, "running", "return")
  /\ state' = [state EXCEPT ![func[i]] = "out"]
  /\ UNCHANGED <<ready, instance, calls, closing, unasked>>

Finish(i) ==
  /\ GotoWorker(i, "running", "return")
  /\ state' = [state EXCEPT ![func[i]] = "out"]
  /\ func' = [func EXCEPT ![i] = NoJob]
  /\ context' = [context EXCEPT ![i] = NoJob]
  /\ UNCHANGED <<ready, bSignaled, calls, closing, unasked>>

ReturnThread(i) ==
  /\ GotoWorker(i, "return", "loop")
  /\ ready' = Append(ready, i)
  /\ UNCHANGED <<instance, calls, closing, state, unasked>>

-----------------------------------------------------------------------------
(* CThreadPool::Destroy, called once the callers are through                *)

Destroy ==
  /\ destroyer = "idle"
  /\ \A c \in Callers : caller[c] = "idle"
  /\ destroyer' = "set"
  /\ m_bEscapeFlag' = TRUE
  /\ UNCHANGED <<ready, instance, worker, calls, joining, state, unasked>>

\* The worker is left waiting.
BugDestroySignal ==
  /\ destroyer = "set"
  /\ destroyer' = "join"
  /\ UNCHANGED <<ready, instance, worker, calls, m_bEscapeFlag, joining, state, unasked>>

DestroySignal ==
  /\ destroyer = "set"
  /\ SetEvent(joining)
  /\ destroyer' = "join"
  /\ UNCHANGED <<ready, func, context, calls, m_bEscapeFlag, joining, state, unasked>>

DestroyJoin ==
  /\ destroyer = "join"
  /\ worker[joining] = "ended"
  /\ destroyer' = IF joining = PoolCount THEN "done" ELSE "set"
  /\ joining' = IF joining = PoolCount THEN joining ELSE joining + 1
  /\ UNCHANGED <<ready, instance, worker, calls, m_bEscapeFlag, state, unasked>>

-----------------------------------------------------------------------------
Call(c) == GiveFunc(c) \/ GiveContext(c) \/ GiveSignal(c)

Work(i) == \/ Continue(i) \/ TestSignal(i) \/ ResetSignal(i) \/ CondWait(i)
           \/ Escape(i) \/ Start(i) \/ Finish(i) \/ ReturnThread(i)

Next == \/ \E c \in Callers : Call(c) \/ \E j \in Jobs : CreateThread(c, j)
        \/ \E i \in Instances : Work(i) \/ WakeUnasked(i)
        \/ Destroy \/ DestroySignal \/ DestroyJoin

Spec == Init /\ [][Next]_vars

\* Threads that can run are scheduled and jobs return.
FairSpec == /\ Spec
            /\ \A c \in Callers : WF_vars(Call(c))
            /\ \A i \in Instances : WF_vars(Work(i))
            /\ WF_vars(DestroySignal) /\ WF_vars(DestroyJoin)

-----------------------------------------------------------------------------
(* Properties                                                              *)

\* Types; the queue never holds an instance twice.
TypeOK ==
  /\ ready \in Seq(Instances) /\ IsInjective(ready)
  /\ func \in [Instances -> Jobs \cup {NoJob}]
  /\ context \in [Instances -> Jobs \cup {NoJob}]
  /\ bSignaled \in [Instances -> BOOLEAN]
  /\ m_bEscapeFlag \in BOOLEAN
  /\ worker \in [Instances -> {"loop", "test", "reset", "wait", "blocked", "woken",
                               "take", "running", "return", "ended"}]
  /\ caller \in [Callers -> {"idle", "func", "context", "set"}]
  /\ job \in [Callers -> Jobs \cup {NoJob}]
  /\ target \in [Callers -> Instances \cup {0}]
  /\ destroyer \in {"idle", "set", "join", "done"}
  /\ joining \in Instances
  /\ state \in [Jobs -> {"out", "given", "running"}]

\* Until Destroy is called or a wait came back unasked.
Undisturbed == ~m_bEscapeFlag /\ ~unasked

\* Until then, a free instance has a worker that is on its way to
\* wait, with no job and no signal left over from the one before.
FreeInstancesListen ==
  Undisturbed =>
    \A i \in ToSet(ready) :
      /\ worker[i] \in {"loop", "test", "wait", "blocked"}
      /\ func[i] = NoJob /\ context[i] = NoJob
      /\ ~bSignaled[i]

\* A worker runs a job that was given and not started yet, with the context that
\* belongs to it.
StartsWhatWasGiven ==
  [][\A i \in Instances : Start(i) /\ ~unasked =>
                            state[func[i]] = "given" /\ context[i] = func[i]]_vars

\* No job is given to nobody: until then, a job that CreateThread took
\* is in one instance whose worker has not ended, or about to be put there.
GivenJobsAreHeld ==
  Undisturbed =>
    \A j \in Jobs : state[j] = "given" =>
      \/ \E c \in Callers : caller[c] = "func" /\ job[c] = j
      \/ \E i \in Instances : func[i] = j /\ worker[i] \notin {"running", "return", "ended"}

\* The window in WaitForEvent: the event was set after the worker looked.
WakeupLost(i) == worker[i] = "blocked" /\ bSignaled[i]

\* A job CreateThread accepted is started, unless the pool is destroyed first, a
\* wait came back unasked or the worker missed the signal.
GivenJobsStartOrMiss ==
  \A j \in Jobs :
    state[j] = "given" ~> \/ state[j] # "given" \/ ~Undisturbed
                          \/ \E i \in Instances : func[i] = j /\ WakeupLost(i)

\* Destroy comes back, unless a worker missed the signal.
DestroyEnds ==
  destroyer = "set" /\ joining = 1
    ~> destroyer = "done" \/ \E i \in Instances : WakeupLost(i)

\* A job CreateThread accepted is started unless the pool is destroyed first or a
\* wait came back unasked.
GivenJobsStart ==
  \A j \in Jobs : state[j] = "given" ~> state[j] # "given" \/ ~Undisturbed
=============================================================================
