----------------------------- MODULE BoundedFifo -----------------------------
(***************************************************************************)
(* What core::CCircularQueue promises its callers: a first-in first-out    *)
(* queue of at most Capacity slots, shared by any number of threads.  A    *)
(* slot is occupied from the moment a Push claims it until the Pop that    *)
(* took its item has finished copying it out, so EC_DATA_FULL is answered  *)
(* when every slot is occupied and EC_NO_DATA when no item is published.   *)
(***************************************************************************)
EXTENDS Naturals, Sequences, FiniteSets

CONSTANTS Threads,   (* callers of Push and Pop               *)
          Items,     (* the values of T                       *)
          Capacity,  (* number of slots                       *)
          NoItem     (* "no value"; not a member of Items     *)

VARIABLES queue,     (* published items, oldest first         *)
          call,      (* what each thread's call is doing      *)
          item       (* the item that call brings or took     *)

vars == <<queue, call, item>>

Calls == {"idle", "pushing", "claimed", "popping", "holding"}

\* Slots in use: published items, claims not yet published, takes not yet
\* released.
Occupied == Len(queue) + Cardinality({t \in Threads : call[t] \in {"claimed", "holding"}})

Init == /\ queue = <<>>
        /\ call = [t \in Threads |-> "idle"]
        /\ item = [t \in Threads |-> NoItem]

Become(t, from, to) == call[t] = from /\ call' = [call EXCEPT ![t] = to]

BeginPush(t, x) == /\ Become(t, "idle", "pushing")
                   /\ item' = [item EXCEPT ![t] = x]
                   /\ UNCHANGED queue

Claim(t) == /\ Occupied < Capacity
            /\ Become(t, "pushing", "claimed")
            /\ UNCHANGED <<queue, item>>

Publish(t) == /\ Become(t, "claimed", "idle")
              /\ queue' = Append(queue, item[t])
              /\ item' = [item EXCEPT ![t] = NoItem]

AnswerFull(t) == /\ Occupied = Capacity
                 /\ Become(t, "pushing", "idle")
                 /\ item' = [item EXCEPT ![t] = NoItem]
                 /\ UNCHANGED queue

BeginPop(t) == /\ Become(t, "idle", "popping")
               /\ UNCHANGED <<queue, item>>

Take(t) == /\ queue # <<>>
           /\ Become(t, "popping", "holding")
           /\ queue' = Tail(queue)
           /\ item' = [item EXCEPT ![t] = Head(queue)]

Release(t) == /\ Become(t, "holding", "idle")
              /\ item' = [item EXCEPT ![t] = NoItem]
              /\ UNCHANGED queue

AnswerEmpty(t) == /\ queue = <<>>
                  /\ Become(t, "popping", "idle")
                  /\ UNCHANGED <<queue, item>>

\* Init on a queue nobody is using throws the items away.
Empty == /\ \A t \in Threads : call[t] = "idle"
         /\ queue' = <<>>
         /\ UNCHANGED <<call, item>>

Next == \/ Empty
        \/ \E t \in Threads :
             \/ \E x \in Items : BeginPush(t, x)
             \/ Claim(t)
             \/ Publish(t)
             \/ AnswerFull(t)
             \/ BeginPop(t)
             \/ Take(t)
             \/ Release(t)
             \/ AnswerEmpty(t)

Spec == Init /\ [][Next]_vars
=============================================================================
