-------------------------- MODULE AbandonableLock --------------------------
(***************************************************************************)
(* What a named mutex promises: one thread at a time holds it, as often as *)
(* it locked it; when its process dies the lock is abandoned, and free     *)
(* again once a surviving thread has given it back.                        *)
(***************************************************************************)
EXTENDS Naturals

CONSTANTS Threads, Nobody, Abandoned

VARIABLES holder,   (* the thread that holds the lock, Nobody or Abandoned   *)
          depth     (* how often the holder locked it                        *)

vars == <<holder, depth>>

Init == holder \in Threads \cup {Nobody} /\ depth = IF holder = Nobody THEN 0 ELSE 1

Lock(t) == holder = Nobody /\ holder' = t /\ depth' = 1

LockAgain(t) == holder = t /\ depth' = depth + 1 /\ UNCHANGED holder

Unlock(t) == /\ holder = t
             /\ depth' = depth - 1
             /\ holder' = IF depth = 1 THEN Nobody ELSE t

Abandon(t) == holder = t /\ holder' = Abandoned /\ depth' = 0

GiveBack == holder = Abandoned /\ holder' = Nobody /\ UNCHANGED depth

Next == \/ \E t \in Threads : Lock(t) \/ LockAgain(t) \/ Unlock(t) \/ Abandon(t)
        \/ GiveBack

Spec == Init /\ [][Next]_vars
=============================================================================
