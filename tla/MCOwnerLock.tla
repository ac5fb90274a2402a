----------------------------- MODULE MCOwnerLock -----------------------------
(* Three processes, the first with two threads, so that threads of one       *)
(* process contend with each other and with a process that steals.            *)
EXTENDS OwnerLock, TLC

CONSTANTS p1, p2, p3, t1, t2, t3, t4

TwoThreadsInOne == t1 :> p1 @@ t2 :> p1 @@ t3 :> p2 @@ t4 :> p3
=============================================================================
