------------------------------ MODULE SyncQueue ------------------------------
(***************************************************************************)
(* TSyncQueue (Src/200_Common/SyncQueue.h): a queue under a critical       *)
(* section and a semaphore that counts its items.  Push and Pop touch the  *)
(* two one after the other, so each has two steps; an operator per step.   *)
(***************************************************************************)
EXTENDS Naturals, Sequences

\* A queue that Push has filled: m_queItems, the value of m_hSemaphore, and whether
\* the handle still leads to it.
Filled(s) == [items |-> s, count |-> Len(s), open |-> TRUE]

Queues(S) == [items : Seq(S), count : Nat, open : BOOLEAN]

IsEmpty(q) == q.items = <<>>

\* Push: the item under m_csItems, then ReleaseSemaphore, which a closed handle refuses.
PushItem(q, x) == [q EXCEPT !.items = Append(@, x)]
PushPost(q) == IF q.open THEN [q EXCEPT !.count = @ + 1] ELSE q

\* Pop: WaitForSemaphore, again after each timeout, then the first item.  A wait that
\* began before CloseSemaphore holds on to the semaphore and may still succeed.
CanWait(q) == q.count > 0
WaitFails(q) == ~q.open
\* (BugPopWait is what a slip in PopWait would be: the wait does not take its count.)
BugPopWait(q) == q
PopWait(q) == [q EXCEPT !.count = @ - 1]
PopFirst(q) == Head(q.items)
PopRest(q) == [q EXCEPT !.items = Tail(@)]

Destroy(q) == [q EXCEPT !.open = FALSE]
=============================================================================
