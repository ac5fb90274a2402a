---------------------------- MODULE CircularQueue ----------------------------
(***************************************************************************)
(* core::CCircularQueue (Src/200_Common/CircularQueue.h): a lock-free ring *)
(* shared by any number of pushing and popping threads.                    *)
(*                                                                         *)
(*   back  - next slot to claim         write - next slot to publish       *)
(*   read  - next slot to take          front - next slot to give back     *)
(*                                                                         *)
(* The four indices are free-running DWORDs: they wrap at Modulus (2^32 in *)
(* the code) and are masked to a slot.  One action is one access to shared *)
(* memory; plain loads happen in program order.                            *)
(***************************************************************************)
EXTENDS Integers, FiniteSets

CONSTANTS Threads,    (* threads calling Push, Pop and Count                *)
          Items,      (* values of the template parameter T                 *)
          NoItem,     (* the content of a slot before its first Push        *)
          Capacity,   (* m_dwMaxCapacity                                    *)
          Modulus,    (* number of values of a DWORD                        *)
          Seed        (* dwSeedIndex, the first value of the indices        *)

ASSUME CapacityAssumption == Capacity \in Nat \ {0}

\* Capacity is a power of two up to 2^31, so it divides the index range and
\* `index & m_dwMask` is the index modulo Capacity.
ASSUME ModulusAssumption == /\ Modulus \in Nat
                            /\ Modulus % Capacity = 0
                            /\ Modulus >= 2 * Capacity
                            /\ Modulus > Capacity + 1

ASSUME SeedAssumption == Seed \in 0 .. (Modulus - 1)

ASSUME ItemAssumption == NoItem \notin Items

VARIABLES front, back, read, write,  (* m_dwFrontIndex ... m_dwWriteIndex   *)
          slots,                     (* m_vecItems                          *)
          pc,                        (* where each thread is                *)
          idx,                       (* its dwBackIndex, dwReadIndex, dwFrontIndex *)
          item                       (* its newItem or outItem              *)

indices == <<front, back, read, write>>
vars == <<front, back, read, write, slots, pc, idx, item>>

Dword == 0 .. (Modulus - 1)
\* (Variants named Bug... are what a slip in the definition after them would be.)
BugInc(i) == i + 1

Inc(i) == (i + 1) % Modulus
Sub(a, b) == (a - b) % Modulus
Slot(i) == i % Capacity

PushLabels == {"pushBack", "pushFront", "pushClaim", "store", "publish"}
PopLabels == {"popRead", "popWrite", "popClaim", "load", "free"}
Labels == {"idle", "countBack"} \cup PushLabels \cup PopLabels

-----------------------------------------------------------------------------
Init == /\ front = Seed /\ back = Seed /\ read = Seed /\ write = Seed
        /\ slots = [s \in 0 .. (Capacity - 1) |-> NoItem]
        /\ pc = [t \in Threads |-> "idle"]
        /\ idx = [t \in Threads |-> 0]
        /\ item = [t \in Threads |-> NoItem]

Goto(t, from, to) == pc[t] = from /\ pc' = [pc EXCEPT ![t] = to]

Return(t, from) == /\ Goto(t, from, "idle")
                   /\ idx' = [idx EXCEPT ![t] = 0]
                   /\ item' = [item EXCEPT ![t] = NoItem]

\* The bound on scheduling the design rests on: while a thread sits between
\* reading an index and its compare-and-swap on it, the index is not moved
\* all the way round to within Capacity of the value the thread read (2^32 -
\* Capacity operations); and not once round between the two reads of a Count.
NoLap(labels, next) ==
  \A t \in Threads : pc[t] \in labels => Sub(idx[t], next) > Capacity

NoWrap(next) == \A t \in Threads : pc[t] = "countBack" => next # idx[t]

-----------------------------------------------------------------------------
(* ECODE Push(const T& newItem)                                            *)

PushBegin(t, x) == /\ Goto(t, "idle", "pushBack")
                   /\ item' = [item EXCEPT ![t] = x]
                   /\ UNCHANGED <<indices, slots, idx>>

PushReadBack(t) == /\ Goto(t, "pushBack", "pushFront")
                   /\ idx' = [idx EXCEPT ![t] = back]
                   /\ UNCHANGED <<indices, slots, item>>

\* Spins on a full queue.
BugPushFull(t) == /\ Sub(idx[t], front) = Capacity
                  /\ Goto(t, "pushFront", "pushBack")
                  /\ UNCHANGED <<indices, slots, idx, item>>

PushFull(t) == /\ Sub(idx[t], front) = Capacity
               /\ Return(t, "pushFront")
               /\ UNCHANGED <<indices, slots>>

\* Does not look whether the queue is full.
BugPushReadFront(t) == /\ Goto(t, "pushFront", "pushClaim")
                       /\ UNCHANGED <<indices, slots, idx, item>>

PushReadFront(t) == /\ Sub(idx[t], front) # Capacity
                    /\ Goto(t, "pushFront", "pushClaim")
                    /\ UNCHANGED <<indices, slots, idx, item>>

PushClaim(t) == /\ back = idx[t]
                /\ NoLap({"pushFront", "pushClaim"}, Inc(back)) /\ NoWrap(Inc(back))
                /\ Goto(t, "pushClaim", "store")
                /\ back' = Inc(back)
                /\ UNCHANGED <<front, read, write, slots, idx, item>>

PushRetry(t) == /\ back # idx[t]
                /\ Goto(t, "pushClaim", "pushBack")
                /\ idx' = [idx EXCEPT ![t] = 0]
                /\ UNCHANGED <<indices, slots, item>>

PushStore(t) == /\ Goto(t, "store", "publish")
                /\ slots' = [slots EXCEPT ![Slot(idx[t])] = item[t]]
                /\ UNCHANGED <<indices, idx, item>>

\* Publishes without waiting for the claims before this one.
BugPushPublish(t) == /\ pc[t] = "publish"
                     /\ write' = Inc(write)
                     /\ Return(t, "publish")
                     /\ UNCHANGED <<front, back, read, slots>>

\* The loop around the compare-and-swap waits for the claims before this one.
PushPublish(t) == /\ write = idx[t]
                  /\ write' = Inc(write)
                  /\ Return(t, "publish")
                  /\ UNCHANGED <<front, back, read, slots>>

-----------------------------------------------------------------------------
(* ECODE Pop(T& outItem)                                                   *)

PopBegin(t) == /\ Goto(t, "idle", "popRead")
               /\ UNCHANGED <<indices, slots, idx, item>>

PopReadRead(t) == /\ Goto(t, "popRead", "popWrite")
                  /\ idx' = [idx EXCEPT ![t] = read]
                  /\ UNCHANGED <<indices, slots, item>>

PopNoData(t) == /\ Sub(write, idx[t]) = 0
                /\ Return(t, "popWrite")
                /\ UNCHANGED <<indices, slots>>

\* Compares with the wrong index.
BugPopReadWrite(t) == /\ Sub(back, idx[t]) # 0
                      /\ Goto(t, "popWrite", "popClaim")
                      /\ UNCHANGED <<indices, slots, idx, item>>

PopReadWrite(t) == /\ Sub(write, idx[t]) # 0
                   /\ Goto(t, "popWrite", "popClaim")
                   /\ UNCHANGED <<indices, slots, idx, item>>

PopClaim(t) == /\ read = idx[t]
               /\ NoLap({"popWrite", "popClaim"}, Inc(read))
               /\ Goto(t, "popClaim", "load")
               /\ read' = Inc(read)
               /\ UNCHANGED <<front, back, write, slots, idx, item>>

PopRetry(t) == /\ read # idx[t]
               /\ Goto(t, "popClaim", "popRead")
               /\ idx' = [idx EXCEPT ![t] = 0]
               /\ UNCHANGED <<indices, slots, item>>

PopLoad(t) == /\ Goto(t, "load", "free")
              /\ item' = [item EXCEPT ![t] = slots[Slot(idx[t])]]
              /\ UNCHANGED <<indices, slots, idx>>

\* Leaves the slot occupied.
BugPopFree(t) == /\ front = idx[t]
                 /\ Return(t, "free")
                 /\ UNCHANGED <<indices, slots>>

\* The loop around the compare-and-swap waits for the takes before this one.
PopFree(t) == /\ front = idx[t]
              /\ front' = Inc(front)
              /\ Return(t, "free")
              /\ UNCHANGED <<back, read, write, slots>>

-----------------------------------------------------------------------------
(* DWORD Count(void)                                                       *)

\* Reads the indices in the other order.
BugCountReadFront(t) == /\ Goto(t, "idle", "countBack")
                        /\ idx' = [idx EXCEPT ![t] = back]
                        /\ UNCHANGED <<indices, slots, item>>

CountReadFront(t) == /\ Goto(t, "idle", "countBack")
                     /\ idx' = [idx EXCEPT ![t] = front]
                     /\ UNCHANGED <<indices, slots, item>>

CountReadBack(t) == /\ Return(t, "countBack")
                    /\ UNCHANGED <<indices, slots>>

\* What a thread about to read m_dwBackIndex will return.
CountResult(t) == Sub(back, idx[t])

-----------------------------------------------------------------------------
\* void Init(size_t tSize, DWORD dwSeedIndex) on a queue nobody else is using: the
\* queue is empty again; the elements of m_vecItems stay as they are.
Reinit == /\ \A t \in Threads : pc[t] = "idle"
          /\ front' = Seed /\ back' = Seed /\ read' = Seed /\ write' = Seed
          /\ UNCHANGED <<slots, pc, idx, item>>

-----------------------------------------------------------------------------
Push(t) == \/ PushReadBack(t) \/ PushFull(t) \/ PushReadFront(t)
           \/ PushClaim(t) \/ PushRetry(t) \/ PushStore(t) \/ PushPublish(t)

Pop(t) == \/ PopReadRead(t) \/ PopNoData(t) \/ PopReadWrite(t)
          \/ PopClaim(t) \/ PopRetry(t) \/ PopLoad(t) \/ PopFree(t)

Next == \/ Reinit
        \/ \E t \in Threads :
             \/ \E x \in Items : PushBegin(t, x)
             \/ PopBegin(t)
             \/ CountReadFront(t)
             \/ Push(t)
             \/ Pop(t)
             \/ CountReadBack(t)

Spec == Init /\ [][Next]_vars

\* Every thread inside a call keeps being scheduled; nobody has to call.
FairSpec == /\ Spec
            /\ \A t \in Threads : WF_vars(Push(t)) /\ WF_vars(Pop(t))
            /\ \A t \in Threads : WF_vars(CountReadBack(t))

-----------------------------------------------------------------------------
(* Properties                                                              *)

\* Every variable has the type its declaration gives it.
TypeOK == /\ front \in Dword /\ back \in Dword /\ read \in Dword /\ write \in Dword
          /\ slots \in [0 .. (Capacity - 1) -> Items \cup {NoItem}]
          /\ pc \in [Threads -> Labels]
          /\ idx \in [Threads -> Dword]
          /\ item \in [Threads -> Items \cup {NoItem}]

\* Going round the ring from front, the indices come in the order front,
\* read, write, back, and back is at most Capacity ahead: no Push claims a
\* slot still in use, no Pop takes an item before it is published.
IndexOrder == /\ Sub(read, front) <= Sub(write, front)
              /\ Sub(write, front) <= Sub(back, front)
              /\ Sub(back, front) <= Capacity

\* No two threads access one slot while one of them is storing into it or
\* loading from it: the assignments to and from m_vecItems never race.
SlotExclusive ==
  \A t, u \in Threads :
    /\ pc[t] \in {"store", "publish", "load", "free"}
    /\ pc[u] \in {"store", "publish", "load", "free"}
    /\ t # u
    => Slot(idx[t]) # Slot(idx[u])

\* Count never misses an item: what it returns is at least the number of slots in
\* use when it returns, so 0 means empty, although Push and Pop run between its
\* two reads and the difference of the two indices may wrap.
CountCoversAll ==
  \A t \in Threads : pc[t] = "countBack" => CountResult(t) >= Sub(back, front)

\* A Push that returned EC_SUCCESS is delivered once and in order; EC_DATA_FULL
\* and EC_NO_DATA are only answered when the queue is full and empty.
Published == [i \in 1 .. Sub(write, read) |-> slots[Slot((read + i - 1) % Modulus)]]

CallOf(t) == CASE pc[t] \in {"idle", "countBack"} -> "idle"
               [] pc[t] \in {"pushBack", "pushFront", "pushClaim"} -> "pushing"
               [] pc[t] \in {"store", "publish"} -> "claimed"
               [] pc[t] \in {"popRead", "popWrite", "popClaim"} -> "popping"
               [] OTHER -> "holding"

ItemOf(t) == IF pc[t] = "load" THEN slots[Slot(idx[t])] ELSE item[t]

Fifo == INSTANCE BoundedFifo WITH queue <- Published,
                                  call <- [t \in Threads |-> CallOf(t)],
                                  item <- [t \in Threads |-> ItemOf(t)]

\* The queue implements BoundedFifo: a Push publishes at the compare-and-swap
\* on m_dwWriteIndex, a Pop takes at the one on m_dwReadIndex.
ImplementsFifo == Fifo!Spec

\* A thread that claimed or took a slot gets its operation done: the loops that
\* wait for the earlier claims end, for every thread.
ClaimsComplete ==
  \A t \in Threads : pc[t] \in {"store", "publish", "load", "free"} ~> pc[t] = "idle"

\* Whatever the schedule, calls of Push and Pop keep returning as long as there are
\* some: retries after a lost compare-and-swap, and answers of a full or empty queue,
\* do not keep all threads from getting out.
Moving(t) == pc[t] \in PushLabels \cup PopLabels

SystemProgress ==
  \/ []<>(\A t \in Threads : ~Moving(t))
  \/ []<><<\E t \in Threads : Moving(t) /\ pc'[t] = "idle">>_vars
=============================================================================
