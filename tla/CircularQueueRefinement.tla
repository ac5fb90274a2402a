----------------------- MODULE CircularQueueRefinement -----------------------
(***************************************************************************)
(* The ring implements the bounded first-in first-out queue, for any       *)
(* capacity, any index width and any number of threads.                    *)
(***************************************************************************)
EXTENDS CircularQueueProofs, Sequences, FiniteSetTheorems

\* A stored item is the one its thread brought.
Stored == \A t \in Threads : pc[t] = "publish" => slots[Slot(idx[t])] = item[t]

\* A thread has an item only in a Push, or once it has loaded one.
Itemless ==
  \A t \in Threads :
    pc[t] \in {"idle", "countBack", "popRead", "popWrite", "popClaim"} => item[t] = NoItem

\* Every occupied slot is a published one or held by exactly one thread.
HeldCounted == /\ IsFiniteSet(Held)
               /\ Cardinality(Held) + Sub(write, read) = Sub(back, front)

RInv == Inv /\ Stored /\ Itemless /\ HeldCounted

-----------------------------------------------------------------------------
(* The additional invariants                                               *)

\* Initially and after Init nobody holds a slot.
LEMMA NobodyHolds ==
  ASSUME \A t \in Threads : pc[t] = "idle"
  PROVE  Held = {} /\ IsFiniteSet(Held) /\ Cardinality(Held) = 0
<1>1. Held = {}
  BY DEF Held, Claimed, Taken
<1> QED BY <1>1, FS_EmptySet

\* Threads of one step that do not hold a slot before or after it.
LEMMA HeldSame ==
  ASSUME HeldCounted, UNCHANGED indices, Held' = Held
  PROVE  HeldCounted'
BY DEF HeldCounted, indices

\* A thread that claims or takes a slot, and one that publishes or gives it back.
LEMMA HeldChange ==
  ASSUME IsFiniteSet(Held), NEW t \in Threads
  PROVE  /\ t \notin Held /\ Held' = Held \cup {t}
            => IsFiniteSet(Held') /\ Cardinality(Held') = Cardinality(Held) + 1
         /\ t \in Held /\ Held' = Held \ {t}
            => IsFiniteSet(Held') /\ Cardinality(Held') = Cardinality(Held) - 1
BY FS_AddElement, FS_RemoveElement

\* The number of held slots is a number.
LEMMA HeldNat == IsFiniteSet(Held) => Cardinality(Held) \in Nat
BY FS_CardinalityType

\* With something published, read is not write.
LEMMA TakeLeaves ==
  ASSUME TypeOK, IndexOrder, Sub(read, front) < Sub(write, front)
  PROVE  write # read
BY Offsets

\* The initial state.
LEMMA InitRInv == Init => RInv
<1> SUFFICES ASSUME Init PROVE RInv
  OBVIOUS
<1>1. Inv
  BY InitInv
<1>2. Stored /\ Itemless
  BY DEF Init, Stored, Itemless
<1>3. Sub(write, read) = 0 /\ Sub(back, front) = 0
  BY <1>1, Distance DEF Init, Inv, TypeOK
<1>4. HeldCounted
  BY <1>3, NobodyHolds DEF Init, HeldCounted
<1> QED BY <1>1, <1>2, <1>4 DEF RInv

\* Only PushStore writes a slot, and nobody else is there.
LEMMA StoredStep == Inv /\ Stored /\ [Next]_vars => Stored'
<1> SUFFICES ASSUME Inv, Stored, [Next]_vars PROVE Stored'
  OBVIOUS
<1> USE DEF Inv, TypeOK, Stored, Goto, Return
<1>1. CASE UNCHANGED vars
  BY <1>1 DEF vars
<1>2. CASE Reinit
  BY <1>2 DEF Reinit
<1>3. ASSUME NEW t \in Threads, PushStore(t) PROVE Stored'
  <2>1. \A i \in Dword : Slot(i) \in 0 .. (Capacity - 1)
    BY CapacityAssumption, ModulusAssumption DEF Slot, Dword
  <2>2. \A u \in Threads : u # t /\ pc[u] = "publish" => Slot(idx[u]) # Slot(idx[t])
    BY <1>3, HeldSlotsDiffer DEF PushStore, Held, Claimed
  <2> QED BY <1>3, <2>1, <2>2 DEF PushStore
<1>4. ASSUME NEW t \in Threads,
             \/ \E x \in Items : PushBegin(t, x)
             \/ PopBegin(t) \/ CountReadFront(t) \/ CountReadBack(t) \/ Pop(t)
             \/ Push(t) /\ ~PushStore(t)
      PROVE  Stored'
  BY <1>4 DEF PushBegin, PopBegin, CountReadFront, CountReadBack, Push, Pop, PushReadBack,
              PushFull, PushReadFront, PushClaim, PushRetry, PushPublish, PopReadRead,
              PopNoData, PopReadWrite, PopClaim, PopRetry, PopLoad, PopFree
<1> QED BY <1>1, <1>2, <1>3, <1>4 DEF Next

\* Items come with PushBegin and PopLoad and go with the return.
LEMMA ItemlessStep == Inv /\ Itemless /\ [Next]_vars => Itemless'
<1> SUFFICES ASSUME Inv, Itemless, [Next]_vars PROVE Itemless'
  OBVIOUS
<1> USE DEF Inv, TypeOK, Itemless, Goto, Return
<1>1. CASE UNCHANGED vars
  BY <1>1 DEF vars
<1>2. CASE Reinit
  BY <1>2 DEF Reinit
<1>3. ASSUME NEW t \in Threads,
             \/ \E x \in Items : PushBegin(t, x)
             \/ PopBegin(t) \/ CountReadFront(t) \/ CountReadBack(t) \/ Pop(t) \/ Push(t)
      PROVE  Itemless'
  BY <1>3 DEF PushBegin, PopBegin, CountReadFront, CountReadBack, Push, Pop, PushReadBack,
              PushFull, PushReadFront, PushClaim, PushRetry, PushStore, PushPublish,
              PopReadRead, PopNoData, PopReadWrite, PopClaim, PopRetry, PopLoad, PopFree
<1> QED BY <1>1, <1>2, <1>3 DEF Next

\* Each compare-and-swap that succeeds moves one index and one thread.
LEMMA CountedStep == Inv /\ HeldCounted /\ [Next]_vars => HeldCounted'
<1> SUFFICES ASSUME Inv, HeldCounted, [Next]_vars PROVE HeldCounted'
  OBVIOUS
<1> USE DEF Inv, TypeOK, Goto, Return
<1>0. /\ Cardinality(Held) \in Nat /\ Sub(write, read) \in Nat /\ Sub(back, front) \in Nat
      /\ Cardinality(Held) + Sub(write, read) = Sub(back, front)
  BY HeldNat, Distance DEF HeldCounted
<1>1. CASE UNCHANGED vars
  BY <1>1, HeldSame DEF vars, indices, Held, Claimed, Taken
<1>2. CASE Reinit
  <2>1. Sub(Seed, Seed) = 0
    BY SeedAssumption, Distance DEF Dword
  <2> QED BY <1>2, <2>1, NobodyHolds DEF Reinit, HeldCounted, Held, Claimed, Taken
<1>3. ASSUME NEW t \in Threads, PushClaim(t) PROVE HeldCounted'
  <2>1. /\ pc[t] = "pushClaim" /\ pc' = [pc EXCEPT ![t] = "store"] /\ back = idx[t]
        /\ back' = Inc(back) /\ UNCHANGED <<front, read, write>>
    BY <1>3 DEF PushClaim
  <2>2. t \notin Held /\ Held' = Held \cup {t}
    BY <2>1 DEF Held, Claimed, Taken
  <2>3. Sub(Inc(back), front) = Sub(back, front) + 1
    BY <2>1, Offsets, Advance DEF ClaimSound
  <2>4. IsFiniteSet(Held') /\ Cardinality(Held') = Cardinality(Held) + 1
    BY <2>2, HeldChange DEF HeldCounted
  <2> QED BY <2>1, <2>3, <2>4, <1>0 DEF HeldCounted
<1>4. ASSUME NEW t \in Threads, PushPublish(t) PROVE HeldCounted'
  <2>1. /\ pc[t] = "publish" /\ pc' = [pc EXCEPT ![t] = "idle"] /\ write = idx[t]
        /\ write' = Inc(write) /\ UNCHANGED <<front, back, read>>
    BY <1>4 DEF PushPublish
  <2>2. t \in Held /\ Held' = Held \ {t}
    BY <2>1 DEF Held, Claimed, Taken
  <2>3. Sub(write, front) < Sub(back, front)
    BY <2>1 DEF HeldInRange, Claimed
  <2>4. Sub(Inc(write), read) = Sub(write, read) + 1
    BY <2>3, Offsets, Advance
  <2>5. IsFiniteSet(Held') /\ Cardinality(Held') = Cardinality(Held) - 1
    BY <2>2, HeldChange DEF HeldCounted
  <2> QED BY <2>1, <2>4, <2>5, <1>0 DEF HeldCounted
<1>5. ASSUME NEW t \in Threads, PopClaim(t) PROVE HeldCounted'
  <2>1. /\ pc[t] = "popClaim" /\ pc' = [pc EXCEPT ![t] = "load"] /\ read = idx[t]
        /\ read' = Inc(read) /\ UNCHANGED <<front, back, write>>
    BY <1>5 DEF PopClaim
  <2>2. t \notin Held /\ Held' = Held \cup {t}
    BY <2>1 DEF Held, Claimed, Taken
  <2>3. Sub(write, Inc(read)) = Sub(write, read) - 1
    BY <2>1, TakeLeaves, DistanceStep DEF ClaimSound
  <2>4. IsFiniteSet(Held') /\ Cardinality(Held') = Cardinality(Held) + 1
    BY <2>2, HeldChange DEF HeldCounted
  <2> QED BY <2>1, <2>3, <2>4, <1>0 DEF HeldCounted
<1>6. ASSUME NEW t \in Threads, PopFree(t) PROVE HeldCounted'
  <2>1. /\ pc[t] = "free" /\ pc' = [pc EXCEPT ![t] = "idle"] /\ front = idx[t]
        /\ front' = Inc(front) /\ UNCHANGED <<back, read, write>>
    BY <1>6 DEF PopFree
  <2>2. t \in Held /\ Held' = Held \ {t}
    BY <2>1 DEF Held, Claimed, Taken
  <2>3. 0 < Sub(read, front)
    BY <2>1, Distance DEF HeldInRange, Taken
  <2>4. back # front
    BY <2>3, Distance, Offsets
  <2>5. Sub(back, Inc(front)) = Sub(back, front) - 1
    BY <2>4, DistanceStep
  <2>6. IsFiniteSet(Held') /\ Cardinality(Held') = Cardinality(Held) - 1
    BY <2>2, HeldChange DEF HeldCounted
  <2> QED BY <2>1, <2>5, <2>6, <1>0 DEF HeldCounted
<1>7. ASSUME NEW t \in Threads,
             \/ \E x \in Items : PushBegin(t, x)
             \/ PopBegin(t) \/ CountReadFront(t) \/ CountReadBack(t)
             \/ PushReadBack(t) \/ PushFull(t) \/ PushReadFront(t) \/ PushRetry(t) \/ PushStore(t)
             \/ PopReadRead(t) \/ PopNoData(t) \/ PopReadWrite(t) \/ PopRetry(t) \/ PopLoad(t)
      PROVE  HeldCounted'
  <2>1. UNCHANGED indices
    BY <1>7 DEF PushBegin, PopBegin, CountReadFront, CountReadBack, PushReadBack, PushFull,
                PushReadFront, PushRetry, PushStore, PopReadRead, PopNoData, PopReadWrite,
                PopRetry, PopLoad
  <2>2. \A u \in Threads : Claimed(u)' = Claimed(u) /\ Taken(u)' = Taken(u)
    BY <1>7 DEF PushBegin, PopBegin, CountReadFront, CountReadBack, PushReadBack, PushFull,
                PushReadFront, PushRetry, PushStore, PopReadRead, PopNoData, PopReadWrite,
                PopRetry, PopLoad, Claimed, Taken
  <2>3. Held' = Held
    BY <2>2 DEF Held
  <2> QED BY <2>1, <2>3, HeldSame
<1> QED BY <1>1, <1>2, <1>3, <1>4, <1>5, <1>6, <1>7 DEF Next, Push, Pop

\* RInv is an invariant of the queue.
LEMMA RefinementInvariant == Spec => []RInv
<1>1. RInv /\ [Next]_vars => RInv'
  BY InvStep, StoredStep, ItemlessStep, CountedStep DEF RInv
<1> QED BY InitRInv, <1>1, PTL DEF Spec

-----------------------------------------------------------------------------
(* The refinement mapping under each step                                  *)

\* The abstract state of a thread, by its label.
LEMMA CallValues ==
  \A t \in Threads :
    /\ pc[t] \in {"idle", "countBack"} => CallOf(t) = "idle"
    /\ pc[t] \in {"pushBack", "pushFront", "pushClaim"} => CallOf(t) = "pushing"
    /\ pc[t] \in {"store", "publish"} => CallOf(t) = "claimed"
    /\ pc[t] \in {"popRead", "popWrite", "popClaim"} => CallOf(t) = "popping"
    /\ pc[t] \in {"load", "free"} => CallOf(t) = "holding"
BY DEF CallOf

\* The slots counted by the abstract queue are the occupied ones of the ring.
LEMMA OccupiedValue == RInv => Fifo!Occupied = Sub(back, front)
<1> SUFFICES ASSUME RInv PROVE Fifo!Occupied = Sub(back, front)
  OBVIOUS
<1> USE DEF RInv, Inv
<1>1. Sub(write, read) \in Nat
  BY Distance DEF TypeOK
<1>2. Len(Published) = Sub(write, read)
  BY <1>1 DEF Published
<1>3. {t \in Threads : [u \in Threads |-> CallOf(u)][t] \in {"claimed", "holding"}} = Held
  BY CallValues DEF TypeOK, Labels, PushLabels, PopLabels, Held, Claimed, Taken
<1>4. Fifo!Occupied = Len(Published) + Cardinality(Held)
  <2>1. Fifo!Cardinality(Held) = Cardinality(Held)
    BY DEF Fifo!Cardinality, Cardinality
  <2> QED BY <1>3, <2>1 DEF Fifo!Occupied
<1>5. Cardinality(Held) \in Nat /\ Cardinality(Held) + Sub(write, read) = Sub(back, front)
  BY HeldNat DEF HeldCounted
<1> QED BY <1>1, <1>2, <1>4, <1>5

\* A step that changes neither read nor write nor a published slot.
LEMMA PublishedSame ==
  ASSUME UNCHANGED <<read, write>>,
         \A i \in 1 .. Sub(write, read) :
           slots'[Slot((read + i - 1) % Modulus)] = slots[Slot((read + i - 1) % Modulus)]
  PROVE  Published' = Published
BY DEF Published

\* A published slot is one of the ring that no thread is storing into.
LEMMA PublishedPlace ==
  ASSUME TypeOK, IndexOrder, NEW i \in 1 .. Sub(write, read)
  PROVE  /\ (read + i - 1) % Modulus \in Dword
         /\ Sub((read + i - 1) % Modulus, front) = Sub(read, front) + i - 1
         /\ Sub((read + i - 1) % Modulus, read) = i - 1
<1> DEFINE p == (read + i - 1) % Modulus
<1> USE DEF TypeOK
<1>1. i - 1 \in Nat /\ i - 1 < Sub(write, read) /\ i \in Nat
  BY Distance
<1>2. i - 1 < Modulus
  BY <1>1, Offsets
<1>3. read + i - 1 = read + (i - 1)
  BY <1>1, ModulusAssumption DEF Dword
<1>4. p \in Dword /\ Sub(p, read) = i - 1
  BY <1>1, <1>2, <1>3, PlaceAfter, PlaceDistance
<1> HIDE DEF p
<1>5. Sub(p, front) \in Nat /\ Sub(p, front) \in Dword
  BY <1>4, Distance
<1>6. Sub(p, front) < Modulus
  BY <1>5, ModulusAssumption DEF Dword
<1>7. i - 1 = IF Sub(p, front) >= Sub(read, front)
                THEN Sub(p, front) - Sub(read, front)
                ELSE Sub(p, front) - Sub(read, front) + Modulus
  BY <1>4, DistanceFrom
<1>8. Sub(p, front) = Sub(read, front) + i - 1
  BY <1>1, <1>5, <1>6, <1>7, Offsets
<1> QED BY <1>4, <1>8 DEF p

\* The empty queue.
LEMMA PublishedEmpty == ASSUME Sub(write, read) = 0 PROVE Published = <<>>
BY DEF Published

\* Initially nothing is published and nobody is in a call.
LEMMA FifoInit == Init => Fifo!Init
<1> SUFFICES ASSUME Init PROVE Fifo!Init
  OBVIOUS
<1>1. Sub(write, read) = 0
  BY InitInv, Distance DEF Init, Inv, TypeOK
<1>2. Published = <<>>
  BY <1>1, PublishedEmpty
<1>3. \A t \in Threads : CallOf(t) = "idle" /\ ItemOf(t) = NoItem
  BY DEF Init, CallOf, ItemOf
<1> QED BY <1>2, <1>3 DEF Fifo!Init

\* A step after which queue, call and item of every thread are what they were.
LEMMA FifoStutter ==
  ASSUME Published' = Published,
         \A t \in Threads : CallOf(t)' = CallOf(t) /\ ItemOf(t)' = ItemOf(t)
  PROVE  UNCHANGED Fifo!vars
BY DEF Fifo!vars

\* A step of one thread that leaves the rest of the ring and its slots alone.
LEMMA OthersSame ==
  ASSUME NEW t \in Threads, TypeOK, TypeOK',
         UNCHANGED slots,
         \A u \in Threads : u # t => pc'[u] = pc[u] /\ idx'[u] = idx[u] /\ item'[u] = item[u]
  PROVE  \A u \in Threads : u # t => CallOf(u)' = CallOf(u) /\ ItemOf(u)' = ItemOf(u)
BY DEF CallOf, ItemOf

\* Inside the calls: only a label, an index or a local variable changes.
LEMMA InsideStep ==
  ASSUME RInv, RInv', NEW t \in Threads,
         \/ CountReadFront(t) \/ CountReadBack(t)
         \/ PushReadBack(t) \/ PushReadFront(t) \/ PushRetry(t)
         \/ PopReadRead(t) \/ PopReadWrite(t) \/ PopRetry(t) \/ PopLoad(t)
  PROVE  UNCHANGED Fifo!vars
<1> USE DEF RInv, Inv
<1>1. UNCHANGED <<indices, slots>>
  BY DEF CountReadFront, CountReadBack, PushReadBack, PushReadFront, PushRetry, PopReadRead,
         PopReadWrite, PopRetry, PopLoad
<1>2. Published' = Published
  BY <1>1, PublishedSame DEF indices
<1>3. \A u \in Threads :
        u # t => pc'[u] = pc[u] /\ idx'[u] = idx[u] /\ item'[u] = item[u]
  BY DEF TypeOK, CountReadFront, CountReadBack, PushReadBack, PushReadFront, PushRetry,
         PopReadRead, PopReadWrite, PopRetry, PopLoad, Goto, Return
<1>4. CallOf(t)' = CallOf(t)
  BY DEF TypeOK, CountReadFront, CountReadBack, PushReadBack, PushReadFront, PushRetry,
         PopReadRead, PopReadWrite, PopRetry, PopLoad, Goto, Return, CallOf
<1>5. ItemOf(t)' = ItemOf(t)
  BY DEF TypeOK, CountReadFront, CountReadBack, PushReadBack, PushReadFront, PushRetry,
         PopReadRead, PopReadWrite, PopRetry, PopLoad, Goto, Return, ItemOf, Itemless
<1> QED BY <1>1, <1>2, <1>3, <1>4, <1>5, OthersSame, FifoStutter

\* PushStore writes a slot that is neither published nor held by another thread.
LEMMA StoreStep ==
  ASSUME RInv, RInv', NEW t \in Threads, PushStore(t)
  PROVE  UNCHANGED Fifo!vars
<1> USE DEF RInv, Inv
<1>1. /\ pc[t] = "store" /\ pc' = [pc EXCEPT ![t] = "publish"]
      /\ slots' = [slots EXCEPT ![Slot(idx[t])] = item[t]]
      /\ UNCHANGED <<front, back, read, write, idx, item>>
  BY DEF PushStore, Goto, indices
<1>2. t \in Held /\ idx[t] \in Dword /\ Sub(idx[t], front) \in Nat
  BY <1>1, Distance DEF TypeOK, Held, Claimed
<1>3. Sub(write, front) <= Sub(idx[t], front) /\ Sub(idx[t], front) < Capacity
  BY <1>1, <1>2, Offsets DEF HeldInRange, Claimed
<1>4. ASSUME NEW i \in 1 .. Sub(write, read)
      PROVE  Slot((read + i - 1) % Modulus) # Slot(idx[t])
  <2> DEFINE p == (read + i - 1) % Modulus
  <2>1. p \in Dword /\ Sub(p, front) = Sub(read, front) + i - 1
    BY PublishedPlace
  <2>2. i \in Nat /\ i <= Sub(write, read)
    BY Distance DEF TypeOK
  <2> HIDE DEF p
  <2>3. Sub(p, front) < Sub(write, front)
    BY <2>1, <2>2, Offsets
  <2>4. Sub(p, front) < Capacity /\ p # idx[t]
    BY <1>2, <1>3, <2>1, <2>2, <2>3, Offsets
  <2>5. Slot(p) # Slot(idx[t])
    BY <1>2, <1>3, <2>1, <2>4, RingSlotsDiffer DEF TypeOK
  <2> QED BY <2>5 DEF p
<1>5. Published' = Published
  BY <1>1, <1>4, PublishedSame DEF TypeOK
<1>6. \A u \in Threads : CallOf(u)' = CallOf(u)
  BY <1>1 DEF CallOf, TypeOK
<1>7. \A u \in Threads : ItemOf(u)' = ItemOf(u)
  <2>1. \A u \in Threads : pc[u] = "load" => Slot(idx[u]) # Slot(idx[t])
    BY <1>1, <1>2, HeldSlotsDiffer DEF Held, Taken
  <2> QED BY <1>1, <2>1 DEF ItemOf, TypeOK
<1> QED BY <1>5, <1>6, <1>7, FifoStutter

\* The call and the item of one thread change, all others stay.
LEMMA OneChanges ==
  ASSUME NEW t \in Threads, NEW c, NEW x,
         \A u \in Threads : u # t => CallOf(u)' = CallOf(u) /\ ItemOf(u)' = ItemOf(u),
         CallOf(t)' = c, ItemOf(t)' = x
  PROVE  /\ [u \in Threads |-> CallOf(u)]' = [[u \in Threads |-> CallOf(u)] EXCEPT ![t] = c]
         /\ [u \in Threads |-> ItemOf(u)]' = [[u \in Threads |-> ItemOf(u)] EXCEPT ![t] = x]
         /\ (ItemOf(t) = x =>
              [u \in Threads |-> ItemOf(u)]' = [u \in Threads |-> ItemOf(u)])
OBVIOUS

\* The steps that enter and leave a call without touching the ring.
LEMMA CallStep ==
  ASSUME RInv, RInv', NEW t \in Threads,
         \/ \E x \in Items : PushBegin(t, x)
         \/ PopBegin(t) \/ PushFull(t) \/ PopNoData(t)
  PROVE  Fifo!Next
<1> USE DEF RInv, Inv
<1>1. UNCHANGED <<indices, slots>>
  BY DEF PushBegin, PopBegin, PushFull, PopNoData
<1>2. Published' = Published
  BY <1>1, PublishedSame DEF indices
<1>3. \A u \in Threads : u # t => CallOf(u)' = CallOf(u) /\ ItemOf(u)' = ItemOf(u)
  <2>1. \A u \in Threads :
          u # t => pc'[u] = pc[u] /\ idx'[u] = idx[u] /\ item'[u] = item[u]
    BY DEF TypeOK, PushBegin, PopBegin, PushFull, PopNoData, Goto, Return
  <2> QED BY <1>1, <2>1, OthersSame
<1> USE DEF TypeOK, Goto, Return
<1>4. ASSUME NEW x \in Items, PushBegin(t, x) PROVE Fifo!BeginPush(t, x)
  <2>1. CallOf(t) = "idle" /\ CallOf(t)' = "pushing" /\ ItemOf(t)' = x
    BY <1>4 DEF PushBegin, CallOf, ItemOf
  <2> QED BY <1>2, <1>3, <2>1, OneChanges DEF Fifo!BeginPush, Fifo!Become
<1>5. CASE PopBegin(t)
  <2>1. CallOf(t) = "idle" /\ CallOf(t)' = "popping" /\ ItemOf(t)' = ItemOf(t)
    BY <1>5 DEF PopBegin, CallOf, ItemOf
  <2>2. Fifo!BeginPop(t)
    BY <1>2, <1>3, <2>1, OneChanges DEF Fifo!BeginPop, Fifo!Become
  <2> QED BY <2>2 DEF Fifo!Next
<1>6. CASE PushFull(t)
  <2>1. CallOf(t) = "pushing" /\ CallOf(t)' = "idle" /\ ItemOf(t)' = NoItem
    BY <1>6 DEF PushFull, CallOf, ItemOf
  <2>2. pc[t] = "pushFront" /\ Sub(idx[t], front) = Capacity /\ idx[t] \in Dword
    BY <1>6 DEF PushFull
  <2>3. idx[t] = back
    \* an older index would be seen more than Capacity behind back
    <3> SUFFICES ASSUME Sub(idx[t], back) > Capacity PROVE FALSE
      BY <2>2 DEF ReadIndexStale
    <3>1. Sub(idx[t], back) = Capacity - Sub(back, front)
      BY <2>2, DistanceFrom, Offsets
    <3> QED BY <3>1, Offsets
  <2>4. Fifo!Occupied = Capacity
    BY <2>2, <2>3, OccupiedValue
  <2>5. Fifo!AnswerFull(t)
    BY <1>2, <1>3, <2>1, <2>4, OneChanges DEF Fifo!AnswerFull, Fifo!Become
  <2> QED BY <2>5 DEF Fifo!Next
<1>7. CASE PopNoData(t)
  <2>1. CallOf(t) = "popping" /\ CallOf(t)' = "idle" /\ ItemOf(t)' = ItemOf(t)
    BY <1>7 DEF PopNoData, CallOf, ItemOf, Itemless
  <2>2. pc[t] = "popWrite" /\ Sub(write, idx[t]) = 0 /\ idx[t] \in Dword
    BY <1>7 DEF PopNoData
  <2>3. write = idx[t]
    BY <2>2, Distance
  <2>4. Sub(write, read) = 0
    <3> SUFFICES ASSUME Sub(write, read) > Capacity PROVE FALSE
      BY <2>2, <2>3, Distance DEF ReadIndexStale
    <3> QED BY Offsets
  <2>5. Fifo!AnswerEmpty(t)
    BY <1>2, <1>3, <2>1, <2>4, PublishedEmpty, OneChanges DEF Fifo!AnswerEmpty, Fifo!Become
  <2> QED BY <2>5 DEF Fifo!Next
<1> QED BY <1>4, <1>5, <1>6, <1>7 DEF Fifo!Next

\* The compare-and-swap on m_dwBackIndex claims a slot.
LEMMA ClaimStep ==
  ASSUME RInv, RInv', NEW t \in Threads, PushClaim(t)
  PROVE  Fifo!Claim(t)
<1> USE DEF RInv, Inv
<1>1. /\ pc[t] = "pushClaim" /\ pc' = [pc EXCEPT ![t] = "store"] /\ back = idx[t]
      /\ UNCHANGED <<front, read, write, slots, idx, item>>
  BY DEF PushClaim, Goto
<1>2. Published' = Published
  BY <1>1, PublishedSame
<1>3. \A u \in Threads : u # t => CallOf(u)' = CallOf(u) /\ ItemOf(u)' = ItemOf(u)
  BY <1>1, OthersSame DEF TypeOK
<1>4. CallOf(t) = "pushing" /\ CallOf(t)' = "claimed" /\ ItemOf(t)' = ItemOf(t)
  BY <1>1 DEF CallOf, ItemOf, TypeOK
<1>5. Fifo!Occupied < Capacity
  BY <1>1, OccupiedValue DEF ClaimSound
<1> QED BY <1>2, <1>3, <1>4, <1>5, OneChanges DEF Fifo!Claim, Fifo!Become

\* The compare-and-swap on m_dwFrontIndex gives the slot back.
LEMMA ReleaseStep ==
  ASSUME RInv, RInv', NEW t \in Threads, PopFree(t)
  PROVE  Fifo!Release(t)
<1> USE DEF RInv, Inv
<1>1. /\ pc[t] = "free" /\ pc' = [pc EXCEPT ![t] = "idle"]
      /\ idx' = [idx EXCEPT ![t] = 0] /\ item' = [item EXCEPT ![t] = NoItem]
      /\ UNCHANGED <<back, read, write, slots>>
  BY DEF PopFree, Return, Goto
<1>2. Published' = Published
  BY <1>1, PublishedSame
<1>3. \A u \in Threads : u # t => CallOf(u)' = CallOf(u) /\ ItemOf(u)' = ItemOf(u)
  BY <1>1, OthersSame DEF TypeOK
<1>4. CallOf(t) = "holding" /\ CallOf(t)' = "idle" /\ ItemOf(t)' = NoItem
  BY <1>1 DEF CallOf, ItemOf, TypeOK
<1> QED BY <1>2, <1>3, <1>4, OneChanges DEF Fifo!Release, Fifo!Become

\* The compare-and-swap on m_dwWriteIndex appends the item.
LEMMA PublishStep ==
  ASSUME RInv, RInv', NEW t \in Threads, PushPublish(t)
  PROVE  Fifo!Publish(t)
<1> USE DEF RInv, Inv
<1> DEFINE n == Sub(write, read)
<1>1. /\ pc[t] = "publish" /\ pc' = [pc EXCEPT ![t] = "idle"] /\ write = idx[t]
      /\ write' = Inc(write)
      /\ idx' = [idx EXCEPT ![t] = 0] /\ item' = [item EXCEPT ![t] = NoItem]
      /\ UNCHANGED <<front, back, read, slots>>
  BY DEF PushPublish, Return, Goto
<1>2. Sub(write, front) < Sub(back, front)
  BY <1>1 DEF HeldInRange, Claimed
<1>3. n \in Nat /\ n < Modulus - 1 /\ Sub(write, read)' = n + 1
  <2>1. n \in Nat /\ n < Modulus - 1
    BY <1>2, Offsets
  <2> QED BY <1>1, <2>1, Advance DEF TypeOK
<1>4. (read + (n + 1) - 1) % Modulus = write
  <2>1. read + (n + 1) - 1 = read + n
    BY <1>3, ModulusAssumption DEF TypeOK, Dword
  <2>2. write = (read + n) % Modulus
    BY <1>3, PlaceDistance, ModulusAssumption DEF TypeOK
  <2> QED BY <2>1, <2>2
<1>5. slots[Slot(write)] = item[t]
  BY <1>1 DEF Stored
<1>6. Published' = Append(Published, item[t])
  <2>1. Published = [i \in 1 .. n |-> slots[Slot((read + i - 1) % Modulus)]]
    BY DEF Published
  <2>2. Published' = [i \in 1 .. (n + 1) |-> slots[Slot((read + i - 1) % Modulus)]]
    BY <1>1, <1>3 DEF Published
  <2> HIDE DEF n
  <2> QED BY <1>3, <1>4, <1>5, <2>1, <2>2
<1>7. \A u \in Threads : u # t => CallOf(u)' = CallOf(u) /\ ItemOf(u)' = ItemOf(u)
  BY <1>1, OthersSame DEF TypeOK
<1>8. CallOf(t) = "claimed" /\ CallOf(t)' = "idle" /\ ItemOf(t) = item[t] /\ ItemOf(t)' = NoItem
  BY <1>1 DEF CallOf, ItemOf, TypeOK
<1> QED BY <1>6, <1>7, <1>8, OneChanges DEF Fifo!Publish, Fifo!Become

\* The compare-and-swap on m_dwReadIndex takes the oldest item.
LEMMA TakeStep ==
  ASSUME RInv, RInv', NEW t \in Threads, PopClaim(t)
  PROVE  Fifo!Take(t)
<1> USE DEF RInv, Inv
<1> DEFINE n == Sub(write, read)
<1>1. /\ pc[t] = "popClaim" /\ pc' = [pc EXCEPT ![t] = "load"] /\ read = idx[t]
      /\ read' = Inc(read)
      /\ UNCHANGED <<front, back, write, slots, idx, item>>
  BY DEF PopClaim, Goto
<1>2. Sub(read, front) < Sub(write, front)
  BY <1>1 DEF ClaimSound
<1>3. n \in Nat /\ n > 0 /\ n < Modulus /\ Sub(write, read)' = n - 1
  <2>1. n \in Nat /\ n > 0 /\ n < Modulus
    BY <1>2, Offsets
  <2> QED BY <1>1, <1>2, <2>1, TakeLeaves, DistanceStep DEF TypeOK
<1>4. (read + 1 - 1) % Modulus = read
  <2>1. read + 1 - 1 = read + 0 /\ 0 < Modulus
    BY ModulusAssumption, CapacityAssumption DEF TypeOK, Dword
  <2>2. read = (read + 0) % Modulus
    BY <2>1, Distance, PlaceDistance DEF TypeOK
  <2> QED BY <2>1, <2>2
<1>5. ASSUME NEW i \in 1 .. (n - 1)
      PROVE  (Inc(read) + i - 1) % Modulus = (read + (i + 1) - 1) % Modulus
  <2> HIDE DEF n
  <2>0. i \in Nat /\ i - 1 \in Nat /\ i < Modulus /\ i - 1 < Modulus /\ Modulus \in Nat
    BY <1>3, ModulusAssumption
  <2>1. /\ i \in Nat /\ i - 1 \in Nat /\ i < Modulus /\ i - 1 < Modulus /\ Modulus \in Nat
        /\ read \in Nat /\ read < Modulus /\ Inc(read) \in Nat /\ Inc(read) \in Dword
    <3>1. read \in Dword /\ Inc(read) \in Dword
      BY Distance DEF TypeOK
    <3> QED BY <2>0, <3>1 DEF Dword
  <2>2. Inc(read) = IF read = Modulus - 1 THEN 0 ELSE read + 1
    BY IncValue DEF TypeOK
  <2>3. /\ (read + i) % Modulus = IF read + i < Modulus THEN read + i ELSE read + i - Modulus
        /\ (Inc(read) + (i - 1)) % Modulus
             = IF Inc(read) + (i - 1) < Modulus THEN Inc(read) + (i - 1)
                                                ELSE Inc(read) + (i - 1) - Modulus
    BY <2>1, PlaceAfter DEF TypeOK
  <2>4. Inc(read) + i - 1 = Inc(read) + (i - 1) /\ read + (i + 1) - 1 = read + i
    BY <2>1
  <2> QED BY <2>1, <2>2, <2>3, <2>4
<1>6. Published # <<>> /\ Head(Published) = slots[Slot(read)] /\ Published' = Tail(Published)
  <2>1. Published = [i \in 1 .. n |-> slots[Slot((read + i - 1) % Modulus)]]
    BY DEF Published
  <2>2. Published' = [i \in 1 .. (n - 1) |-> slots[Slot((Inc(read) + i - 1) % Modulus)]]
    BY <1>1, <1>3 DEF Published
  <2>3. Published' = [i \in 1 .. (n - 1) |-> slots[Slot((read + (i + 1) - 1) % Modulus)]]
    BY <2>2, <1>5
  <2> HIDE DEF n
  <2>4. Len(Published) = n /\ Published[1] = slots[Slot(read)]
    BY <1>3, <1>4, <2>1
  <2>5. Published # <<>> /\ Head(Published) = slots[Slot(read)]
    BY <1>3, <2>1, <2>4
  <2>6. Published' = Tail(Published)
    BY <1>3, <2>1, <2>3, <2>4
  <2> QED BY <2>5, <2>6
<1>7. \A u \in Threads : u # t => CallOf(u)' = CallOf(u) /\ ItemOf(u)' = ItemOf(u)
  BY <1>1, OthersSame DEF TypeOK
<1>8. CallOf(t) = "popping" /\ CallOf(t)' = "holding" /\ ItemOf(t)' = slots[Slot(read)]
  BY <1>1 DEF CallOf, ItemOf, TypeOK
<1> QED BY <1>6, <1>7, <1>8, OneChanges DEF Fifo!Take, Fifo!Become

\* Init on an idle queue empties it.
LEMMA EmptyStep == ASSUME RInv, RInv', Reinit PROVE Fifo!Empty
<1>1. \A t \in Threads : pc[t] = "idle"
  BY DEF Reinit
<1>2. UNCHANGED <<pc, item, idx, slots>>
  BY DEF Reinit
<1>3. Sub(write, read)' = 0
  BY SeedAssumption, Distance DEF Reinit, Dword
<1>4. Published' = <<>>
  BY <1>3 DEF Published
<1>5. \A t \in Threads : CallOf(t) = "idle" /\ CallOf(t)' = CallOf(t) /\ ItemOf(t)' = ItemOf(t)
  BY <1>1, <1>2 DEF CallOf, ItemOf
<1> QED BY <1>4, <1>5 DEF Fifo!Empty

-----------------------------------------------------------------------------
(* The refinement                                                          *)

\* Every step of the ring is a step of the abstract queue or none.
LEMMA FifoStep == RInv /\ RInv' /\ [Next]_vars => [Fifo!Next]_(Fifo!vars)
<1> SUFFICES ASSUME RInv, RInv', [Next]_vars PROVE Fifo!Next \/ UNCHANGED Fifo!vars
  OBVIOUS
<1>1. CASE UNCHANGED vars
  <2>1. Published' = Published
    BY <1>1, PublishedSame DEF vars
  <2> QED BY <1>1, <2>1, FifoStutter DEF vars, CallOf, ItemOf
<1>2. CASE Reinit
  BY <1>2, EmptyStep DEF Fifo!Next
<1>3. ASSUME NEW t \in Threads,
             \/ \E x \in Items : PushBegin(t, x)
             \/ PopBegin(t) \/ CountReadFront(t) \/ CountReadBack(t) \/ Push(t) \/ Pop(t)
      PROVE  Fifo!Next \/ UNCHANGED Fifo!vars
  <2>1. CASE \/ \E x \in Items : PushBegin(t, x)
             \/ PopBegin(t) \/ PushFull(t) \/ PopNoData(t)
    BY <2>1, CallStep
  <2>2. CASE PushClaim(t)
    BY <2>2, ClaimStep DEF Fifo!Next
  <2>3. CASE PushPublish(t)
    BY <2>3, PublishStep DEF Fifo!Next
  <2>4. CASE PopClaim(t)
    BY <2>4, TakeStep DEF Fifo!Next
  <2>5. CASE PopFree(t)
    BY <2>5, ReleaseStep DEF Fifo!Next
  <2>6. CASE PushStore(t)
    BY <2>6, StoreStep
  <2>7. CASE \/ CountReadFront(t) \/ CountReadBack(t)
             \/ PushReadBack(t) \/ PushReadFront(t) \/ PushRetry(t)
             \/ PopReadRead(t) \/ PopReadWrite(t) \/ PopRetry(t) \/ PopLoad(t)
    BY <2>7, InsideStep
  <2> QED BY <1>3, <2>1, <2>2, <2>3, <2>4, <2>5, <2>6, <2>7 DEF Push, Pop
<1> QED BY <1>1, <1>2, <1>3 DEF Next

\* Every behaviour of the ring is one of the bounded first-in first-out queue: what
\* Push accepts is delivered once and in order, EC_DATA_FULL and EC_NO_DATA are true
\* answers, for every capacity, index width and number of threads.
THEOREM QueueImplementsFifo == Spec => ImplementsFifo
BY FifoInit, FifoStep, RefinementInvariant, PTL DEF Spec, ImplementsFifo, Fifo!Spec
=============================================================================
