------------------------- MODULE CircularQueueProofs -------------------------
(***************************************************************************)
(* The ring for any capacity, any index width, any number of threads: the  *)
(* order of its indices, the exclusive access to its slots, and Count.     *)
(*                                                                         *)
(* All positions are compared as distances from m_dwFrontIndex, which are  *)
(* ordinary numbers whether the indices have wrapped or not.               *)
(***************************************************************************)
EXTENDS CircularQueue, TLAPS

\* Between its successful compare-and-swap and the one that gives it back or
\* publishes it, a thread holds the slot of its index.
Claimed(t) == pc[t] \in {"store", "publish"}
Taken(t) == pc[t] \in {"load", "free"}
Held == {t \in Threads : Claimed(t) \/ Taken(t)}

\* Claimed slots lie between write and back, taken ones between front and read.
HeldInRange ==
  \A t \in Threads :
    /\ Claimed(t) => /\ Sub(write, front) <= Sub(idx[t], front)
                     /\ Sub(idx[t], front) < Sub(back, front)
    /\ Taken(t) => Sub(idx[t], front) < Sub(read, front)

HeldDistinct == \A t, u \in Held : t # u => idx[t] # idx[u]

\* An index a thread has read is current, or so old that it is not taken for one
\* inside the ring.
ReadIndexStale ==
  \A t \in Threads :
    /\ pc[t] \in {"pushFront", "pushClaim"} => idx[t] = back \/ Sub(idx[t], back) > Capacity
    /\ pc[t] \in {"popWrite", "popClaim"} => idx[t] = read \/ Sub(idx[t], read) > Capacity

\* What a thread found before its compare-and-swap still holds if that succeeds.
ClaimSound ==
  \A t \in Threads :
    /\ pc[t] = "pushClaim" /\ idx[t] = back => Sub(back, front) < Capacity
    /\ pc[t] = "popClaim" /\ idx[t] = read => Sub(read, front) < Sub(write, front)

Inv == /\ TypeOK /\ IndexOrder /\ HeldInRange /\ HeldDistinct
       /\ ReadIndexStale /\ ClaimSound /\ CountCoversAll

-----------------------------------------------------------------------------
(* Arithmetic of the wrapping indices                                      *)

\* The difference of two DWORDs without the modulo.
LEMMA SubValue ==
  \A a, b \in Dword : Sub(a, b) = IF a >= b THEN a - b ELSE a - b + Modulus
BY ModulusAssumption, CapacityAssumption DEF Sub, Dword

\* The successor of a DWORD without the modulo.
LEMMA IncValue == \A i \in Dword : Inc(i) = IF i = Modulus - 1 THEN 0 ELSE i + 1
BY ModulusAssumption, CapacityAssumption DEF Inc, Dword

\* Distances are DWORDs, and equal distances from one place mean one place.
LEMMA Distance ==
  /\ \A a \in Dword : Inc(a) \in Dword /\ Sub(a, a) = 0
  /\ \A a, b \in Dword : Sub(a, b) \in Dword /\ Sub(a, b) \in Nat
  /\ \A a, b, f \in Dword : Sub(a, f) = Sub(b, f) => a = b
BY SubValue, IncValue, ModulusAssumption, CapacityAssumption DEF Dword

\* One step forward of the far end, and of the near end, of a distance.
LEMMA DistanceStep ==
  \A a, b \in Dword :
    /\ Sub(Inc(a), b) = IF Inc(a) = b THEN 0 ELSE Sub(a, b) + 1
    /\ Inc(a) = b <=> Sub(a, b) = Modulus - 1
    /\ a # b => Sub(a, Inc(b)) = Sub(a, b) - 1
BY SubValue, IncValue, ModulusAssumption, CapacityAssumption DEF Dword

\* An index short of another one moves one place away.
LEMMA Advance ==
  ASSUME NEW a \in Dword, NEW f \in Dword, Sub(a, f) < Modulus - 1
  PROVE  Inc(a) \in Dword /\ Sub(Inc(a), f) = Sub(a, f) + 1
<1>1. Inc(a) # f
  BY DistanceStep, Distance, ModulusAssumption
<1> QED BY <1>1, DistanceStep, Distance

\* The distance of two places seen from a third one.
LEMMA DistanceFrom ==
  ASSUME NEW a \in Dword, NEW b \in Dword, NEW f \in Dword
  PROVE  Sub(a, b) = IF Sub(a, f) >= Sub(b, f) THEN Sub(a, f) - Sub(b, f)
                                               ELSE Sub(a, f) - Sub(b, f) + Modulus
<1>1. /\ Sub(a, b) = IF a >= b THEN a - b ELSE a - b + Modulus
      /\ Sub(a, f) = IF a >= f THEN a - f ELSE a - f + Modulus
      /\ Sub(b, f) = IF b >= f THEN b - f ELSE b - f + Modulus
  BY SubValue
<1>2. a \in Nat /\ b \in Nat /\ f \in Nat /\ Modulus \in Nat
      /\ a < Modulus /\ b < Modulus /\ f < Modulus
  BY ModulusAssumption DEF Dword
<1> QED BY <1>1, <1>2

\* Slots of two indices fewer than Capacity apart are different.
LEMMA SlotsDiffer ==
  ASSUME NEW a \in Dword, NEW b \in Dword, a # b,
         Sub(a, b) < Capacity
  PROVE  Slot(a) # Slot(b)
<1> DEFINE C == Capacity
           qa == a \div C
           qb == b \div C
           qm == Modulus \div C
<1>0. /\ C \in Nat \ {0} /\ a \in Nat /\ b \in Nat /\ Modulus \in Nat
      /\ Modulus % C = 0
  BY ModulusAssumption, CapacityAssumption DEF Dword
<1>1. /\ a = (C * qa) + (a % C) /\ qa \in Int
      /\ b = (C * qb) + (b % C) /\ qb \in Int
      /\ Modulus = C * qm /\ qm \in Int
      /\ a % C \in Int /\ b % C \in Int
  BY <1>0
<1> SUFFICES ASSUME a % C = b % C PROVE FALSE
  BY DEF Slot
<1> HIDE DEF C, qa, qb, qm
<1>2. a - b = C * (qa - qb)
  BY <1>0, <1>1
<1>3. PICK q \in Int : Sub(a, b) = C * q
  <2>1. CASE a >= b
    <3>1. Sub(a, b) = C * (qa - qb) BY <2>1, <1>2, SubValue
    <3> QED BY <3>1, <1>1
  <2>2. CASE ~(a >= b)
    <3>1. Sub(a, b) = C * (qa - qb) + C * qm BY <2>2, <1>1, <1>2, SubValue
    <3>2. Sub(a, b) = C * (qa - qb + qm) BY <3>1, <1>0, <1>1
    <3> QED BY <3>2, <1>1
  <2> QED BY <2>1, <2>2
<1>4. 0 < Sub(a, b) /\ Sub(a, b) < C
  BY SubValue, <1>0, ModulusAssumption DEF Dword, C
<1>5. ~(0 < C * q /\ C * q < C)
  BY <1>0, <1>3
<1> QED BY <1>3, <1>4, <1>5
\* Different indices within Capacity of one place have different slots.
LEMMA RingSlotsDiffer ==
  ASSUME NEW a \in Dword, NEW b \in Dword, NEW f \in Dword, a # b,
         Sub(a, f) < Capacity, Sub(b, f) < Capacity
  PROVE  Slot(a) # Slot(b)
<1>1. Sub(a, f) \in Nat /\ Sub(b, f) \in Nat
  BY Distance
<1>2. CASE Sub(a, f) >= Sub(b, f)
  <2>1. Sub(a, b) < Capacity
    BY <1>1, <1>2, DistanceFrom, CapacityAssumption
  <2> QED BY <2>1, SlotsDiffer
<1>3. CASE Sub(b, f) >= Sub(a, f)
  <2>1. Sub(b, a) < Capacity
    BY <1>1, <1>3, DistanceFrom, CapacityAssumption
  <2> QED BY <2>1, SlotsDiffer
<1> QED BY <1>1, <1>2, <1>3

\* The k-th place after r.
LEMMA PlaceAfter ==
  ASSUME NEW r \in Dword, NEW k \in Nat, k < Modulus
  PROVE  /\ (r + k) % Modulus \in Dword
         /\ (r + k) % Modulus = IF r + k < Modulus THEN r + k ELSE r + k - Modulus
<1>1. r \in Nat /\ r < Modulus /\ Modulus \in Nat /\ Modulus > 0
  BY ModulusAssumption, CapacityAssumption DEF Dword
<1>2. CASE r + k < Modulus
  BY <1>1, <1>2 DEF Dword
<1>3. CASE ~(r + k < Modulus)
  <2>1. r + k - Modulus \in 0 .. (Modulus - 1)
    BY <1>1, <1>3
  <2>2. (r + k) % Modulus = r + k - Modulus
    BY <1>1, <1>3, <2>1
  <2> QED BY <1>3, <2>1, <2>2 DEF Dword
<1> QED BY <1>2, <1>3

\* That place is k away from r, and it is w if w is k away.
LEMMA PlaceDistance ==
  ASSUME NEW r \in Dword, NEW k \in Nat, k < Modulus
  PROVE  /\ Sub((r + k) % Modulus, r) = k
         /\ \A w \in Dword : Sub(w, r) = k => w = (r + k) % Modulus
<1> DEFINE p == (r + k) % Modulus
<1>1. p \in Dword /\ p = IF r + k < Modulus THEN r + k ELSE r + k - Modulus
  BY PlaceAfter
<1> HIDE DEF p
<1>2. r \in Nat /\ r < Modulus /\ Modulus \in Nat /\ p \in Nat
  BY <1>1, ModulusAssumption DEF Dword
<1>3. Sub(p, r) = IF p >= r THEN p - r ELSE p - r + Modulus
  BY <1>1, SubValue
<1>4. Sub(p, r) = k
  BY <1>1, <1>2, <1>3
<1> QED BY <1>1, <1>4, Distance DEF p

-----------------------------------------------------------------------------
(* The invariant is inductive                                              *)

\* The distances of the four indices are naturals and add up.
LEMMA Offsets ==
  ASSUME TypeOK, IndexOrder
  PROVE  /\ Capacity \in Nat /\ Modulus \in Nat /\ Capacity > 0 /\ Modulus > Capacity + 1
         /\ Sub(back, front) \in Nat /\ Sub(read, front) \in Nat /\ Sub(write, front) \in Nat
         /\ Sub(read, front) <= Sub(write, front) /\ Sub(write, front) <= Sub(back, front)
         /\ Sub(back, front) <= Capacity
         /\ Sub(write, read) = Sub(write, front) - Sub(read, front)
<1>1. Sub(back, front) \in Dword /\ Sub(read, front) \in Dword /\ Sub(write, front) \in Dword
  BY Distance DEF TypeOK
<1>2. /\ Capacity \in Nat /\ Modulus \in Nat /\ Capacity > 0 /\ Modulus > Capacity + 1
  BY CapacityAssumption, ModulusAssumption
<1>3. Sub(back, front) \in Nat /\ Sub(read, front) \in Nat /\ Sub(write, front) \in Nat
  BY <1>1, <1>2 DEF Dword
<1>4. Sub(write, read) = Sub(write, front) - Sub(read, front)
  BY <1>3, DistanceFrom DEF TypeOK, IndexOrder
<1> QED BY <1>2, <1>3, <1>4 DEF IndexOrder

\* A queue whose indices agree and that nobody uses satisfies the invariant.
LEMMA InitInv == Init => Inv
<1> SUFFICES ASSUME Init PROVE Inv
  OBVIOUS
<1>1. TypeOK
  BY SeedAssumption, ModulusAssumption, CapacityAssumption DEF Init, TypeOK, Labels, Dword
<1>2. Sub(front, front) = 0 /\ front = back /\ front = read /\ front = write
  BY <1>1, Distance DEF Init, TypeOK
<1> QED
  BY <1>1, <1>2, CapacityAssumption
     DEF Init, Inv, IndexOrder, HeldInRange, HeldDistinct, Held, Claimed, Taken,
         ReadIndexStale, ClaimSound, CountCoversAll

\* Every step preserves the types.
LEMMA TypeStep == TypeOK /\ [Next]_vars => TypeOK'
<1> SUFFICES ASSUME TypeOK, [Next]_vars PROVE TypeOK'
  OBVIOUS
<1> USE DEF TypeOK
<1>1. CASE UNCHANGED vars
  BY <1>1 DEF vars
<1>2. CASE Reinit
  BY <1>2, SeedAssumption, ModulusAssumption DEF Reinit, Dword
<1>3. ASSUME NEW t \in Threads,
             \/ \E x \in Items : PushBegin(t, x)
             \/ PopBegin(t) \/ CountReadFront(t) \/ Push(t) \/ Pop(t) \/ CountReadBack(t)
      PROVE  TypeOK'
  <2> USE DEF PushBegin, PopBegin, CountReadFront, CountReadBack, Push, Pop, PushReadBack,
              PushFull, PushReadFront, PushClaim, PushRetry, PushStore, PushPublish,
              PopReadRead, PopNoData, PopReadWrite, PopClaim, PopRetry, PopLoad, PopFree,
              Goto, Return, indices
  <2>1. UNCHANGED front \/ front' = Inc(front)
    BY <1>3
  <2>2. UNCHANGED back \/ back' = Inc(back)
    BY <1>3
  <2>3. UNCHANGED read \/ read' = Inc(read)
    BY <1>3
  <2>4. UNCHANGED write \/ write' = Inc(write)
    BY <1>3
  <2>5. pc' \in [Threads -> Labels]
    BY <1>3 DEF Labels, PushLabels, PopLabels
  <2>6. 0 \in Dword
    BY ModulusAssumption DEF Dword
  <2>7. idx' \in [Threads -> Dword]
    BY <1>3, <2>6
  <2>8. \A i \in Dword : Slot(i) \in 0 .. (Capacity - 1)
    BY CapacityAssumption, ModulusAssumption DEF Slot, Dword
  <2>9. item' \in [Threads -> Items \cup {NoItem}]
    BY <1>3, <2>8
  <2>10. slots' \in [0 .. (Capacity - 1) -> Items \cup {NoItem}]
    BY <1>3, <2>8
  <2> QED BY <2>1, <2>2, <2>3, <2>4, <2>5, <2>7, <2>9, <2>10, Distance
<1> QED BY <1>1, <1>2, <1>3 DEF Next

\* The steps that leave the indices alone.
LEMMA QuietStep ==
  ASSUME Inv, TypeOK', UNCHANGED indices, NEW t \in Threads,
         \A u \in Threads : u # t => pc'[u] = pc[u] /\ idx'[u] = idx[u],
         \/ pc'[t] \in {"idle", "pushBack", "popRead"}
         \/ idx'[t] = idx[t] /\ pc[t] = "store" /\ pc'[t] = "publish"
         \/ idx'[t] = idx[t] /\ pc[t] = "load" /\ pc'[t] = "free"
         \/ idx'[t] = back /\ pc'[t] = "pushFront"
         \/ idx'[t] = read /\ pc'[t] = "popWrite"
         \/ idx'[t] = front /\ pc'[t] = "countBack"
         \/ /\ idx'[t] = idx[t] /\ pc[t] = "pushFront" /\ pc'[t] = "pushClaim"
            /\ Sub(idx[t], front) # Capacity
         \/ /\ idx'[t] = idx[t] /\ pc[t] = "popWrite" /\ pc'[t] = "popClaim"
            /\ Sub(write, idx[t]) # 0
  PROVE  Inv'
<1> USE DEF Inv, TypeOK, indices
<1>1. IndexOrder'
  BY DEF IndexOrder
<1>2. HeldInRange'
  BY DEF HeldInRange, Claimed, Taken
<1>3. HeldDistinct'
  BY DEF HeldDistinct, Held, Claimed, Taken
<1>4. ReadIndexStale'
  BY DEF ReadIndexStale
<1>5. ClaimSound'
  <2>1. Sub(back, front) # Capacity => Sub(back, front) < Capacity
    BY Offsets
  <2>2. Sub(write, read) # 0 => Sub(read, front) < Sub(write, front)
    BY Offsets
  <2> QED BY <2>1, <2>2 DEF ClaimSound
<1>6. CountCoversAll'
  <2>1. Sub(back, front) >= Sub(back, front)
    BY Offsets
  <2> QED BY <2>1 DEF CountCoversAll, CountResult
<1> QED BY <1>1, <1>2, <1>3, <1>4, <1>5, <1>6

\* A Push claims the slot at back.
LEMMA PushClaimStep ==
  ASSUME Inv, TypeOK', NEW t \in Threads, PushClaim(t)
  PROVE  Inv'
<1> USE DEF Inv, TypeOK
<1>1. /\ back = idx[t] /\ pc[t] = "pushClaim" /\ pc' = [pc EXCEPT ![t] = "store"]
      /\ back' = Inc(back) /\ UNCHANGED <<front, read, write, slots, idx, item>>
  BY DEF PushClaim, Goto
<1>2. /\ NoLap({"pushFront", "pushClaim"}, Inc(back)) /\ NoWrap(Inc(back))
  BY DEF PushClaim
<1>3. Sub(back, front) < Capacity
  BY <1>1 DEF ClaimSound
<1>4. Inc(back) \in Dword /\ Sub(Inc(back), front) = Sub(back, front) + 1
  BY <1>3, Offsets, Advance
<1>5. IndexOrder'
  BY <1>1, <1>3, <1>4, Offsets DEF IndexOrder
<1>6. \A u \in Threads : Sub(idx[u], front) \in Nat
  BY Distance
<1>7. HeldInRange'
  BY <1>1, <1>4, <1>6, Offsets DEF HeldInRange, Claimed, Taken
<1>8. \A u \in Held : Sub(idx[u], front) < Sub(back, front)
  BY <1>6, Offsets DEF Held, HeldInRange
<1>9. HeldDistinct'
  <2>1. \A u \in Held : idx[u] # idx[t]
    BY <1>1, <1>6, <1>8, Offsets
  <2>2. Held' = Held \cup {t}
    BY <1>1 DEF Held, Claimed, Taken
  <2> QED BY <1>1, <2>1, <2>2 DEF HeldDistinct
<1>10. ReadIndexStale'
  BY <1>1, <1>2 DEF ReadIndexStale, NoLap
<1>11. ClaimSound'
  <2>1. ASSUME NEW u \in Threads, u # t, pc[u] = "pushClaim" PROVE idx[u] # Inc(back)
    <3>1. Sub(idx[u], Inc(back)) > Capacity
      BY <1>2, <2>1 DEF NoLap
    <3> QED BY <3>1, <1>4, Distance, Offsets
  <2> QED BY <1>1, <2>1 DEF ClaimSound
<1>12. CountCoversAll'
  <2> SUFFICES ASSUME NEW u \in Threads, pc[u] = "countBack"
               PROVE  Sub(Inc(back), idx[u]) >= Sub(Inc(back), front)
    BY <1>1 DEF CountCoversAll, CountResult
  <2>1. Sub(back, idx[u]) >= Sub(back, front) /\ Inc(back) # idx[u]
    BY <1>2 DEF CountCoversAll, CountResult, NoWrap
  <2>2. Sub(Inc(back), idx[u]) = Sub(back, idx[u]) + 1
    BY <2>1, DistanceStep
  <2>3. Sub(back, idx[u]) \in Nat
    BY Distance
  <2> QED BY <2>1, <2>2, <2>3, <1>4, Offsets
<1> QED BY <1>5, <1>7, <1>9, <1>10, <1>11, <1>12

\* A Push publishes the slot at write.
LEMMA PushPublishStep ==
  ASSUME Inv, TypeOK', NEW t \in Threads, PushPublish(t)
  PROVE  Inv'
<1> USE DEF Inv, TypeOK
<1>1. /\ write = idx[t] /\ pc[t] = "publish" /\ pc' = [pc EXCEPT ![t] = "idle"]
      /\ write' = Inc(write) /\ idx' = [idx EXCEPT ![t] = 0]
      /\ UNCHANGED <<front, back, read, slots>>
  BY DEF PushPublish, Return, Goto
<1>2. Sub(write, front) < Sub(back, front)
  BY <1>1 DEF HeldInRange, Claimed
<1>3. Sub(Inc(write), front) = Sub(write, front) + 1
  BY <1>2, Offsets, Advance
<1>4. IndexOrder'
  BY <1>1, <1>2, <1>3, Offsets DEF IndexOrder
<1>5. \A u \in Threads : Sub(idx[u], front) \in Nat
  BY Distance
<1>6. \A u \in Threads : u # t /\ Claimed(u) => Sub(idx[u], front) # Sub(write, front)
  BY <1>1, Distance DEF HeldDistinct, Held, Claimed
<1>7. HeldInRange'
  BY <1>1, <1>3, <1>5, <1>6, Offsets DEF HeldInRange, Claimed, Taken
<1>8. HeldDistinct'
  BY <1>1 DEF HeldDistinct, Held, Claimed, Taken
<1>9. ReadIndexStale'
  BY <1>1 DEF ReadIndexStale
<1>10. ClaimSound'
  BY <1>1, <1>3, Offsets DEF ClaimSound
<1>11. CountCoversAll'
  BY <1>1 DEF CountCoversAll, CountResult
<1> QED BY <1>4, <1>7, <1>8, <1>9, <1>10, <1>11

\* A Pop takes the slot at read.
LEMMA PopClaimStep ==
  ASSUME Inv, TypeOK', NEW t \in Threads, PopClaim(t)
  PROVE  Inv'
<1> USE DEF Inv, TypeOK
<1>1. /\ read = idx[t] /\ pc[t] = "popClaim" /\ pc' = [pc EXCEPT ![t] = "load"]
      /\ read' = Inc(read) /\ UNCHANGED <<front, back, write, slots, idx, item>>
  BY DEF PopClaim, Goto
<1>2. NoLap({"popWrite", "popClaim"}, Inc(read))
  BY DEF PopClaim
<1>3. Sub(read, front) < Sub(write, front)
  BY <1>1 DEF ClaimSound
<1>4. Inc(read) \in Dword /\ Sub(Inc(read), front) = Sub(read, front) + 1
  BY <1>3, Offsets, Advance
<1>5. IndexOrder'
  BY <1>1, <1>3, <1>4, Offsets DEF IndexOrder
<1>6. \A u \in Threads : Sub(idx[u], front) \in Nat
  BY Distance
<1>7. HeldInRange'
  BY <1>1, <1>4, <1>6, Offsets DEF HeldInRange, Claimed, Taken
<1>8. HeldDistinct'
  <2>1. \A u \in Held : idx[u] # idx[t]
    BY <1>1, <1>3, <1>6, Offsets DEF Held, HeldInRange
  <2>2. Held' = Held \cup {t}
    BY <1>1 DEF Held, Claimed, Taken
  <2> QED BY <1>1, <2>1, <2>2 DEF HeldDistinct
<1>9. ReadIndexStale'
  BY <1>1, <1>2 DEF ReadIndexStale, NoLap
<1>10. ClaimSound'
  <2>1. ASSUME NEW u \in Threads, u # t, pc[u] = "popClaim" PROVE idx[u] # Inc(read)
    <3>1. Sub(idx[u], Inc(read)) > Capacity
      BY <1>2, <2>1 DEF NoLap
    <3> QED BY <3>1, <1>4, Distance, Offsets
  <2> QED BY <1>1, <2>1 DEF ClaimSound
<1>11. CountCoversAll'
  BY <1>1 DEF CountCoversAll, CountResult
<1> QED BY <1>5, <1>7, <1>8, <1>9, <1>10, <1>11

\* A Pop gives the slot at front back: all distances shrink by one.
LEMMA PopFreeStep ==
  ASSUME Inv, TypeOK', NEW t \in Threads, PopFree(t)
  PROVE  Inv'
<1> USE DEF Inv, TypeOK
<1>1. /\ front = idx[t] /\ pc[t] = "free" /\ pc' = [pc EXCEPT ![t] = "idle"]
      /\ front' = Inc(front) /\ idx' = [idx EXCEPT ![t] = 0]
      /\ UNCHANGED <<back, read, write, slots>>
  BY DEF PopFree, Return, Goto
<1>2. 0 < Sub(read, front)
  BY <1>1, Distance DEF HeldInRange, Taken
<1>3. \A i \in Dword : Sub(i, front) \in Nat /\ (i = front <=> Sub(i, front) = 0)
  BY Distance
<1>4. \A i \in Dword : i # front => Sub(i, Inc(front)) = Sub(i, front) - 1
  BY DistanceStep
<1>5. read # front /\ write # front /\ back # front
  BY <1>2, <1>3, Offsets
<1>6. IndexOrder'
  BY <1>1, <1>4, <1>5, Offsets DEF IndexOrder
<1>7. \A u \in Held : u # t => idx[u] # front
  BY <1>1 DEF HeldDistinct, Held, Taken
<1>8. HeldInRange'
  BY <1>1, <1>3, <1>4, <1>5, <1>7, Offsets DEF HeldInRange, Held, Claimed, Taken
<1>9. HeldDistinct'
  BY <1>1 DEF HeldDistinct, Held, Claimed, Taken
<1>10. ReadIndexStale'
  BY <1>1 DEF ReadIndexStale
<1>11. ClaimSound'
  BY <1>1, <1>4, <1>5, Offsets DEF ClaimSound
<1>12. CountCoversAll'
  <2>1. \A u \in Threads : Sub(back, idx[u]) \in Nat
    BY Distance
  <2> QED BY <1>1, <1>4, <1>5, <2>1, Offsets DEF CountCoversAll, CountResult
<1> QED BY <1>6, <1>8, <1>9, <1>10, <1>11, <1>12

\* Init on an idle queue.
LEMMA ReinitStep == Inv /\ Reinit => Inv'
<1> SUFFICES ASSUME Inv, Reinit PROVE Inv'
  OBVIOUS
<1>1. TypeOK'
  BY TypeStep DEF Inv, Next
<1>2. Sub(Seed, Seed) = 0
  BY SeedAssumption, Distance DEF Dword
<1> QED
  BY <1>1, <1>2, CapacityAssumption
     DEF Inv, Reinit, IndexOrder, HeldInRange, HeldDistinct, Held, Claimed, Taken,
         ReadIndexStale, ClaimSound, CountCoversAll

\* Inv is inductive.
LEMMA InvStep == Inv /\ [Next]_vars => Inv'
<1> SUFFICES ASSUME Inv, [Next]_vars PROVE Inv'
  OBVIOUS
<1>1. TypeOK'
  BY TypeStep DEF Inv
<1> USE DEF Goto, Return
<1>2. CASE UNCHANGED vars
  BY <1>2
     DEF vars, Inv, TypeOK, IndexOrder, HeldInRange, HeldDistinct, Held, Claimed, Taken,
         ReadIndexStale, ClaimSound, CountCoversAll, CountResult
<1>3. CASE Reinit
  BY <1>3, ReinitStep
<1>4. ASSUME NEW t \in Threads, NEW x \in Items, PushBegin(t, x) PROVE Inv'
  BY <1>1, <1>4, QuietStep DEF PushBegin, Inv, TypeOK
<1>5. ASSUME NEW t \in Threads, PopBegin(t) PROVE Inv'
  BY <1>1, <1>5, QuietStep DEF PopBegin, Inv, TypeOK
<1>6. ASSUME NEW t \in Threads, CountReadFront(t) PROVE Inv'
  BY <1>1, <1>6, QuietStep DEF CountReadFront, Inv, TypeOK
<1>7. ASSUME NEW t \in Threads, CountReadBack(t) PROVE Inv'
  BY <1>1, <1>7, QuietStep DEF CountReadBack, Inv, TypeOK
<1>8. ASSUME NEW t \in Threads, Push(t) PROVE Inv'
  <2>1. CASE PushReadBack(t)
    BY <1>1, <2>1, QuietStep DEF PushReadBack, Inv, TypeOK
  <2>2. CASE PushFull(t)
    BY <1>1, <2>2, QuietStep DEF PushFull, Inv, TypeOK
  <2>3. CASE PushReadFront(t)
    BY <1>1, <2>3, QuietStep DEF PushReadFront, Inv, TypeOK, indices
  <2>4. CASE PushClaim(t)
    BY <1>1, <2>4, PushClaimStep
  <2>5. CASE PushRetry(t)
    BY <1>1, <2>5, QuietStep DEF PushRetry, Inv, TypeOK
  <2>6. CASE PushStore(t)
    BY <1>1, <2>6, QuietStep DEF PushStore, Inv, TypeOK
  <2>7. CASE PushPublish(t)
    BY <1>1, <2>7, PushPublishStep
  <2> QED BY <1>8, <2>1, <2>2, <2>3, <2>4, <2>5, <2>6, <2>7 DEF Push
<1>9. ASSUME NEW t \in Threads, Pop(t) PROVE Inv'
  <2>1. CASE PopReadRead(t)
    BY <1>1, <2>1, QuietStep DEF PopReadRead, Inv, TypeOK
  <2>2. CASE PopNoData(t)
    BY <1>1, <2>2, QuietStep DEF PopNoData, Inv, TypeOK
  <2>3. CASE PopReadWrite(t)
    BY <1>1, <2>3, QuietStep DEF PopReadWrite, Inv, TypeOK
  <2>4. CASE PopClaim(t)
    BY <1>1, <2>4, PopClaimStep
  <2>5. CASE PopRetry(t)
    BY <1>1, <2>5, QuietStep DEF PopRetry, Inv, TypeOK
  <2>6. CASE PopLoad(t)
    BY <1>1, <2>6, QuietStep DEF PopLoad, Inv, TypeOK
  <2>7. CASE PopFree(t)
    BY <1>1, <2>7, PopFreeStep
  <2> QED BY <1>9, <2>1, <2>2, <2>3, <2>4, <2>5, <2>6, <2>7 DEF Pop
<1> QED BY <1>2, <1>3, <1>4, <1>5, <1>6, <1>7, <1>8, <1>9 DEF Next

\* Inv is an invariant of the queue.
LEMMA QueueInvariant == Spec => []Inv
BY InitInv, InvStep, PTL DEF Spec

-----------------------------------------------------------------------------
(* What follows from it                                                    *)

\* The four indices keep their types whatever Push, Pop, Count and Init do.
THEOREM QueueTypes == Spec => []TypeOK
<1>1. Inv => TypeOK
  BY DEF Inv
<1> QED BY QueueInvariant, <1>1, PTL

\* front, read, write and back stay in that order and within Capacity of each
\* other, for every capacity, index width and number of threads.
THEOREM QueueIndexOrder == Spec => []IndexOrder
<1>1. Inv => IndexOrder
  BY DEF Inv
<1> QED BY QueueInvariant, <1>1, PTL

\* Slots that two threads hold are different.
LEMMA HeldSlotsDiffer ==
  ASSUME TypeOK, IndexOrder, HeldInRange, HeldDistinct,
         NEW t \in Held, NEW u \in Held, t # u
  PROVE  Slot(idx[t]) # Slot(idx[u])
<1>1. t \in Threads /\ u \in Threads /\ idx[t] # idx[u]
  BY DEF Held, HeldDistinct
<1>2. idx[t] \in Dword /\ idx[u] \in Dword /\ front \in Dword
  BY <1>1 DEF TypeOK
<1>3. Sub(idx[t], front) \in Nat /\ Sub(idx[u], front) \in Nat
  BY <1>2, Distance
<1>4. Sub(idx[t], front) < Capacity /\ Sub(idx[u], front) < Capacity
  BY <1>1, <1>3, Offsets DEF Held, HeldInRange
<1> QED BY <1>1, <1>2, <1>4, RingSlotsDiffer

\* No two threads are ever at one element of m_vecItems.
THEOREM QueueSlotExclusive == Spec => []SlotExclusive
<1>1. Inv => SlotExclusive
  BY HeldSlotsDiffer DEF Inv, SlotExclusive, Held, Claimed, Taken
<1> QED BY QueueInvariant, <1>1, PTL

\* Count is never below the number of occupied slots, whatever runs between its
\* two reads.
THEOREM QueueCountCoversAll == Spec => []CountCoversAll
<1>1. Inv => CountCoversAll
  BY DEF Inv
<1> QED BY QueueInvariant, <1>1, PTL

=============================================================================
