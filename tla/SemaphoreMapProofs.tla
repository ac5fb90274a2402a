-------------------------- MODULE SemaphoreMapProofs --------------------------
(***************************************************************************)
(* The table in shared memory stays sound, counts what is open, keeps the  *)
(* marks of the owners and leaves nothing behind, for any finite set of    *)
(* processes and of names, any bound on the handles and both regimes.      *)
(*                                                                         *)
(* The table is described by three things no variable holds:               *)
(*   e        the number of its entries, all in front (Packed)             *)
(*   home[k]  the name in whose list block k is, NoName for a free block   *)
(*   pos[k]   a number that grows along each list, so that a walk along    *)
(*            nNext ends (Heap)                                            *)
(* Every action changes them as it changes the table: a new block takes    *)
(* its name and a number behind the last, a deleted one gives its name     *)
(* back.  Over them stand what is counted (Counts), what a process in the  *)
(* middle of an operation has found or left (Stages) and what the dead may *)
(* have left half done (Torn); beside them who may be where (Control) and  *)
(* which names are linked (Links).  IInv is all of it.                     *)
(***************************************************************************)
EXTENDS SemaphoreMap, FiniteSetTheorems, TLAPS

-----------------------------------------------------------------------------
(* Induction over the naturals, with the property given as a set: from     *)
(* the well-foundedness of the strict subset ordering of finite sets.  By  *)
(* it the function of Walk, a CHOOSE, exists and is the only one.          *)

\* Every set of naturals that is not empty has a least element.
LEMMA Least ==
  ASSUME NEW T \in SUBSET Nat, T # {}
  PROVE  \E x \in T : \A y \in T : x <= y
<1> DEFINE F == {0 .. n : n \in T}
<1>1. F \subseteq FiniteSubsetsOf(Nat) /\ F # {}
  <2>1. \A n \in T : 0 .. n \in SUBSET Nat /\ IsFiniteSet(0 .. n)
    BY FS_Interval
  <2> QED BY <2>1 DEF FiniteSubsetsOf
<1>2. IsWellFoundedOn(StrictSubsetOrdering(Nat), FiniteSubsetsOf(Nat))
  BY FS_StrictSubsetOrderingWellFounded
<1> HIDE DEF F
<1>3. PICK s \in F : \A r \in F : <<r, s>> \notin StrictSubsetOrdering(Nat)
  BY <1>1, <1>2, WFMin
<1>4. PICK x \in T : s = 0 .. x
  BY <1>3 DEF F
<1>5. ASSUME NEW y \in T, y < x PROVE FALSE
  <2>1. 0 .. y \in F
    BY DEF F
  <2>2. <<0 .. y, 0 .. x>> \in StrictSubsetOrdering(Nat)
    <3>1. 0 .. y \subseteq 0 .. x /\ x \in 0 .. x /\ x \notin 0 .. y
      BY <1>5
    <3>2. 0 .. y \in SUBSET Nat /\ 0 .. x \in SUBSET Nat
      OBVIOUS
    <3> QED BY <3>1, <3>2 DEF StrictSubsetOrdering
  <2> QED BY <1>3, <1>4, <2>1, <2>2
<1> QED BY <1>4, <1>5

\* A set that contains 0 and the successor of each of its naturals contains them all.
LEMMA Induction ==
  ASSUME NEW S, 0 \in S, \A n \in Nat : n \in S => n + 1 \in S
  PROVE  \A n \in Nat : n \in S
<1> SUFFICES ASSUME Nat \ S # {} PROVE FALSE
  OBVIOUS
<1>1. PICK x \in Nat \ S : \A y \in Nat \ S : x <= y
  BY Least, Nat \ S \in SUBSET Nat
<1>2. x # 0 /\ x - 1 \in Nat /\ (x - 1) + 1 = x
  BY <1>1
<1>3. x - 1 \in S
  BY <1>1, <1>2
<1> QED BY <1>1, <1>2, <1>3

\* The number of blocks.
Max2 == Cardinality(Procs) * Cardinality(Names)
\* w is a function of the form that Walk(k) chooses.
Walks(w, k) == w = [d \in 0 .. Cardinality(Blocks) |->
                      IF d = 0 THEN k ELSE IF w[d - 1] = 0 THEN 0 ELSE ref[w[d - 1]].nNext]

\* The blocks and entries are finitely many, and 0 is no block.
LEMMA Sizes ==
  /\ Cardinality(Procs) \in Nat /\ Cardinality(Names) \in Nat /\ Max2 \in Nat
  /\ Blocks = 1 .. Max2 /\ IsFiniteSet(Blocks) /\ Cardinality(Blocks) = Max2
  /\ LastEntry = Cardinality(Names) /\ 0 \notin Blocks
<1>1. Cardinality(Procs) \in Nat /\ Cardinality(Names) \in Nat
  BY FinitenessAssumption, FS_CardinalityType
<1>2. Max2 \in Nat
  BY <1>1 DEF Max2
<1>3. Blocks = 1 .. Max2
  BY DEF Blocks, Max2
<1>4. IsFiniteSet(1 .. Max2) /\ Cardinality(1 .. Max2) = Max2
  BY <1>2, FS_Interval
<1> QED BY <1>1, <1>2, <1>3, <1>4 DEF LastEntry

\* Min of a set of naturals is its least element.
LEMMA MinIs ==
  ASSUME NEW T \in SUBSET Nat, T # {}
  PROVE  Min(T) \in T /\ \A y \in T : Min(T) <= y
<1>1. \E x \in T : \A y \in T : x <= y
  BY Least
<1> QED BY <1>1 DEF Min

\* The function of Walk exists, is unique, and steps along nNext.
LEMMA WalkExists ==
  ASSUME NEW k \in Blocks \cup {0}, \A j \in Blocks : ref[j].nNext \in Blocks \cup {0}
  PROVE  \E w \in [0 .. Max2 -> Blocks \cup {0}] : Walks(w, k)
<1> DEFINE B == Blocks \cup {0}
           W(w, n) == w = [d \in 0 .. n |-> IF d = 0 THEN k ELSE IF w[d - 1] = 0 THEN 0 ELSE ref[w[d - 1]].nNext]
           S == {n \in Nat : \E w \in [0 .. n -> B] : W(w, n)}
<1>1. 0 \in S
  <2> DEFINE w == [d \in 0 .. 0 |-> k]
  <2>1. w \in [0 .. 0 -> B]
    OBVIOUS
  <2>2. W(w, 0)
    OBVIOUS
  <2> QED BY <2>1, <2>2
<1>2. ASSUME NEW n \in Nat, n \in S PROVE n + 1 \in S
  <2>1. PICK w \in [0 .. n -> B] : W(w, n)
    BY <1>2
  <2> DEFINE last == IF w[n] = 0 THEN 0 ELSE ref[w[n]].nNext
             v == [d \in 0 .. n + 1 |-> IF d = n + 1 THEN last ELSE w[d]]
  <2>2. last \in B
    OBVIOUS
  <2>3. v \in [0 .. n + 1 -> B]
    BY <2>2
  <2>4. ASSUME NEW d \in 0 .. n
        PROVE  w[d] = IF d = 0 THEN k ELSE IF w[d - 1] = 0 THEN 0 ELSE ref[w[d - 1]].nNext
    BY <2>1
  <2>5. ASSUME NEW d \in 0 .. n + 1
        PROVE  v[d] = IF d = 0 THEN k ELSE IF v[d - 1] = 0 THEN 0 ELSE ref[v[d - 1]].nNext
    <3>1. CASE d = n + 1
      <4>1. v[d] = last /\ v[d - 1] = w[n] /\ d # 0 /\ n \in 0 .. n /\ d - 1 = n
        BY <3>1
      <4> HIDE DEF v
      <4> QED BY <4>1
    <3>2. CASE d # n + 1
      <4>1. d \in 0 .. n /\ v[d] = w[d] /\ (d # 0 => d - 1 \in 0 .. n /\ v[d - 1] = w[d - 1])
        BY <3>2
      <4> HIDE DEF v
      <4> QED BY <2>4, <4>1
    <3> QED BY <3>1, <3>2
  <2>6. W(v, n + 1)
    <3>1. v = [d \in 0 .. n + 1 |-> v[d]]
      OBVIOUS
    <3> HIDE DEF v
    <3> QED BY <2>5, <3>1
  <2> HIDE DEF v, W, B
  <2>7. \E u \in [0 .. n + 1 -> B] : W(u, n + 1)
    BY <2>3, <2>6
  <2> QED BY <2>7
<1>3. \A n \in Nat : n \in S => n + 1 \in S
  BY <1>2
<1> HIDE DEF S
<1>4. \A n \in Nat : n \in S
  BY <1>1, <1>3, Induction
<1>5. Max2 \in S
  BY <1>4, Sizes
<1> QED BY <1>5, Sizes DEF S, Walks

\* Two walks from the same block are the same.
LEMMA WalksUnique ==
  ASSUME NEW k, NEW v, NEW w, Walks(v, k), Walks(w, k)
  PROVE  v = w
<1>0. Cardinality(Blocks) = Max2 /\ Max2 \in Nat
  BY Sizes
<1>1. /\ v = [d \in 0 .. Max2 |-> IF d = 0 THEN k ELSE IF v[d - 1] = 0 THEN 0 ELSE ref[v[d - 1]].nNext]
      /\ w = [d \in 0 .. Max2 |-> IF d = 0 THEN k ELSE IF w[d - 1] = 0 THEN 0 ELSE ref[w[d - 1]].nNext]
  BY <1>0 DEF Walks
<1> DEFINE S == {d \in Nat : d \in 0 .. Max2 => v[d] = w[d]}
<1>2. 0 \in S
  BY <1>0, <1>1
<1>3. ASSUME NEW d \in Nat, d \in S PROVE d + 1 \in S
  <2> SUFFICES ASSUME d + 1 \in 0 .. Max2 PROVE v[d + 1] = w[d + 1]
    OBVIOUS
  <2>1. v[d] = w[d] /\ (d + 1) - 1 = d /\ d + 1 # 0
    BY <1>0, <1>3
  <2>2. v[d + 1] = IF v[d] = 0 THEN 0 ELSE ref[v[d]].nNext
    BY <1>1, <2>1
  <2>3. w[d + 1] = IF w[d] = 0 THEN 0 ELSE ref[w[d]].nNext
    BY <1>1, <2>1
  <2> QED BY <2>1, <2>2, <2>3
<1>4. \A d \in Nat : d \in S => d + 1 \in S
  BY <1>3
<1> HIDE DEF S
<1>5. \A d \in Nat : d \in S
  BY <1>2, <1>4, Induction
<1>6. \A d \in 0 .. Max2 : v[d] = w[d]
  BY <1>0, <1>5 DEF S
<1> QED BY <1>1, <1>6

\* Walk starts at its block and follows nNext; behind the end of the list it stays at 0.
LEMMA WalkIs ==
  ASSUME NEW k \in Blocks \cup {0}, \A j \in Blocks : ref[j].nNext \in Blocks \cup {0}
  PROVE  /\ Walk(k) \in [0 .. Max2 -> Blocks \cup {0}]
         /\ Walk(k)[0] = k
         /\ \A d \in Nat : d + 1 \in 0 .. Max2 =>
              Walk(k)[d + 1] = IF Walk(k)[d] = 0 THEN 0 ELSE ref[Walk(k)[d]].nNext
<1>1. PICK w \in [0 .. Max2 -> Blocks \cup {0}] : Walks(w, k)
  BY WalkExists
<1> DEFINE g == CHOOSE v : Walks(v, k)
<1>2. Walks(g, k)
  BY <1>1
<1>3. g = w
  BY <1>1, <1>2, WalksUnique
<1>4. Walk(k) = g
  BY Zenon DEF Walk, Walks
<1>5. w = [d \in 0 .. Max2 |-> IF d = 0 THEN k ELSE IF w[d - 1] = 0 THEN 0 ELSE ref[w[d - 1]].nNext]
  BY <1>1, Sizes DEF Walks
<1> HIDE DEF g
<1>6. w[0] = k
  BY <1>5, Sizes
<1>7. ASSUME NEW d \in Nat, d + 1 \in 0 .. Max2
      PROVE  w[d + 1] = IF w[d] = 0 THEN 0 ELSE ref[w[d]].nNext
  <2>1. (d + 1) - 1 = d /\ d + 1 # 0
    OBVIOUS
  <2> QED BY <1>5, <1>7, <2>1
<1> QED BY <1>1, <1>3, <1>4, <1>6, <1>7

-----------------------------------------------------------------------------
(* The table as e, home and pos describe it, and what the helpers return   *)
(* on such a table.                                                        *)

\* Some entry has the name.
HasEntry(n) == \E i \in 0 .. LastEntry : sem[i].szName = n

\* The table is entries 0 .. e - 1, with names of their own, and nothing behind them.
Packed(e) ==
  /\ e \in 0 .. LastEntry
  /\ \A i \in 0 .. LastEntry : /\ i < e => sem[i].szName \in Names
                               /\ i >= e => sem[i] = NoEntry
  /\ \A i, j \in 0 .. LastEntry : sem[i].szName = sem[j].szName /\ sem[i].szName # NoName => i = j

\* home[k] is the name whose list block k is in, NoName for a block not in use; pos
\* grows along each list.
Heap(home, pos) ==
  /\ home \in [Blocks -> Names \cup {NoName}] /\ pos \in [Blocks -> Nat]
  /\ \A k \in Blocks : home[k] = NoName => ref[k] = NoRef
  /\ \A k \in Blocks : home[k] # NoName => ref[k].nPID \in Procs
  /\ \A k \in Blocks : home[k] # NoName =>
       \E i \in 0 .. LastEntry : sem[i].szName = home[k] /\ (ref[k].nPrev = 0 => sem[i].nFirst = k)
  /\ \A k, j \in Blocks : home[k] # NoName /\ ref[k].nNext = j =>
       home[j] = home[k] /\ ref[j].nPrev = k /\ pos[k] < pos[j]
  /\ \A k, j \in Blocks : home[k] # NoName /\ ref[k].nPrev = j =>
       home[j] = home[k] /\ ref[j].nNext = k
  /\ \A i \in 0 .. LastEntry, k \in Blocks : sem[i].nFirst = k =>
       home[k] # NoName /\ home[k] = sem[i].szName /\ ref[k].nPrev = 0
  /\ \A k, j \in Blocks : home[k] = home[j] /\ home[k] # NoName /\ ref[k].nPID = ref[j].nPID => k = j

\* The types of an entry and of a block.
LEMMA TableTypes ==
  ASSUME TypeOK
  PROVE  /\ \A i \in 0 .. LastEntry : /\ sem[i].szName \in Names \cup {NoName}
                                      /\ sem[i].nFirst \in Blocks \cup {0}
                                      /\ sem[i].nOwnerPID \in Procs \cup {NoPid}
         /\ \A k \in Blocks : /\ ref[k].nPID \in Procs \cup {NoPid} /\ ref[k].nValue \in 0 .. MaxOpen
                              /\ ref[k].nPrev \in Blocks \cup {0} /\ ref[k].nNext \in Blocks \cup {0}
BY DEF TypeOK, Block

\* The entries, their number and FindSemData, on a packed table.
LEMMA EntriesAre ==
  ASSUME NEW e, TypeOK, Packed(e)
  PROVE  /\ Entries = 0 .. e - 1 /\ EndIndex = e /\ e \in Nat /\ LastEntry \in Nat /\ e <= LastEntry
         /\ \A n \in Names : FindSemData(n) = {i \in 0 .. LastEntry : sem[i].szName = n}
<1>1. e \in Nat /\ LastEntry \in Nat /\ e <= LastEntry
  BY Sizes DEF Packed
<1>2. \A i \in 0 .. LastEntry : sem[i].szName # NoName <=> i < e
  BY <1>1, NullAssumption DEF Packed, NoEntry
<1>3. Entries = 0 .. e - 1
  <2>1. ASSUME NEW i \in 0 .. LastEntry PROVE (\A j \in 0 .. i : sem[j].szName # NoName) <=> i < e
    BY <1>1, <1>2
  <2> QED BY <1>1, <2>1 DEF Entries
<1>4. EndIndex = e
  <2>1. Cardinality(0 .. e - 1) = e
    BY <1>1, FS_Interval
  <2> QED BY <1>3, <2>1 DEF EndIndex
<1>5. ASSUME NEW n \in Names PROVE FindSemData(n) = {i \in 0 .. LastEntry : sem[i].szName = n}
  <2>1. n # NoName
    BY NullAssumption
  <2>2. ASSUME NEW i \in 0 .. LastEntry, sem[i].szName = n
        PROVE  i \in 0 .. e - 1 /\ \A j \in 0 .. i - 1 : sem[j].szName # n
    BY <1>1, <1>2, <2>1, <2>2 DEF Packed
  <2> QED BY <1>1, <1>3, <2>2 DEF FindSemData
<1> QED BY <1>1, <1>3, <1>4, <1>5

\* A name that has no entry finds room for one.
LEMMA RoomForEntry ==
  ASSUME NEW e, TypeOK, Packed(e), NEW n \in Names, ~HasEntry(n)
  PROVE  e < LastEntry
<1>1. e \in Nat /\ LastEntry = Cardinality(Names) /\ LastEntry \in Nat /\ e <= LastEntry
  BY Sizes, EntriesAre
<1> DEFINE f == [i \in 0 .. e - 1 |-> sem[i].szName]
<1>2. f \in Injection(0 .. e - 1, Names \ {n})
  <2>1. ASSUME NEW i \in 0 .. e - 1 PROVE i \in 0 .. LastEntry /\ sem[i].szName \in Names \ {n}
    BY <1>1 DEF Packed, HasEntry
  <2>2. ASSUME NEW i \in 0 .. e - 1, NEW j \in 0 .. e - 1, f[i] = f[j] PROVE i = j
    BY <2>1, <2>2, NullAssumption DEF Packed
  <2>3. f \in [0 .. e - 1 -> Names \ {n}]
    BY <2>1
  <2> HIDE DEF f
  <2> QED BY <2>2, <2>3 DEF Injection, IsInjective
<1>3. IsFiniteSet(Names \ {n}) /\ Cardinality(Names \ {n}) = Cardinality(Names) - 1
  BY FinitenessAssumption, FS_RemoveElement
<1>4. Cardinality(0 .. e - 1) = e
  BY <1>1, FS_Interval
<1> HIDE DEF f
<1>5. Cardinality(0 .. e - 1) <= Cardinality(Names \ {n})
  BY <1>2, <1>3, FS_Injection
<1> QED BY <1>1, <1>3, <1>4, <1>5

\* A walk along the list of a name only meets blocks of that name, at growing positions.
LEMMA WalkStays ==
  ASSUME TypeOK, NEW home, NEW pos, Heap(home, pos), NEW k \in Blocks \cup {0}, NEW n \in Names,
         k # 0 => home[k] = n
  PROVE  /\ Walk(k) \in [0 .. Max2 -> Blocks \cup {0}] /\ Walk(k)[0] = k
         /\ \A d \in 0 .. Max2 : Walk(k)[d] # 0 => home[Walk(k)[d]] = n
         /\ \A d \in 0 .. Max2 : Walk(k)[d] # 0 =>
              \A c \in 0 .. Max2 : c < d => Walk(k)[c] # 0 /\ pos[Walk(k)[c]] < pos[Walk(k)[d]]
<1> DEFINE w == Walk(k)
<1>1. /\ w \in [0 .. Max2 -> Blocks \cup {0}] /\ w[0] = k
      /\ \A d \in Nat : d + 1 \in 0 .. Max2 => w[d + 1] = IF w[d] = 0 THEN 0 ELSE ref[w[d]].nNext
  BY TableTypes, WalkIs
<1>2. Max2 \in Nat /\ 0 \notin Blocks /\ n # NoName
  BY Sizes, NullAssumption
<1> HIDE DEF w
<1> DEFINE P(d) == w[d] # 0 => /\ home[w[d]] = n
                               /\ \A c \in 0 .. Max2 : c < d => w[c] # 0 /\ pos[w[c]] < pos[w[d]]
           S == {d \in Nat : d \in 0 .. Max2 => P(d)}
<1>3. 0 \in S
  BY <1>1
<1>4. ASSUME NEW d \in Nat, d \in S PROVE d + 1 \in S
  <2> SUFFICES ASSUME d + 1 \in 0 .. Max2, w[d + 1] # 0 PROVE P(d + 1)
    OBVIOUS
  <2>1. d \in 0 .. Max2 /\ d < d + 1
    BY <1>2
  <2>2. w[d] # 0 /\ w[d + 1] = ref[w[d]].nNext
    BY <1>1
  <2>3. home[w[d]] = n /\ \A c \in 0 .. Max2 : c < d => w[c] # 0 /\ pos[w[c]] < pos[w[d]]
    BY <1>4, <2>1, <2>2
  <2>4. w[d] \in Blocks /\ w[d + 1] \in Blocks
    BY <1>1, <2>1, <2>2
  <2>5. home[w[d + 1]] = n /\ pos[w[d]] < pos[w[d + 1]]
    BY <1>2, <2>2, <2>3, <2>4 DEF Heap
  <2>6. ASSUME NEW c \in 0 .. Max2, c < d + 1 PROVE w[c] # 0 /\ pos[w[c]] < pos[w[d + 1]]
    <3>1. CASE c = d
      BY <2>2, <2>5, <3>1
    <3>2. CASE c # d
      <4>1. c < d
        BY <2>6, <3>2
      <4>2. w[c] # 0 /\ pos[w[c]] < pos[w[d]]
        BY <2>3, <4>1
      <4>3. w[c] \in Blocks
        BY <1>1, <4>2
      <4>4. pos[w[c]] \in Nat /\ pos[w[d]] \in Nat /\ pos[w[d + 1]] \in Nat
        BY <2>4, <4>3 DEF Heap
      <4> QED BY <2>5, <4>2, <4>4
    <3> QED BY <3>1, <3>2
  <2> QED BY <2>5, <2>6
<1>5. \A d \in Nat : d \in S => d + 1 \in S
  BY <1>4
<1> HIDE DEF S
<1>6. \A d \in Nat : d \in S
  BY <1>3, <1>5, Induction
<1>7. \A d \in 0 .. Max2 : P(d)
  BY <1>2, <1>6 DEF S
<1> QED BY <1>1, <1>7 DEF w

\* A walk that still is at a block has not used up its distances.
LEMMA WalkEnds ==
  ASSUME TypeOK, NEW home, NEW pos, Heap(home, pos), NEW k \in Blocks \cup {0}, NEW n \in Names,
         k # 0 => home[k] = n
  PROVE  Walk(k)[Max2] = 0
<1> SUFFICES ASSUME Walk(k)[Max2] # 0 PROVE FALSE
  OBVIOUS
<1> DEFINE w == Walk(k)
<1>1. /\ w \in [0 .. Max2 -> Blocks \cup {0}]
      /\ \A d \in 0 .. Max2 : w[d] # 0 => \A c \in 0 .. Max2 : c < d => w[c] # 0 /\ pos[w[c]] < pos[w[d]]
  BY WalkStays
<1>2. Max2 \in Nat /\ IsFiniteSet(Blocks) /\ Cardinality(Blocks) = Max2 /\ Max2 \in 0 .. Max2
  BY Sizes
<1>3. w[Max2] # 0
  OBVIOUS
<1> HIDE DEF w
<1>4. \A d \in 0 .. Max2 : w[d] # 0
  BY <1>1, <1>2, <1>3
<1>5. w \in Injection(0 .. Max2, Blocks)
  <2>1. w \in [0 .. Max2 -> Blocks]
    BY <1>1, <1>4
  <2>2. ASSUME NEW c \in 0 .. Max2, NEW d \in 0 .. Max2, w[c] = w[d] PROVE c = d
    <3>1. pos[w[c]] \in Nat /\ pos[w[c]] = pos[w[d]]
      BY <2>1, <2>2 DEF Heap
    <3>2. ~(c < d) /\ ~(d < c)
      BY <1>1, <1>4, <3>1
    <3> QED BY <1>2, <3>2
  <2> QED BY <2>1, <2>2 DEF Injection, IsInjective
<1>6. Cardinality(0 .. Max2) = Max2 + 1
  BY <1>2, FS_Interval
<1>7. Cardinality(0 .. Max2) <= Cardinality(Blocks)
  BY <1>2, <1>5, FS_Injection
<1> QED BY <1>2, <1>6, <1>7

\* Every block of a name is met on the walk from its first one.
LEMMA Reached ==
  ASSUME TypeOK, NEW e, Packed(e), NEW home, NEW pos, Heap(home, pos), NEW i \in 0 .. LastEntry,
         sem[i].szName # NoName, NEW k \in Blocks, home[k] = sem[i].szName
  PROVE  \E d \in 0 .. Max2 : Walk(sem[i].nFirst)[d] = k
<1> DEFINE n == sem[i].szName
           f == sem[i].nFirst
           Bad == {j \in Blocks : home[j] = n /\ \A d \in 0 .. Max2 : Walk(f)[d] # j}
           T == {pos[j] : j \in Bad}
<1> SUFFICES ASSUME k \in Bad PROVE FALSE
  OBVIOUS
<1>1. n \in Names /\ f \in Blocks \cup {0} /\ n # NoName /\ Max2 \in Nat /\ 0 \notin Blocks
  BY TableTypes, Sizes
<1>2. f # 0 => home[f] = n
  BY <1>1 DEF Heap
<1>3. /\ Walk(f) \in [0 .. Max2 -> Blocks \cup {0}] /\ Walk(f)[0] = f
      /\ \A d \in Nat : d + 1 \in 0 .. Max2 =>
           Walk(f)[d + 1] = IF Walk(f)[d] = 0 THEN 0 ELSE ref[Walk(f)[d]].nNext
  BY <1>1, TableTypes, WalkIs
<1>4. Walk(f)[Max2] = 0
  BY <1>1, <1>2, WalkEnds
<1>5. T \in SUBSET Nat /\ T # {}
  BY DEF Heap
<1>6. PICK x \in T : \A y \in T : x <= y
  BY <1>5, Least
<1>7. PICK j \in Bad : pos[j] = x
  BY <1>6
<1>8. j \in Blocks /\ home[j] = n /\ \A d \in 0 .. Max2 : Walk(f)[d] # j
  BY <1>7
<1>9. ref[j].nPrev # 0
  <2> SUFFICES ASSUME ref[j].nPrev = 0 PROVE FALSE
    OBVIOUS
  <2>1. PICK m \in 0 .. LastEntry : sem[m].szName = home[j] /\ sem[m].nFirst = j
    BY <1>1, <1>8 DEF Heap
  <2>2. m = i
    BY <1>1, <1>8, <2>1 DEF Packed
  <2> QED BY <1>1, <1>3, <1>8, <2>1, <2>2
<1>10. PICK m \in Blocks : m = ref[j].nPrev
  BY <1>8, <1>9, TableTypes
<1>11. home[m] = n /\ ref[m].nNext = j /\ pos[m] < pos[j]
  BY <1>1, <1>8, <1>10 DEF Heap
<1>12. m \notin Bad
  <2>1. pos[m] \in Nat /\ pos[j] \in Nat
    BY <1>8 DEF Heap
  <2> QED BY <1>6, <1>7, <1>11, <2>1
<1>13. PICK d \in 0 .. Max2 : Walk(f)[d] = m
  BY <1>11, <1>12
<1> HIDE DEF n, f, Bad, T
<1>14. d # Max2 /\ d + 1 \in 0 .. Max2 /\ d \in Nat /\ m # 0
  BY <1>1, <1>4, <1>13
<1>15. Walk(f)[d + 1] = j
  BY <1>3, <1>11, <1>13, <1>14
<1> QED BY <1>8, <1>14, <1>15

\* The list of an entry is the blocks of its name.
LEMMA ChainIs ==
  ASSUME TypeOK, NEW e, Packed(e), NEW home, NEW pos, Heap(home, pos), NEW i \in 0 .. LastEntry
  PROVE  Chain(sem[i].nFirst) = {k \in Blocks : home[k] # NoName /\ home[k] = sem[i].szName}
<1> DEFINE f == sem[i].nFirst
<1>0. Max2 \in Nat /\ 0 \notin Blocks /\ Cardinality(Blocks) = Max2 /\ f \in Blocks \cup {0}
  BY Sizes, TableTypes
<1>1. CASE sem[i].szName = NoName
  <2>1. f = 0
    BY <1>0, <1>1 DEF Heap
  <2>2. /\ Walk(0) \in [0 .. Max2 -> Blocks \cup {0}] /\ Walk(0)[0] = 0
        /\ \A d \in Nat : d + 1 \in 0 .. Max2 =>
             Walk(0)[d + 1] = IF Walk(0)[d] = 0 THEN 0 ELSE ref[Walk(0)[d]].nNext
    BY TableTypes, WalkIs
  <2> DEFINE w == Walk(0)
             S == {d \in Nat : d \in 0 .. Max2 => w[d] = 0}
  <2> HIDE DEF w
  <2>3. 0 \in S
    BY <2>2 DEF w
  <2>4. \A d \in Nat : d \in S => d + 1 \in S
    BY <1>0, <2>2 DEF w
  <2> HIDE DEF S
  <2>5. \A d \in Nat : d \in S
    BY <2>3, <2>4, Induction
  <2>6. \A d \in 0 .. Max2 : w[d] = 0
    BY <1>0, <2>5 DEF S
  <2>7. Chain(0) = {}
    BY <1>0, <2>6 DEF Chain, w
  <2> QED BY <1>1, <2>1, <2>7
<1>2. CASE sem[i].szName # NoName
  <2>1. sem[i].szName \in Names
    BY <1>2, TableTypes
  <2>2. f # 0 => home[f] = sem[i].szName
    BY <1>0 DEF Heap
  <2>3. /\ Walk(f) \in [0 .. Max2 -> Blocks \cup {0}]
        /\ \A d \in 0 .. Max2 : Walk(f)[d] # 0 => home[Walk(f)[d]] = sem[i].szName
    BY <1>0, <2>1, <2>2, WalkStays
  <2>4. \A k \in Blocks : home[k] = sem[i].szName => \E d \in 0 .. Max2 : Walk(f)[d] = k
    BY <1>2, Reached
  <2> HIDE DEF f
  <2>5. Chain(f) = {k \in Blocks : home[k] = sem[i].szName}
    BY <1>0, <2>3, <2>4 DEF Chain
  <2> QED BY <1>2, <2>5 DEF f
<1> QED BY <1>1, <1>2

\* FindRefCount returns the block of a process in a list, or 0 when there is none.
LEMMA FindRefCountIs ==
  ASSUME TypeOK, NEW e, Packed(e), NEW home, NEW pos, Heap(home, pos), NEW i \in 0 .. LastEntry,
         NEW p \in Procs
  PROVE  \/ /\ FindRefCount(sem[i].nFirst, p) = 0
            /\ \A k \in Blocks : home[k] # NoName /\ home[k] = sem[i].szName => ref[k].nPID # p
         \/ /\ FindRefCount(sem[i].nFirst, p) \in Blocks
            /\ home[FindRefCount(sem[i].nFirst, p)] # NoName
            /\ home[FindRefCount(sem[i].nFirst, p)] = sem[i].szName
            /\ ref[FindRefCount(sem[i].nFirst, p)].nPID = p
<1> DEFINE w == Walk(sem[i].nFirst)
           met == {d \in DOMAIN w : w[d] # 0 /\ ref[w[d]].nPID = p}
           r == FindRefCount(sem[i].nFirst, p)
<1>0. Max2 \in Nat /\ 0 \notin Blocks /\ Cardinality(Blocks) = Max2 /\ sem[i].nFirst \in Blocks \cup {0}
  BY Sizes, TableTypes
<1>1. w \in [0 .. Max2 -> Blocks \cup {0}] /\ DOMAIN w = 0 .. Max2
  BY <1>0, TableTypes, WalkIs
<1>2. r = IF met = {} THEN 0 ELSE w[Min(met)]
  BY DEF FindRefCount
<1>3. Chain(sem[i].nFirst) = {w[d] : d \in 0 .. Max2} \ {0}
  BY <1>0 DEF Chain
<1>4. {w[d] : d \in 0 .. Max2} \ {0} = {k \in Blocks : home[k] # NoName /\ home[k] = sem[i].szName}
  BY <1>3, ChainIs
<1> HIDE DEF w, r
<1>5. CASE met = {}
  BY <1>1, <1>2, <1>4, <1>5 DEF r
<1>6. CASE met # {}
  <2>1. met \in SUBSET Nat
    BY <1>0, <1>1
  <2>2. Min(met) \in met
    BY <1>6, <2>1, MinIs
  <2>3. r = w[Min(met)] /\ r \in {w[d] : d \in 0 .. Max2} \ {0} /\ ref[r].nPID = p
    BY <1>1, <1>2, <1>6, <2>2
  <2> QED BY <1>4, <2>3 DEF r
<1> QED BY <1>5, <1>6

\* A list that is not empty has one last block.
LEMMA LastBlockIs ==
  ASSUME TypeOK, NEW e, Packed(e), NEW home, NEW pos, Heap(home, pos), NEW i \in 0 .. LastEntry,
         sem[i].nFirst # 0
  PROVE  /\ LastBlock(sem[i].nFirst) \in Blocks
         /\ home[LastBlock(sem[i].nFirst)] # NoName /\ home[LastBlock(sem[i].nFirst)] = sem[i].szName
         /\ ref[LastBlock(sem[i].nFirst)].nNext = 0
<1> DEFINE f == sem[i].nFirst
           w == Walk(f)
           n == sem[i].szName
<1>0. Max2 \in Nat /\ 0 \notin Blocks /\ Cardinality(Blocks) = Max2 /\ f \in Blocks \cup {0}
  BY Sizes, TableTypes
<1>1. f \in Blocks /\ home[f] = n /\ n # NoName /\ n \in Names
  BY <1>0, TableTypes DEF Heap
<1>2. /\ w \in [0 .. Max2 -> Blocks \cup {0}] /\ w[0] = f
      /\ \A d \in Nat : d + 1 \in 0 .. Max2 => w[d + 1] = IF w[d] = 0 THEN 0 ELSE ref[w[d]].nNext
  BY <1>0, TableTypes, WalkIs
<1>3. w[Max2] = 0
  BY <1>1, WalkEnds
<1> DEFINE T == {d \in 0 .. Max2 : w[d] = 0}
<1>4. T \in SUBSET Nat /\ T # {}
  BY <1>0, <1>3
<1> HIDE DEF w
<1>5. PICK x \in T : \A y \in T : x <= y
  BY <1>4, Least
<1>6. x # 0 /\ x - 1 \in 0 .. Max2 /\ (x - 1) + 1 = x /\ x - 1 \in Nat /\ x \in 0 .. Max2 /\ w[x] = 0
  BY <1>0, <1>1, <1>2, <1>5
<1>7. w[x - 1] # 0
  BY <1>5, <1>6
<1>8. ref[w[x - 1]].nNext = 0 /\ w[x - 1] \in Chain(f)
  BY <1>0, <1>2, <1>6, <1>7 DEF Chain, w
<1>9. LastBlock(f) \in Chain(f) /\ ref[LastBlock(f)].nNext = 0
  BY <1>8 DEF LastBlock
<1> HIDE DEF f
<1>10. Chain(f) = {k \in Blocks : home[k] # NoName /\ home[k] = n}
  BY ChainIs DEF f
<1> QED BY <1>9, <1>10 DEF f

\* Some block is free for a process that has none for a name.
LEMMA FreeBlockIs ==
  ASSUME TypeOK, NEW home, NEW pos, Heap(home, pos), NEW p \in Procs, NEW n \in Names,
         \A k \in Blocks : home[k] = n => ref[k].nPID # p,
         \A k \in Blocks : home[k] # NoName => ref[k].nValue # 0
  PROVE  FreeBlock \in Blocks /\ home[FreeBlock] = NoName
<1> DEFINE Free == {k \in Blocks : ref[k].nValue <= 0}
<1>1. Blocks \in SUBSET Nat /\ IsFiniteSet(Blocks) /\ Cardinality(Blocks) = Max2 /\ Max2 \in Nat
  BY Sizes
<1>2. Free # {}
  <2> SUFFICES ASSUME Free = {} PROVE FALSE
    OBVIOUS
  <2> DEFINE f == [k \in Blocks |-> <<ref[k].nPID, home[k]>>]
             Others == (Procs \X Names) \ {<<p, n>>}
  <2>1. ASSUME NEW k \in Blocks PROVE home[k] \in Names /\ home[k] # NoName
    <3>1. home[k] # NoName
      BY <2>1, BoundAssumption DEF Heap, NoRef
    <3> QED BY <3>1 DEF Heap
  <2>2. f \in [Blocks -> Others]
    <3>1. ASSUME NEW k \in Blocks PROVE <<ref[k].nPID, home[k]>> \in Others
      BY <2>1 DEF Heap
    <3> QED BY <3>1
  <2>3. ASSUME NEW k \in Blocks, NEW j \in Blocks, f[k] = f[j] PROVE k = j
    BY <2>1, <2>3 DEF Heap
  <2> HIDE DEF f
  <2>4. f \in Injection(Blocks, Others)
    BY <2>2, <2>3 DEF Injection, IsInjective
  <2>5. IsFiniteSet(Procs \X Names) /\ Cardinality(Procs \X Names) = Max2
    BY FinitenessAssumption, FS_Product DEF Max2
  <2>6. IsFiniteSet(Others) /\ Cardinality(Others) = Max2 - 1
    <3> DEFINE All == Procs \X Names
               x == <<p, n>>
    <3>1. x \in All /\ IsFiniteSet(All) /\ Cardinality(All) = Max2
      BY <2>5
    <3> HIDE DEF All, x
    <3>2. IsFiniteSet(All \ {x}) /\ Cardinality(All \ {x}) = Max2 - 1
      BY <3>1, FS_RemoveElement
    <3> QED BY <3>2 DEF All, x
  <2> HIDE DEF Others
  <2>7. Cardinality(Blocks) <= Cardinality(Others)
    BY <2>4, <2>6, FS_Injection
  <2> QED BY <1>1, <2>6, <2>7
<1>3. Free \in SUBSET Nat
  BY <1>1
<1>4. FreeBlock \in Free
  BY <1>2, <1>3, MinIs DEF FreeBlock
<1>5. ref[FreeBlock].nValue = 0
  BY <1>4, TableTypes, BoundAssumption
<1> QED BY <1>4, <1>5 DEF Heap

-----------------------------------------------------------------------------
(* The changes of the table: a block or an entry deleted, a block or an    *)
(* entry added, a count or a mark written.                                 *)

\* What an entry may hold, and the types of the table.
Entry == [szName : Names \cup {NoName}, nFirst : Blocks \cup {0}, nOwnerPID : Procs \cup {NoPid}]
SemType == sem \in [0 .. LastEntry -> Entry]
RefType == ref \in [Blocks -> Block]

\* An entry without a first block has no blocks.
LEMMA EmptyList ==
  ASSUME TypeOK, NEW e, Packed(e), NEW home, NEW pos, Heap(home, pos), NEW i \in 0 .. LastEntry,
         sem[i].szName # NoName, sem[i].nFirst = 0, NEW k \in Blocks
  PROVE  home[k] # sem[i].szName
<1> SUFFICES ASSUME home[k] = sem[i].szName PROVE FALSE
  OBVIOUS
<1>1. sem[i].szName \in Names /\ Max2 \in Nat /\ 0 \notin Blocks
  BY TableTypes, Sizes
<1>2. PICK d \in 0 .. Max2 : Walk(0)[d] = k
  BY Reached
<1>3. /\ Walk(0)[0] = 0
      /\ \A b \in 0 .. Max2 : Walk(0)[b] # 0 => \A c \in 0 .. Max2 : c < b => Walk(0)[c] # 0
  BY <1>1, WalkStays
<1> QED BY <1>1, <1>2, <1>3

\* The block k leaves the list of entry i.
LEMMA BlockRemoved ==
  ASSUME TypeOK, NEW e, Packed(e), NEW home, NEW pos, Heap(home, pos), NEW i \in 0 .. LastEntry,
         NEW k \in Blocks, home[k] = sem[i].szName, home[k] # NoName,
         ref' = RefWithout(k), sem' = [sem EXCEPT ![i].nFirst = FirstWithout(i, k)]
  PROVE  /\ Packed(e)' /\ Heap([home EXCEPT ![k] = NoName], pos)'
         /\ \A j \in Blocks : j # k => ref'[j].nPID = ref[j].nPID /\ ref'[j].nValue = ref[j].nValue
         /\ \A m \in 0 .. LastEntry : /\ sem'[m].szName = sem[m].szName /\ sem'[m].nOwnerPID = sem[m].nOwnerPID
                                      /\ m # i => sem'[m].nFirst = sem[m].nFirst
         /\ sem'[i].nFirst = FirstWithout(i, k)
         /\ SemType' /\ RefType'
<1> DEFINE next == ref[k].nNext
           prev == ref[k].nPrev
           first == FirstWithout(i, k)
           home2 == [home EXCEPT ![k] = NoName]
<1>0. 0 \notin Blocks
  BY Sizes
<1>1. next \in Blocks \cup {0} /\ prev \in Blocks \cup {0} /\ first \in Blocks \cup {0}
  BY TableTypes DEF FirstWithout
<1>2. /\ ref' \in [Blocks -> Block]
      /\ ref'[k] = NoRef
      /\ \A j \in Blocks : j # k => /\ ref'[j].nPID = ref[j].nPID /\ ref'[j].nValue = ref[j].nValue
                                    /\ ref'[j].nPrev = IF j = next THEN prev ELSE ref[j].nPrev
                                    /\ ref'[j].nNext = IF j = prev THEN next ELSE ref[j].nNext
                                    /\ j # next /\ j # prev => ref'[j] = ref[j]
  <2>1. ASSUME NEW j \in Blocks
        PROVE  ref'[j] = IF j = k THEN NoRef
                         ELSE [ref[j] EXCEPT !.nPrev = IF j = next THEN prev ELSE ref[j].nPrev,
                                             !.nNext = IF j = prev THEN next ELSE ref[j].nNext]
    BY DEF RefWithout
  <2>2. DOMAIN ref' = Blocks /\ ref' = [j \in Blocks |-> ref'[j]]
    BY DEF RefWithout
  <2>3. NoRef \in Block
    BY BoundAssumption DEF NoRef, Block
  <2> HIDE DEF next, prev
  <2>4. ASSUME NEW j \in Blocks PROVE ref'[j] \in Block
    <3>1. ref[j] \in Block
      BY DEF TypeOK
    <3> QED BY <1>1, <2>1, <2>3, <3>1 DEF Block
  <2>5. ref' \in [Blocks -> Block]
    BY <2>2, <2>4
  <2>6. ASSUME NEW j \in Blocks, j # k
        PROVE  /\ ref'[j].nPID = ref[j].nPID /\ ref'[j].nValue = ref[j].nValue
               /\ ref'[j].nPrev = IF j = next THEN prev ELSE ref[j].nPrev
               /\ ref'[j].nNext = IF j = prev THEN next ELSE ref[j].nNext
               /\ j # next /\ j # prev => ref'[j] = ref[j]
    <3>1. ref[j] \in Block
      BY DEF TypeOK
    <3>2. \A x \in Block : [x EXCEPT !.nPrev = x.nPrev, !.nNext = x.nNext] = x
      BY DEF Block
    <3>3. ref'[j] = [ref[j] EXCEPT !.nPrev = IF j = next THEN prev ELSE ref[j].nPrev,
                                   !.nNext = IF j = prev THEN next ELSE ref[j].nNext]
      BY <2>1, <2>6
    <3>4. j # next /\ j # prev => ref'[j] = ref[j]
      BY <3>1, <3>2, <3>3
    <3>5. /\ ref'[j].nPID = ref[j].nPID /\ ref'[j].nValue = ref[j].nValue
          /\ ref'[j].nPrev = IF j = next THEN prev ELSE ref[j].nPrev
          /\ ref'[j].nNext = IF j = prev THEN next ELSE ref[j].nNext
      BY <3>1, <3>3 DEF Block
    <3> QED BY <3>4, <3>5
  <2> QED BY <2>1, <2>5, <2>6
<1>3. /\ sem' \in [0 .. LastEntry -> Entry]
      /\ \A m \in 0 .. LastEntry : /\ sem'[m].szName = sem[m].szName /\ sem'[m].nOwnerPID = sem[m].nOwnerPID
                                   /\ m # i => sem'[m].nFirst = sem[m].nFirst /\ sem'[m] = sem[m]
      /\ sem'[i].nFirst = first
  BY <1>1 DEF TypeOK, Entry
<1>4. prev = 0 => first = next
  BY DEF FirstWithout
<1>5. prev # 0 => first = sem[i].nFirst
  BY DEF FirstWithout
<1>6. next # 0 => home[next] = home[k] /\ ref[next].nPrev = k /\ pos[k] < pos[next] /\ next \in Blocks
  BY <1>1 DEF Heap
<1>7. prev # 0 => home[prev] = home[k] /\ ref[prev].nNext = k /\ pos[prev] < pos[k] /\ prev \in Blocks
  BY <1>1 DEF Heap
<1>8. prev = 0 => sem[i].nFirst = k
  BY DEF Heap, Packed
<1>9. \A j \in Blocks : home2[j] = IF j = k THEN NoName ELSE home[j]
  BY DEF Heap
<1>10. home2 \in [Blocks -> Names \cup {NoName}]
  BY DEF Heap
<1>11. pos \in [Blocks -> Nat]
  BY DEF Heap
<1>12. next # prev \/ next = 0
  BY <1>6, <1>7, <1>11
<1>13. next # k /\ prev # k
  BY <1>0, <1>6, <1>7, <1>11
<1> HIDE DEF next, prev, first, home2
<1>14. Packed(e)'
  <2>1. sem[i] # NoEntry
    BY DEF NoEntry
  <2>2. \A m \in 0 .. LastEntry : m >= e => sem'[m] = NoEntry
    BY <1>3, <2>1 DEF Packed
  <2> QED BY <1>3, <2>2 DEF Packed
<1>15. ASSUME NEW j \in Blocks, home2[j] = NoName PROVE ref'[j] = NoRef
  <2>1. CASE j = k
    BY <1>2, <2>1
  <2>2. CASE j # k
    <3>1. home[j] = NoName /\ ref[j] = NoRef
      BY <1>9, <1>15, <2>2 DEF Heap
    <3>2. j # next /\ j # prev
      BY <1>0, <1>6, <1>7, <3>1
    <3> QED BY <1>2, <2>2, <3>1, <3>2
  <2> QED BY <2>1, <2>2
<1>16. ASSUME NEW j \in Blocks, home2[j] # NoName PROVE j # k /\ home[j] # NoName /\ home2[j] = home[j]
  BY <1>9, <1>16
<1>17. ASSUME NEW j \in Blocks, home2[j] # NoName PROVE ref'[j].nPID \in Procs
  BY <1>2, <1>16, <1>17 DEF Heap
<1>18. ASSUME NEW j \in Blocks, home2[j] # NoName
       PROVE  \E m \in 0 .. LastEntry : sem'[m].szName = home2[j] /\ (ref'[j].nPrev = 0 => sem'[m].nFirst = j)
  <2>1. j # k /\ home[j] # NoName /\ home2[j] = home[j]
    BY <1>16, <1>18
  <2>2. PICK m \in 0 .. LastEntry : sem[m].szName = home[j] /\ (ref[j].nPrev = 0 => sem[m].nFirst = j)
    BY <2>1 DEF Heap
  <2>3. CASE m = i
    <3>1. ASSUME ref'[j].nPrev = 0 PROVE first = j
      <4>1. CASE j = next
        BY <1>2, <1>4, <2>1, <3>1, <4>1
      <4>2. CASE j # next
        BY <1>2, <1>5, <1>8, <2>1, <2>2, <2>3, <3>1, <4>2
      <4> QED BY <4>1, <4>2
    <3> QED BY <1>3, <2>1, <2>2, <2>3, <3>1
  <2>4. CASE m # i
    <3>1. home[j] # home[k]
      BY <2>1, <2>2, <2>4 DEF Packed
    <3>2. ref'[j].nPrev = ref[j].nPrev
      BY <1>0, <1>2, <1>6, <2>1, <3>1
    <3> QED BY <1>3, <2>1, <2>2, <2>4, <3>2
  <2> QED BY <2>3, <2>4
<1>19. ASSUME NEW j \in Blocks, NEW m \in Blocks, home2[j] # NoName, ref'[j].nNext = m
       PROVE  home2[m] = home2[j] /\ ref'[m].nPrev = j /\ pos[j] < pos[m]
  <2>1. j # k /\ home[j] # NoName /\ home2[j] = home[j]
    BY <1>16, <1>19
  <2>2. CASE j = prev
    <3>1. m = next /\ next # 0 /\ prev # 0
      BY <1>0, <1>2, <1>19, <2>1, <2>2
    <3>2. ref'[next].nPrev = prev /\ home2[next] = home[next]
      BY <1>2, <1>6, <1>9, <1>13, <3>1
    <3> QED BY <1>6, <1>7, <1>11, <2>1, <2>2, <3>1, <3>2
  <2>3. CASE j # prev
    <3>1. ref[j].nNext = m
      BY <1>2, <1>19, <2>1, <2>3
    <3>2. home[m] = home[j] /\ ref[m].nPrev = j /\ pos[j] < pos[m]
      BY <2>1, <3>1 DEF Heap
    <3>3. m # k
      BY <2>3, <3>2 DEF prev
    <3>4. m # next
      BY <1>0, <1>6, <2>1, <3>2
    <3> QED BY <1>2, <1>9, <2>1, <3>2, <3>3, <3>4
  <2> QED BY <2>2, <2>3
<1>20. ASSUME NEW j \in Blocks, NEW m \in Blocks, home2[j] # NoName, ref'[j].nPrev = m
       PROVE  home2[m] = home2[j] /\ ref'[m].nNext = j
  <2>1. j # k /\ home[j] # NoName /\ home2[j] = home[j]
    BY <1>16, <1>20
  <2>2. CASE j = next
    <3>1. m = prev /\ next # 0 /\ prev # 0
      BY <1>0, <1>2, <1>20, <2>1, <2>2
    <3>2. ref'[prev].nNext = next /\ home2[prev] = home[prev]
      BY <1>2, <1>7, <1>9, <1>13, <3>1
    <3> QED BY <1>6, <1>7, <2>1, <2>2, <3>1, <3>2
  <2>3. CASE j # next
    <3>1. ref[j].nPrev = m
      BY <1>2, <1>20, <2>1, <2>3
    <3>2. home[m] = home[j] /\ ref[m].nNext = j
      BY <2>1, <3>1 DEF Heap
    <3>3. m # k
      BY <2>3, <3>2 DEF next
    <3>4. m # prev
      BY <1>0, <1>7, <2>1, <3>2
    <3> QED BY <1>2, <1>9, <2>1, <3>2, <3>3, <3>4
  <2> QED BY <2>2, <2>3
<1>21. ASSUME NEW m \in 0 .. LastEntry, NEW j \in Blocks, sem'[m].nFirst = j
       PROVE  home2[j] # NoName /\ home2[j] = sem'[m].szName /\ ref'[j].nPrev = 0
  <2>1. CASE m = i
    <3>1. j = first
      BY <1>3, <1>21, <2>1
    <3>2. CASE prev = 0
      <4>1. j = next /\ next # 0
        BY <1>0, <1>4, <3>1, <3>2
      <4> QED BY <1>2, <1>3, <1>6, <1>9, <1>13, <2>1, <3>2, <4>1
    <3>3. CASE prev # 0
      <4>1. j = sem[i].nFirst
        BY <1>5, <3>1, <3>3
      <4>2. home[j] # NoName /\ home[j] = sem[i].szName /\ ref[j].nPrev = 0
        BY <4>1 DEF Heap
      <4>3. j # k /\ j # next
        BY <1>0, <1>6, <3>3, <4>2 DEF prev
      <4> QED BY <1>2, <1>3, <1>9, <2>1, <4>2, <4>3
    <3> QED BY <3>2, <3>3
  <2>2. CASE m # i
    <3>1. sem[m].nFirst = j
      BY <1>3, <1>21, <2>2
    <3>2. home[j] # NoName /\ home[j] = sem[m].szName /\ ref[j].nPrev = 0
      BY <3>1 DEF Heap
    <3>3. home[j] # home[k]
      BY <2>2, <3>2 DEF Packed
    <3>4. j # k /\ j # next
      BY <1>0, <1>6, <3>3
    <3> QED BY <1>2, <1>3, <1>9, <3>2, <3>4
  <2> QED BY <2>1, <2>2
<1>22. ASSUME NEW j \in Blocks, NEW m \in Blocks, home2[j] = home2[m], home2[j] # NoName,
              ref'[j].nPID = ref'[m].nPID
       PROVE  j = m
  <2>1. j # k /\ m # k /\ home[j] = home[m] /\ home[j] # NoName
    BY <1>16, <1>22
  <2>2. ref[j].nPID = ref[m].nPID
    BY <1>2, <1>22, <2>1
  <2> QED BY <2>1, <2>2 DEF Heap
<1>23. Heap(home2, pos)'
  BY <1>10, <1>11, <1>15, <1>17, <1>18, <1>19, <1>20, <1>21, <1>22 DEF Heap
<1> QED BY <1>2, <1>3, <1>14, <1>23 DEF home2, first, SemType, RefType

\* The last entry moves into the hole that the empty entry i leaves.
LEMMA EntryRemoved ==
  ASSUME TypeOK, NEW e, Packed(e), NEW home, NEW pos, Heap(home, pos), NEW i \in 0 .. LastEntry,
         sem[i].szName # NoName, sem[i].nFirst = 0, sem' = SemWithout(i), ref' = ref
  PROVE  /\ e # 0 /\ e - 1 \in 0 .. LastEntry /\ i <= e - 1
         /\ Packed(e - 1)' /\ Heap(home, pos)'
         /\ sem'[e - 1] = NoEntry
         /\ i # e - 1 => sem'[i] = sem[e - 1]
         /\ \A m \in 0 .. LastEntry : m # i /\ m # e - 1 => sem'[m] = sem[m]
         /\ SemType' /\ RefType'
<1> DEFINE last == e - 1
<1>0. e \in Nat /\ LastEntry \in Nat /\ e <= LastEntry /\ EndIndex = e
  BY EntriesAre
<1>1. i < e
  BY <1>0 DEF Packed, NoEntry
<1>2. e # 0 /\ last \in 0 .. LastEntry /\ i <= last /\ last + 1 = e /\ last \in Nat
  BY <1>0, <1>1
<1>3. NoEntry \in Entry
  BY DEF NoEntry, Entry
<1>4. sem \in [0 .. LastEntry -> Entry]
  BY DEF TypeOK, Entry
<1> HIDE DEF last
<1>5. sem' = [m \in 0 .. LastEntry |-> IF m = last THEN NoEntry ELSE IF m = i THEN sem[last] ELSE sem[m]]
  BY <1>0 DEF SemWithout, last
<1>6. /\ sem' \in [0 .. LastEntry -> Entry]
      /\ sem'[last] = NoEntry
      /\ i # last => sem'[i] = sem[last]
      /\ \A m \in 0 .. LastEntry : m # i /\ m # last => sem'[m] = sem[m]
  BY <1>2, <1>3, <1>4, <1>5
<1>7. /\ \A m \in 0 .. LastEntry : m < e => sem[m].szName \in Names
      /\ \A m \in 0 .. LastEntry : m >= e => sem[m] = NoEntry
      /\ \A m, j \in 0 .. LastEntry : sem[m].szName = sem[j].szName /\ sem[m].szName # NoName => m = j
  BY DEF Packed
<1>8. Packed(last)'
  <2>1. ASSUME NEW m \in 0 .. LastEntry, m < last PROVE sem'[m].szName \in Names
    <3>1. m < e /\ last < e /\ m # last
      BY <1>0, <1>2, <2>1
    <3> QED BY <1>2, <1>6, <1>7, <3>1
  <2>2. ASSUME NEW m \in 0 .. LastEntry, m >= last PROVE sem'[m] = NoEntry
    <3>1. CASE m = last
      BY <1>6, <3>1
    <3>2. CASE m # last
      <4>1. m >= e /\ m # i
        BY <1>0, <1>1, <1>2, <2>2, <3>2
      <4> QED BY <1>6, <1>7, <3>2, <4>1
    <3> QED BY <3>1, <3>2
  <2>3. ASSUME NEW m \in 0 .. LastEntry, NEW j \in 0 .. LastEntry,
               sem'[m].szName = sem'[j].szName, sem'[m].szName # NoName
        PROVE  m = j
    <3>1. m # last /\ j # last
      BY <1>6, <2>3 DEF NoEntry
    <3>2. sem'[m] = IF m = i THEN sem[last] ELSE sem[m]
      BY <1>6, <3>1
    <3>3. sem'[j] = IF j = i THEN sem[last] ELSE sem[j]
      BY <1>6, <3>1
    <3> QED BY <1>2, <1>7, <2>3, <3>1, <3>2, <3>3
  <2> QED BY <1>2, <2>1, <2>2, <2>3 DEF Packed
<1>9. \A k \in Blocks : home[k] # sem[i].szName
  BY EmptyList
<1>10. ASSUME NEW k \in Blocks, home[k] # NoName
       PROVE  \E m \in 0 .. LastEntry : sem'[m].szName = home[k] /\ (ref'[k].nPrev = 0 => sem'[m].nFirst = k)
  <2>1. PICK m \in 0 .. LastEntry : sem[m].szName = home[k] /\ (ref[k].nPrev = 0 => sem[m].nFirst = k)
    BY <1>10 DEF Heap
  <2>2. m # i
    BY <1>9, <2>1
  <2>3. CASE m = last
    BY <1>2, <1>6, <2>1, <2>2, <2>3
  <2>4. CASE m # last
    BY <1>6, <2>1, <2>2, <2>4
  <2> QED BY <2>3, <2>4
<1>11. ASSUME NEW m \in 0 .. LastEntry, NEW k \in Blocks, sem'[m].nFirst = k
       PROVE  home[k] # NoName /\ home[k] = sem'[m].szName /\ ref'[k].nPrev = 0
  <2>0. 0 \notin Blocks
    BY Sizes
  <2>1. m # last
    BY <1>6, <1>11, <2>0 DEF NoEntry
  <2>2. sem'[m] = sem[IF m = i THEN last ELSE m]
    BY <1>6, <2>1
  <2> DEFINE j == IF m = i THEN last ELSE m
  <2>3. j \in 0 .. LastEntry
    BY <1>2
  <2>4. sem'[m] = sem[j]
    BY <2>2
  <2> HIDE DEF j
  <2> QED BY <1>11, <2>3, <2>4 DEF Heap
<1>12. Heap(home, pos)'
  BY <1>10, <1>11 DEF Heap
<1>13. RefType'
  BY DEF RefType, TypeOK
<1> QED BY <1>2, <1>6, <1>8, <1>12, <1>13 DEF SemType, last

\* A name gets the entry behind the last one.
LEMMA EntryAdded ==
  ASSUME TypeOK, NEW e, Packed(e), NEW home, NEW pos, Heap(home, pos), NEW n \in Names, ~HasEntry(n),
         NEW p \in Procs, sem' = [sem EXCEPT ![e].szName = n, ![e].nOwnerPID = p], ref' = ref
  PROVE  /\ e \in 0 .. LastEntry
         /\ Packed(e + 1)' /\ Heap(home, pos)'
         /\ sem[e] = NoEntry
         /\ sem'[e].szName = n /\ sem'[e].nFirst = 0
         /\ \A m \in 0 .. LastEntry : m # e => sem'[m] = sem[m]
         /\ SemType' /\ RefType'
<1>0. e \in Nat /\ LastEntry \in Nat /\ e < LastEntry /\ e \in 0 .. LastEntry
  BY EntriesAre, RoomForEntry
<1>1. sem \in [0 .. LastEntry -> Entry]
  BY DEF TypeOK, Entry
<1>2. /\ \A m \in 0 .. LastEntry : m < e => sem[m].szName \in Names
      /\ \A m \in 0 .. LastEntry : m >= e => sem[m] = NoEntry
      /\ \A m, j \in 0 .. LastEntry : sem[m].szName = sem[j].szName /\ sem[m].szName # NoName => m = j
      /\ \A m \in 0 .. LastEntry : sem[m].szName # n
  BY DEF Packed, HasEntry
<1>3. sem[e] = NoEntry
  BY <1>0, <1>2
<1>4. /\ sem' \in [0 .. LastEntry -> Entry]
      /\ sem'[e].szName = n /\ sem'[e].nFirst = 0
      /\ \A m \in 0 .. LastEntry : m # e => sem'[m] = sem[m]
  <2>1. /\ DOMAIN sem' = 0 .. LastEntry
        /\ \A m \in 0 .. LastEntry : m # e => sem'[m] = sem[m]
        /\ sem'[e] = [[sem[e] EXCEPT !.szName = n] EXCEPT !.nOwnerPID = p]
    BY <1>0, <1>1
  <2>2. sem'[e] \in Entry /\ sem'[e].szName = n /\ sem'[e].nFirst = 0
    <3>1. ASSUME NEW x \in Entry
          PROVE  LET y == [[x EXCEPT !.szName = n] EXCEPT !.nOwnerPID = p]
                 IN y \in Entry /\ y.szName = n /\ y.nFirst = x.nFirst
      BY DEF Entry
    <3>2. sem[e] \in Entry /\ sem[e].nFirst = 0
      BY <1>0, <1>1, <1>3 DEF NoEntry
    <3> QED BY <2>1, <3>1, <3>2
  <2>3. sem' = [m \in 0 .. LastEntry |-> sem'[m]]
    BY <1>1
  <2>4. \A m \in 0 .. LastEntry : sem'[m] \in Entry
    BY <1>1, <2>1, <2>2
  <2> QED BY <2>1, <2>2, <2>3, <2>4
<1>5. Packed(e + 1)'
  <2>1. e + 1 \in 0 .. LastEntry /\ \A m \in 0 .. LastEntry : (m < e + 1 <=> m < e \/ m = e) /\ (m >= e + 1 => m >= e /\ m # e)
    BY <1>0
  <2>2. \A m \in 0 .. LastEntry : m < e + 1 => sem'[m].szName \in Names
    BY <1>2, <1>4, <2>1
  <2>3. \A m \in 0 .. LastEntry : m >= e + 1 => sem'[m] = NoEntry
    BY <1>2, <1>4, <2>1
  <2>4. \A m, j \in 0 .. LastEntry : sem'[m].szName = sem'[j].szName /\ sem'[m].szName # NoName => m = j
    BY <1>2, <1>4
  <2> QED BY <2>1, <2>2, <2>3, <2>4 DEF Packed
<1>6. ASSUME NEW k \in Blocks, home[k] # NoName
      PROVE  \E m \in 0 .. LastEntry : sem'[m].szName = home[k] /\ (ref'[k].nPrev = 0 => sem'[m].nFirst = k)
  <2>1. PICK m \in 0 .. LastEntry : sem[m].szName = home[k] /\ (ref[k].nPrev = 0 => sem[m].nFirst = k)
    BY <1>6 DEF Heap
  <2>2. m # e
    BY <1>3, <1>6, <2>1 DEF NoEntry
  <2> QED BY <1>4, <2>1, <2>2
<1>7. ASSUME NEW m \in 0 .. LastEntry, NEW k \in Blocks, sem'[m].nFirst = k
      PROVE  home[k] # NoName /\ home[k] = sem'[m].szName /\ ref'[k].nPrev = 0
  <2>1. 0 \notin Blocks
    BY Sizes
  <2>2. m # e
    BY <1>4, <1>7, <2>1
  <2> QED BY <1>4, <1>7, <2>2 DEF Heap
<1>8. Heap(home, pos)'
  <2>1. \A k \in Blocks : home[k] # NoName =>
          \E m \in 0 .. LastEntry : sem'[m].szName = home[k] /\ (ref'[k].nPrev = 0 => sem'[m].nFirst = k)
    BY <1>6
  <2>2. \A m \in 0 .. LastEntry, k \in Blocks : sem'[m].nFirst = k =>
          home[k] # NoName /\ home[k] = sem'[m].szName /\ ref'[k].nPrev = 0
    BY <1>7
  <2>3. /\ home \in [Blocks -> Names \cup {NoName}] /\ pos \in [Blocks -> Nat]
        /\ \A k \in Blocks : home[k] = NoName => ref'[k] = NoRef
        /\ \A k \in Blocks : home[k] # NoName => ref'[k].nPID \in Procs
        /\ \A k, j \in Blocks : home[k] # NoName /\ ref'[k].nNext = j =>
             home[j] = home[k] /\ ref'[j].nPrev = k /\ pos[k] < pos[j]
        /\ \A k, j \in Blocks : home[k] # NoName /\ ref'[k].nPrev = j => home[j] = home[k] /\ ref'[j].nNext = k
        /\ \A k, j \in Blocks : home[k] = home[j] /\ home[k] # NoName /\ ref'[k].nPID = ref'[j].nPID => k = j
    BY DEF Heap
  <2> QED BY <2>1, <2>2, <2>3 DEF Heap
<1>9. RefType'
  BY DEF RefType, TypeOK
<1> QED BY <1>0, <1>3, <1>4, <1>5, <1>8, <1>9 DEF SemType

\* The four changes of the table, named: a first block of a list, a further block,
\* a count, an owner mark.
PutFirst(p, k, i) == ref' = [ref EXCEPT ![k] = NewBlock(p, 0)] /\ sem' = [sem EXCEPT ![i].nFirst = k]
PutLast(p, k, last) == ref' = [ref EXCEPT ![k] = NewBlock(p, last), ![last].nNext = k] /\ sem' = sem
Recount(k, v) == ref' = [ref EXCEPT ![k].nValue = v] /\ sem' = sem
Remark(n, o) == /\ sem' = [i \in 0 .. LastEntry |->
                             IF i \in FindSemData(n) THEN [sem[i] EXCEPT !.nOwnerPID = o] ELSE sem[i]]
                /\ ref' = ref

\* A free block becomes the first of a list that was empty.
LEMMA BlockPlaced ==
  ASSUME TypeOK, NEW e, Packed(e), NEW home, NEW pos, Heap(home, pos), NEW i \in 0 .. LastEntry,
         NEW n \in Names, sem[i].szName = n, sem[i].nFirst = 0, NEW p \in Procs,
         NEW k \in Blocks, home[k] = NoName,
         PutFirst(p, k, i)
  PROVE  /\ Packed(e)' /\ Heap([home EXCEPT ![k] = n], pos)'
         /\ ref'[k].nPID = p /\ ref'[k].nValue = 0
         /\ \A j \in Blocks : j # k => ref'[j] = ref[j]
         /\ \A m \in 0 .. LastEntry : /\ sem'[m].szName = sem[m].szName /\ sem'[m].nOwnerPID = sem[m].nOwnerPID
                                      /\ m # i => sem'[m].nFirst = sem[m].nFirst
         /\ sem'[i].nFirst = k
         /\ SemType' /\ RefType'
<1> USE DEF PutFirst
<1> DEFINE home2 == [home EXCEPT ![k] = n]
<1>0. 0 \notin Blocks /\ n # NoName
  BY Sizes, NullAssumption
<1>1. sem \in [0 .. LastEntry -> Entry] /\ ref \in [Blocks -> Block]
  BY DEF TypeOK, Entry
<1>2. NewBlock(p, 0) \in Block /\ NewBlock(p, 0).nPID = p /\ NewBlock(p, 0).nValue = 0
      /\ NewBlock(p, 0).nPrev = 0 /\ NewBlock(p, 0).nNext = 0
  BY BoundAssumption DEF NewBlock, Block
<1>3. /\ ref' \in [Blocks -> Block] /\ ref'[k] = NewBlock(p, 0)
      /\ \A j \in Blocks : j # k => ref'[j] = ref[j]
  BY <1>1, <1>2
<1>4. /\ sem' \in [0 .. LastEntry -> Entry]
      /\ \A m \in 0 .. LastEntry : /\ sem'[m].szName = sem[m].szName /\ sem'[m].nOwnerPID = sem[m].nOwnerPID
                                   /\ m # i => sem'[m].nFirst = sem[m].nFirst /\ sem'[m] = sem[m]
      /\ sem'[i].nFirst = k
  BY <1>1 DEF Entry
<1>5. \A j \in Blocks : home[j] # n
  BY <1>0, EmptyList
<1>6. \A j \in Blocks : home2[j] = IF j = k THEN n ELSE home[j]
  BY DEF Heap
<1>7. home2 \in [Blocks -> Names \cup {NoName}] /\ pos \in [Blocks -> Nat]
  BY DEF Heap
<1> HIDE DEF home2
<1>8. Packed(e)'
  <2>1. sem[i] # NoEntry
    BY <1>0 DEF NoEntry
  <2>2. \A m \in 0 .. LastEntry : m >= e => sem'[m] = NoEntry
    BY <1>4, <2>1 DEF Packed
  <2> QED BY <1>4, <2>2 DEF Packed
<1>9. ASSUME NEW j \in Blocks, home2[j] = NoName PROVE ref'[j] = NoRef
  BY <1>0, <1>3, <1>6, <1>9 DEF Heap
<1>10. ASSUME NEW j \in Blocks, home2[j] # NoName PROVE ref'[j].nPID \in Procs
  BY <1>2, <1>3, <1>6, <1>10 DEF Heap
<1>11. ASSUME NEW j \in Blocks, home2[j] # NoName
       PROVE  \E m \in 0 .. LastEntry : sem'[m].szName = home2[j] /\ (ref'[j].nPrev = 0 => sem'[m].nFirst = j)
  <2>1. CASE j = k
    BY <1>4, <1>6, <2>1
  <2>2. CASE j # k
    <3>1. PICK m \in 0 .. LastEntry : sem[m].szName = home[j] /\ (ref[j].nPrev = 0 => sem[m].nFirst = j)
      BY <1>6, <1>11, <2>2 DEF Heap
    <3>2. m # i
      BY <1>5, <3>1
    <3> QED BY <1>3, <1>4, <1>6, <2>2, <3>1, <3>2
  <2> QED BY <2>1, <2>2
<1>12. ASSUME NEW j \in Blocks, NEW m \in Blocks, home2[j] # NoName, ref'[j].nNext = m
       PROVE  home2[m] = home2[j] /\ ref'[m].nPrev = j /\ pos[j] < pos[m]
  <2>1. j # k
    BY <1>0, <1>2, <1>3, <1>12
  <2>2. home[j] # NoName /\ ref[j].nNext = m
    BY <1>3, <1>6, <1>12, <2>1
  <2>3. home[m] = home[j] /\ ref[m].nPrev = j /\ pos[j] < pos[m]
    BY <2>2 DEF Heap
  <2> QED BY <1>3, <1>6, <2>1, <2>2, <2>3
<1>13. ASSUME NEW j \in Blocks, NEW m \in Blocks, home2[j] # NoName, ref'[j].nPrev = m
       PROVE  home2[m] = home2[j] /\ ref'[m].nNext = j
  <2>1. j # k
    BY <1>0, <1>2, <1>3, <1>13
  <2>2. home[j] # NoName /\ ref[j].nPrev = m
    BY <1>3, <1>6, <1>13, <2>1
  <2>3. home[m] = home[j] /\ ref[m].nNext = j
    BY <2>2 DEF Heap
  <2> QED BY <1>3, <1>6, <2>1, <2>2, <2>3
<1>14. ASSUME NEW m \in 0 .. LastEntry, NEW j \in Blocks, sem'[m].nFirst = j
       PROVE  home2[j] # NoName /\ home2[j] = sem'[m].szName /\ ref'[j].nPrev = 0
  <2>1. CASE m = i
    BY <1>0, <1>2, <1>3, <1>4, <1>6, <1>14, <2>1
  <2>2. CASE m # i
    <3>1. home[j] # NoName /\ home[j] = sem[m].szName /\ ref[j].nPrev = 0
      BY <1>4, <1>14, <2>2 DEF Heap
    <3> QED BY <1>3, <1>4, <1>6, <3>1
  <2> QED BY <2>1, <2>2
<1>15. ASSUME NEW j \in Blocks, NEW m \in Blocks, home2[j] = home2[m], home2[j] # NoName,
              ref'[j].nPID = ref'[m].nPID
       PROVE  j = m
  <2>1. CASE j = k \/ m = k
    BY <1>5, <1>6, <1>15, <2>1
  <2>2. CASE j # k /\ m # k
    BY <1>3, <1>6, <1>15, <2>2 DEF Heap
  <2> QED BY <2>1, <2>2
<1>16. Heap(home2, pos)'
  BY <1>7, <1>9, <1>10, <1>11, <1>12, <1>13, <1>14, <1>15 DEF Heap
<1> QED BY <1>2, <1>3, <1>4, <1>8, <1>16 DEF home2, SemType, RefType

\* A free block goes behind the last one of a list that has none of process p.
LEMMA BlockAppended ==
  ASSUME TypeOK, NEW e, Packed(e), NEW home, NEW pos, Heap(home, pos),
         NEW n \in Names, NEW p \in Procs, \A j \in Blocks : home[j] = n => ref[j].nPID # p,
         NEW k \in Blocks, home[k] = NoName, NEW last \in Blocks, home[last] = n, ref[last].nNext = 0,
         PutLast(p, k, last)
  PROVE  /\ Packed(e)' /\ Heap([home EXCEPT ![k] = n], [pos EXCEPT ![k] = pos[last] + 1])'
         /\ ref'[k].nPID = p /\ ref'[k].nValue = 0
         /\ \A j \in Blocks : j # k => ref'[j].nPID = ref[j].nPID /\ ref'[j].nValue = ref[j].nValue
         /\ SemType' /\ RefType'
<1> USE DEF PutLast
<1> DEFINE home2 == [home EXCEPT ![k] = n]
           pos2 == [pos EXCEPT ![k] = pos[last] + 1]
<1>0. 0 \notin Blocks /\ n # NoName /\ last # k
  BY Sizes, NullAssumption
<1>1. ref \in [Blocks -> Block]
  BY DEF TypeOK
<1>2. NewBlock(p, last) \in Block /\ NewBlock(p, last).nPID = p /\ NewBlock(p, last).nValue = 0
      /\ NewBlock(p, last).nPrev = last /\ NewBlock(p, last).nNext = 0
  BY BoundAssumption DEF NewBlock, Block
<1>3. /\ ref' \in [Blocks -> Block] /\ ref'[k] = NewBlock(p, last)
      /\ \A j \in Blocks : j # k /\ j # last => ref'[j] = ref[j]
      /\ \A j \in Blocks : j # k => /\ ref'[j].nPID = ref[j].nPID /\ ref'[j].nValue = ref[j].nValue
                                    /\ ref'[j].nPrev = ref[j].nPrev
                                    /\ ref'[j].nNext = IF j = last THEN k ELSE ref[j].nNext
  <2>1. ref' \in [Blocks -> Block] /\ ref'[k] = NewBlock(p, last)
    BY <1>0, <1>1, <1>2 DEF Block
  <2>2. ASSUME NEW j \in Blocks, j # k PROVE ref'[j] = IF j = last THEN [ref[j] EXCEPT !.nNext = k] ELSE ref[j]
    BY <1>0, <1>1, <2>2
  <2>3. \A j \in Blocks : ref[j] \in Block
    BY <1>1
  <2> QED BY <2>1, <2>2, <2>3 DEF Block
<1>4. \A j \in Blocks : home2[j] = IF j = k THEN n ELSE home[j]
  BY DEF Heap
<1>5. pos \in [Blocks -> Nat]
  BY DEF Heap
<1>6. home2 \in [Blocks -> Names \cup {NoName}] /\ pos2 \in [Blocks -> Nat]
  BY <1>5 DEF Heap
<1>7. \A j \in Blocks : pos2[j] = IF j = k THEN pos[last] + 1 ELSE pos[j]
  BY <1>5
<1> HIDE DEF home2, pos2
<1>8. Packed(e)'
  BY DEF Packed
<1>9. ASSUME NEW j \in Blocks, home2[j] = NoName PROVE ref'[j] = NoRef
  BY <1>0, <1>3, <1>4, <1>9 DEF Heap
<1>10. ASSUME NEW j \in Blocks, home2[j] # NoName PROVE ref'[j].nPID \in Procs
  BY <1>2, <1>3, <1>4, <1>10 DEF Heap
<1>11. ASSUME NEW j \in Blocks, home2[j] # NoName
       PROVE  \E m \in 0 .. LastEntry : sem'[m].szName = home2[j] /\ (ref'[j].nPrev = 0 => sem'[m].nFirst = j)
  <2>1. CASE j = k
    <3>1. \E m \in 0 .. LastEntry : sem[m].szName = n
      BY <1>0 DEF Heap
    <3> QED BY <1>0, <1>2, <1>3, <1>4, <2>1, <3>1
  <2>2. CASE j # k
    BY <1>3, <1>4, <1>11, <2>2 DEF Heap
  <2> QED BY <2>1, <2>2
<1>12. ASSUME NEW j \in Blocks, NEW m \in Blocks, home2[j] # NoName, ref'[j].nNext = m
       PROVE  home2[m] = home2[j] /\ ref'[m].nPrev = j /\ pos2[j] < pos2[m]
  <2>1. j # k
    BY <1>0, <1>2, <1>3, <1>12
  <2>2. CASE j = last
    <3>1. m = k
      BY <1>3, <1>12, <2>1, <2>2
    <3>2. pos2[j] = pos[last] /\ pos2[k] = pos[last] + 1 /\ pos[last] \in Nat
      BY <1>0, <1>5, <1>7, <2>2
    <3> QED BY <1>0, <1>2, <1>3, <1>4, <2>1, <2>2, <3>1, <3>2
  <2>3. CASE j # last
    <3>1. home[j] # NoName /\ ref[j].nNext = m
      BY <1>3, <1>4, <1>12, <2>1, <2>3
    <3>2. home[m] = home[j] /\ ref[m].nPrev = j /\ pos[j] < pos[m]
      BY <3>1 DEF Heap
    <3>3. m # k
      BY <3>1, <3>2
    <3> QED BY <1>3, <1>4, <1>7, <2>1, <3>1, <3>2, <3>3
  <2> QED BY <2>2, <2>3
<1>13. ASSUME NEW j \in Blocks, NEW m \in Blocks, home2[j] # NoName, ref'[j].nPrev = m
       PROVE  home2[m] = home2[j] /\ ref'[m].nNext = j
  <2>1. CASE j = k
    BY <1>0, <1>2, <1>3, <1>4, <1>13, <2>1
  <2>2. CASE j # k
    <3>1. home[j] # NoName /\ ref[j].nPrev = m
      BY <1>3, <1>4, <1>13, <2>2
    <3>2. home[m] = home[j] /\ ref[m].nNext = j
      BY <3>1 DEF Heap
    <3>3. m # k /\ m # last
      BY <1>0, <3>1, <3>2
    <3> QED BY <1>3, <1>4, <2>2, <3>1, <3>2, <3>3
  <2> QED BY <2>1, <2>2
<1>14. ASSUME NEW m \in 0 .. LastEntry, NEW j \in Blocks, sem'[m].nFirst = j
       PROVE  home2[j] # NoName /\ home2[j] = sem'[m].szName /\ ref'[j].nPrev = 0
  <2>1. home[j] # NoName /\ home[j] = sem[m].szName /\ ref[j].nPrev = 0
    BY <1>14 DEF Heap
  <2> QED BY <1>3, <1>4, <2>1
<1>15. ASSUME NEW j \in Blocks, NEW m \in Blocks, home2[j] = home2[m], home2[j] # NoName,
              ref'[j].nPID = ref'[m].nPID
       PROVE  j = m
  <2>1. CASE j = k \/ m = k
    BY <1>2, <1>3, <1>4, <1>15, <2>1
  <2>2. CASE j # k /\ m # k
    BY <1>3, <1>4, <1>15, <2>2 DEF Heap
  <2> QED BY <2>1, <2>2
<1>16. Heap(home2, pos2)'
  <2>1. \A j \in Blocks : home2[j] # NoName =>
          \E m \in 0 .. LastEntry : sem'[m].szName = home2[j] /\ (ref'[j].nPrev = 0 => sem'[m].nFirst = j)
    BY <1>11
  <2>2. \A m \in 0 .. LastEntry, j \in Blocks : sem'[m].nFirst = j =>
          home2[j] # NoName /\ home2[j] = sem'[m].szName /\ ref'[j].nPrev = 0
    BY <1>14
  <2>3. /\ \A j \in Blocks : home2[j] = NoName => ref'[j] = NoRef
        /\ \A j \in Blocks : home2[j] # NoName => ref'[j].nPID \in Procs
    BY <1>9, <1>10
  <2>4. \A j, m \in Blocks : home2[j] # NoName /\ ref'[j].nNext = m =>
          home2[m] = home2[j] /\ ref'[m].nPrev = j /\ pos2[j] < pos2[m]
    BY <1>12
  <2>5. \A j, m \in Blocks : home2[j] # NoName /\ ref'[j].nPrev = m => home2[m] = home2[j] /\ ref'[m].nNext = j
    BY <1>13
  <2>6. \A j, m \in Blocks : home2[j] = home2[m] /\ home2[j] # NoName /\ ref'[j].nPID = ref'[m].nPID => j = m
    BY <1>15
  <2> QED BY <1>6, <2>1, <2>2, <2>3, <2>4, <2>5, <2>6 DEF Heap
<1>17. SemType'
  BY DEF SemType, TypeOK, Entry
<1> QED BY <1>2, <1>3, <1>8, <1>16, <1>17 DEF home2, pos2, RefType

\* Only a count changes.
LEMMA CountChanged ==
  ASSUME TypeOK, NEW e, Packed(e), NEW home, NEW pos, Heap(home, pos), NEW k \in Blocks, home[k] # NoName,
         NEW v \in 0 .. MaxOpen, Recount(k, v)
  PROVE  /\ Packed(e)' /\ Heap(home, pos)'
         /\ ref'[k].nPID = ref[k].nPID /\ ref'[k].nValue = v
         /\ \A j \in Blocks : j # k => ref'[j] = ref[j]
         /\ SemType' /\ RefType'
<1> USE DEF Recount
<1>1. ref \in [Blocks -> Block]
  BY DEF TypeOK
<1>2. ref[k] \in Block
  BY <1>1
<1>3. ref' \in [Blocks -> Block] /\ \A j \in Blocks : j # k => ref'[j] = ref[j]
  BY <1>1 DEF Block
<1>4. /\ ref'[k].nPID = ref[k].nPID /\ ref'[k].nValue = v
      /\ ref'[k].nPrev = ref[k].nPrev /\ ref'[k].nNext = ref[k].nNext
  BY <1>1, <1>2 DEF Block
<1>5. Packed(e)'
  BY DEF Packed
<1>6. /\ \A j \in Blocks : /\ ref'[j].nPID = ref[j].nPID /\ ref'[j].nPrev = ref[j].nPrev
                           /\ ref'[j].nNext = ref[j].nNext
      /\ \A j \in Blocks : home[j] = NoName => ref'[j] = ref[j]
  BY <1>3, <1>4
<1>7. Heap(home, pos)'
  BY <1>6 DEF Heap
<1>8. SemType'
  BY DEF SemType, TypeOK, Entry
<1> QED BY <1>3, <1>4, <1>5, <1>7, <1>8 DEF RefType

\* Only an owner mark changes.
LEMMA MarkChanged ==
  ASSUME TypeOK, NEW e, Packed(e), NEW home, NEW pos, Heap(home, pos), NEW n \in Names, NEW o \in Procs \cup {NoPid},
         Remark(n, o)
  PROVE  /\ Packed(e)' /\ Heap(home, pos)'
         /\ \A m \in 0 .. LastEntry : /\ sem'[m].szName = sem[m].szName /\ sem'[m].nFirst = sem[m].nFirst
                                      /\ sem[m].szName # n => sem'[m] = sem[m]
         /\ SemType' /\ RefType'
<1> USE DEF Remark
<1>1. sem \in [0 .. LastEntry -> Entry] /\ n # NoName
  BY NullAssumption DEF TypeOK, Entry
<1>2. FindSemData(n) = {i \in 0 .. LastEntry : sem[i].szName = n}
  BY EntriesAre
<1>3. ASSUME NEW m \in 0 .. LastEntry
      PROVE  sem'[m] = IF sem[m].szName = n THEN [sem[m] EXCEPT !.nOwnerPID = o] ELSE sem[m]
  BY <1>2
<1>4. \A m \in 0 .. LastEntry : /\ sem'[m] \in Entry /\ sem'[m].szName = sem[m].szName
                                /\ sem'[m].nFirst = sem[m].nFirst
                                /\ sem[m].szName # n => sem'[m] = sem[m]
  <2>1. \A m \in 0 .. LastEntry : sem[m] \in Entry
    BY <1>1
  <2> QED BY <1>3, <2>1 DEF Entry
<1>5. DOMAIN sem' = 0 .. LastEntry /\ sem' = [m \in 0 .. LastEntry |-> sem'[m]]
  OBVIOUS
<1>6. SemType'
  BY <1>4, <1>5 DEF SemType
<1>7. Packed(e)'
  BY <1>1, <1>4 DEF Packed, NoEntry
<1>8. Heap(home, pos)'
  BY <1>4 DEF Heap
<1>9. RefType'
  BY DEF RefType, TypeOK
<1> QED BY <1>4, <1>6, <1>7, <1>8, <1>9

-----------------------------------------------------------------------------
(* Where the processes are, and what their calls hold.                     *)

\* The steps made under the lock, those of Refresh after it found a dead process, and
\* those of Remove.
UnderLock == {"create", "first", "append", "count", "uncount", "dropBlock", "dropEntry",
              "remove", "removeLast", "unlock"}
Removal == {"removeFind", "removeBlock", "removeEntry", "unlinkOld"}
Removing == {"remove", "removeLast"}
Labels == OpenLabels \cup UnderLock \cup {"idle", "dead", "lock", "unlinkLast"}

\* What a handle and the locals of a call may hold.
Handle == [id : 1 .. MaxOpen, name : Names, obj : Objects, block : Blocks]
Call == [name : Names \cup {NoName}, create : BOOLEAN, obj : Objects \cup {NoObject}, entry : 0 .. LastEntry,
         block : Blocks \cup {0}, victim : Procs \cup {NoPid}, then : {"idle", "create", "uncount", "unlinkLast"}]

LocalTypes == /\ regime \in {"concurrent", "mortal"} /\ torn \in BOOLEAN
              /\ handles \in [Procs -> SUBSET Handle]
              /\ pc \in [Procs -> Labels]
              /\ call \in [Procs -> Call]

Types == TypeOK /\ LocalTypes

\* In a call; in one that has a semaphore and no handle yet.
Busy(p) == pc[p] \notin {"idle", "dead"}
Creating(p) == call[p].then = "create" \/ pc[p] \in {"create", "first", "append", "count"}

\* Where a process is, against what its call says.
Flow(p) ==
  /\ ~Busy(p) \/ (pc[p] = "unlock" /\ call[p].then = "idle") => call[p] = NoCall
  /\ pc[p] = "dead" => handles[p] = {}
  /\ pc[p] \in Removal \cup Removing => gone # {}
  /\ pc[p] \in Removing => torn /\ call[p].victim \in gone /\ call[p].then \in {"create", "uncount"}
  /\ pc[p] = "lock" => call[p].then \in {"create", "uncount"} /\ call[p].entry = 0
  /\ pc[p] = "unlock" => call[p].then \in {"idle", "unlinkLast"}
  /\ pc[p] \notin Removing \cup {"lock", "unlock"} => call[p].then = "idle"
  /\ Busy(p) /\ ~(pc[p] = "unlock" /\ call[p].then = "idle") => call[p].name \in Names
  /\ pc[p] = "removeFind" => call[p].victim \in gone
  /\ call[p].obj # NoObject <=> Creating(p)

\* Who may be where at the same time.
Control ==
  /\ gone = {p \in Procs : pc[p] = "dead"}
  /\ regime = "concurrent" => gone = {}
  /\ regime = "mortal" => \A p, q \in Procs : Busy(p) /\ Busy(q) => p = q
  /\ \A p \in Procs : pc[p] \in UnderLock => lock = p
  /\ lock \in Procs => pc[lock] \in UnderLock \cup {"dead"}
  /\ lock \in gone => torn
  /\ torn => gone # {}
  /\ \A p \in Procs : Flow(p)

\* No kernel semaphore is 0.
LEMMA NoObjectFact == NoObject \notin Objects /\ NoObject = 0 /\ Objects \subseteq Nat
BY BoundAssumption DEF NoObject, Objects

\* A process that holds the lock, or is in a call where processes die, is the only one
\* that touches the table.
LEMMA Alone ==
  ASSUME Types, Control, NEW p \in Procs, NEW q \in Procs, q # p,
         pc[p] \in UnderLock \/ (regime = "mortal" /\ Busy(p))
  PROVE  pc[q] \notin UnderLock \cup Removal /\ (regime = "mortal" => ~Busy(q))
<1>1. regime = "mortal" => ~Busy(q)
  BY DEF Control, Busy, UnderLock
<1>2. pc[q] \notin UnderLock
  BY <1>1 DEF Control, Busy, UnderLock
<1>3. pc[q] \notin Removal
  BY <1>1 DEF Control, Flow, Busy, Removal, Types, LocalTypes
<1> QED BY <1>1, <1>2, <1>3

\* Where processes die, a process that begins a call finds no other in one.
LEMMA BeginAlone ==
  ASSUME Types, NEW p \in Procs, MayBegin(p), regime = "mortal", NEW q \in Procs
  PROVE  ~Busy(q)
<1> DEFINE B == {r \in Procs : pc[r] \notin {"idle", "dead"}}
<1>1. IsFiniteSet(B)
  BY FinitenessAssumption, FS_Subset
<1>2. Cardinality(B) < 1 /\ Cardinality(B) \in Nat
  BY <1>1, FS_CardinalityType DEF MayBegin, MaxBusy
<1>3. B = {}
  BY <1>1, <1>2, FS_EmptySet
<1> QED BY <1>3 DEF Busy

-----------------------------------------------------------------------------
(* How many handles are open.                                              *)

\* The bound on the handles.
Bounded == IsFiniteSet(OpenHandles) /\ Opened <= MaxOpen

\* The two sets that Opened counts are finite.
LEMMA OpenedIs ==
  ASSUME IsFiniteSet(OpenHandles)
  PROVE  /\ Cardinality(OpenHandles) \in Nat /\ IsFiniteSet(Opening) /\ Cardinality(Opening) \in Nat
         /\ Opened = Cardinality(OpenHandles) + Cardinality(Opening)
<1>1. IsFiniteSet(Opening)
  BY FinitenessAssumption, FS_Subset DEF Opening
<1> QED BY <1>1, FS_CardinalityType DEF Opened

\* A process has finitely many handles, no more than are open altogether.
LEMMA HandlesFinite ==
  ASSUME IsFiniteSet(OpenHandles), NEW p \in Procs, NEW n
  PROVE  IsFiniteSet(HandlesOn(p, n)) /\ Cardinality(HandlesOn(p, n)) \in 0 .. Cardinality(OpenHandles)
<1> DEFINE H == HandlesOn(p, n)
           T == {x \in OpenHandles : x[1] = p /\ x[2].name = n}
           f == [x \in T |-> x[2]]
<1>1. T \subseteq OpenHandles /\ IsFiniteSet(T) /\ Cardinality(T) <= Cardinality(OpenHandles)
  BY FS_Subset
<1>2. f \in Surjection(T, H)
  <2>1. \A x \in T : x[2] \in H
    BY DEF OpenHandles, HandlesOn
  <2>2. \A h \in H : <<p, h>> \in T /\ f[<<p, h>>] = h
    BY DEF OpenHandles, HandlesOn
  <2>3. f \in [T -> H]
    BY <2>1
  <2> HIDE DEF f, T, H
  <2> QED BY <2>2, <2>3 DEF Surjection
<1> HIDE DEF f, T, H
<1>3. IsFiniteSet(H) /\ Cardinality(H) <= Cardinality(T)
  BY <1>1, <1>2, FS_Surjection
<1>4. Cardinality(H) \in Nat /\ Cardinality(T) \in Nat /\ Cardinality(OpenHandles) \in Nat
  BY <1>1, <1>3, FS_CardinalityType
<1> QED BY <1>1, <1>3, <1>4 DEF H

\* A name always finds a kernel semaphore that nothing refers to.
LEMMA NewObjectIs ==
  ASSUME Types, Control, Bounded, NEW n \in Names, linked[n] = NoObject
  PROVE  NewObject(n) \in Objects
<1> DEFINE A == {x[2].obj : x \in OpenHandles}
           B == {call[q].obj : q \in Opening}
           Used == InUse(n)
           f == [x \in OpenHandles |-> x[2].obj]
           g == [q \in Opening |-> call[q].obj]
<1>0. NoObject \notin Objects /\ NoObject = 0 /\ Objects \subseteq Nat /\ MaxOpen \in Nat
  BY NoObjectFact, BoundAssumption
<1>1. IsFiniteSet(OpenHandles) /\ IsFiniteSet(Opening) /\ Cardinality(OpenHandles) + Cardinality(Opening) <= MaxOpen
      /\ Cardinality(OpenHandles) \in Nat /\ Cardinality(Opening) \in Nat
  BY OpenedIs DEF Bounded
<1>2. IsFiniteSet(A) /\ Cardinality(A) <= Cardinality(OpenHandles)
  <2>1. f \in Surjection(OpenHandles, A)
    BY DEF Surjection
  <2> HIDE DEF f, A
  <2> QED BY <1>1, <2>1, FS_Surjection
<1>3. IsFiniteSet(B) /\ Cardinality(B) <= Cardinality(Opening)
  <2>1. g \in Surjection(Opening, B)
    BY DEF Surjection
  <2> HIDE DEF g, B
  <2> QED BY <1>1, <2>1, FS_Surjection
<1>4. Used \subseteq {NoObject} \cup B \cup A
  <2>1. ASSUME NEW q \in Procs PROVE call[q].obj \in {NoObject} \cup B
    <3>1. CASE call[q].obj = NoObject
      BY <3>1
    <3>2. CASE call[q].obj # NoObject
      <4>1. Creating(q)
        BY <3>2 DEF Control, Flow
      <4>2. q \in Opening
        BY <4>1 DEF Opening, Creating, OpenLabels
      <4> QED BY <4>2
    <3> QED BY <3>1, <3>2
  <2>2. ASSUME NEW q \in Procs, NEW h \in HandlesOn(q, n) PROVE h.obj \in A
    <3>1. <<q, h>> \in OpenHandles /\ <<q, h>>[2].obj = h.obj
      BY <2>2 DEF OpenHandles, HandlesOn
    <3> QED BY <3>1
  <2> HIDE DEF A, B
  <2> QED BY <2>1, <2>2 DEF InUse
<1> HIDE DEF A, B, Used, f, g
<1>5. IsFiniteSet(B \cup A) /\ Cardinality(B \cup A) <= MaxOpen
  <2>1. IsFiniteSet(B \cup A) /\ Cardinality(B \cup A) = Cardinality(B) + Cardinality(A) - Cardinality(B \cap A)
    BY <1>2, <1>3, FS_Union
  <2>2. IsFiniteSet(B \cap A)
    BY <1>2, FS_Intersection
  <2>3. Cardinality(B \cap A) \in Nat /\ Cardinality(A) \in Nat /\ Cardinality(B) \in Nat
    BY <1>2, <1>3, <2>2, FS_CardinalityType
  <2> QED BY <1>0, <1>1, <1>2, <1>3, <2>1, <2>3
<1>6. Objects \ Used # {}
  <2> SUFFICES ASSUME Objects \subseteq Used PROVE FALSE
    OBVIOUS
  <2>1. Objects \subseteq B \cup A
    BY <1>0, <1>4
  <2>2. Cardinality(Objects) <= Cardinality(B \cup A)
    BY <1>5, <2>1, FS_Subset
  <2>3. Cardinality(Objects) = MaxOpen + 2
    BY <1>0, FS_Interval DEF Objects
  <2>4. Cardinality(B \cup A) \in Nat
    BY <1>5, FS_CardinalityType
  <2> QED BY <1>0, <1>5, <2>2, <2>3, <2>4
<1>7. Objects \ Used \in SUBSET Nat
  BY <1>0
<1>8. Min(Objects \ Used) \in Objects \ Used
  BY <1>6, <1>7, MinIs
<1> QED BY <1>8 DEF NewObject, Used

\* A process that is opening a handle has fewer than MaxOpen of the name.
LEMMA RoomForHandle ==
  ASSUME Bounded, NEW p \in Opening, p \in Procs, NEW n
  PROVE  /\ Cardinality(OpenHandles) < MaxOpen
         /\ IsFiniteSet(HandlesOn(p, n)) /\ Cardinality(HandlesOn(p, n)) \in Nat
         /\ Cardinality(HandlesOn(p, n)) < MaxOpen
         /\ Min(1 .. MaxOpen \ {h.id : h \in HandlesOn(p, n)}) \in 1 .. MaxOpen \ {h.id : h \in HandlesOn(p, n)}
<1> DEFINE H == HandlesOn(p, n)
           I == {h.id : h \in H}
           f == [h \in H |-> h.id]
<1>0. MaxOpen \in Nat
  BY BoundAssumption
<1>1. /\ IsFiniteSet(Opening) /\ Cardinality(OpenHandles) + Cardinality(Opening) <= MaxOpen
      /\ Cardinality(OpenHandles) \in Nat /\ Cardinality(Opening) \in Nat
  BY OpenedIs DEF Bounded
<1>2. Cardinality(Opening) # 0
  BY <1>1, FS_EmptySet
<1>3. Cardinality(OpenHandles) < MaxOpen
  BY <1>0, <1>1, <1>2
<1>4. IsFiniteSet(H) /\ Cardinality(H) \in Nat /\ Cardinality(H) < MaxOpen
  BY <1>0, <1>1, <1>3, HandlesFinite DEF Bounded
<1>5. f \in Surjection(H, I)
  BY DEF Surjection
<1> HIDE DEF H, I, f
<1>6. IsFiniteSet(I) /\ Cardinality(I) <= Cardinality(H) /\ Cardinality(I) \in Nat
  BY <1>4, <1>5, FS_Surjection, FS_CardinalityType
<1>7. 1 .. MaxOpen \ I # {}
  <2> SUFFICES ASSUME 1 .. MaxOpen \subseteq I PROVE FALSE
    OBVIOUS
  <2>1. Cardinality(1 .. MaxOpen) <= Cardinality(I)
    BY <1>6, FS_Subset
  <2>2. Cardinality(1 .. MaxOpen) = MaxOpen
    BY <1>0, FS_Interval
  <2> QED BY <1>0, <1>4, <1>6, <2>1, <2>2
<1>8. 1 .. MaxOpen \ I \in SUBSET Nat
  BY <1>0
<1>9. Min(1 .. MaxOpen \ I) \in 1 .. MaxOpen \ I
  BY <1>7, <1>8, MinIs
<1> QED BY <1>3, <1>4, <1>9 DEF H, I

-----------------------------------------------------------------------------
(* Who may be where, after each kind of step.                              *)

\* A process moves on within its call.
LEMMA ControlKept ==
  ASSUME Types, Control, Types', NEW p \in Procs, Busy(p), UNCHANGED <<regime, lock, gone, torn>>,
         NEW l, pc' = [pc EXCEPT ![p] = l], l # "dead",
         \A q \in Procs : q # p => call'[q] = call[q] /\ handles'[q] = handles[q],
         l \in UnderLock <=> pc[p] \in UnderLock, Flow(p)'
  PROVE  Control'
<1>1. pc'[p] = l /\ pc[p] # "dead" /\ \A q \in Procs : q # p => pc'[q] = pc[q]
  BY DEF Types, LocalTypes, Busy
<1>2. \A q \in Procs : Flow(q)'
  <2>1. ASSUME NEW q \in Procs, q # p PROVE Flow(q)'
    BY <1>1, <2>1 DEF Control, Flow, Busy, Creating
  <2> QED BY <2>1
<1>3. gone' = {q \in Procs : pc'[q] = "dead"}
  BY <1>1 DEF Control
<1>4. \A q \in Procs : pc'[q] \in UnderLock => lock' = q
  BY <1>1 DEF Control
<1>5. lock' \in Procs => pc'[lock'] \in UnderLock \cup {"dead"}
  BY <1>1 DEF Control
<1>6. regime' = "mortal" => \A q, r \in Procs : Busy(q)' /\ Busy(r)' => q = r
  BY <1>1 DEF Control, Busy
<1> QED BY <1>2, <1>3, <1>4, <1>5, <1>6 DEF Control

\* The steps of Refresh keep everyone in place,
LEMMA ControlRefresh ==
  ASSUME Types, Control, Types', NEW p \in Procs,
         RefreshFind(p) \/ RefreshScan(p) \/ RefreshRemoveFind(p) \/ RefreshRemoveBlock(p)
         \/ RefreshRemoveEntry(p) \/ UnlinkOld(p)
  PROVE  Control'
<1> USE DEF Goto, Become, Busy, Flow, Creating, UnderLock, Removal, Removing, NoObject
<1>0. Flow(p) /\ pc \in [Procs -> Labels] /\ call \in [Procs -> Call] /\ gone' = gone
  BY DEF Control, Types, LocalTypes, RefreshFind, RefreshScan, RefreshRemoveFind,
     RefreshRemoveBlock, RefreshRemoveEntry, UnlinkOld
<1>1. CASE RefreshFind(p)
  <2>0. /\ pc[p] = "refresh" /\ pc'[p] \in {"open", "scan"} /\ UNCHANGED <<gone, torn, handles>>
        /\ call'[p].then = call[p].then /\ call'[p].name = call[p].name /\ call'[p].obj = call[p].obj
    BY <1>0, <1>1 DEF RefreshFind, Call
  <2>1. Flow(p)' /\ Busy(p)
    BY <1>0, <2>0
  <2> QED BY <1>0, <1>1, <2>1, ControlKept DEF RefreshFind
<1>2. CASE RefreshScan(p)
  <2>1. Flow(p)' /\ Busy(p)
    BY <1>0, <1>2 DEF RefreshScan, Call
  <2> QED BY <1>0, <1>2, <2>1, ControlKept DEF RefreshScan
<1>3. CASE RefreshRemoveFind(p)
  <2>0. /\ pc[p] = "removeFind" /\ pc'[p] \in {"scan", "removeBlock"} /\ UNCHANGED <<gone, torn, handles>>
        /\ call'[p].then = call[p].then /\ call'[p].name = call[p].name /\ call'[p].obj = call[p].obj
    BY <1>0, <1>3 DEF RefreshRemoveFind, Call
  <2>1. Flow(p)' /\ Busy(p)
    BY <1>0, <2>0
  <2> QED BY <1>0, <1>3, <2>1, ControlKept DEF RefreshRemoveFind
<1>4. CASE RefreshRemoveBlock(p)
  <2>1. Flow(p)' /\ Busy(p)
    BY <1>0, <1>4 DEF RefreshRemoveBlock, Call
  <2> QED BY <1>0, <1>4, <2>1, ControlKept DEF RefreshRemoveBlock
<1>5. CASE RefreshRemoveEntry(p)
  <2>1. Flow(p)' /\ Busy(p)
    BY <1>0, <1>5 DEF RefreshRemoveEntry, Call
  <2> QED BY <1>0, <1>5, <2>1, ControlKept DEF RefreshRemoveEntry
<1>6. CASE UnlinkOld(p)
  <2>1. Flow(p)' /\ Busy(p)
    BY <1>0, <1>6 DEF UnlinkOld, Call
  <2> QED BY <1>0, <1>6, <2>1, ControlKept DEF UnlinkOld
<1> QED BY <1>1, <1>2, <1>3, <1>4, <1>5, <1>6

\* so do the steps under the lock that stay under it or go to its end,
LEMMA ControlUnderLock ==
  ASSUME Types, Control, Types', NEW p \in Procs,
         CreateEntry(p) \/ CreateFirst(p) \/ CreateAppend(p) \/ CreateCount(p) \/ DestroyUncount(p) \/ DestroyBlock(p) \/ DestroyEntry(p) \/ RemoveLast(p)
  PROVE  Control'
<1> USE DEF Goto, Become, Busy, Flow, Creating, UnderLock, Removal, Removing, NoObject, NoCall
<1>0. Flow(p) /\ pc \in [Procs -> Labels] /\ call \in [Procs -> Call] /\ gone' = gone
  BY DEF Control, Types, LocalTypes, CreateEntry, CreateFirst, CreateAppend, CreateCount,
     DestroyUncount, DestroyBlock, DestroyEntry, RemoveLast
<1>1. CASE CreateEntry(p)
  <2>1. Flow(p)' /\ Busy(p)
    BY <1>0, <1>1, NoObjectFact, NullAssumption DEF CreateEntry, Call
  <2>2. \A q \in Procs : q # p => call'[q] = call[q] /\ handles'[q] = handles[q]
    BY <1>0, <1>1 DEF CreateEntry, Types, LocalTypes
  <2> QED BY <1>0, <1>1, <2>1, <2>2, ControlKept DEF CreateEntry
<1>2. CASE CreateFirst(p)
  <2>1. Flow(p)' /\ Busy(p)
    BY <1>0, <1>2, NoObjectFact, NullAssumption DEF CreateFirst, Call
  <2>2. \A q \in Procs : q # p => call'[q] = call[q] /\ handles'[q] = handles[q]
    BY <1>0, <1>2 DEF CreateFirst, Types, LocalTypes
  <2> QED BY <1>0, <1>2, <2>1, <2>2, ControlKept DEF CreateFirst
<1>3. CASE CreateAppend(p)
  <2>1. Flow(p)' /\ Busy(p)
    BY <1>0, <1>3, NoObjectFact, NullAssumption DEF CreateAppend, Call
  <2>2. \A q \in Procs : q # p => call'[q] = call[q] /\ handles'[q] = handles[q]
    BY <1>0, <1>3 DEF CreateAppend, Types, LocalTypes
  <2> QED BY <1>0, <1>3, <2>1, <2>2, ControlKept DEF CreateAppend
<1>4. CASE CreateCount(p)
  <2>1. Flow(p)' /\ Busy(p)
    BY <1>0, <1>4, NoObjectFact, NullAssumption DEF CreateCount, Call
  <2>2. \A q \in Procs : q # p => call'[q] = call[q] /\ handles'[q] = handles[q]
    BY <1>0, <1>4 DEF CreateCount, Types, LocalTypes
  <2> QED BY <1>0, <1>4, <2>1, <2>2, ControlKept DEF CreateCount
<1>5. CASE DestroyUncount(p)
  <2>1. Flow(p)' /\ Busy(p)
    BY <1>0, <1>5, NoObjectFact, NullAssumption DEF DestroyUncount, Call
  <2>2. \A q \in Procs : q # p => call'[q] = call[q] /\ handles'[q] = handles[q]
    BY <1>0, <1>5 DEF DestroyUncount, Types, LocalTypes
  <2> QED BY <1>0, <1>5, <2>1, <2>2, ControlKept DEF DestroyUncount
<1>6. CASE DestroyBlock(p)
  <2>0. /\ pc[p] = "dropBlock" /\ UNCHANGED <<gone, torn, handles>>
        /\ \/ pc'[p] = "unlock" /\ call'[p] = NoCall
           \/ /\ pc'[p] = "dropEntry" /\ call'[p].then = call[p].then
              /\ call'[p].name = call[p].name /\ call'[p].obj = call[p].obj
    <3>1. CASE FindSemData(call[p].name) = {}
      BY <1>0, <1>6, <3>1 DEF DestroyBlock
    <3>2. CASE FindSemData(call[p].name) # {}
      <4>1. \/ pc' = [pc EXCEPT ![p] = "unlock"] /\ call' = [call EXCEPT ![p] = NoCall]
            \/ \E i \in FindSemData(call[p].name) :
                 pc' = [pc EXCEPT ![p] = "dropEntry"] /\ call' = [call EXCEPT ![p] = [call[p] EXCEPT !.entry = i]]
        BY <1>6, <3>2 DEF DestroyBlock
      <4>2. pc[p] = "dropBlock" /\ UNCHANGED <<gone, torn, handles>>
        BY <1>6 DEF DestroyBlock
      <4>3. CASE pc' = [pc EXCEPT ![p] = "unlock"] /\ call' = [call EXCEPT ![p] = NoCall]
        BY <1>0, <4>2, <4>3
      <4>4. ASSUME NEW i, pc' = [pc EXCEPT ![p] = "dropEntry"],
                   call' = [call EXCEPT ![p] = [call[p] EXCEPT !.entry = i]]
            PROVE  /\ pc'[p] = "dropEntry" /\ call'[p].then = call[p].then
                   /\ call'[p].name = call[p].name /\ call'[p].obj = call[p].obj
        <5>1. call[p] \in Call /\ call'[p] = [call[p] EXCEPT !.entry = i]
          BY <1>0, <4>4
        <5> QED BY <1>0, <4>4, <5>1 DEF Call
      <4> QED BY <4>1, <4>2, <4>3, <4>4
    <3> QED BY <3>1, <3>2
  <2>1. Flow(p)' /\ Busy(p)
    BY <1>0, <2>0, NoObjectFact, NullAssumption
  <2>2. \A q \in Procs : q # p => call'[q] = call[q] /\ handles'[q] = handles[q]
    BY <1>0, <1>6 DEF DestroyBlock, Types, LocalTypes
  <2> QED BY <1>0, <1>6, <2>1, <2>2, ControlKept DEF DestroyBlock
<1>7. CASE DestroyEntry(p)
  <2>1. Flow(p)' /\ Busy(p)
    BY <1>0, <1>7, NoObjectFact, NullAssumption DEF DestroyEntry, Call
  <2>2. \A q \in Procs : q # p => call'[q] = call[q] /\ handles'[q] = handles[q]
    BY <1>0, <1>7 DEF DestroyEntry, Types, LocalTypes
  <2> QED BY <1>0, <1>7, <2>1, <2>2, ControlKept DEF DestroyEntry
<1>8. CASE RemoveLast(p)
  <2>1. Flow(p)' /\ Busy(p)
    BY <1>0, <1>8, NoObjectFact, NullAssumption DEF RemoveLast, Call
  <2>2. \A q \in Procs : q # p => call'[q] = call[q] /\ handles'[q] = handles[q]
    BY <1>0, <1>8 DEF RemoveLast, Types, LocalTypes
  <2> QED BY <1>0, <1>8, <2>1, <2>2, ControlKept DEF RemoveLast
<1> QED BY <1>1, <1>2, <1>3, <1>4, <1>5, <1>6, <1>7, <1>8

\* so does sem_open, whether it succeeds or fails,
LEMMA ControlSemOpen ==
  ASSUME Types, Control, Types', Bounded, NEW p \in Procs, SemOpen(p)
  PROVE  Control'
<1> USE DEF Goto, Become, Busy, Flow, Creating, UnderLock, Removal, Removing, NoCall
<1>0. Flow(p) /\ pc \in [Procs -> Labels] /\ call \in [Procs -> Call] /\ gone' = gone /\ pc[p] = "open"
  BY DEF Control, Types, LocalTypes, SemOpen
<1> DEFINE n == call[p].name
           obj == IF linked[n] = NoObject THEN NewObject(n) ELSE linked[n]
<1>1. n \in Names
  BY <1>0
<1>2. obj # NoObject
  BY <1>1, NewObjectIs, NoObjectFact
<1> HIDE DEF n, obj
<1>3. \/ pc' = [pc EXCEPT ![p] = "idle"] /\ call' = [call EXCEPT ![p] = NoCall]
      \/ /\ pc' = [pc EXCEPT ![p] = "lock"]
         /\ call' = [call EXCEPT ![p] = [NoCall EXCEPT !.name = n, !.obj = obj, !.then = "create"]]
  BY DEF SemOpen, n, obj
<1>4. Flow(p)' /\ Busy(p)
  <2>1. \/ pc'[p] = "idle" /\ call'[p] = NoCall
        \/ /\ pc'[p] = "lock" /\ call'[p].obj = obj /\ call'[p].name = n
           /\ call'[p].then = "create" /\ call'[p].entry = 0
    BY <1>0, <1>3
  <2> QED BY <1>0, <1>1, <1>2, <2>1
<1>5. \A q \in Procs : q # p => call'[q] = call[q] /\ handles'[q] = handles[q]
  BY <1>0, <1>3 DEF SemOpen
<1>6. PICK l \in {"idle", "lock"} : pc' = [pc EXCEPT ![p] = l]
  BY <1>3
<1>7. UNCHANGED <<regime, lock, gone, torn>>
  BY DEF SemOpen
<1> QED BY <1>0, <1>4, <1>5, <1>6, <1>7, ControlKept

\* so do the steps of Remove,
LEMMA ControlRemoveNext ==
  ASSUME Types, Control, Types', NEW p \in Procs, RemoveNext(p)
  PROVE  Control'
<1> USE DEF Goto, Become, Busy, Flow, Creating, UnderLock, Removal, Removing, NoCall
<1>0. Flow(p) /\ pc \in [Procs -> Labels] /\ call \in [Procs -> Call] /\ gone' = gone /\ pc[p] = "remove"
      /\ torn' = torn
  BY DEF Control, Types, LocalTypes, RemoveNext
<1>1. \E l \in {"remove", "removeLast", call[p].then} :
        /\ pc' = [pc EXCEPT ![p] = l]
        /\ l = call[p].then => \E c \in Call : /\ c.then = "idle" /\ c.obj = call[p].obj /\ c.name = call[p].name
                                               /\ call' = [call EXCEPT ![p] = c]
        /\ l # call[p].then => \E c \in Call : /\ c.then = call[p].then /\ c.obj = call[p].obj
                                               /\ c.name = call[p].name /\ c.victim = call[p].victim
                                               /\ call' = [call EXCEPT ![p] = c]
  <2> DEFINE first == sem[call[p].entry].nFirst
             k == FindRefCount(first, call[p].victim)
  <2>0. call'[p] \in Call /\ call[p] \in Call /\ call[p].then \in {"create", "uncount"}
    BY <1>0 DEF Types, LocalTypes
  <2>1. CASE first = 0
    <3>1. /\ pc' = [pc EXCEPT ![p] = call[p].then]
          /\ call' = [call EXCEPT ![p] = [call[p] EXCEPT !.entry = 0, !.victim = NoPid, !.then = "idle"]]
      BY <2>1 DEF RemoveNext
    <3>2. call'[p] = [call[p] EXCEPT !.entry = 0, !.victim = NoPid, !.then = "idle"]
      BY <1>0, <3>1
    <3>3. call'[p].then = "idle" /\ call'[p].obj = call[p].obj /\ call'[p].name = call[p].name
      BY <2>0, <3>2 DEF Call
    <3>4. call' = [call EXCEPT ![p] = call'[p]]
      BY <3>1, <3>2
    <3> QED BY <2>0, <3>1, <3>3, <3>4
  <2>2. CASE first # 0
    <3>1. /\ pc' = [pc EXCEPT ![p] = "remove"] \/ pc' = [pc EXCEPT ![p] = "removeLast"]
          /\ \/ call' = [call EXCEPT ![p] = [call[p] EXCEPT !.entry = @ + 1]]
             \/ call' = [call EXCEPT ![p] = call[p]]
      BY <2>2 DEF RemoveNext
    <3>2. /\ call'[p] = [call[p] EXCEPT !.entry = @ + 1] \/ call'[p] = call[p]
          /\ call' = [call EXCEPT ![p] = call'[p]]
      BY <1>0, <3>1
    <3>3. /\ call'[p].then = call[p].then /\ call'[p].obj = call[p].obj
          /\ call'[p].name = call[p].name /\ call'[p].victim = call[p].victim
      BY <2>0, <3>2 DEF Call
    <3> QED BY <2>0, <3>1, <3>2, <3>3
  <2> QED BY <2>1, <2>2
<1>2. PICK l \in {"remove", "removeLast", call[p].then} :
        /\ pc' = [pc EXCEPT ![p] = l]
        /\ call'[p].obj = call[p].obj /\ call'[p].name = call[p].name
        /\ l = call[p].then => call'[p].then = "idle"
        /\ l # call[p].then => call'[p].then = call[p].then /\ call'[p].victim = call[p].victim
        /\ \A q \in Procs : q # p => call'[q] = call[q]
  BY <1>0, <1>1
<1>3. Flow(p)' /\ Busy(p)
  BY <1>0, <1>2
<1>4. \A q \in Procs : q # p => call'[q] = call[q] /\ handles'[q] = handles[q]
  BY <1>2 DEF RemoveNext
<1> QED BY <1>0, <1>2, <1>3, <1>4, ControlKept DEF RemoveNext

\* so does the begin of a call,
LEMMA ControlBegin ==
  ASSUME Types, Control, Types', NEW p \in Procs, Begin(p)
  PROVE  Control'
<1> USE DEF Goto, Become, Busy, UnderLock, Removal, Removing
<1>0. Flow(p) /\ pc \in [Procs -> Labels] /\ call \in [Procs -> Call] /\ handles \in [Procs -> SUBSET Handle]
  BY DEF Control, Types, LocalTypes
<1>1. CASE \E n \in Names, create \in BOOLEAN : Open(p, n, create)
  <2>1. PICK n \in Names, create \in BOOLEAN : Open(p, n, create)
    BY <1>1
  <2>2. regime = "mortal" => \A q \in Procs : ~Busy(q)
    BY <2>1, BeginAlone DEF Open
  <2>3. /\ pc[p] = "idle" /\ pc' = [pc EXCEPT ![p] = "refresh"]
        /\ \A q \in Procs : q # p => call'[q] = call[q] /\ handles'[q] = handles[q] /\ pc'[q] = pc[q]
        /\ pc'[p] = "refresh" /\ call'[p].name = n /\ call'[p].obj = NoObject /\ call'[p].then = "idle"
        /\ UNCHANGED <<regime, lock, gone, torn>>
    BY <1>0, <2>1 DEF Open, NoCall
  <2>4. Flow(p)'
    BY <2>3 DEF Flow, Creating
  <2>5. \A q \in Procs : Flow(q)'
    BY <2>3, <2>4 DEF Control, Flow, Creating
  <2> QED BY <1>0, <2>2, <2>3, <2>5 DEF Control
<1>2. CASE \E h \in handles[p] : Close(p, h)
  <2>1. PICK h \in handles[p] : Close(p, h)
    BY <1>2
  <2>2. regime = "mortal" => \A q \in Procs : ~Busy(q)
    BY <2>1, BeginAlone DEF Close
  <2>3. /\ pc[p] = "idle" /\ pc' = [pc EXCEPT ![p] = "lock"] /\ h \in Handle
        /\ \A q \in Procs : q # p => call'[q] = call[q] /\ handles'[q] = handles[q] /\ pc'[q] = pc[q]
        /\ pc'[p] = "lock" /\ call'[p].name = h.name /\ call'[p].obj = NoObject /\ call'[p].then = "uncount"
        /\ call'[p].entry = 0
        /\ UNCHANGED <<regime, lock, gone, torn>>
    BY <1>0, <2>1 DEF Close, NoCall
  <2>4. Flow(p)'
    BY <2>3 DEF Flow, Creating, Handle
  <2>5. \A q \in Procs : Flow(q)'
    BY <2>3, <2>4 DEF Control, Flow, Creating
  <2> QED BY <1>0, <2>2, <2>3, <2>5 DEF Control
<1>3. CASE \E h \in handles[p] : Mark(p, h, p) \/ Mark(p, h, NoPid)
  BY <1>3 DEF Mark, Control, Flow, Creating
<1> QED BY <1>1, <1>2, <1>3 DEF Begin

\* so do taking the lock and giving it back,
LEMMA ControlLock ==
  ASSUME Types, Control, Types', NEW p \in Procs,
         LockFree(p) \/ LockOfDead(p) \/ Unlock(p) \/ UnlinkLast(p)
  PROVE  Control'
<1> USE DEF Goto, Become, Busy, UnderLock, Removal, Removing
<1>0. /\ Flow(p) /\ pc \in [Procs -> Labels] /\ call \in [Procs -> Call] /\ handles \in [Procs -> SUBSET Handle]
      /\ \A q \in Procs : pc[q] \in UnderLock => lock = q
      /\ gone = {q \in Procs : pc[q] = "dead"} /\ (torn => gone # {})
      /\ regime = "concurrent" => gone = {}
      /\ regime = "mortal" => \A q, r \in Procs : Busy(q) /\ Busy(r) => q = r
      /\ lock \in Procs => pc[lock] \in UnderLock \cup {"dead"}
      /\ lock \in gone => torn
      /\ NoPid \notin Procs
  BY NullAssumption DEF Control, Types, LocalTypes
<1>1. UNCHANGED <<regime, gone, torn, handles>>
  BY DEF LockFree, LockOfDead, Unlock, UnlinkLast
<1>2. \A q \in Procs : q # p => call'[q] = call[q] /\ pc'[q] = pc[q]
  BY <1>0 DEF LockFree, LockOfDead, Unlock, UnlinkLast
<1>3. ASSUME Flow(p)', pc[p] \notin {"idle", "dead"}, pc'[p] # "dead",
             \A q \in Procs : pc'[q] \in UnderLock => lock' = q,
             lock' \in Procs => pc'[lock'] \in UnderLock \cup {"dead"},
             lock' \in gone => torn
      PROVE  Control'
  <2>1. \A q \in Procs : Flow(q)'
    BY <1>1, <1>2, <1>3 DEF Control, Flow, Creating
  <2>2. gone' = {q \in Procs : pc'[q] = "dead"}
    BY <1>0, <1>1, <1>2, <1>3
  <2>3. regime' = "mortal" => \A q, r \in Procs : Busy(q)' /\ Busy(r)' => q = r
    BY <1>0, <1>1, <1>2, <1>3
  <2> QED BY <1>0, <1>1, <1>3, <2>1, <2>2, <2>3 DEF Control
<1>4. CASE LockFree(p)
  <2>1. /\ lock = NoPid /\ lock' = p /\ pc[p] = "lock" /\ pc'[p] = call[p].then
        /\ call'[p] = [call[p] EXCEPT !.then = "idle"] /\ call[p] \in Call
    BY <1>0, <1>4 DEF LockFree
  <2>2. call'[p].then = "idle" /\ call'[p].name = call[p].name /\ call'[p].obj = call[p].obj
    BY <2>1 DEF Call
  <2>3. Flow(p)'
    BY <1>0, <1>1, <2>1, <2>2 DEF Flow, Creating
  <2>4. call[p].then \in {"create", "uncount"}
    BY <1>0, <2>1 DEF Flow
  <2>5. p \notin gone
    BY <1>0, <2>1
  <2> QED BY <1>0, <1>2, <1>3, <2>1, <2>3, <2>4, <2>5
<1>5. CASE LockOfDead(p)
  <2>1. /\ lock \in gone /\ lock' = p /\ pc[p] = "lock" /\ pc'[p] = "remove"
        /\ call'[p] = [call[p] EXCEPT !.victim = lock] /\ call[p] \in Call
    BY <1>0, <1>5 DEF LockOfDead
  <2>2. /\ call'[p].then = call[p].then /\ call'[p].name = call[p].name /\ call'[p].obj = call[p].obj
        /\ call'[p].victim = lock
    BY <2>1 DEF Call
  <2>3. Flow(p)'
    BY <1>0, <1>1, <2>1, <2>2 DEF Flow, Creating
  <2>4. p \notin gone /\ pc[lock] = "dead"
    BY <1>0, <2>1
  <2> QED BY <1>0, <1>2, <1>3, <2>1, <2>3, <2>4
<1>6. CASE Unlock(p)
  <2>1. /\ lock = p /\ lock' = NoPid /\ pc[p] = "unlock" /\ pc'[p] = call[p].then
        /\ call'[p] = [call[p] EXCEPT !.then = "idle"] /\ call[p] \in Call
    BY <1>0, <1>6 DEF Unlock
  <2>2. call'[p].then = "idle" /\ call'[p].name = call[p].name /\ call'[p].obj = call[p].obj
    BY <2>1 DEF Call
  <2>3. call[p].then \in {"idle", "unlinkLast"} /\ call[p].obj = NoObject
    BY <1>0, <2>1 DEF Flow, Creating
  <2>4. call[p].then = "idle" => call'[p] = NoCall
    <3>1. \A x \in Call : x.then = "idle" => [x EXCEPT !.then = "idle"] = x
      BY DEF Call
    <3> QED BY <1>0, <2>1, <3>1 DEF Flow
  <2>5. Flow(p)'
    BY <1>0, <1>1, <2>1, <2>2, <2>3, <2>4 DEF Flow, Creating
  <2>6. NoPid \notin gone
    BY <1>0
  <2> QED BY <1>0, <1>2, <1>3, <2>1, <2>3, <2>5, <2>6
<1>7. CASE UnlinkLast(p)
  <2>1. lock' = lock /\ pc[p] = "unlinkLast" /\ pc'[p] = "idle" /\ call'[p] = NoCall
    BY <1>0, <1>7 DEF UnlinkLast
  <2>2. Flow(p)'
    BY <1>0, <1>1, <2>1 DEF Flow, Creating, NoCall
  <2> QED BY <1>0, <1>2, <1>3, <2>1, <2>2
<1> QED BY <1>4, <1>5, <1>6, <1>7

\* and so does a death, which makes a holder of the lock one of the dead.
LEMMA ControlDie ==
  ASSUME Types, Control, Types', NEW p \in Procs, Die(p)
  PROVE  Control'
<1> USE DEF Busy, UnderLock, Removal, Removing
<1>0. /\ pc \in [Procs -> Labels] /\ call \in [Procs -> Call] /\ handles \in [Procs -> SUBSET Handle]
  BY DEF Types, LocalTypes
<1>1. /\ pc'[p] = "dead" /\ call'[p] = NoCall /\ handles'[p] = {} /\ gone' = gone \cup {p} /\ regime = "mortal"
      /\ regime' = regime /\ lock' = lock /\ torn' = (torn \/ InTable(p)) /\ (torn => torn')
      /\ \A q \in Procs : q # p => pc'[q] = pc[q] /\ call'[q] = call[q] /\ handles'[q] = handles[q]
  BY <1>0 DEF Die, Become
<1>2. Flow(p)'
  BY <1>1 DEF Flow, Creating, NoCall
<1>3. \A q \in Procs : Flow(q)'
  <2>1. ASSUME NEW q \in Procs, q # p PROVE Flow(q)'
    BY <1>1, <2>1 DEF Control, Flow, Creating
  <2> QED BY <1>2, <2>1
<1>4. gone' = {q \in Procs : pc'[q] = "dead"}
  BY <1>1 DEF Control
<1>5. lock' \in gone' => torn'
  BY <1>1 DEF Control, InTable
<1>6. regime' = "mortal" => \A q, r \in Procs : Busy(q)' /\ Busy(r)' => q = r
  BY <1>1 DEF Control
<1>7. /\ \A q \in Procs : pc'[q] \in UnderLock => lock' = q
      /\ lock' \in Procs => pc'[lock'] \in UnderLock \cup {"dead"}
  BY <1>1 DEF Control
<1> QED BY <1>1, <1>3, <1>4, <1>5, <1>6, <1>7 DEF Control

-----------------------------------------------------------------------------
(* The inductive invariant.                                                *)

\* Closing a handle that is still counted, in block k.
Closing(p) == pc[p] = "uncount" \/ call[p].then = "uncount"
Pending(p, k) == IF Closing(p) /\ call[p].block = k THEN 1 ELSE 0

\* Handles, calls and counts agree, except for the dead.
Counts(home) ==
  /\ \A p \in Procs : \A h \in handles[p] : home[h.block] = h.name /\ ref[h.block].nPID = p
  /\ \A p \in Procs : Closing(p) \/ pc[p] \in {"dropBlock", "count"} =>
       call[p].block \in Blocks /\ home[call[p].block] = call[p].name /\ ref[call[p].block].nPID = p
  /\ \A p \in Procs : pc[p] = "dropBlock" => ref[call[p].block].nValue = 0
  /\ \A k \in Blocks : home[k] # NoName /\ ref[k].nPID \notin gone =>
       ref[k].nValue = Cardinality(HandlesOn(ref[k].nPID, home[k])) + Pending(ref[k].nPID, k)
  /\ \A k \in Blocks : home[k] # NoName /\ ref[k].nPID \notin gone /\ ref[k].nValue = 0 =>
       \/ pc[ref[k].nPID] \in {"append", "count"} /\ home[k] = call[ref[k].nPID].name
       \/ pc[ref[k].nPID] = "dropBlock" /\ call[ref[k].nPID].block = k

\* What a process in the middle of a table operation has found or left.
StageOf(home, p) ==
  /\ pc[p] \in {"first", "append", "dropEntry", "removeFind", "removeBlock", "removeEntry"} =>
       sem[call[p].entry].szName = call[p].name
  /\ pc[p] = "append" => sem[call[p].entry].nFirst # 0
  /\ pc[p] \in {"dropEntry", "removeLast", "removeEntry"} =>
       sem[call[p].entry].nFirst = 0 /\ sem[call[p].entry].szName # NoName
  /\ pc[p] = "scan" /\ regime = "mortal" => sem[call[p].entry].szName = call[p].name
  /\ pc[p] = "removeBlock" =>
       call[p].block \in Blocks /\ home[call[p].block] = call[p].name /\ ref[call[p].block].nPID \in gone
Stages(home) == \A p \in Procs : StageOf(home, p)

\* What a process that died inside the table left behind: a block that was not
\* counted yet or any more, which the next holder of the lock removes, or an empty list.
DeadZero(home, k) == home[k] # NoName /\ ref[k].nValue = 0 /\ ref[k].nPID \in gone
Covering == {"first", "dropEntry", "removeLast", "removeEntry"}
Covered(i) == \E p \in Procs : pc[p] \in Covering /\ call[p].entry = i
Torn(home) ==
  /\ \A k \in Blocks : DeadZero(home, k) =>
       \/ lock \in gone /\ ref[k].nPID = lock
       \/ \E q \in Procs : /\ pc[q] \in Removing /\ call[q].victim = ref[k].nPID
                           /\ \E i \in call[q].entry .. LastEntry : sem[i].szName = home[k]
  /\ \A i \in 0 .. LastEntry : sem[i].szName # NoName /\ sem[i].nFirst = 0 =>
       Covered(i) \/ (torn /\ \A k \in Blocks : ~DeadZero(home, k))

\* Processes that keep a name linked without an entry, or are about to unlink it.
Holding(p) == call[p].then \in {"create", "unlinkLast"} \/ pc[p] \in {"create", "unlinkLast"}
Unlinking(p) == pc[p] \in {"unlinkOld", "unlinkLast"} \/ call[p].then = "unlinkLast"

\* The names that are linked, against the entries of the table.
Links ==
  /\ \A n \in Names : gone = {} /\ linked[n] # NoObject =>
       HasEntry(n) \/ \E p \in Procs : call[p].name = n /\ Holding(p)
  /\ regime = "mortal" => \A p \in Procs : \A h \in handles[p] : linked[h.name] = h.obj
  /\ regime = "mortal" => \A p \in Procs : call[p].obj # NoObject => linked[call[p].name] = call[p].obj
  /\ regime = "mortal" => \A p \in Procs : Unlinking(p) => ~HasEntry(call[p].name)

\* All that is said of the table.
Sound(e, home, pos) == Packed(e) /\ Heap(home, pos) /\ Counts(home) /\ Stages(home) /\ Torn(home)

\* The inductive invariant.
IInv == Types /\ Control /\ Links /\ Bounded /\ \E e, home, pos : Sound(e, home, pos)

\* What is counted stays so when neither table nor handles nor what is being closed changes.
LEMMA CountsKept ==
  ASSUME Types, Control, NEW home, NEW home2, NEW pos, Heap(home, pos), Counts(home), NEW p \in Procs,
         UNCHANGED <<handles, gone>>,
         \A q \in Procs : q # p => pc'[q] = pc[q] /\ call'[q] = call[q],
         pc[p] \notin {"append", "count", "dropBlock"}, pc'[p] \notin {"append", "count", "dropBlock"},
         Closing(p)' <=> Closing(p),
         Closing(p) => call'[p].block = call[p].block /\ call'[p].name = call[p].name,
         \A k \in Blocks : home2[k] # NoName =>
           home2[k] = home[k] /\ ref'[k].nPID = ref[k].nPID /\ ref'[k].nValue = ref[k].nValue,
         \A k \in Blocks : home[k] # NoName /\ home2[k] = NoName => ref[k].nPID \in gone
  PROVE  Counts(home2)'
<1>0. /\ \A q \in Procs, n \in Names \cup {NoName} : HandlesOn(q, n)' = HandlesOn(q, n)
      /\ \A q \in Procs : pc[q] = "dead" <=> q \in gone
      /\ \A q \in Procs : pc[q] = "dead" => handles[q] = {} /\ call[q].then = "idle"
      /\ \A q \in Procs : \A h \in handles[q] : h.block \in Blocks /\ h.name # NoName
      /\ \A q \in Procs : Closing(q) \/ pc[q] \in {"dropBlock", "count"} => call[q].name # NoName
  BY NullAssumption
     DEF HandlesOn, Control, Flow, Busy, NoCall, Types, LocalTypes, Handle, Closing, Removing
<1>1. ASSUME NEW q \in Procs, NEW k \in Blocks, home[k] # NoName, ref[k].nPID = q, q \notin gone
      PROVE  home2[k] = home[k] /\ ref'[k].nPID = q /\ ref'[k].nValue = ref[k].nValue
  BY <1>1
<1>2. ASSUME NEW q \in Procs, NEW h \in handles'[q] PROVE home2[h.block] = h.name /\ ref'[h.block].nPID = q
  <2>1. h \in handles[q] /\ h.block \in Blocks /\ home[h.block] = h.name /\ ref[h.block].nPID = q /\ h.name # NoName
    BY <1>0, <1>2 DEF Counts
  <2>2. q \notin gone
    BY <1>0, <2>1
  <2> QED BY <1>1, <2>1, <2>2
<1>3. ASSUME NEW q \in Procs, Closing(q)' \/ pc'[q] \in {"dropBlock", "count"}
      PROVE  call'[q].block \in Blocks /\ home2[call'[q].block] = call'[q].name /\ ref'[call'[q].block].nPID = q
  <2>1. Closing(q) \/ pc[q] \in {"dropBlock", "count"}
    BY <1>3 DEF Closing
  <2>2. call'[q].block = call[q].block /\ call'[q].name = call[q].name
    BY <1>3, <2>1
  <2>3. call[q].block \in Blocks /\ home[call[q].block] = call[q].name /\ ref[call[q].block].nPID = q
    BY <2>1 DEF Counts
  <2>4. q \notin gone
    BY <1>0, <2>1 DEF Closing
  <2> QED BY <1>0, <1>1, <2>1, <2>2, <2>3, <2>4
<1>4. ASSUME NEW q \in Procs, pc'[q] = "dropBlock" PROVE ref'[call'[q].block].nValue = 0
  <2>1. q # p /\ pc[q] = "dropBlock" /\ call'[q] = call[q] /\ q \notin gone
    BY <1>0, <1>4
  <2>2. /\ call[q].block \in Blocks /\ home[call[q].block] = call[q].name /\ ref[call[q].block].nPID = q
        /\ ref[call[q].block].nValue = 0
    BY <2>1 DEF Counts
  <2> QED BY <1>0, <1>1, <2>1, <2>2
<1>5. ASSUME NEW k \in Blocks, home2[k] # NoName, ref'[k].nPID \notin gone'
      PROVE  /\ home[k] # NoName /\ home2[k] = home[k] /\ ref'[k].nPID = ref[k].nPID /\ ref[k].nPID \notin gone
             /\ ref'[k].nValue = ref[k].nValue
  BY <1>5
<1>6. \A q \in Procs, k \in Blocks : Pending(q, k)' = Pending(q, k)
  <2>1. \A q \in Procs : Closing(q)' <=> Closing(q)
    BY DEF Closing
  <2> QED BY <2>1 DEF Pending
<1>7. ASSUME NEW k \in Blocks, home2[k] # NoName, ref'[k].nPID \notin gone'
      PROVE  /\ ref'[k].nValue = Cardinality(HandlesOn(ref[k].nPID, home2[k]))' + Pending(ref[k].nPID, k)'
             /\ ref'[k].nValue = 0 =>
                  \/ pc'[ref'[k].nPID] \in {"append", "count"} /\ home2[k] = call'[ref'[k].nPID].name
                  \/ pc'[ref'[k].nPID] = "dropBlock" /\ call'[ref'[k].nPID].block = k
  <2>0. PICK q \in Procs : q = ref[k].nPID
    BY <1>5, <1>7 DEF Heap
  <2>1. PICK n \in Names \cup {NoName} : n = home[k]
    BY DEF Heap
  <2>2. ref[k].nValue = Cardinality(HandlesOn(q, n)) + Pending(q, k)
    BY <1>5, <1>7, <2>0, <2>1 DEF Counts
  <2>3. ref'[k].nPID = q /\ home2[k] = n /\ ref'[k].nValue = ref[k].nValue
    BY <1>5, <1>7, <2>0, <2>1
  <2>4. HandlesOn(ref[k].nPID, home2[k])' = HandlesOn(q, n)
    BY <1>0, <2>3
  <2>5. Pending(ref[k].nPID, k)' = Pending(q, k)
    BY <1>6, <2>3
  <2>6. ref[k].nValue = 0 => \/ pc[q] \in {"append", "count"} /\ home[k] = call[q].name
                             \/ pc[q] = "dropBlock" /\ call[q].block = k
    BY <1>5, <1>7, <2>0 DEF Counts
  <2>7. ref[k].nValue = 0 => q # p
    BY <2>6
  <2> QED BY <1>5, <2>0, <2>1, <2>2, <2>3, <2>4, <2>5, <2>6, <2>7
<1> QED BY <1>2, <1>3, <1>4, <1>7 DEF Counts

\* A process that does not move keeps what it has found when the table stays.
LEMMA StagesKept ==
  ASSUME Types, Control, NEW home, NEW home2, Stages(home), NEW p \in Procs, UNCHANGED <<regime, gone>>,
         \A q \in Procs : q # p => pc'[q] = pc[q] /\ call'[q] = call[q],
         (pc[p] \in UnderLock \/ (regime = "mortal" /\ Busy(p))) \/ (UNCHANGED table /\ home2 = home),
         StageOf(home2, p)'
  PROVE  Stages(home2)'
<1>1. ASSUME NEW q \in Procs, q # p PROVE StageOf(home2, q)'
  <2>1. CASE UNCHANGED table /\ home2 = home
    <3>1. StageOf(home, q)
      BY DEF Stages
    <3> QED BY <1>1, <2>1, <3>1 DEF StageOf, table
  <2>2. CASE pc[p] \in UnderLock \/ (regime = "mortal" /\ Busy(p))
    <3>1. pc[q] \notin UnderLock \cup Removal /\ (regime = "mortal" => ~Busy(q))
      BY <1>1, <2>2, Alone
    <3>2. pc'[q] = pc[q] /\ regime' = regime
      BY <1>1
    <3>3. /\ pc[q] \notin {"first", "append", "dropEntry", "removeFind", "removeBlock", "removeEntry", "removeLast"}
          /\ regime = "mortal" => pc[q] # "scan"
      BY <3>1 DEF UnderLock, Removal, Busy
    <3> QED BY <3>2, <3>3 DEF StageOf
  <2> QED BY <2>1, <2>2
<1> QED BY <1>1 DEF Stages

\* While nobody died inside the table, no count is 0 but under the lock.
LEMMA NoneTorn ==
  ASSUME Types, Control, NEW home, Torn(home), NEW p \in Procs, pc[p] \in UnderLock \ Removing, NEW k \in Blocks
  PROVE  ~DeadZero(home, k)
<1>1. lock = p /\ p \notin gone
  BY DEF Control, UnderLock
<1>2. \A q \in Procs : pc[q] \notin Removing
  BY <1>1 DEF Control, UnderLock, Removing
<1> QED BY <1>1, <1>2 DEF Torn

\* A table that stays has nothing more half done, as long as whoever covered it still does.
LEMMA TornKept ==
  ASSUME Types, Control, NEW home, NEW home2, Torn(home), NEW p \in Procs, UNCHANGED <<gone, torn>>,
         lock' = lock \/ lock \notin gone,
         \A q \in Procs : q # p => pc'[q] = pc[q] /\ call'[q] = call[q],
         pc[p] \notin Removing,
         \A k \in Blocks : home2[k] # NoName /\ ref'[k].nPID \in gone =>
           home2[k] = home[k] /\ ref'[k].nPID = ref[k].nPID /\ ref'[k].nValue = ref[k].nValue,
         \A i \in 0 .. LastEntry : sem'[i].szName = sem[i].szName
           \/ pc[p] \in UnderLock \/ (regime = "mortal" /\ Busy(p)),
         \A i \in 0 .. LastEntry : sem'[i].szName # NoName /\ sem'[i].nFirst = 0 =>
           Covered(i)' \/ (torn /\ \A k \in Blocks : ~DeadZero(home, k))
  PROVE  Torn(home2)'
<1>1. \A k \in Blocks : DeadZero(home2, k)' => DeadZero(home, k) /\ home2[k] = home[k] /\ ref'[k].nPID = ref[k].nPID
  BY DEF DeadZero
<1>2. ASSUME NEW k \in Blocks, DeadZero(home2, k)'
      PROVE  \/ lock' \in gone' /\ ref'[k].nPID = lock'
             \/ \E q \in Procs : /\ pc'[q] \in Removing /\ call'[q].victim = ref'[k].nPID
                                 /\ \E i \in call'[q].entry .. LastEntry : sem'[i].szName = home2[k]
  <2>1. DeadZero(home, k) /\ home2[k] = home[k] /\ ref'[k].nPID = ref[k].nPID
    BY <1>1, <1>2
  <2>2. CASE lock \in gone /\ ref[k].nPID = lock
    BY <2>1, <2>2
  <2>3. CASE \E q \in Procs : /\ pc[q] \in Removing /\ call[q].victim = ref[k].nPID
                              /\ \E i \in call[q].entry .. LastEntry : sem[i].szName = home[k]
    <3>1. PICK q \in Procs : /\ pc[q] \in Removing /\ call[q].victim = ref[k].nPID
                             /\ \E i \in call[q].entry .. LastEntry : sem[i].szName = home[k]
      BY <2>3
    <3>2. q # p /\ pc[q] \in UnderLock
      BY <3>1 DEF UnderLock, Removing
    <3>3. ~(pc[p] \in UnderLock \/ (regime = "mortal" /\ Busy(p)))
      BY <3>2, Alone
    <3>4. \A i \in 0 .. LastEntry : sem'[i].szName = sem[i].szName
      BY <3>3
    <3>5. call[q].entry \in 0 .. LastEntry /\ LastEntry \in Nat
      BY Sizes DEF Types, LocalTypes, Call
    <3>6. \A i \in call[q].entry .. LastEntry : i \in 0 .. LastEntry
      BY <3>5
    <3> QED BY <2>1, <3>1, <3>2, <3>4, <3>6
  <2> QED BY <2>1, <2>2, <2>3 DEF Torn
<1>3. ASSUME NEW i \in 0 .. LastEntry, sem'[i].szName # NoName, sem'[i].nFirst = 0
      PROVE  Covered(i)' \/ (torn' /\ \A k \in Blocks : ~DeadZero(home2, k)')
  BY <1>1, <1>3
<1> QED BY <1>2, <1>3 DEF Torn

\* The bound on the handles holds when no handle is opened and no call to open one begins.
LEMMA BoundedKept ==
  ASSUME Bounded, NEW p \in Procs, \A q \in Procs : handles'[q] \subseteq handles[q],
         \A q \in Procs : q # p => pc'[q] = pc[q] /\ call'[q] = call[q],
         pc'[p] \in OpenLabels \/ call'[p].then = "create" => p \in Opening
  PROVE  Bounded'
<1>1. OpenHandles' \subseteq OpenHandles
  BY DEF OpenHandles
<1>2. Opening' \subseteq Opening
  BY DEF Opening
<1>3. /\ IsFiniteSet(OpenHandles) /\ IsFiniteSet(Opening)
      /\ Cardinality(OpenHandles) + Cardinality(Opening) <= MaxOpen
      /\ Cardinality(OpenHandles) \in Nat /\ Cardinality(Opening) \in Nat
  BY OpenedIs DEF Bounded
<1>4. IsFiniteSet(OpenHandles') /\ Cardinality(OpenHandles') <= Cardinality(OpenHandles) /\ Cardinality(OpenHandles') \in Nat
  BY <1>1, <1>3, FS_Subset, FS_CardinalityType
<1>5. IsFiniteSet(Opening') /\ Cardinality(Opening') <= Cardinality(Opening) /\ Cardinality(Opening') \in Nat
  BY <1>2, <1>3, FS_Subset, FS_CardinalityType
<1>6. Opened' = Cardinality(OpenHandles') + Cardinality(Opening')
  BY DEF Opened
<1>7. MaxOpen \in Nat
  BY BoundAssumption
<1> QED BY <1>3, <1>4, <1>5, <1>6, <1>7 DEF Bounded

\* The links stay right when neither they nor the names of the entries change.
LEMMA LinksKept ==
  ASSUME Types, Control, Links, NEW p \in Procs, UNCHANGED <<regime, gone, linked>>,
         \A q \in Procs : q # p => pc'[q] = pc[q] /\ call'[q] = call[q],
         \A q \in Procs : handles'[q] \subseteq handles[q],
         Holding(p) => Holding(p)' /\ call'[p].name = call[p].name,
         Unlinking(p)' => Unlinking(p) /\ call'[p].name = call[p].name,
         call'[p].obj # NoObject => call'[p].obj = call[p].obj /\ call'[p].name = call[p].name,
         \A n \in Names : gone = {} /\ HasEntry(n) => HasEntry(n)',
         \A n \in Names : HasEntry(n)' => HasEntry(n) \/ (Busy(p) /\ ~Unlinking(p))
  PROVE  Links'
<1>1. ASSUME NEW n \in Names, gone' = {}, linked'[n] # NoObject
      PROVE  HasEntry(n)' \/ \E q \in Procs : call'[q].name = n /\ Holding(q)'
  <2>1. CASE HasEntry(n)
    BY <1>1, <2>1
  <2>2. CASE \E q \in Procs : call[q].name = n /\ Holding(q)
    <3>1. PICK q \in Procs : call[q].name = n /\ Holding(q)
      BY <2>2
    <3>2. call'[q].name = n /\ Holding(q)'
      BY <3>1 DEF Holding
    <3> QED BY <3>2
  <2> QED BY <1>1, <2>1, <2>2 DEF Links
<1>2. ASSUME regime' = "mortal", NEW q \in Procs, NEW h \in handles'[q] PROVE linked'[h.name] = h.obj
  BY <1>2 DEF Links
<1>3. ASSUME regime' = "mortal", NEW q \in Procs, call'[q].obj # NoObject PROVE linked'[call'[q].name] = call'[q].obj
  BY <1>3 DEF Links
<1>4. ASSUME regime' = "mortal", NEW q \in Procs, Unlinking(q)' PROVE ~HasEntry(call[q].name)'
  <2>1. Unlinking(q) /\ call'[q].name = call[q].name
    BY <1>4 DEF Unlinking
  <2>2. call[q].name \in Names /\ Busy(q) /\ ~HasEntry(call[q].name)
    BY <1>4, <2>1 DEF Links, Unlinking, Control, Flow, Busy, NoCall, Removing
  <2>3. PICK n \in Names : n = call[q].name
    BY <2>2
  <2>4. ASSUME HasEntry(n)' PROVE FALSE
    <3>1. Busy(p) /\ ~Unlinking(p)
      BY <2>2, <2>3, <2>4
    <3>2. q = p
      BY <1>4, <2>2, <3>1 DEF Control
    <3> QED BY <2>1, <3>1, <3>2
  <2>5. HasEntry(call[q].name)' <=> HasEntry(n)'
    BY <2>1, <2>3
  <2> QED BY <2>4, <2>5
<1> QED BY <1>1, <1>2, <1>3, <1>4 DEF Links

\* The types of the locals after a step of one process.
LEMMA TypesKept ==
  ASSUME Types, SemType', RefType', lock' \in Procs \cup {NoPid},
         linked' \in [Names -> Objects \cup {NoObject}], gone' \subseteq Procs, regime' = regime, torn' \in BOOLEAN,
         handles' \in [Procs -> SUBSET Handle],
         NEW p \in Procs, NEW l \in Labels, NEW c \in Call,
         pc' = [pc EXCEPT ![p] = l], call' = [call EXCEPT ![p] = c]
  PROVE  Types'
<1>1. pc' \in [Procs -> Labels] /\ call' \in [Procs -> Call]
  BY DEF Types, LocalTypes
<1>2. TypeOK'
  BY DEF TypeOK, SemType, RefType, Entry
<1> QED BY <1>1, <1>2 DEF Types, LocalTypes

\* All that is said of the table, after a step that leaves it as it is.
LEMMA TableKept ==
  ASSUME Types, NEW e, NEW home, NEW pos, Packed(e), Heap(home, pos), UNCHANGED table
  PROVE  SemType' /\ RefType' /\ Packed(e)' /\ Heap(home, pos)' /\ \A n : HasEntry(n)' <=> HasEntry(n)
<1>1. UNCHANGED <<sem, ref>>
  BY DEF table
<1>2. SemType' /\ RefType'
  BY <1>1 DEF SemType, RefType, Types, TypeOK, Entry
<1>3. Packed(e)'
  BY <1>1 DEF Packed
<1>4. Heap(home, pos)'
  <2>1. /\ home \in [Blocks -> Names \cup {NoName}] /\ pos \in [Blocks -> Nat]
        /\ \A k \in Blocks : home[k] = NoName => ref'[k] = NoRef
        /\ \A k \in Blocks : home[k] # NoName => ref'[k].nPID \in Procs
        /\ \A k \in Blocks : home[k] # NoName =>
             \E i \in 0 .. LastEntry : sem'[i].szName = home[k] /\ (ref'[k].nPrev = 0 => sem'[i].nFirst = k)
        /\ \A k, j \in Blocks : home[k] # NoName /\ ref'[k].nNext = j =>
             home[j] = home[k] /\ ref'[j].nPrev = k /\ pos[k] < pos[j]
        /\ \A k, j \in Blocks : home[k] # NoName /\ ref'[k].nPrev = j => home[j] = home[k] /\ ref'[j].nNext = k
        /\ \A i \in 0 .. LastEntry, k \in Blocks : sem'[i].nFirst = k =>
             home[k] # NoName /\ home[k] = sem'[i].szName /\ ref'[k].nPrev = 0
        /\ \A k, j \in Blocks : home[k] = home[j] /\ home[k] # NoName /\ ref'[k].nPID = ref'[j].nPID => k = j
    BY <1>1 DEF Heap
  <2> QED BY <2>1 DEF Heap
<1>5. \A n : HasEntry(n)' <=> HasEntry(n)
  BY <1>1 DEF HasEntry
<1> QED BY <1>2, <1>3, <1>4, <1>5

\* A step that touches neither the table nor the handles.
LEMMA QuietStep ==
  ASSUME Types, Control, NEW e, NEW home, NEW pos, Sound(e, home, pos), NEW p \in Procs,
         UNCHANGED <<regime, table, gone, torn, handles>>,
         lock' = lock \/ lock \notin gone, lock' \in Procs \cup {NoPid},
         linked' \in [Names -> Objects \cup {NoObject}],
         NEW l \in Labels, NEW c \in Call, pc' = [pc EXCEPT ![p] = l], call' = [call EXCEPT ![p] = c],
         {pc[p], l} \cap (Removing \cup Covering \cup {"append", "count", "dropBlock"}) = {},
         Closing(p)' <=> Closing(p), Closing(p) => c.block = call[p].block /\ c.name = call[p].name,
         StageOf(home, p)'
  PROVE  Types' /\ Sound(e, home, pos)' /\ \A n : HasEntry(n)' <=> HasEntry(n)
<1>0. /\ pc'[p] = l /\ call'[p] = c
      /\ \A q \in Procs : q # p => pc'[q] = pc[q] /\ call'[q] = call[q]
      /\ pc[p] \notin Removing \cup Covering \cup {"append", "count", "dropBlock"}
      /\ l \notin Removing \cup Covering \cup {"append", "count", "dropBlock"}
  BY DEF Types, LocalTypes
<1>1. Packed(e) /\ Heap(home, pos) /\ Counts(home) /\ Stages(home) /\ Torn(home)
  BY DEF Sound
<1>2. SemType' /\ RefType' /\ Packed(e)' /\ Heap(home, pos)' /\ \A n : HasEntry(n)' <=> HasEntry(n)
  BY <1>1, TableKept
<1>3. Types'
  <2>1. gone' \subseteq Procs /\ torn' \in BOOLEAN /\ handles' \in [Procs -> SUBSET Handle]
    BY DEF Types, TypeOK, LocalTypes
  <2> QED BY <1>2, <2>1, TypesKept
<1>4. UNCHANGED <<sem, ref>>
  BY DEF table
<1>5. Counts(home)'
  <2>1. /\ \A k \in Blocks : home[k] # NoName =>
             home[k] = home[k] /\ ref'[k].nPID = ref[k].nPID /\ ref'[k].nValue = ref[k].nValue
        /\ \A k \in Blocks : home[k] # NoName /\ home[k] = NoName => ref[k].nPID \in gone
    BY <1>4
  <2>2. Closing(p) => call'[p].block = call[p].block /\ call'[p].name = call[p].name
    BY <1>0
  <2> QED BY <1>0, <1>1, <2>1, <2>2, CountsKept
<1>6. Stages(home)'
  BY <1>0, <1>1, StagesKept
<1>7. Torn(home)'
  <2>1. /\ \A k \in Blocks : home[k] # NoName /\ ref'[k].nPID \in gone =>
             home[k] = home[k] /\ ref'[k].nPID = ref[k].nPID /\ ref'[k].nValue = ref[k].nValue
        /\ \A i \in 0 .. LastEntry : sem'[i].szName = sem[i].szName
    BY <1>4
  <2>2. ASSUME NEW i \in 0 .. LastEntry, sem'[i].szName # NoName, sem'[i].nFirst = 0
        PROVE  Covered(i)' \/ (torn /\ \A k \in Blocks : ~DeadZero(home, k))
    <3>1. Covered(i) \/ (torn /\ \A k \in Blocks : ~DeadZero(home, k))
      BY <1>1, <1>4, <2>2 DEF Torn
    <3>2. Covered(i) => Covered(i)'
      BY <1>0 DEF Covered
    <3> QED BY <3>1, <3>2
  <2> QED BY <1>0, <1>1, <2>1, <2>2, TornKept
<1> QED BY <1>1, <1>2, <1>3, <1>5, <1>6, <1>7 DEF Sound

-----------------------------------------------------------------------------
(* Steps that leave the table alone.                                       *)

\* The types of the locals of a call.
LEMMA CallIs ==
  ASSUME Types, NEW p \in Procs
  PROVE  /\ call[p] \in Call /\ pc[p] \in Labels /\ call[p].entry \in 0 .. LastEntry
         /\ call[p].name \in Names \cup {NoName} /\ call[p].block \in Blocks \cup {0} /\ call[p].create \in BOOLEAN
         /\ call[p].obj \in Objects \cup {NoObject} /\ call[p].victim \in Procs \cup {NoPid}
         /\ call[p].then \in {"idle", "create", "uncount", "unlinkLast"}
BY DEF Types, LocalTypes, Call

\* Having no call is a value of the locals.
LEMMA NoCallIs == NoCall \in Call
BY Sizes DEF NoCall, Call

\* FindSemData in Refresh.
LEMMA RefreshFindKeeps ==
  ASSUME IInv, NEW p \in Procs, RefreshFind(p)
  PROVE  IInv'
<1>0. Types /\ Control /\ Links /\ Bounded
  BY DEF IInv
<1>1. PICK e, home, pos : Sound(e, home, pos)
  BY DEF IInv
<1>2. /\ pc[p] = "refresh" /\ call[p] \in Call /\ call[p].name \in Names /\ call[p].then = "idle"
      /\ UNCHANGED <<regime, table, lock, linked, gone, torn, handles>> /\ NoObject = call[p].obj
  BY <1>0, CallIs DEF RefreshFind, Goto, Control, Flow, Busy, Removing, Creating
<1>3. \E l \in {"open", "scan"}, c \in Call :
        /\ pc' = [pc EXCEPT ![p] = l] /\ call' = [call EXCEPT ![p] = c]
        /\ c.name = call[p].name /\ c.then = "idle" /\ c.obj = call[p].obj
        /\ l = "scan" => sem[c.entry].szName = c.name
  <2>1. CASE FindSemData(call[p].name) = {}
    <3>1. pc' = [pc EXCEPT ![p] = "open"] /\ call' = call
      BY <2>1 DEF RefreshFind, Goto
    <3>2. call' = [call EXCEPT ![p] = call[p]]
      BY <1>0, <3>1 DEF Types, LocalTypes
    <3> QED BY <1>2, <3>1, <3>2
  <2>2. CASE FindSemData(call[p].name) # {}
    <3>1. PICK i \in FindSemData(call[p].name) :
            /\ pc' = [pc EXCEPT ![p] = "scan"]
            /\ call' = [call EXCEPT ![p] = [call[p] EXCEPT !.entry = i, !.block = sem[i].nFirst]]
      BY <2>2 DEF RefreshFind, Goto, Become
    <3>2. i \in 0 .. LastEntry /\ sem[i].szName = call[p].name
      BY DEF FindSemData, Entries
    <3> DEFINE c == [call[p] EXCEPT !.entry = i, !.block = sem[i].nFirst]
    <3>3. sem[i].nFirst \in Blocks \cup {0}
      BY <1>0, <3>2, TableTypes DEF Types
    <3>4. c \in Call /\ c.name = call[p].name /\ c.then = "idle" /\ c.obj = call[p].obj /\ c.entry = i
      BY <1>2, <3>2, <3>3 DEF Call
    <3> HIDE DEF c
    <3> QED BY <3>1, <3>2, <3>4 DEF c
  <2> QED BY <2>1, <2>2
<1>4. PICK l \in {"open", "scan"}, c \in Call :
        /\ pc' = [pc EXCEPT ![p] = l] /\ call' = [call EXCEPT ![p] = c]
        /\ c.name = call[p].name /\ c.then = "idle" /\ c.obj = call[p].obj
        /\ l = "scan" => sem[c.entry].szName = c.name
  BY <1>3
<1>5. pc'[p] = l /\ call'[p] = c /\ \A q \in Procs : q # p => pc'[q] = pc[q] /\ call'[q] = call[q]
  BY <1>0, <1>4 DEF Types, LocalTypes
<1>6. Types' /\ Sound(e, home, pos)' /\ \A n : HasEntry(n)' <=> HasEntry(n)
  <2>1. StageOf(home, p)'
    BY <1>2, <1>4, <1>5 DEF StageOf, table
  <2>2. ~Closing(p) /\ ~Closing(p)'
    BY <1>2, <1>4, <1>5 DEF Closing
  <2>3. l \in Labels /\ lock' = lock /\ lock' \in Procs \cup {NoPid} /\ linked' \in [Names -> Objects \cup {NoObject}]
    BY <1>0, <1>2 DEF Labels, OpenLabels, Types, TypeOK
  <2>4. {pc[p], l} \cap (Removing \cup Covering \cup {"append", "count", "dropBlock"}) = {}
    BY <1>2 DEF Removing, Covering
  <2> QED BY <1>0, <1>1, <1>2, <1>4, <2>1, <2>2, <2>3, <2>4, QuietStep
<1>7. Control'
  BY <1>0, <1>6, ControlRefresh
<1>8. Bounded'
  <2>1. p \in Opening /\ handles' = handles
    BY <1>2 DEF Opening, OpenLabels
  <2> QED BY <1>0, <1>5, <2>1, BoundedKept
<1>9. Links'
  <2>1. ~Holding(p) /\ ~Unlinking(p)'
    BY <1>2, <1>4, <1>5 DEF Holding, Unlinking
  <2> QED BY <1>0, <1>2, <1>4, <1>5, <1>6, <2>1, LinksKept
<1> QED BY <1>6, <1>7, <1>8, <1>9 DEF IInv

\* ... and that links no name either.
LEMMA QuietKeeps ==
  ASSUME IInv, NEW e, NEW home, NEW pos, Sound(e, home, pos), NEW p \in Procs,
         UNCHANGED <<regime, table, gone, torn, handles, linked>>,
         lock' = lock \/ lock \notin gone, lock' \in Procs \cup {NoPid},
         NEW l \in Labels, NEW c \in Call, pc' = [pc EXCEPT ![p] = l], call' = [call EXCEPT ![p] = c],
         {pc[p], l} \cap (Removing \cup Covering \cup {"append", "count", "dropBlock"}) = {},
         Closing(p)' <=> Closing(p), Closing(p) => c.block = call[p].block /\ c.name = call[p].name,
         StageOf(home, p)', Types' => Control',
         l \in OpenLabels \/ c.then = "create" => p \in Opening,
         Holding(p) => Holding(p)' /\ c.name = call[p].name,
         Unlinking(p)' => Unlinking(p) /\ c.name = call[p].name,
         c.obj # NoObject => c.obj = call[p].obj /\ c.name = call[p].name
  PROVE  IInv'
<1>0. Types /\ Control /\ Links /\ Bounded
  BY DEF IInv
<1>1. pc'[p] = l /\ call'[p] = c /\ \A q \in Procs : q # p => pc'[q] = pc[q] /\ call'[q] = call[q]
  BY <1>0 DEF Types, LocalTypes
<1>2. linked' \in [Names -> Objects \cup {NoObject}]
  BY <1>0 DEF Types, TypeOK
<1>3. Types' /\ Sound(e, home, pos)' /\ \A n : HasEntry(n)' <=> HasEntry(n)
  BY <1>0, <1>2, QuietStep
<1>4. Bounded'
  BY <1>0, <1>1, BoundedKept
<1>5. Links'
  BY <1>0, <1>1, <1>3, LinksKept
<1> QED BY <1>3, <1>4, <1>5 DEF IInv

\* The walk of Refresh: the entry it looks at stays the one of its name.
LEMMA RefreshScanKeeps ==
  ASSUME IInv, NEW p \in Procs, RefreshScan(p)
  PROVE  IInv'
<1>0. Types /\ Control
  BY DEF IInv
<1>1. PICK e, home, pos : Sound(e, home, pos)
  BY DEF IInv
<1>2. /\ pc[p] = "scan" /\ call[p] \in Call /\ call[p].name \in Names /\ call[p].then = "idle"
      /\ UNCHANGED <<regime, table, lock, linked, gone, torn, handles>> /\ call[p].obj = NoObject
  BY <1>0, CallIs DEF RefreshScan, Goto, Control, Flow, Busy, Removing, Creating
<1>3. \E l \in {"open", "scan", "removeFind"}, c \in Call :
        /\ pc' = [pc EXCEPT ![p] = l] /\ call' = [call EXCEPT ![p] = c]
        /\ c.name = call[p].name /\ c.then = "idle" /\ c.obj = call[p].obj /\ c.entry = call[p].entry
        /\ l = "removeFind" => gone # {}
  <2> DEFINE k == call[p].block
             next == IF k = 0 THEN 0 ELSE ref[k].nNext
  <2>0. k \in Blocks \cup {0} /\ next \in Blocks \cup {0}
    BY <1>0, CallIs, TableTypes DEF Types
  <2>1. CASE k # 0 /\ ref[k].nPID \in gone
    <3>1. /\ pc' = [pc EXCEPT ![p] = "removeFind"]
          /\ call' = [call EXCEPT ![p] = [call[p] EXCEPT !.victim = ref[k].nPID]]
      BY <2>1 DEF RefreshScan, Goto, Become
    <3> DEFINE c == [call[p] EXCEPT !.victim = ref[k].nPID]
    <3>2. ref[k].nPID \in Procs \cup {NoPid}
      BY <1>0, <2>0, <2>1, TableTypes DEF Types
    <3>3. /\ c \in Call /\ c.name = call[p].name /\ c.then = "idle" /\ c.obj = call[p].obj
          /\ c.entry = call[p].entry
      BY <1>2, <3>2 DEF Call
    <3> HIDE DEF c
    <3> QED BY <2>1, <3>1, <3>3 DEF c
  <2>2. CASE ~(k # 0 /\ ref[k].nPID \in gone)
    <3>1. /\ pc' = [pc EXCEPT ![p] = IF next = 0 THEN "open" ELSE "scan"]
          /\ call' = [call EXCEPT ![p] = [call[p] EXCEPT !.block = next]]
      BY <2>2 DEF RefreshScan, Goto, Become
    <3> DEFINE c == [call[p] EXCEPT !.block = next]
               l == IF next = 0 THEN "open" ELSE "scan"
    <3>3. /\ c \in Call /\ c.name = call[p].name /\ c.then = "idle" /\ c.obj = call[p].obj
          /\ c.entry = call[p].entry /\ l \in {"open", "scan"}
      BY <1>2, <2>0 DEF Call
    <3> HIDE DEF c, l, next
    <3> QED BY <3>1, <3>3 DEF c, l
  <2> QED BY <2>1, <2>2
<1>4. PICK l \in {"open", "scan", "removeFind"}, c \in Call :
        /\ pc' = [pc EXCEPT ![p] = l] /\ call' = [call EXCEPT ![p] = c]
        /\ c.name = call[p].name /\ c.then = "idle" /\ c.obj = call[p].obj /\ c.entry = call[p].entry
        /\ l = "removeFind" => gone # {}
  BY <1>3
<1>5. pc'[p] = l /\ call'[p] = c
  BY <1>0, <1>4 DEF Types, LocalTypes
<1>6. StageOf(home, p)'
  <2>1. l = "removeFind" => regime = "mortal"
    BY <1>0, <1>4 DEF Control, Types, LocalTypes
  <2>2. regime = "mortal" => sem[call[p].entry].szName = call[p].name
    BY <1>1, <1>2 DEF Sound, Stages, StageOf
  <2> QED BY <1>2, <1>4, <1>5, <2>1, <2>2 DEF StageOf, table
<1>7. Types' => Control'
  BY <1>0, ControlRefresh
<1>8. l \in Labels /\ lock' = lock /\ lock' \in Procs \cup {NoPid} /\ p \in Opening
  BY <1>0, <1>2 DEF Labels, OpenLabels, Types, TypeOK, Opening
<1>9. {pc[p], l} \cap (Removing \cup Covering \cup {"append", "count", "dropBlock"}) = {}
  BY <1>2 DEF Removing, Covering
<1>10. ~Closing(p) /\ ~Closing(p)' /\ ~Holding(p) /\ ~Unlinking(p)'
  BY <1>2, <1>4, <1>5 DEF Closing, Holding, Unlinking
<1> QED BY <1>1, <1>2, <1>4, <1>6, <1>7, <1>8, <1>9, <1>10, QuietKeeps

\* FindRefCount in the removal of Refresh.
LEMMA RefreshRemoveFindKeeps ==
  ASSUME IInv, NEW p \in Procs, RefreshRemoveFind(p)
  PROVE  IInv'
<1>0. Types /\ Control
  BY DEF IInv
<1>1. PICK e, home, pos : Sound(e, home, pos)
  BY DEF IInv
<1>2. /\ pc[p] = "removeFind" /\ call[p] \in Call /\ call[p].name \in Names /\ call[p].then = "idle"
      /\ UNCHANGED <<regime, table, lock, linked, gone, torn, handles>> /\ call[p].obj = NoObject
      /\ call[p].victim \in gone /\ call[p].victim \in Procs /\ call[p].entry \in 0 .. LastEntry
      /\ sem[call[p].entry].szName = call[p].name
  <2>1. sem[call[p].entry].szName = call[p].name
    BY <1>1 DEF RefreshRemoveFind, Goto, Sound, Stages, StageOf
  <2> QED BY <1>0, <2>1, CallIs
             DEF RefreshRemoveFind, Goto, Control, Flow, Busy, Removing, Creating
<1> DEFINE k == FindRefCount(sem[call[p].entry].nFirst, call[p].victim)
<1>3. \/ k = 0
      \/ k \in Blocks /\ home[k] = call[p].name /\ ref[k].nPID = call[p].victim
  BY <1>0, <1>1, <1>2, FindRefCountIs DEF Types, Sound
<1> DEFINE l == IF k = 0 THEN "scan" ELSE "removeBlock"
           c == [call[p] EXCEPT !.block = IF k = 0 THEN sem[call[p].entry].nFirst ELSE k, !.victim = NoPid]
<1>4. pc' = [pc EXCEPT ![p] = l] /\ call' = [call EXCEPT ![p] = c]
  BY DEF RefreshRemoveFind, Goto, Become
<1>5. /\ c \in Call /\ c.name = call[p].name /\ c.then = "idle" /\ c.obj = call[p].obj
      /\ c.entry = call[p].entry /\ l \in {"scan", "removeBlock"} /\ (l = "removeBlock" => c.block = k /\ k # 0)
  <2>1. sem[call[p].entry].nFirst \in Blocks \cup {0}
    BY <1>0, <1>2, TableTypes DEF Types
  <2> HIDE DEF k
  <2> QED BY <1>2, <1>3, <2>1 DEF Call
<1> HIDE DEF c, l, k
<1>6. pc'[p] = l /\ call'[p] = c
  BY <1>0, <1>4 DEF Types, LocalTypes
<1>7. StageOf(home, p)'
  BY <1>2, <1>3, <1>4, <1>5, <1>6 DEF StageOf, table
<1>8. Types' => Control'
  BY <1>0, ControlRefresh
<1>9. l \in Labels /\ lock' = lock /\ lock' \in Procs \cup {NoPid} /\ p \in Opening
  BY <1>0, <1>2, <1>5 DEF Labels, OpenLabels, Types, TypeOK, Opening
<1>10. {pc[p], l} \cap (Removing \cup Covering \cup {"append", "count", "dropBlock"}) = {}
  BY <1>2, <1>5 DEF Removing, Covering
<1>11. ~Closing(p) /\ ~Closing(p)' /\ ~Holding(p) /\ ~Unlinking(p)'
  BY <1>2, <1>5, <1>6 DEF Closing, Holding, Unlinking
<1> QED BY <1>1, <1>2, <1>4, <1>5, <1>7, <1>8, <1>9, <1>10, <1>11, QuietKeeps

\* Taking the lock when it is free.
LEMMA LockFreeKeeps ==
  ASSUME IInv, NEW p \in Procs, LockFree(p)
  PROVE  IInv'
<1>0. Types /\ Control
  BY DEF IInv
<1>1. PICK e, home, pos : Sound(e, home, pos)
  BY DEF IInv
<1>2. /\ pc[p] = "lock" /\ call[p] \in Call /\ call[p].then \in {"create", "uncount"}
      /\ UNCHANGED <<regime, table, linked, gone, torn, handles>> /\ lock = NoPid /\ lock' = p
      /\ gone \subseteq Procs
  BY <1>0, CallIs DEF LockFree, Goto, Control, Flow
<1> DEFINE l == call[p].then
           c == [call[p] EXCEPT !.then = "idle"]
<1>4. pc' = [pc EXCEPT ![p] = l] /\ call' = [call EXCEPT ![p] = c]
  BY DEF LockFree, Goto, Become
<1>5. c \in Call /\ c.name = call[p].name /\ c.then = "idle" /\ c.obj = call[p].obj /\ c.block = call[p].block
  BY <1>2 DEF Call
<1> HIDE DEF c
<1>6. pc'[p] = l /\ call'[p] = c
  BY <1>0, <1>4 DEF Types, LocalTypes
<1>7. StageOf(home, p)'
  BY <1>2, <1>5, <1>6 DEF StageOf
<1>8. Types' => Control'
  BY <1>0, ControlLock
<1>9. l \in Labels /\ lock' \in Procs \cup {NoPid} /\ lock \notin gone /\ (l = "create" => p \in Opening)
      /\ l \notin OpenLabels \ {"create"}
  BY <1>0, <1>2, NullAssumption DEF Labels, UnderLock, OpenLabels, Opening
<1>10. {pc[p], l} \cap (Removing \cup Covering \cup {"append", "count", "dropBlock"}) = {}
  BY <1>2 DEF Removing, Covering
<1>11. (Closing(p)' <=> Closing(p)) /\ (Holding(p) => Holding(p)') /\ ~Unlinking(p)'
  BY <1>2, <1>5, <1>6 DEF Closing, Holding, Unlinking
<1> QED BY <1>1, <1>2, <1>4, <1>5, <1>7, <1>8, <1>9, <1>10, <1>11, QuietKeeps

\* Giving the lock back.
LEMMA UnlockKeeps ==
  ASSUME IInv, NEW p \in Procs, Unlock(p)
  PROVE  IInv'
<1>0. Types /\ Control
  BY DEF IInv
<1>1. PICK e, home, pos : Sound(e, home, pos)
  BY DEF IInv
<1>2. /\ pc[p] = "unlock" /\ call[p] \in Call /\ call[p].then \in {"idle", "unlinkLast"}
      /\ UNCHANGED <<regime, table, linked, gone, torn, handles>> /\ lock = p /\ lock' = NoPid
      /\ p \notin gone /\ call[p].obj = NoObject
  BY <1>0, CallIs DEF Unlock, Goto, Control, Flow, Creating, UnderLock
<1> DEFINE l == call[p].then
           c == [call[p] EXCEPT !.then = "idle"]
<1>4. pc' = [pc EXCEPT ![p] = l] /\ call' = [call EXCEPT ![p] = c]
  BY DEF Unlock, Goto, Become
<1>5. c \in Call /\ c.name = call[p].name /\ c.then = "idle" /\ c.obj = call[p].obj /\ c.block = call[p].block
  BY <1>2 DEF Call
<1> HIDE DEF c
<1>6. pc'[p] = l /\ call'[p] = c
  BY <1>0, <1>4 DEF Types, LocalTypes
<1>7. StageOf(home, p)'
  BY <1>2, <1>5, <1>6 DEF StageOf
<1>8. Types' => Control'
  BY <1>0, ControlLock
<1>9. l \in Labels /\ lock' \in Procs \cup {NoPid} /\ l \notin OpenLabels
  BY <1>0, <1>2 DEF Labels, UnderLock, OpenLabels
<1>10. {pc[p], l} \cap (Removing \cup Covering \cup {"append", "count", "dropBlock"}) = {}
  BY <1>2 DEF Removing, Covering
<1>11. ~Closing(p)' /\ ~Closing(p) /\ (Holding(p) => Holding(p)') /\ (Unlinking(p)' => Unlinking(p))
  BY <1>2, <1>5, <1>6 DEF Closing, Holding, Unlinking
<1> QED BY <1>1, <1>2, <1>4, <1>5, <1>7, <1>8, <1>9, <1>10, <1>11, QuietKeeps

\* In the regime where processes die, a process that is not in a call has none of these.
LEMMA Resting ==
  ASSUME Types, Control, NEW q \in Procs, ~Busy(q)
  PROVE  call[q] = NoCall /\ call[q].obj = NoObject /\ ~Holding(q) /\ ~Unlinking(q) /\ ~Closing(q)
<1>1. call[q] = NoCall /\ pc[q] \in {"idle", "dead"}
  BY DEF Control, Flow, Busy
<1>2. NoCall.then = "idle" /\ NoCall.obj = NoObject
  BY DEF NoCall
<1> QED BY <1>1, <1>2 DEF Holding, Unlinking, Closing

\* The name of an open handle has an entry.
LEMMA HandleHasEntry ==
  ASSUME Types, NEW e, NEW home, NEW pos, Sound(e, home, pos), NEW q \in Procs, NEW h \in handles[q]
  PROVE  h.name \in Names /\ h.block \in Blocks /\ h.obj \in Objects /\ HasEntry(h.name)
<1>1. h \in Handle
  BY DEF Types, LocalTypes
<1>2. h.name \in Names /\ h.block \in Blocks /\ h.obj \in Objects
  BY <1>1 DEF Handle
<1>3. home[h.block] = h.name
  BY DEF Sound, Counts
<1> QED BY <1>2, <1>3, NullAssumption DEF Sound, Heap, HasEntry

\* A name is unlinked, by the last handle or by Refresh.
LEMMA UnlinkKeeps ==
  ASSUME IInv, NEW p \in Procs, UnlinkOld(p) \/ UnlinkLast(p)
  PROVE  IInv'
<1>0. Types /\ Control /\ Links /\ Bounded
  BY DEF IInv
<1>1. PICK e, home, pos : Sound(e, home, pos)
  BY DEF IInv
<1>2. /\ pc[p] \in {"unlinkOld", "unlinkLast"} /\ call[p] \in Call /\ call[p].name \in Names /\ call[p].then = "idle"
      /\ UNCHANGED <<regime, table, lock, gone, torn, handles>> /\ call[p].obj = NoObject
      /\ linked' = [linked EXCEPT ![call[p].name] = NoObject]
  BY <1>0, CallIs DEF UnlinkOld, UnlinkLast, Goto, Control, Flow, Busy, Removing, Creating
<1>3. \E l \in {"open", "idle"}, c \in Call :
        /\ pc' = [pc EXCEPT ![p] = l] /\ call' = [call EXCEPT ![p] = c]
        /\ c.then = "idle" /\ c.obj = NoObject /\ (l = "open" => pc[p] = "unlinkOld")
  <2>1. CASE UnlinkOld(p)
    <3>1. pc' = [pc EXCEPT ![p] = "open"] /\ call' = call /\ pc[p] = "unlinkOld"
      BY <2>1 DEF UnlinkOld, Goto
    <3>2. call' = [call EXCEPT ![p] = call[p]]
      BY <1>0, <3>1 DEF Types, LocalTypes
    <3> QED BY <1>2, <3>1, <3>2
  <2>2. CASE UnlinkLast(p)
    <3>1. pc' = [pc EXCEPT ![p] = "idle"] /\ call' = [call EXCEPT ![p] = NoCall]
      BY <2>2 DEF UnlinkLast, Goto, Become
    <3>2. NoCall.then = "idle" /\ NoCall.obj = NoObject
      BY DEF NoCall
    <3> QED BY <3>1, <3>2, NoCallIs
  <2> QED BY <2>1, <2>2
<1>4. PICK l \in {"open", "idle"}, c \in Call :
        /\ pc' = [pc EXCEPT ![p] = l] /\ call' = [call EXCEPT ![p] = c]
        /\ c.then = "idle" /\ c.obj = NoObject /\ (l = "open" => pc[p] = "unlinkOld")
  BY <1>3
<1>5. pc'[p] = l /\ call'[p] = c /\ \A q \in Procs : q # p => pc'[q] = pc[q] /\ call'[q] = call[q]
  BY <1>0, <1>4 DEF Types, LocalTypes
<1>6. /\ \A n \in Names : linked'[n] = IF n = call[p].name THEN NoObject ELSE linked[n]
      /\ linked' \in [Names -> Objects \cup {NoObject}]
  BY <1>0, <1>2 DEF Types, TypeOK
<1>7. Types' /\ Sound(e, home, pos)' /\ \A n : HasEntry(n)' <=> HasEntry(n)
  <2>1. StageOf(home, p)'
    BY <1>4, <1>5 DEF StageOf
  <2>2. ~Closing(p) /\ ~Closing(p)'
    BY <1>2, <1>4, <1>5 DEF Closing
  <2>3. l \in Labels /\ lock' = lock /\ lock' \in Procs \cup {NoPid}
    BY <1>0, <1>2 DEF Labels, OpenLabels, Types, TypeOK
  <2>4. {pc[p], l} \cap (Removing \cup Covering \cup {"append", "count", "dropBlock"}) = {}
    BY <1>2 DEF Removing, Covering
  <2> QED BY <1>0, <1>1, <1>2, <1>4, <1>6, <2>1, <2>2, <2>3, <2>4, QuietStep
<1>8. Control'
  BY <1>0, <1>7, ControlRefresh, ControlLock
<1>9. Bounded'
  <2>1. handles' = handles /\ (l = "open" => p \in Opening) /\ l \notin OpenLabels \ {"open"}
    BY <1>2, <1>4 DEF Opening, OpenLabels
  <2> QED BY <1>0, <1>4, <1>5, <2>1, BoundedKept
<1>10. Links'
  <2>1. ASSUME NEW n \in Names, gone' = {}, linked'[n] # NoObject
        PROVE  HasEntry(n)' \/ \E q \in Procs : call'[q].name = n /\ Holding(q)'
    <3>1. n # call[p].name /\ linked[n] # NoObject /\ gone = {}
      BY <1>2, <1>6, <2>1
    <3>2. CASE HasEntry(n)
      BY <1>7, <3>2
    <3>3. CASE \E q \in Procs : call[q].name = n /\ Holding(q)
      <4>1. PICK q \in Procs : call[q].name = n /\ Holding(q)
        BY <3>3
      <4>2. q # p
        BY <3>1, <4>1
      <4> QED BY <1>5, <4>1, <4>2 DEF Holding
    <3> QED BY <1>0, <3>1, <3>2, <3>3 DEF Links
  <2>2. ASSUME regime' = "mortal" PROVE ~HasEntry(call[p].name) /\ \A q \in Procs : q # p => ~Busy(q)
    <3>1. regime = "mortal" /\ Unlinking(p) /\ Busy(p)
      BY <1>2, <2>2 DEF Unlinking, Busy
    <3> QED BY <1>0, <3>1 DEF Links, Control
  <2>3. ASSUME regime' = "mortal", NEW q \in Procs, NEW h \in handles'[q] PROVE linked'[h.name] = h.obj
    <3>1. h \in handles[q] /\ regime = "mortal"
      BY <1>2, <2>3
    <3>2. h.name \in Names /\ HasEntry(h.name)
      BY <1>0, <1>1, <3>1, HandleHasEntry
    <3>3. h.name # call[p].name
      BY <2>2, <2>3, <3>2
    <3> QED BY <1>0, <1>6, <3>1, <3>2, <3>3 DEF Links
  <2>4. ASSUME regime' = "mortal", NEW q \in Procs
        PROVE  call'[q].obj = NoObject /\ ~Unlinking(q)'
    <3>1. CASE q = p
      BY <1>4, <1>5, <3>1 DEF Unlinking
    <3>2. CASE q # p
      BY <1>0, <1>5, <2>2, <2>4, <3>2, Resting DEF Unlinking
    <3> QED BY <3>1, <3>2
  <2> QED BY <2>1, <2>3, <2>4 DEF Links
<1> QED BY <1>7, <1>8, <1>9, <1>10 DEF IInv

\* sem_open: a new semaphore is one that no handle refers to.
LEMMA SemOpenKeeps ==
  ASSUME IInv, NEW p \in Procs, SemOpen(p)
  PROVE  IInv'
<1>0. Types /\ Control /\ Links /\ Bounded
  BY DEF IInv
<1>1. PICK e, home, pos : Sound(e, home, pos)
  BY DEF IInv
<1> DEFINE n == call[p].name
           obj == IF linked[n] = NoObject THEN NewObject(n) ELSE linked[n]
<1>2. /\ pc[p] = "open" /\ call[p] \in Call /\ n \in Names /\ call[p].then = "idle"
      /\ UNCHANGED <<regime, table, lock, gone, torn, handles>> /\ call[p].obj = NoObject
  BY <1>0, CallIs DEF SemOpen, Goto, Control, Flow, Busy, Removing, Creating
<1>3. obj \in Objects
  BY <1>0, <1>2, NewObjectIs DEF Types, TypeOK
<1>4. \/ pc' = [pc EXCEPT ![p] = "idle"] /\ call' = [call EXCEPT ![p] = NoCall] /\ linked' = linked
      \/ /\ pc' = [pc EXCEPT ![p] = "lock"]
         /\ call' = [call EXCEPT ![p] = [NoCall EXCEPT !.name = n, !.obj = obj, !.then = "create"]]
         /\ linked' = [linked EXCEPT ![n] = obj]
  BY DEF SemOpen, Goto, Become
<1>5. linked[n] # NoObject => obj = linked[n]
  OBVIOUS
<1> HIDE DEF n, obj
<1>6. \E l \in {"lock", "idle"}, c \in Call :
        /\ pc' = [pc EXCEPT ![p] = l] /\ call' = [call EXCEPT ![p] = c]
        /\ l = "idle" => c = NoCall /\ linked' = linked
        /\ l = "lock" => c.name = n /\ c.obj = obj /\ c.then = "create" /\ linked' = [linked EXCEPT ![n] = obj]
  <2> DEFINE c == [NoCall EXCEPT !.name = n, !.obj = obj, !.then = "create"]
  <2>1. c \in Call /\ c.name = n /\ c.obj = obj /\ c.then = "create"
    BY <1>2, <1>3, NoCallIs DEF Call, NoCall
  <2>2. \/ pc' = [pc EXCEPT ![p] = "idle"] /\ call' = [call EXCEPT ![p] = NoCall] /\ linked' = linked
        \/ /\ pc' = [pc EXCEPT ![p] = "lock"] /\ call' = [call EXCEPT ![p] = c]
           /\ linked' = [linked EXCEPT ![n] = obj]
    BY <1>4
  <2> HIDE DEF c
  <2> QED BY <2>1, <2>2, NoCallIs
<1>7. PICK l \in {"lock", "idle"}, c \in Call :
        /\ pc' = [pc EXCEPT ![p] = l] /\ call' = [call EXCEPT ![p] = c]
        /\ l = "idle" => c = NoCall /\ linked' = linked
        /\ l = "lock" => c.name = n /\ c.obj = obj /\ c.then = "create" /\ linked' = [linked EXCEPT ![n] = obj]
  BY <1>6
<1>8. pc'[p] = l /\ call'[p] = c /\ \A q \in Procs : q # p => pc'[q] = pc[q] /\ call'[q] = call[q]
  BY <1>0, <1>7 DEF Types, LocalTypes
<1>9. /\ linked' \in [Names -> Objects \cup {NoObject}]
      /\ \A m \in Names : m # n => linked'[m] = linked[m]
      /\ l = "lock" => linked'[n] = obj
      /\ linked[n] # NoObject => linked'[n] = linked[n]
      /\ l = "idle" => linked' = linked
  BY <1>0, <1>2, <1>3, <1>5, <1>7 DEF Types, TypeOK
<1>10. NoCall.then = "idle" /\ NoCall.obj = NoObject
  BY DEF NoCall
<1>11. Types' /\ Sound(e, home, pos)' /\ \A m : HasEntry(m)' <=> HasEntry(m)
  <2>1. StageOf(home, p)'
    BY <1>8 DEF StageOf
  <2>2. ~Closing(p) /\ ~Closing(p)'
    BY <1>2, <1>7, <1>8, <1>10 DEF Closing
  <2>3. l \in Labels /\ lock' = lock /\ lock' \in Procs \cup {NoPid}
    BY <1>0, <1>2 DEF Labels, OpenLabels, Types, TypeOK
  <2>4. {pc[p], l} \cap (Removing \cup Covering \cup {"append", "count", "dropBlock"}) = {}
    BY <1>2 DEF Removing, Covering
  <2> QED BY <1>0, <1>1, <1>2, <1>7, <1>9, <2>1, <2>2, <2>3, <2>4, QuietStep
<1>12. Control'
  BY <1>0, <1>11, ControlSemOpen
<1>13. Bounded'
  <2>1. handles' = handles /\ p \in Opening
    BY <1>2 DEF Opening, OpenLabels
  <2> QED BY <1>0, <1>8, <2>1, BoundedKept
<1>14. Links'
  <2>1. ASSUME NEW m \in Names, gone' = {}, linked'[m] # NoObject
        PROVE  HasEntry(m)' \/ \E q \in Procs : call'[q].name = m /\ Holding(q)'
    <3>1. CASE m = n /\ l = "lock"
      BY <1>7, <1>8, <3>1 DEF Holding
    <3>2. CASE ~(m = n /\ l = "lock")
      <4>1. linked[m] # NoObject /\ gone = {}
        BY <1>2, <1>9, <2>1, <3>2
      <4>2. CASE HasEntry(m)
        BY <1>11, <4>2
      <4>3. CASE \E q \in Procs : call[q].name = m /\ Holding(q)
        <5>1. PICK q \in Procs : call[q].name = m /\ Holding(q)
          BY <4>3
        <5>2. q # p
          BY <1>2, <5>1 DEF Holding
        <5> QED BY <1>8, <5>1, <5>2 DEF Holding
      <4> QED BY <1>0, <4>1, <4>2, <4>3 DEF Links
    <3> QED BY <3>1, <3>2
  <2>2. ASSUME regime' = "mortal" PROVE \A q \in Procs : q # p => ~Busy(q)
    <3>1. regime = "mortal" /\ Busy(p)
      BY <1>2, <2>2 DEF Busy
    <3> QED BY <1>0, <3>1 DEF Control
  <2>3. ASSUME regime' = "mortal", NEW q \in Procs, NEW h \in handles'[q] PROVE linked'[h.name] = h.obj
    <3>1. h \in handles[q] /\ regime = "mortal"
      BY <1>2, <2>3
    <3>2. h.name \in Names /\ h.obj \in Objects
      BY <1>0, <1>1, <3>1, HandleHasEntry
    <3>3. linked[h.name] = h.obj /\ linked[h.name] # NoObject
      BY <1>0, <3>1, <3>2, NoObjectFact DEF Links
    <3> QED BY <1>9, <3>2, <3>3
  <2>4. ASSUME regime' = "mortal", NEW q \in Procs, call'[q].obj # NoObject PROVE linked'[call'[q].name] = call'[q].obj
    <3>1. q = p
      BY <1>0, <1>8, <2>2, <2>4, Resting
    <3>2. l = "lock"
      BY <1>7, <1>8, <1>10, <2>4, <3>1
    <3> QED BY <1>7, <1>8, <1>9, <3>1, <3>2
  <2>5. ASSUME regime' = "mortal", NEW q \in Procs PROVE ~Unlinking(q)'
    <3>1. CASE q = p
      BY <1>7, <1>8, <1>10, <3>1 DEF Unlinking
    <3>2. CASE q # p
      BY <1>0, <1>8, <2>2, <2>5, <3>2, Resting DEF Unlinking
    <3> QED BY <3>1, <3>2
  <2> QED BY <2>1, <2>3, <2>4, <2>5 DEF Links
<1> QED BY <1>11, <1>12, <1>13, <1>14 DEF IInv

\* CreateMutex or OpenMutex begins.
LEMMA OpenKeeps ==
  ASSUME IInv, NEW p \in Procs, NEW n \in Names, NEW create \in BOOLEAN, Open(p, n, create)
  PROVE  IInv'
<1>0. Types /\ Control /\ Links /\ Bounded
  BY DEF IInv
<1>1. PICK e, home, pos : Sound(e, home, pos)
  BY DEF IInv
<1> DEFINE c == [NoCall EXCEPT !.name = n, !.create = create]
<1>2. /\ pc[p] = "idle" /\ pc' = [pc EXCEPT ![p] = "refresh"] /\ call' = [call EXCEPT ![p] = c]
      /\ UNCHANGED <<regime, table, lock, linked, gone, torn, handles>> /\ Opened < MaxOpen
  BY DEF Open, Goto, Become
<1>3. c \in Call /\ c.then = "idle" /\ c.obj = NoObject
  BY NoCallIs DEF Call, NoCall
<1> HIDE DEF c
<1>4. ~Holding(p) /\ ~Unlinking(p) /\ ~Closing(p)
  BY <1>0, <1>2, Resting DEF Busy
<1>5. pc'[p] = "refresh" /\ call'[p] = c /\ \A q \in Procs : q # p => pc'[q] = pc[q] /\ call'[q] = call[q]
  BY <1>0, <1>2 DEF Types, LocalTypes
<1>6. Types' /\ Sound(e, home, pos)' /\ \A m : HasEntry(m)' <=> HasEntry(m)
  <2>1. StageOf(home, p)'
    BY <1>5 DEF StageOf
  <2>2. ~Closing(p)'
    BY <1>3, <1>5 DEF Closing
  <2>3. "refresh" \in Labels /\ lock' = lock /\ lock' \in Procs \cup {NoPid} /\ linked' \in [Names -> Objects \cup {NoObject}]
    BY <1>0, <1>2 DEF Labels, OpenLabels, Types, TypeOK
  <2>4. {pc[p], "refresh"} \cap (Removing \cup Covering \cup {"append", "count", "dropBlock"}) = {}
    BY <1>2 DEF Removing, Covering
  <2> QED BY <1>0, <1>1, <1>2, <1>3, <1>4, <2>1, <2>2, <2>3, <2>4, QuietStep
<1>7. Control'
  BY <1>0, <1>6, ControlBegin DEF Begin
<1>8. Links'
  <2>1. ~Unlinking(p)'
    BY <1>3, <1>5 DEF Unlinking
  <2> QED BY <1>0, <1>2, <1>3, <1>4, <1>5, <1>6, <2>1, LinksKept
<1>9. Bounded'
  <2>1. OpenHandles' = OpenHandles
    BY <1>2 DEF OpenHandles
  <2>2. Opening' \subseteq Opening \cup {p}
    BY <1>5 DEF Opening
  <2>3. /\ IsFiniteSet(OpenHandles) /\ IsFiniteSet(Opening)
        /\ Cardinality(OpenHandles) + Cardinality(Opening) < MaxOpen
        /\ Cardinality(OpenHandles) \in Nat /\ Cardinality(Opening) \in Nat
    BY <1>0, <1>2, OpenedIs DEF Bounded
  <2>4. /\ IsFiniteSet(Opening \cup {p})
        /\ Cardinality(Opening \cup {p}) \in {Cardinality(Opening), Cardinality(Opening) + 1}
    BY <2>3, FS_AddElement
  <2>5. IsFiniteSet(Opening') /\ Cardinality(Opening') <= Cardinality(Opening \cup {p}) /\ Cardinality(Opening') \in Nat
    BY <2>2, <2>4, FS_Subset, FS_CardinalityType
  <2>6. Opened' = Cardinality(OpenHandles) + Cardinality(Opening')
    BY <2>1 DEF Opened
  <2>7. MaxOpen \in Nat
    BY BoundAssumption
  <2> QED BY <2>1, <2>3, <2>4, <2>5, <2>6, <2>7 DEF Bounded
<1> QED BY <1>6, <1>7, <1>8, <1>9 DEF IInv

-----------------------------------------------------------------------------
(* Blocks and entries deleted.                                             *)

\* The links stay right when the table changes and the names of its entries are the same.
LEMMA LinksMoved ==
  ASSUME Types, Control, Links, NEW p \in Procs, UNCHANGED <<regime, gone, linked>>, Busy(p),
         \A q \in Procs : q # p => pc'[q] = pc[q] /\ call'[q] = call[q],
         \A q \in Procs : handles'[q] \subseteq handles[q],
         ~Holding(p) \/ gone # {},
         \A n \in Names : Unlinking(p)' /\ call'[p].name = n => ~HasEntry(n)',
         Unlinking(p)' => call'[p].name \in Names,
         call'[p].obj # NoObject => call'[p].obj = call[p].obj /\ call'[p].name = call[p].name,
         \A n \in Names : gone = {} /\ HasEntry(n) => HasEntry(n)' \/ (Holding(p)' /\ call'[p].name = n),
         \A n \in Names : HasEntry(n)' => HasEntry(n)
  PROVE  Links'
<1>1. ASSUME NEW n \in Names, gone' = {}, linked'[n] # NoObject
      PROVE  HasEntry(n)' \/ \E q \in Procs : call'[q].name = n /\ Holding(q)'
  <2>1. CASE HasEntry(n)
    BY <1>1, <2>1
  <2>2. CASE \E q \in Procs : call[q].name = n /\ Holding(q)
    <3>1. PICK q \in Procs : call[q].name = n /\ Holding(q)
      BY <2>2
    <3>2. call'[q].name = n /\ Holding(q)'
      BY <1>1, <3>1 DEF Holding
    <3> QED BY <3>2
  <2> QED BY <1>1, <2>1, <2>2 DEF Links
<1>2. ASSUME regime' = "mortal", NEW q \in Procs, NEW h \in handles'[q] PROVE linked'[h.name] = h.obj
  BY <1>2 DEF Links
<1>3. ASSUME regime' = "mortal", NEW q \in Procs, call'[q].obj # NoObject PROVE linked'[call'[q].name] = call'[q].obj
  BY <1>3 DEF Links
<1>4. ASSUME regime' = "mortal", NEW q \in Procs, Unlinking(q)' PROVE ~HasEntry(call[q].name)'
  <2>1. CASE q = p
    <3>1. PICK n \in Names : n = call'[p].name
      BY <1>4, <2>1
    <3>2. ~HasEntry(n)'
      BY <1>4, <2>1, <3>1
    <3>3. HasEntry(call[q].name)' <=> HasEntry(n)'
      BY <2>1, <3>1
    <3> QED BY <3>2, <3>3
  <2>2. CASE q # p
    <3>1. ~Busy(q)
      BY <1>4, <2>2 DEF Control
    <3>2. ~Unlinking(q)
      BY <3>1, Resting
    <3> QED BY <1>4, <2>2, <3>2 DEF Unlinking
  <2> QED BY <2>1, <2>2
<1> QED BY <1>1, <1>2, <1>3, <1>4 DEF Links

\* Where nobody stands between two writes, every entry has a list.
LEMMA NoneCovered ==
  ASSUME Types, Control, NEW p \in Procs, pc[p] \in UnderLock \/ (regime = "mortal" /\ Busy(p)),
         NEW m, Covered(m)
  PROVE  pc[p] \in Covering /\ call[p].entry = m
<1>1. PICK q \in Procs : pc[q] \in Covering /\ call[q].entry = m
  BY DEF Covered
<1>2. pc[q] \in UnderLock \cup Removal
  BY <1>1 DEF Covering, UnderLock, Removal
<1>3. q = p
  BY <1>2, Alone
<1> QED BY <1>1, <1>3

\* Where the entries are after EntryRemoved.
LEMMA EntriesMoved ==
  ASSUME TypeOK, NEW e, Packed(e), NEW home, NEW pos, Heap(home, pos), NEW i \in 0 .. LastEntry,
         sem[i].szName # NoName, sem[i].nFirst = 0, sem' = SemWithout(i), ref' = ref
  PROVE  /\ \A m \in 0 .. LastEntry : sem'[m].szName # NoName =>
              \E j \in 0 .. LastEntry : j # i /\ sem'[m] = sem[j]
         /\ \A j \in 0 .. LastEntry : j # i /\ sem[j].szName # NoName =>
              \E m \in {i, j} : sem'[m] = sem[j]
         /\ \A n \in Names : HasEntry(n)' <=> HasEntry(n) /\ n # sem[i].szName
<1>1. /\ e # 0 /\ e - 1 \in 0 .. LastEntry /\ i <= e - 1
      /\ sem'[e - 1] = NoEntry
      /\ i # e - 1 => sem'[i] = sem[e - 1]
      /\ \A m \in 0 .. LastEntry : m # i /\ m # e - 1 => sem'[m] = sem[m]
  BY EntryRemoved
<1>2. PICK last \in 0 .. LastEntry : last = e - 1
  BY <1>1
<1>3. /\ sem'[last] = NoEntry /\ NoEntry.szName = NoName
      /\ i # last => sem'[i] = sem[last]
      /\ \A m \in 0 .. LastEntry : m # i /\ m # last => sem'[m] = sem[m]
  BY <1>1, <1>2 DEF NoEntry
<1>4. ASSUME NEW m \in 0 .. LastEntry, sem'[m].szName # NoName
      PROVE  \E j \in 0 .. LastEntry : j # i /\ sem'[m] = sem[j]
  <2>1. m # last
    BY <1>3, <1>4
  <2>2. CASE m = i
    BY <1>3, <2>1, <2>2
  <2>3. CASE m # i
    BY <1>3, <2>1, <2>3
  <2> QED BY <2>2, <2>3
<1>5. ASSUME NEW j \in 0 .. LastEntry, j # i
      PROVE  \E m \in {i, j} : sem'[m] = sem[j]
  BY <1>3, <1>5
<1>6. ASSUME NEW n \in Names PROVE HasEntry(n)' <=> HasEntry(n) /\ n # sem[i].szName
  <2>0. n # NoName
    BY NullAssumption
  <2>1. ASSUME HasEntry(n)' PROVE HasEntry(n) /\ n # sem[i].szName
    <3>1. PICK m \in 0 .. LastEntry : sem'[m].szName = n
      BY <2>1 DEF HasEntry
    <3>2. PICK j \in 0 .. LastEntry : j # i /\ sem'[m] = sem[j]
      BY <1>4, <2>0, <3>1
    <3>3. sem[j].szName = n
      BY <3>1, <3>2
    <3>4. n # sem[i].szName
      BY <2>0, <3>2, <3>3 DEF Packed
    <3> QED BY <3>3, <3>4 DEF HasEntry
  <2>2. ASSUME HasEntry(n), n # sem[i].szName PROVE HasEntry(n)'
    <3>1. PICK j \in 0 .. LastEntry : sem[j].szName = n
      BY <2>2 DEF HasEntry
    <3>2. j # i
      BY <2>2, <3>1
    <3>3. PICK m \in {i, j} : sem'[m] = sem[j]
      BY <1>5, <3>2
    <3> QED BY <3>1, <3>3 DEF HasEntry
  <2> QED BY <2>1, <2>2
<1> QED BY <1>4, <1>5, <1>6

\* DeleteRefCount in Refresh.
LEMMA RefreshRemoveBlockKeeps ==
  ASSUME IInv, NEW p \in Procs, RefreshRemoveBlock(p)
  PROVE  IInv'
<1>0. Types /\ Control /\ Links /\ Bounded /\ TypeOK
  BY DEF IInv, Types
<1>1. PICK e, home, pos : Sound(e, home, pos)
  BY DEF IInv
<1>2. Packed(e) /\ Heap(home, pos) /\ Counts(home) /\ Stages(home) /\ Torn(home)
  BY <1>1 DEF Sound
<1>3. /\ pc[p] = "removeBlock" /\ call[p] \in Call /\ call[p].name \in Names /\ call[p].then = "idle"
      /\ UNCHANGED <<regime, lock, linked, gone, torn, handles>> /\ call[p].obj = NoObject
      /\ gone # {}
  BY <1>0, CallIs
     DEF RefreshRemoveBlock, Goto, Control, Flow, Busy, Removing, Creating, Removal
<1>4. PICK i \in 0 .. LastEntry : i = call[p].entry
  BY <1>0, CallIs
<1>5. sem[i].szName = call[p].name /\ call[p].block \in Blocks /\ home[call[p].block] = call[p].name
      /\ ref[call[p].block].nPID \in gone
  BY <1>2, <1>3, <1>4 DEF Stages, StageOf
<1>6. PICK k \in Blocks : k = call[p].block
  BY <1>5
<1>7. call[p].name # NoName /\ regime = "mortal" /\ Busy(p)
  BY <1>0, <1>3, NullAssumption DEF Control, Types, LocalTypes, Busy
<1> DEFINE first == FirstWithout(i, k)
           home2 == [home EXCEPT ![k] = NoName]
           l == IF first = 0 THEN "removeEntry" ELSE "scan"
           c == [call[p] EXCEPT !.block = first]
<1>8. /\ ref' = RefWithout(k) /\ sem' = [sem EXCEPT ![i].nFirst = first]
      /\ pc' = [pc EXCEPT ![p] = l] /\ call' = [call EXCEPT ![p] = c]
  BY <1>4, <1>6 DEF RefreshRemoveBlock, Goto, Become
<1>9. /\ Packed(e)' /\ Heap(home2, pos)'
      /\ \A j \in Blocks : j # k => ref'[j].nPID = ref[j].nPID /\ ref'[j].nValue = ref[j].nValue
      /\ \A m \in 0 .. LastEntry : /\ sem'[m].szName = sem[m].szName /\ sem'[m].nOwnerPID = sem[m].nOwnerPID
                                   /\ m # i => sem'[m].nFirst = sem[m].nFirst
      /\ sem'[i].nFirst = first
      /\ SemType' /\ RefType'
  <2>1. home[k] = sem[i].szName /\ home[k] # NoName
    BY <1>5, <1>6, <1>7
  <2>2. ref' = RefWithout(k) /\ sem' = [sem EXCEPT ![i].nFirst = FirstWithout(i, k)]
    BY <1>8
  <2> HIDE DEF l, c
  <2> QED BY <1>0, <1>2, <2>1, <2>2, BlockRemoved
<1>10. /\ c \in Call /\ c.name = call[p].name /\ c.then = "idle" /\ c.obj = NoObject /\ c.entry = i
       /\ l \in {"removeEntry", "scan"} /\ (l = "removeEntry" => first = 0) /\ (l = "scan" => first # 0)
  <2>1. first \in Blocks \cup {0}
    BY <1>0, TableTypes DEF FirstWithout
  <2> HIDE DEF first
  <2> QED BY <1>3, <1>4, <2>1 DEF Call
<1>11. \A j \in Blocks : home2[j] = IF j = k THEN NoName ELSE home[j]
  BY <1>2 DEF Heap
<1> HIDE DEF first, l, c, home2
<1>12. pc'[p] = l /\ call'[p] = c /\ \A q \in Procs : q # p => pc'[q] = pc[q] /\ call'[q] = call[q]
  BY <1>0, <1>8 DEF Types, LocalTypes
<1>13. Types'
  <2>1. l \in Labels /\ lock' \in Procs \cup {NoPid} /\ linked' \in [Names -> Objects \cup {NoObject}]
        /\ gone' \subseteq Procs /\ torn' \in BOOLEAN /\ handles' \in [Procs -> SUBSET Handle]
    BY <1>0, <1>3, <1>10 DEF Labels, OpenLabels, Types, TypeOK, LocalTypes
  <2> QED BY <1>0, <1>3, <1>8, <1>9, <1>10, <2>1, TypesKept
<1>14. Control'
  BY <1>0, <1>13, ControlRefresh
<1>15. Counts(home2)'
  <2>1. \A j \in Blocks : home2[j] # NoName =>
          home2[j] = home[j] /\ ref'[j].nPID = ref[j].nPID /\ ref'[j].nValue = ref[j].nValue
    BY <1>9, <1>11
  <2>2. \A j \in Blocks : home[j] # NoName /\ home2[j] = NoName => ref[j].nPID \in gone
    BY <1>5, <1>6, <1>11
  <2>3. ~Closing(p) /\ ~Closing(p)'
    BY <1>3, <1>10, <1>12 DEF Closing
  <2> QED BY <1>0, <1>2, <1>3, <1>10, <1>12, <2>1, <2>2, <2>3, CountsKept
<1>16. Stages(home2)'
  <2>1. StageOf(home2, p)'
    BY <1>5, <1>7, <1>9, <1>10, <1>12 DEF StageOf
  <2> QED BY <1>0, <1>2, <1>3, <1>7, <1>12, <2>1, StagesKept
<1>17. Torn(home2)'
  <2>1. \A j \in Blocks : home2[j] # NoName /\ ref'[j].nPID \in gone =>
          home2[j] = home[j] /\ ref'[j].nPID = ref[j].nPID /\ ref'[j].nValue = ref[j].nValue
    BY <1>9, <1>11
  <2>2. ASSUME NEW m \in 0 .. LastEntry, sem'[m].szName # NoName, sem'[m].nFirst = 0
        PROVE  Covered(m)' \/ (torn /\ \A j \in Blocks : ~DeadZero(home, j))
    <3>1. CASE m = i
      BY <1>9, <1>10, <1>12, <2>2, <3>1 DEF Covered, Covering
    <3>2. CASE m # i
      <4>1. sem[m].szName # NoName /\ sem[m].nFirst = 0
        BY <1>9, <2>2, <3>2
      <4>2. ~Covered(m)
        BY <1>0, <1>3, <1>7, NoneCovered DEF Covering
      <4> QED BY <1>2, <4>1, <4>2 DEF Torn
    <3> QED BY <3>1, <3>2
  <2>3. pc[p] \notin Removing
    BY <1>3 DEF Removing
  <2> QED BY <1>0, <1>2, <1>3, <1>9, <1>12, <2>1, <2>2, <2>3, TornKept
<1>18. Bounded'
  <2>1. p \in Opening /\ handles' = handles
    BY <1>3 DEF Opening, OpenLabels
  <2> QED BY <1>0, <1>12, <2>1, BoundedKept
<1>19. Links'
  <2>1. ~Holding(p) /\ ~Unlinking(p)'
    BY <1>3, <1>10, <1>12 DEF Holding, Unlinking
  <2>2. \A n \in Names : HasEntry(n)' <=> HasEntry(n)
    BY <1>9 DEF HasEntry
  <2> QED BY <1>0, <1>3, <1>10, <1>12, <2>1, <2>2, LinksKept
<1> QED BY <1>9, <1>13, <1>14, <1>15, <1>16, <1>17, <1>18, <1>19 DEF IInv, Sound

\* The entry that is left behind with an empty list is deleted.
LEMMA EntryGone ==
  ASSUME Types, Control, NEW e, NEW home, NEW pos, Sound(e, home, pos), NEW p \in Procs,
         pc[p] \in UnderLock \/ (regime = "mortal" /\ Busy(p)), pc[p] \in Covering \ {"first"},
         UNCHANGED <<regime, ref, lock, linked, gone, torn, handles>>, sem' = SemWithout(call[p].entry),
         NEW l \in Labels, NEW c \in Call, pc' = [pc EXCEPT ![p] = l], call' = [call EXCEPT ![p] = c],
         l \notin Covering \cup {"append", "count", "dropBlock", "scan", "removeFind", "removeBlock"},
         Closing(p)' <=> Closing(p), Closing(p) => c.block = call[p].block /\ c.name = call[p].name,
         pc[p] \in Removing => l \in Removing /\ c = call[p]
  PROVE  Types' /\ Sound(e - 1, home, pos)'
         /\ \A n \in Names : HasEntry(n)' <=> HasEntry(n) /\ n # sem[call[p].entry].szName
<1>1. Packed(e) /\ Heap(home, pos) /\ Counts(home) /\ Stages(home) /\ Torn(home) /\ TypeOK
  BY DEF Sound, Types
<1>2. PICK i \in 0 .. LastEntry : i = call[p].entry
  BY CallIs
<1>3. sem[i].szName # NoName /\ sem[i].nFirst = 0
  BY <1>1, <1>2 DEF Stages, StageOf, Covering
<1>4. Packed(e - 1)' /\ Heap(home, pos)' /\ SemType' /\ RefType'
  BY <1>1, <1>2, <1>3, EntryRemoved
<1>5. /\ \A m \in 0 .. LastEntry : sem'[m].szName # NoName =>
           \E j \in 0 .. LastEntry : j # i /\ sem'[m] = sem[j]
      /\ \A j \in 0 .. LastEntry : j # i /\ sem[j].szName # NoName =>
           \E m \in {i, j} : sem'[m] = sem[j]
      /\ \A n \in Names : HasEntry(n)' <=> HasEntry(n) /\ n # sem[i].szName
  BY <1>1, <1>2, <1>3, EntriesMoved
<1>6. pc'[p] = l /\ call'[p] = c /\ \A q \in Procs : q # p => pc'[q] = pc[q] /\ call'[q] = call[q]
  BY DEF Types, LocalTypes
<1>7. Types'
  <2>1. lock' \in Procs \cup {NoPid} /\ linked' \in [Names -> Objects \cup {NoObject}]
        /\ gone' \subseteq Procs /\ torn' \in BOOLEAN /\ handles' \in [Procs -> SUBSET Handle]
    BY DEF Types, TypeOK, LocalTypes
  <2> QED BY <1>4, <2>1, TypesKept
<1>8. Counts(home)'
  <2>1. /\ \A j \in Blocks : home[j] # NoName =>
             home[j] = home[j] /\ ref'[j].nPID = ref[j].nPID /\ ref'[j].nValue = ref[j].nValue
        /\ \A j \in Blocks : home[j] # NoName /\ home[j] = NoName => ref[j].nPID \in gone
    OBVIOUS
  <2>2. /\ pc[p] \notin {"append", "count", "dropBlock"} /\ pc'[p] \notin {"append", "count", "dropBlock"}
        /\ Closing(p) => call'[p].block = call[p].block /\ call'[p].name = call[p].name
    BY <1>6 DEF Covering
  <2> QED BY <1>1, <1>6, <2>1, <2>2, CountsKept
<1>9. Stages(home)'
  <2>1. StageOf(home, p)'
    BY <1>6 DEF StageOf, Covering
  <2> QED BY <1>1, <1>6, <2>1, StagesKept
<1>10. ASSUME NEW m \in 0 .. LastEntry, sem'[m].szName # NoName, sem'[m].nFirst = 0
       PROVE  torn /\ \A j \in Blocks : ~DeadZero(home, j)
  <2>1. PICK j \in 0 .. LastEntry : j # i /\ sem'[m] = sem[j]
    BY <1>5, <1>10
  <2>2. ~Covered(j)
    BY <1>2, <2>1, NoneCovered
  <2> QED BY <1>1, <1>10, <2>1, <2>2 DEF Torn
<1>11. Torn(home)'
  <2>1. CASE pc[p] \notin Removing
    <3>1. \A j \in Blocks : home[j] # NoName /\ ref'[j].nPID \in gone =>
            home[j] = home[j] /\ ref'[j].nPID = ref[j].nPID /\ ref'[j].nValue = ref[j].nValue
      OBVIOUS
    <3> QED BY <1>1, <1>6, <1>10, <2>1, <3>1, TornKept
  <2>2. CASE pc[p] \in Removing
    <3>1. \A j \in Blocks : DeadZero(home, j)' <=> DeadZero(home, j)
      BY DEF DeadZero
    <3>2. lock = p /\ p \notin gone
      BY <2>2 DEF Control, Removing, UnderLock
    <3>3. ASSUME NEW k \in Blocks, DeadZero(home, k)'
          PROVE  \E q \in Procs : /\ pc'[q] \in Removing /\ call'[q].victim = ref'[k].nPID
                                  /\ \E m \in call'[q].entry .. LastEntry : sem'[m].szName = home[k]
      <4>1. PICK q \in Procs : /\ pc[q] \in Removing /\ call[q].victim = ref[k].nPID
                               /\ \E m \in call[q].entry .. LastEntry : sem[m].szName = home[k]
        BY <1>1, <3>1, <3>2, <3>3 DEF Torn
      <4>2. q = p
        BY <3>2, <4>1 DEF Control, Removing, UnderLock
      <4>3. PICK j \in i .. LastEntry : sem[j].szName = home[k]
        BY <1>2, <4>1, <4>2
      <4>4. j \in 0 .. LastEntry /\ i \in i .. LastEntry
        BY Sizes
      <4>5. j # i /\ home[k] # NoName
        BY <1>1, <1>3, <3>3, <4>3, EmptyList DEF DeadZero
      <4>6. PICK m \in {i, j} : sem'[m] = sem[j]
        BY <1>5, <4>3, <4>4, <4>5
      <4>7. m \in i .. LastEntry /\ sem'[m].szName = home[k]
        BY <4>3, <4>4, <4>6
      <4> QED BY <1>2, <1>6, <2>2, <4>1, <4>2, <4>7
    <3>4. ASSUME NEW m \in 0 .. LastEntry, sem'[m].szName # NoName, sem'[m].nFirst = 0
          PROVE  torn' /\ \A j \in Blocks : ~DeadZero(home, j)'
      BY <1>10, <3>1, <3>4
    <3> QED BY <3>3, <3>4 DEF Torn
  <2> QED BY <2>1, <2>2
<1> QED BY <1>2, <1>4, <1>5, <1>7, <1>8, <1>9, <1>11 DEF Sound

\* DeleteSemData in Refresh,
LEMMA RefreshRemoveEntryKeeps ==
  ASSUME IInv, NEW p \in Procs, RefreshRemoveEntry(p)
  PROVE  IInv'
<1>0. Types /\ Control /\ Links /\ Bounded /\ TypeOK
  BY DEF IInv, Types
<1>1. PICK e, home, pos : Sound(e, home, pos)
  BY DEF IInv
<1>2. /\ pc[p] = "removeEntry" /\ call[p] \in Call /\ call[p].name \in Names /\ call[p].then = "idle"
      /\ UNCHANGED <<regime, ref, lock, linked, gone, torn, handles, call>> /\ call[p].obj = NoObject
      /\ gone # {} /\ call[p].entry \in 0 .. LastEntry
  BY <1>0, CallIs
     DEF RefreshRemoveEntry, Goto, Control, Flow, Busy, Removing, Creating, Removal
<1>3. regime = "mortal" /\ Busy(p)
  BY <1>0, <1>2 DEF Control, Types, LocalTypes, Busy
<1>4. sem[call[p].entry].szName = call[p].name /\ sem[call[p].entry].nFirst = 0
  BY <1>1, <1>2 DEF Sound, Stages, StageOf
<1>5. sem' = SemWithout(call[p].entry)
  <2>1. call[p].name # NoName
    BY <1>2, NullAssumption
  <2>2. e # 0
    BY <1>0, <1>1, <1>2, <1>4, <2>1, EntryRemoved, EntriesAre DEF Sound, Packed, NoEntry
  <2>3. EndIndex = e
    BY <1>0, <1>1, EntriesAre DEF Sound
  <2> QED BY <2>2, <2>3 DEF RefreshRemoveEntry
<1>6. pc' = [pc EXCEPT ![p] = "unlinkOld"] /\ call' = [call EXCEPT ![p] = call[p]]
  BY <1>0, <1>2 DEF RefreshRemoveEntry, Goto, Types, LocalTypes
<1>7. pc'[p] = "unlinkOld" /\ call'[p] = call[p] /\ \A q \in Procs : q # p => pc'[q] = pc[q] /\ call'[q] = call[q]
  BY <1>0, <1>2, <1>6 DEF Types, LocalTypes
<1>8. Types' /\ Sound(e - 1, home, pos)'
      /\ \A n \in Names : HasEntry(n)' <=> HasEntry(n) /\ n # sem[call[p].entry].szName
  <2>1. pc[p] \in Covering \ {"first"} /\ "unlinkOld" \in Labels /\ pc[p] \notin Removing
    BY <1>2 DEF Covering, Labels, OpenLabels, Removing
  <2>2. "unlinkOld" \notin Covering \cup {"append", "count", "dropBlock", "scan", "removeFind", "removeBlock"}
    BY DEF Covering
  <2>3. ~Closing(p) /\ ~Closing(p)'
    BY <1>2, <1>7 DEF Closing
  <2> QED BY <1>0, <1>1, <1>2, <1>3, <1>5, <1>6, <2>1, <2>2, <2>3, EntryGone
<1>9. Control'
  BY <1>0, <1>8, ControlRefresh
<1>10. Bounded'
  <2>1. p \in Opening /\ handles' = handles
    BY <1>2 DEF Opening, OpenLabels
  <2> QED BY <1>0, <1>7, <2>1, BoundedKept
<1>11. Links'
  BY <1>0, <1>2, <1>3, <1>4, <1>7, <1>8, LinksMoved
<1> QED BY <1>8, <1>9, <1>10, <1>11 DEF IInv

\* in Destroy,
LEMMA DestroyEntryKeeps ==
  ASSUME IInv, NEW p \in Procs, DestroyEntry(p)
  PROVE  IInv'
<1>0. Types /\ Control /\ Links /\ Bounded /\ TypeOK
  BY DEF IInv, Types
<1>1. PICK e, home, pos : Sound(e, home, pos)
  BY DEF IInv
<1>2. /\ pc[p] = "dropEntry" /\ call[p] \in Call /\ call[p].name \in Names /\ call[p].then = "idle"
      /\ UNCHANGED <<regime, ref, lock, linked, gone, torn, handles>> /\ call[p].obj = NoObject
      /\ call[p].entry \in 0 .. LastEntry
  BY <1>0, CallIs DEF DestroyEntry, Goto, Control, Flow, Busy, Removing, Creating
<1>3. pc[p] \in UnderLock /\ Busy(p)
  BY <1>2 DEF UnderLock, Busy
<1>4. sem[call[p].entry].szName = call[p].name
  BY <1>1, <1>2 DEF Sound, Stages, StageOf
<1> DEFINE c == [NoCall EXCEPT !.name = call[p].name, !.then = "unlinkLast"]
<1>5. /\ sem' = SemWithout(call[p].entry) /\ pc' = [pc EXCEPT ![p] = "unlock"]
      /\ call' = [call EXCEPT ![p] = c]
  BY DEF DestroyEntry, Goto, Become
<1>6. c \in Call /\ c.name = call[p].name /\ c.then = "unlinkLast" /\ c.obj = NoObject
  BY <1>2, NoCallIs DEF Call, NoCall
<1> HIDE DEF c
<1>7. pc'[p] = "unlock" /\ call'[p] = c /\ \A q \in Procs : q # p => pc'[q] = pc[q] /\ call'[q] = call[q]
  BY <1>0, <1>5 DEF Types, LocalTypes
<1>8. Types' /\ Sound(e - 1, home, pos)'
      /\ \A n \in Names : HasEntry(n)' <=> HasEntry(n) /\ n # sem[call[p].entry].szName
  <2>1. pc[p] \in Covering \ {"first"} /\ "unlock" \in Labels /\ pc[p] \notin Removing
    BY <1>2 DEF Covering, Labels, UnderLock, Removing
  <2>2. "unlock" \notin Covering \cup {"append", "count", "dropBlock", "scan", "removeFind", "removeBlock"}
    BY DEF Covering
  <2>3. ~Closing(p) /\ ~Closing(p)'
    BY <1>2, <1>6, <1>7 DEF Closing
  <2> QED BY <1>0, <1>1, <1>2, <1>3, <1>5, <1>6, <2>1, <2>2, <2>3, EntryGone
<1>9. Control'
  BY <1>0, <1>8, ControlUnderLock
<1>10. Bounded'
  <2>1. handles' = handles /\ pc'[p] \notin OpenLabels /\ call'[p].then # "create"
    BY <1>2, <1>6, <1>7 DEF OpenLabels
  <2> QED BY <1>0, <1>7, <2>1, BoundedKept
<1>11. Links'
  <2>1. ~Holding(p) /\ Holding(p)' /\ Unlinking(p)'
    BY <1>2, <1>6, <1>7 DEF Holding, Unlinking
  <2>2. \A n \in Names : HasEntry(n) => HasEntry(n)' \/ call'[p].name = n
    BY <1>4, <1>6, <1>7, <1>8
  <2> QED BY <1>0, <1>2, <1>3, <1>4, <1>6, <1>7, <1>8, <2>1, <2>2, LinksMoved
<1> QED BY <1>8, <1>9, <1>10, <1>11 DEF IInv

\* and in Remove.
LEMMA RemoveLastKeeps ==
  ASSUME IInv, NEW p \in Procs, RemoveLast(p)
  PROVE  IInv'
<1>0. Types /\ Control /\ Links /\ Bounded /\ TypeOK
  BY DEF IInv, Types
<1>1. PICK e, home, pos : Sound(e, home, pos)
  BY DEF IInv
<1>2. /\ pc[p] = "removeLast" /\ call[p] \in Call /\ call[p].name \in Names /\ call[p].then \in {"create", "uncount"}
      /\ UNCHANGED <<regime, ref, lock, linked, gone, torn, handles, call>>
      /\ call[p].entry \in 0 .. LastEntry /\ gone # {}
  BY <1>0, CallIs DEF RemoveLast, Goto, Control, Flow, Busy, Removing
<1>3. pc[p] \in UnderLock /\ Busy(p)
  BY <1>2 DEF UnderLock, Busy
<1>5. /\ sem' = SemWithout(call[p].entry) /\ pc' = [pc EXCEPT ![p] = "remove"]
      /\ call' = [call EXCEPT ![p] = call[p]]
  BY <1>0, <1>2 DEF RemoveLast, Goto, Types, LocalTypes
<1>7. pc'[p] = "remove" /\ call'[p] = call[p] /\ \A q \in Procs : q # p => pc'[q] = pc[q] /\ call'[q] = call[q]
  BY <1>0, <1>2, <1>5 DEF Types, LocalTypes
<1>8. Types' /\ Sound(e - 1, home, pos)'
      /\ \A n \in Names : HasEntry(n)' <=> HasEntry(n) /\ n # sem[call[p].entry].szName
  <2>1. pc[p] \in Covering \ {"first"} /\ "remove" \in Labels /\ "remove" \in Removing
    BY <1>2 DEF Covering, Labels, UnderLock, Removing
  <2>2. "remove" \notin Covering \cup {"append", "count", "dropBlock", "scan", "removeFind", "removeBlock"}
    BY DEF Covering
  <2>3. Closing(p)' <=> Closing(p)
    BY <1>2, <1>7 DEF Closing
  <2>4. Closing(p) => call[p].block = call[p].block /\ call[p].name = call[p].name
    OBVIOUS
  <2>5. pc[p] \in Removing => "remove" \in Removing /\ call[p] = call[p]
    BY <2>1
  <2>6. UNCHANGED <<regime, ref, lock, linked, gone, torn, handles>>
    BY <1>2
  <2>7. call[p] \in Call
    BY <1>2
  <2> QED BY <1>0, <1>1, <1>3, <1>5, <2>1, <2>2, <2>3, <2>4, <2>5, <2>6, <2>7, EntryGone
<1>9. Control'
  BY <1>0, <1>8, ControlUnderLock
<1>10. Bounded'
  <2>1. handles' = handles /\ pc'[p] \notin OpenLabels /\ (call'[p].then = "create" => p \in Opening)
    BY <1>2, <1>7 DEF OpenLabels, Opening
  <2> QED BY <1>0, <1>7, <2>1, BoundedKept
<1>11. Links'
  <2>1. ~Unlinking(p)'
    BY <1>2, <1>7 DEF Unlinking
  <2> QED BY <1>0, <1>2, <1>3, <1>7, <1>8, <2>1, LinksMoved
<1> QED BY <1>8, <1>9, <1>10, <1>11 DEF IInv

-----------------------------------------------------------------------------
(* Blocks and entries added, handles counted and closed.                   *)

\* Create finds the entry of the name or adds one.
LEMMA CreateEntryKeeps ==
  ASSUME IInv, NEW p \in Procs, CreateEntry(p)
  PROVE  IInv'
<1>0. Types /\ Control /\ Links /\ Bounded /\ TypeOK
  BY DEF IInv, Types
<1>1. PICK e, home, pos : Sound(e, home, pos)
  BY DEF IInv
<1>2. Packed(e) /\ Heap(home, pos) /\ Counts(home) /\ Stages(home) /\ Torn(home)
  BY <1>1 DEF Sound
<1>3. /\ pc[p] = "create" /\ call[p] \in Call /\ call[p].name \in Names /\ call[p].then = "idle"
      /\ UNCHANGED <<regime, ref, lock, linked, gone, torn, handles>> /\ pc' = [pc EXCEPT ![p] = "first"]
  BY <1>0, CallIs DEF CreateEntry, Goto, Control, Flow, Busy, Removing
<1>4. PICK n \in Names : n = call[p].name
  BY <1>3
<1>5. pc[p] \in UnderLock \ Removing /\ Busy(p)
  BY <1>3 DEF UnderLock, Busy, Removing
<1>6. PICK i \in 0 .. LastEntry :
        /\ call' = [call EXCEPT ![p] = [call[p] EXCEPT !.entry = i]]
        /\ sem[i].szName \in {n, NoName} /\ sem'[i].szName = n
        /\ \A m \in 0 .. LastEntry : m # i => sem'[m] = sem[m]
        /\ \E e2 : Packed(e2)'
        /\ Heap(home, pos)' /\ SemType' /\ RefType'
  <2>1. FindSemData(n) = {j \in 0 .. LastEntry : sem[j].szName = n} /\ EndIndex = e
    BY <1>0, <1>2, EntriesAre
  <2>2. CASE FindSemData(n) = {}
    <3>1. ~HasEntry(n)
      BY <2>1, <2>2 DEF HasEntry
    <3>2. sem' = [sem EXCEPT ![e].szName = n, ![e].nOwnerPID = p]
          /\ call' = [call EXCEPT ![p] = [call[p] EXCEPT !.entry = e]]
      BY <1>4, <2>1, <2>2 DEF CreateEntry, Become
    <3>3. /\ e \in 0 .. LastEntry /\ Packed(e + 1)' /\ Heap(home, pos)' /\ sem'[e].szName = n
          /\ \A m \in 0 .. LastEntry : m # e => sem'[m] = sem[m]
          /\ SemType' /\ RefType' /\ sem[e] = NoEntry
      BY <1>0, <1>2, <1>3, <3>1, <3>2, EntryAdded
    <3>4. sem[e].szName = NoName
      BY <3>3 DEF NoEntry
    <3> QED BY <3>2, <3>3, <3>4
  <2>3. CASE FindSemData(n) # {}
    <3>1. PICK j \in FindSemData(n) : j = CHOOSE m \in FindSemData(n) : TRUE
      BY <2>3
    <3>2. j \in 0 .. LastEntry /\ sem[j].szName = n
      BY <2>1, <3>1
    <3>3. sem' = sem /\ call' = [call EXCEPT ![p] = [call[p] EXCEPT !.entry = j]]
      BY <1>4, <2>3, <3>1 DEF CreateEntry, Become
    <3>4. SemType' /\ RefType' /\ Packed(e)' /\ Heap(home, pos)'
      BY <1>0, <1>2, <1>3, <3>3, TableKept DEF table
    <3> QED BY <3>2, <3>3, <3>4
  <2> QED BY <2>2, <2>3
<1>7. PICK e2 : Packed(e2)'
  BY <1>6
<1> DEFINE c == [call[p] EXCEPT !.entry = i]
<1>8. /\ c \in Call /\ c.name = n /\ c.then = "idle" /\ c.obj = call[p].obj /\ c.entry = i
      /\ call' = [call EXCEPT ![p] = c]
  BY <1>3, <1>4, <1>6 DEF Call
<1> HIDE DEF c
<1>9. pc'[p] = "first" /\ call'[p] = c /\ \A q \in Procs : q # p => pc'[q] = pc[q] /\ call'[q] = call[q]
  BY <1>0, <1>3, <1>8 DEF Types, LocalTypes
<1>10. Types'
  <2>1. "first" \in Labels /\ lock' \in Procs \cup {NoPid} /\ linked' \in [Names -> Objects \cup {NoObject}]
        /\ gone' \subseteq Procs /\ torn' \in BOOLEAN /\ handles' \in [Procs -> SUBSET Handle]
    BY <1>0, <1>3 DEF Labels, OpenLabels, Types, TypeOK, LocalTypes
  <2> QED BY <1>0, <1>3, <1>6, <1>8, <2>1, TypesKept
<1>11. Control'
  BY <1>0, <1>10, ControlUnderLock
<1>12. Counts(home)'
  <2>1. /\ \A j \in Blocks : home[j] # NoName =>
             home[j] = home[j] /\ ref'[j].nPID = ref[j].nPID /\ ref'[j].nValue = ref[j].nValue
        /\ \A j \in Blocks : home[j] # NoName /\ home[j] = NoName => ref[j].nPID \in gone
    BY <1>3
  <2>2. /\ pc[p] \notin {"append", "count", "dropBlock"} /\ pc'[p] \notin {"append", "count", "dropBlock"}
        /\ ~Closing(p) /\ ~Closing(p)'
    BY <1>3, <1>8, <1>9 DEF Closing
  <2> QED BY <1>0, <1>2, <1>3, <1>9, <2>1, <2>2, CountsKept
<1>13. Stages(home)'
  <2>1. StageOf(home, p)'
    BY <1>6, <1>8, <1>9 DEF StageOf
  <2> QED BY <1>0, <1>2, <1>3, <1>5, <1>9, <2>1, StagesKept
<1>14. Torn(home)'
  <2>1. \A j \in Blocks : home[j] # NoName /\ ref'[j].nPID \in gone =>
          home[j] = home[j] /\ ref'[j].nPID = ref[j].nPID /\ ref'[j].nValue = ref[j].nValue
    BY <1>3
  <2>2. ASSUME NEW m \in 0 .. LastEntry, sem'[m].szName # NoName, sem'[m].nFirst = 0
        PROVE  Covered(m)' \/ (torn /\ \A j \in Blocks : ~DeadZero(home, j))
    <3>1. CASE m = i
      BY <1>8, <1>9, <3>1 DEF Covered, Covering
    <3>2. CASE m # i
      <4>1. ~Covered(m)
        BY <1>0, <1>3, <1>5, NoneCovered DEF Covering
      <4> QED BY <1>2, <1>6, <2>2, <3>2, <4>1 DEF Torn
    <3> QED BY <3>1, <3>2
  <2> QED BY <1>0, <1>2, <1>3, <1>5, <1>9, <2>1, <2>2, TornKept
<1>15. Bounded'
  <2>1. p \in Opening /\ handles' = handles
    BY <1>3 DEF Opening, OpenLabels
  <2> QED BY <1>0, <1>9, <2>1, BoundedKept
<1>16. Links'
  <2>1. HasEntry(n)' /\ \A m \in Names : HasEntry(m) => HasEntry(m)'
    <3>1. NoName \notin Names
      BY NullAssumption
    <3> QED BY <1>6, <3>1 DEF HasEntry
  <2>2. ASSUME NEW m \in Names, gone' = {}, linked'[m] # NoObject
        PROVE  HasEntry(m)' \/ \E q \in Procs : call'[q].name = m /\ Holding(q)'
    <3>1. HasEntry(m) \/ \E q \in Procs : call[q].name = m /\ Holding(q)
      BY <1>0, <1>3, <2>2 DEF Links
    <3>2. \A q \in Procs : q # p => (Holding(q)' <=> Holding(q)) /\ call'[q].name = call[q].name
      BY <1>9 DEF Holding
    <3> QED BY <1>4, <2>1, <3>1, <3>2
  <2>3. \A q \in Procs : call'[q].obj = call[q].obj /\ call'[q].name = call[q].name
    BY <1>4, <1>8, <1>9
  <2>4. ASSUME regime' = "mortal", NEW q \in Procs, Unlinking(q)' PROVE FALSE
    <3>1. q = p
      <4>1. Busy(q)'
        BY <1>10, <1>11, <2>4, Resting DEF Unlinking, Busy, Control, Flow, NoCall
      <4>2. Busy(p)'
        BY <1>9 DEF Busy
      <4> QED BY <1>11, <2>4, <4>1, <4>2 DEF Control
    <3> QED BY <1>8, <1>9, <2>4, <3>1 DEF Unlinking
  <2> QED BY <1>0, <1>3, <2>2, <2>3, <2>4 DEF Links
<1> QED BY <1>6, <1>7, <1>10, <1>11, <1>12, <1>13, <1>14, <1>15, <1>16 DEF IInv, Sound

\* A process gets its block of a name.
LEMMA CountsGrown ==
  ASSUME Types, Control, NEW home, NEW home2, NEW pos, Heap(home, pos), Counts(home), NEW p \in Procs,
         UNCHANGED <<handles, gone>>,
         \A q \in Procs : q # p => pc'[q] = pc[q] /\ call'[q] = call[q],
         pc[p] \in {"first", "append"}, pc'[p] \in {"append", "count"},
         call'[p].name = call[p].name, call'[p].then = "idle",
         pc'[p] = "count" => call'[p].block \in Blocks /\ home2[call'[p].block] = call[p].name
                             /\ ref'[call'[p].block].nPID = p,
         \A j \in Blocks : home[j] # NoName =>
           home2[j] = home[j] /\ ref'[j].nPID = ref[j].nPID /\ ref'[j].nValue = ref[j].nValue,
         \A j \in Blocks : home[j] = NoName /\ home2[j] # NoName =>
           /\ home2[j] = call[p].name /\ ref'[j].nPID = p /\ ref'[j].nValue = 0
           /\ \A m \in Blocks : home[m] = call[p].name => ref[m].nPID # p
  PROVE  Counts(home2)'
<1>0. /\ \A q \in Procs, n \in Names \cup {NoName} : HandlesOn(q, n)' = HandlesOn(q, n)
      /\ \A q \in Procs : \A h \in handles[q] : h.block \in Blocks /\ h.name \in Names
      /\ \A q \in Procs : Closing(q) \/ pc[q] \in {"dropBlock", "count"} => call[q].name # NoName
      /\ call[p].name \in Names /\ call[p].then = "idle" /\ NoName \notin Names /\ p \notin gone
  BY NullAssumption
     DEF HandlesOn, Control, Flow, Busy, NoCall, Types, LocalTypes, Handle, Closing, Removing
<1>1. \A q \in Procs, k \in Blocks : Pending(q, k)' = Pending(q, k)
  <2>1. /\ \A q \in Procs : Closing(q)' <=> Closing(q)
        /\ \A q \in Procs : q # p => call'[q].block = call[q].block
        /\ ~Closing(p)
    BY <1>0 DEF Closing
  <2> QED BY <2>1 DEF Pending
<1>2. ASSUME NEW q \in Procs, NEW h \in handles'[q] PROVE home2[h.block] = h.name /\ ref'[h.block].nPID = q
  BY <1>0, <1>2 DEF Counts
<1>3. ASSUME NEW q \in Procs, Closing(q)' \/ pc'[q] \in {"dropBlock", "count"}
      PROVE  call'[q].block \in Blocks /\ home2[call'[q].block] = call'[q].name /\ ref'[call'[q].block].nPID = q
  <2>1. CASE q = p
    BY <1>3, <2>1 DEF Closing
  <2>2. CASE q # p
    <3>1. call[q].block \in Blocks /\ home[call[q].block] = call[q].name /\ ref[call[q].block].nPID = q
          /\ call[q].name # NoName
      BY <1>0, <1>3, <2>2 DEF Counts, Closing
    <3> QED BY <2>2, <3>1
  <2> QED BY <2>1, <2>2
<1>4. ASSUME NEW q \in Procs, pc'[q] = "dropBlock" PROVE ref'[call'[q].block].nValue = 0
  <2>1. q # p /\ pc[q] = "dropBlock" /\ call'[q] = call[q]
    BY <1>4
  <2>2. /\ call[q].block \in Blocks /\ home[call[q].block] = call[q].name /\ call[q].name # NoName
        /\ ref[call[q].block].nValue = 0
    BY <1>0, <2>1 DEF Counts
  <2> QED BY <2>1, <2>2
<1>5. ASSUME NEW k \in Blocks, home2[k] # NoName, ref'[k].nPID \notin gone', home[k] # NoName
      PROVE  /\ ref'[k].nValue = Cardinality(HandlesOn(ref[k].nPID, home2[k]))' + Pending(ref[k].nPID, k)'
             /\ ref'[k].nPID = ref[k].nPID
             /\ ref'[k].nValue = 0 =>
                  \/ pc'[ref'[k].nPID] \in {"append", "count"} /\ home2[k] = call'[ref'[k].nPID].name
                  \/ pc'[ref'[k].nPID] = "dropBlock" /\ call'[ref'[k].nPID].block = k
  <2>0. ref'[k].nPID = ref[k].nPID /\ ref[k].nPID \in Procs /\ home2[k] = home[k] /\ ref'[k].nValue = ref[k].nValue
    BY <1>5 DEF Heap
  <2>1. PICK q \in Procs : q = ref[k].nPID
    BY <2>0
  <2>2. PICK n \in Names \cup {NoName} : n = home[k]
    BY DEF Heap
  <2>3. ref[k].nValue = Cardinality(HandlesOn(q, n)) + Pending(q, k)
    BY <1>5, <2>0, <2>1, <2>2 DEF Counts
  <2>4. HandlesOn(ref[k].nPID, home2[k])' = HandlesOn(q, n)
    BY <1>0, <2>0, <2>1, <2>2
  <2>5. Pending(ref[k].nPID, k)' = Pending(q, k)
    BY <1>1, <2>0, <2>1
  <2>6. ref[k].nValue = 0 => \/ pc[q] \in {"append", "count"} /\ home[k] = call[q].name
                             \/ pc[q] = "dropBlock" /\ call[q].block = k
    BY <1>5, <2>0, <2>1 DEF Counts
  <2> QED BY <2>0, <2>1, <2>2, <2>3, <2>4, <2>5, <2>6
<1>6. ASSUME NEW k \in Blocks, home2[k] # NoName, home[k] = NoName
      PROVE  /\ ref'[k].nValue = Cardinality(HandlesOn(p, home2[k]))' + Pending(p, k)'
             /\ ref'[k].nPID = p
             /\ ref'[k].nValue = 0 => pc'[p] \in {"append", "count"} /\ home2[k] = call'[p].name
  <2>1. home2[k] = call[p].name /\ ref'[k].nPID = p /\ ref'[k].nValue = 0
    BY <1>6
  <2>2. HandlesOn(p, call[p].name) = {}
    BY <1>0, <1>6 DEF HandlesOn, Counts
  <2>3. Cardinality(HandlesOn(p, home2[k]))' = 0
    <3>1. PICK n \in Names : n = call[p].name
      BY <1>0
    <3>2. HandlesOn(p, n)' = {}
      BY <1>0, <2>2, <3>1
    <3> QED BY <2>1, <3>1, <3>2, FS_EmptySet
  <2>4. Pending(p, k)' = 0
    BY <1>0, <1>1 DEF Pending, Closing
  <2> QED BY <2>1, <2>3, <2>4
<1> QED BY <1>2, <1>3, <1>4, <1>5, <1>6 DEF Counts

\* Only a block that is counted is in a list while a process is about to take one.
LEMMA NoZero ==
  ASSUME Types, Control, NEW home, NEW pos, Heap(home, pos), Counts(home), Torn(home),
         NEW p \in Procs, pc[p] \in {"first", "append"},
         \A k \in Blocks : home[k] = call[p].name => ref[k].nPID # p
  PROVE  \A k \in Blocks : home[k] # NoName => ref[k].nValue # 0
<1> SUFFICES ASSUME NEW k \in Blocks, home[k] # NoName, ref[k].nValue = 0 PROVE FALSE
  OBVIOUS
<1>1. pc[p] \in UnderLock \ Removing
  BY DEF UnderLock, Removing
<1>2. ref[k].nPID \in Procs /\ ref[k].nPID \notin gone
  BY <1>1, NoneTorn DEF DeadZero, Heap
<1>3. PICK q \in Procs : q = ref[k].nPID
  BY <1>2
<1>4. \/ pc[q] \in {"append", "count"} /\ home[k] = call[q].name
      \/ pc[q] = "dropBlock" /\ call[q].block = k
  BY <1>2, <1>3 DEF Counts
<1>5. q = p
  BY <1>1, <1>4, Alone DEF UnderLock
<1> QED BY <1>3, <1>4, <1>5

\* The step of a process that takes its block of a name: the blocks and entries after it,
\* and what the process, now at l with the locals c, has found.
Taking(home, home2, p, l, c) ==
  /\ l = "count" => c.block \in Blocks /\ home2[c.block] = c.name /\ ref'[c.block].nPID = p
  /\ l = "append" => sem'[c.entry].szName = c.name /\ sem'[c.entry].nFirst # 0
  /\ \A j \in Blocks : home[j] # NoName =>
       home2[j] = home[j] /\ ref'[j].nPID = ref[j].nPID /\ ref'[j].nValue = ref[j].nValue
  /\ \A j \in Blocks : home[j] = NoName /\ home2[j] # NoName =>
       /\ home2[j] = call[p].name /\ ref'[j].nPID = p /\ ref'[j].nValue = 0
       /\ \A m \in Blocks : home[m] = call[p].name => ref[m].nPID # p
  /\ \A m \in 0 .. LastEntry :
       /\ sem'[m].szName = sem[m].szName
       /\ sem'[m].nFirst = 0 => sem[m].nFirst = 0 /\ (pc[p] = "first" => m # call[p].entry)

\* All that is said of the table, after a process has found or taken its block.
LEMMA BlockTaken ==
  ASSUME Types, Control, Links, Bounded, NEW e, NEW home, NEW pos, Sound(e, home, pos), NEW p \in Procs,
         pc[p] \in {"first", "append"}, UNCHANGED <<regime, lock, linked, gone, torn, handles>>,
         NEW home2, NEW pos2, Packed(e)', Heap(home2, pos2)', SemType', RefType',
         NEW l \in {"append", "count"}, NEW c \in Call, pc' = [pc EXCEPT ![p] = l], call' = [call EXCEPT ![p] = c],
         c.name = call[p].name, c.then = "idle", c.obj = call[p].obj,
         Taking(home, home2, p, l, c),
         Types' => Control'
  PROVE  IInv'
<1> USE DEF Taking
<1>1. Packed(e) /\ Heap(home, pos) /\ Counts(home) /\ Stages(home) /\ Torn(home) /\ TypeOK
  BY DEF Sound, Types
<1>2. pc[p] \in UnderLock \ Removing /\ Busy(p) /\ p \notin gone /\ call[p].then = "idle"
  BY DEF UnderLock, Busy, Removing, Control, Flow
<1>3. pc'[p] = l /\ call'[p] = c /\ \A q \in Procs : q # p => pc'[q] = pc[q] /\ call'[q] = call[q]
  BY DEF Types, LocalTypes
<1>4. Types' /\ Control'
  <2>1. l \in Labels /\ lock' \in Procs \cup {NoPid} /\ linked' \in [Names -> Objects \cup {NoObject}]
        /\ gone' \subseteq Procs /\ torn' \in BOOLEAN /\ handles' \in [Procs -> SUBSET Handle]
    BY DEF Labels, OpenLabels, Types, TypeOK, LocalTypes
  <2>2. Types'
    BY <2>1, TypesKept
  <2> QED BY <2>2
<1>5. Counts(home2)'
  BY <1>1, <1>3, CountsGrown
<1>6. Stages(home2)'
  <2>1. StageOf(home2, p)'
    BY <1>3 DEF StageOf
  <2> QED BY <1>1, <1>2, <1>3, <2>1, StagesKept
<1>7. Torn(home2)'
  <2>1. \A j \in Blocks : home2[j] # NoName /\ ref'[j].nPID \in gone =>
          home2[j] = home[j] /\ ref'[j].nPID = ref[j].nPID /\ ref'[j].nValue = ref[j].nValue
    BY <1>2
  <2>2. ASSUME NEW m \in 0 .. LastEntry, sem'[m].szName # NoName, sem'[m].nFirst = 0
        PROVE  Covered(m)' \/ (torn /\ \A j \in Blocks : ~DeadZero(home, j))
    <3>1. sem[m].szName # NoName /\ sem[m].nFirst = 0 /\ (pc[p] = "first" => m # call[p].entry)
      BY <2>2
    <3>2. ~Covered(m)
      BY <1>2, <3>1, NoneCovered DEF Covering
    <3> QED BY <1>1, <3>1, <3>2 DEF Torn
  <2> QED BY <1>1, <1>2, <1>3, <2>1, <2>2, TornKept
<1>8. Bounded'
  <2>1. p \in Opening /\ handles' = handles
    BY DEF Opening, OpenLabels
  <2> QED BY <1>3, <2>1, BoundedKept
<1>9. Links'
  <2>1. ~Holding(p) /\ ~Unlinking(p)'
    BY <1>2, <1>3 DEF Holding, Unlinking
  <2>2. \A n \in Names : HasEntry(n)' <=> HasEntry(n)
    BY DEF HasEntry
  <2> QED BY <1>3, <2>1, <2>2, LinksKept
<1> QED BY <1>4, <1>5, <1>6, <1>7, <1>8, <1>9 DEF IInv, Sound

\* Create gives an empty list its first block.
LEMMA CreateFirstKeeps ==
  ASSUME IInv, NEW p \in Procs, CreateFirst(p)
  PROVE  IInv'
<1>0. Types /\ Control /\ Links /\ Bounded /\ TypeOK
  BY DEF IInv, Types
<1>1. PICK e, home, pos : Sound(e, home, pos)
  BY DEF IInv
<1>2. Packed(e) /\ Heap(home, pos) /\ Counts(home) /\ Stages(home) /\ Torn(home)
  BY <1>1 DEF Sound
<1>3. /\ pc[p] = "first" /\ call[p] \in Call /\ call[p].name \in Names /\ call[p].then = "idle"
      /\ UNCHANGED <<regime, lock, linked, gone, torn, handles>>
      /\ pc' = [pc EXCEPT ![p] = "append"] /\ call' = [call EXCEPT ![p] = call[p]]
  BY <1>0, CallIs DEF CreateFirst, Goto, Control, Flow, Busy, Removing, Types, LocalTypes
<1>4. PICK i \in 0 .. LastEntry : i = call[p].entry
  BY <1>0, CallIs
<1>5. PICK n \in Names : n = call[p].name
  BY <1>3
<1>6. sem[i].szName = n /\ n # NoName
  BY <1>2, <1>3, <1>4, <1>5, NullAssumption DEF Stages, StageOf
<1>7. Types' => Control'
  BY <1>0, ControlUnderLock
<1>8. CASE sem[i].nFirst # 0
  <2>1. UNCHANGED table
    BY <1>4, <1>8 DEF CreateFirst
  <2>2. SemType' /\ RefType' /\ Packed(e)' /\ Heap(home, pos)'
    BY <1>0, <1>2, <2>1, TableKept
  <2>3. \A j \in Blocks : home[j] # NoName =>
           home[j] = home[j] /\ ref'[j].nPID = ref[j].nPID /\ ref'[j].nValue = ref[j].nValue
    BY <2>1 DEF table
  <2>4. \A m \in 0 .. LastEntry : /\ sem'[m].szName = sem[m].szName
                                  /\ sem'[m].nFirst = 0 => sem[m].nFirst = 0 /\ (pc[p] = "first" => m # call[p].entry)
    BY <1>4, <1>8, <2>1 DEF table
  <2>5. "append" = "append" => sem'[call[p].entry].szName = call[p].name /\ sem'[call[p].entry].nFirst # 0
    BY <1>4, <1>5, <1>6, <1>8, <2>1 DEF table
  <2>6. Taking(home, home, p, "append", call[p])
    BY <2>3, <2>4, <2>5 DEF Taking
  <2> QED BY <1>0, <1>1, <1>3, <1>7, <2>2, <2>6, BlockTaken
<1>9. CASE sem[i].nFirst = 0
  <2>1. \A m \in Blocks : home[m] # n
    BY <1>0, <1>2, <1>6, <1>9, EmptyList
  <2>2. \A m \in Blocks : home[m] # NoName => ref[m].nValue # 0
    BY <1>0, <1>2, <1>3, <1>5, <2>1, NoZero
  <2>3. FreeBlock \in Blocks /\ home[FreeBlock] = NoName
    BY <1>0, <1>2, <2>1, <2>2, FreeBlockIs
  <2>4. PICK k \in Blocks : k = FreeBlock /\ home[k] = NoName
    BY <2>3
  <2>5. PutFirst(p, k, i)
    BY <1>4, <1>9, <2>4 DEF CreateFirst, PutFirst
  <2> DEFINE home2 == [home EXCEPT ![k] = n]
  <2>6. /\ Packed(e)' /\ Heap(home2, pos)' /\ ref'[k].nPID = p /\ ref'[k].nValue = 0
        /\ \A j \in Blocks : j # k => ref'[j] = ref[j]
        /\ \A m \in 0 .. LastEntry : /\ sem'[m].szName = sem[m].szName
                                     /\ m # i => sem'[m].nFirst = sem[m].nFirst
        /\ sem'[i].nFirst = k
        /\ SemType' /\ RefType'
    BY <1>0, <1>2, <1>6, <1>9, <2>4, <2>5, BlockPlaced
  <2>7. \A j \in Blocks : home2[j] = IF j = k THEN n ELSE home[j]
    BY <1>2 DEF Heap
  <2> HIDE DEF home2
  <2>8. \A j \in Blocks : home[j] # NoName =>
           home2[j] = home[j] /\ ref'[j].nPID = ref[j].nPID /\ ref'[j].nValue = ref[j].nValue
    BY <2>3, <2>4, <2>6, <2>7
  <2>9. \A j \in Blocks : home[j] = NoName /\ home2[j] # NoName =>
           /\ home2[j] = call[p].name /\ ref'[j].nPID = p /\ ref'[j].nValue = 0
           /\ \A m \in Blocks : home[m] = call[p].name => ref[m].nPID # p
    BY <1>5, <2>1, <2>6, <2>7
  <2>10. \A m \in 0 .. LastEntry : /\ sem'[m].szName = sem[m].szName
                                   /\ sem'[m].nFirst = 0 => sem[m].nFirst = 0 /\ (pc[p] = "first" => m # call[p].entry)
    BY <1>4, <1>9, <2>6, Sizes
  <2>11. "append" = "append" => sem'[call[p].entry].szName = call[p].name /\ sem'[call[p].entry].nFirst # 0
    BY <1>4, <1>5, <1>6, <2>6, Sizes
  <2>12. Taking(home, home2, p, "append", call[p])
    BY <2>8, <2>9, <2>10, <2>11 DEF Taking
  <2>13. Packed(e)' /\ Heap(home2, pos)' /\ SemType' /\ RefType'
    BY <2>6
  <2> QED BY <1>0, <1>1, <1>3, <1>7, <2>12, <2>13, BlockTaken
<1> QED BY <1>8, <1>9

\* Create finds the block of the process or appends one.
LEMMA CreateAppendKeeps ==
  ASSUME IInv, NEW p \in Procs, CreateAppend(p)
  PROVE  IInv'
<1>0. Types /\ Control /\ Links /\ Bounded /\ TypeOK
  BY DEF IInv, Types
<1>1. PICK e, home, pos : Sound(e, home, pos)
  BY DEF IInv
<1>2. Packed(e) /\ Heap(home, pos) /\ Counts(home) /\ Stages(home) /\ Torn(home)
  BY <1>1 DEF Sound
<1>3. /\ pc[p] = "append" /\ call[p] \in Call /\ call[p].name \in Names /\ call[p].then = "idle"
      /\ UNCHANGED <<regime, sem, lock, linked, gone, torn, handles>>
      /\ pc' = [pc EXCEPT ![p] = "count"]
  BY <1>0, CallIs DEF CreateAppend, Goto, Control, Flow, Busy, Removing
<1>4. PICK i \in 0 .. LastEntry : i = call[p].entry
  BY <1>0, CallIs
<1>5. PICK n \in Names : n = call[p].name
  BY <1>3
<1>6. sem[i].szName = n /\ n # NoName /\ sem[i].nFirst # 0
  BY <1>2, <1>3, <1>4, <1>5, NullAssumption DEF Stages, StageOf
<1>7. Types' => Control'
  BY <1>0, ControlUnderLock
<1>8. PICK found : found = FindRefCount(sem[i].nFirst, p)
  OBVIOUS
<1>9. \/ /\ found = 0
         /\ \A k \in Blocks : home[k] = n => ref[k].nPID # p
      \/ found \in Blocks /\ home[found] = n /\ ref[found].nPID = p
  BY <1>0, <1>2, <1>6, <1>8, FindRefCountIs
<1>10. \A m \in 0 .. LastEntry : /\ sem'[m].szName = sem[m].szName
                                 /\ sem'[m].nFirst = 0 => sem[m].nFirst = 0 /\ (pc[p] = "first" => m # call[p].entry)
  BY <1>3
<1>11. ASSUME NEW k \in Blocks
       PROVE  /\ [call[p] EXCEPT !.block = k] \in Call /\ [call[p] EXCEPT !.block = k].name = call[p].name
              /\ [call[p] EXCEPT !.block = k].then = "idle" /\ [call[p] EXCEPT !.block = k].obj = call[p].obj
              /\ [call[p] EXCEPT !.block = k].block = k
  BY <1>3 DEF Call
<1>12. CASE found # 0
  <2>1. PICK k \in Blocks : k = found
    BY <1>9, <1>12
  <2> DEFINE c == [call[p] EXCEPT !.block = k]
  <2>2. ref' = ref /\ call' = [call EXCEPT ![p] = c]
    BY <1>4, <1>8, <1>12, <2>1 DEF CreateAppend, Become
  <2>3. c \in Call /\ c.name = call[p].name /\ c.then = "idle" /\ c.obj = call[p].obj /\ c.block = k
    BY <1>11
  <2> HIDE DEF c
  <2>4. SemType' /\ RefType' /\ Packed(e)' /\ Heap(home, pos)'
    BY <1>0, <1>2, <1>3, <2>2, TableKept DEF table
  <2>5. \A j \in Blocks : home[j] # NoName =>
           home[j] = home[j] /\ ref'[j].nPID = ref[j].nPID /\ ref'[j].nValue = ref[j].nValue
    BY <2>2
  <2>6. "count" = "count" => c.block \in Blocks /\ home[c.block] = c.name /\ ref'[c.block].nPID = p
    BY <1>5, <1>9, <1>12, <2>1, <2>2, <2>3
  <2>7. Taking(home, home, p, "count", c)
    BY <1>10, <2>5, <2>6 DEF Taking
  <2> QED BY <1>0, <1>1, <1>3, <1>7, <2>2, <2>3, <2>4, <2>7, BlockTaken
<1>13. CASE found = 0
  <2>1. \A k \in Blocks : home[k] = n => ref[k].nPID # p
    BY <1>9, <1>13, Sizes
  <2>2. \A m \in Blocks : home[m] # NoName => ref[m].nValue # 0
    BY <1>0, <1>2, <1>3, <1>5, <2>1, NoZero
  <2>3. FreeBlock \in Blocks /\ home[FreeBlock] = NoName
    BY <1>0, <1>2, <2>1, <2>2, FreeBlockIs
  <2>4. PICK k \in Blocks : k = FreeBlock /\ home[k] = NoName
    BY <2>3
  <2>5. PICK last \in Blocks : last = LastBlock(sem[i].nFirst) /\ home[last] = n /\ ref[last].nNext = 0
    BY <1>0, <1>2, <1>6, LastBlockIs
  <2> DEFINE home2 == [home EXCEPT ![k] = n]
             pos2 == [pos EXCEPT ![k] = pos[last] + 1]
             c == [call[p] EXCEPT !.block = k]
  <2>6. PutLast(p, k, last) /\ call' = [call EXCEPT ![p] = c]
    BY <1>4, <1>8, <1>13, <2>4, <2>5 DEF CreateAppend, Become, PutLast
  <2>7. c \in Call /\ c.name = call[p].name /\ c.then = "idle" /\ c.obj = call[p].obj /\ c.block = k
    BY <1>11
  <2> HIDE DEF c
  <2>8. /\ Packed(e)' /\ Heap(home2, pos2)' /\ ref'[k].nPID = p /\ ref'[k].nValue = 0
        /\ \A j \in Blocks : j # k => ref'[j].nPID = ref[j].nPID /\ ref'[j].nValue = ref[j].nValue
        /\ SemType' /\ RefType'
    BY <1>0, <1>2, <1>3, <2>1, <2>4, <2>5, <2>6, BlockAppended
  <2>9. \A j \in Blocks : home2[j] = IF j = k THEN n ELSE home[j]
    BY <1>2 DEF Heap
  <2> HIDE DEF home2, pos2
  <2>10. \A j \in Blocks : home[j] # NoName =>
           home2[j] = home[j] /\ ref'[j].nPID = ref[j].nPID /\ ref'[j].nValue = ref[j].nValue
    BY <2>3, <2>4, <2>8, <2>9
  <2>11. \A j \in Blocks : home[j] = NoName /\ home2[j] # NoName =>
           /\ home2[j] = call[p].name /\ ref'[j].nPID = p /\ ref'[j].nValue = 0
           /\ \A m \in Blocks : home[m] = call[p].name => ref[m].nPID # p
    BY <1>5, <2>1, <2>8, <2>9
  <2>12. "count" = "count" => c.block \in Blocks /\ home2[c.block] = c.name /\ ref'[c.block].nPID = p
    BY <1>5, <2>7, <2>8, <2>9
  <2>13. Taking(home, home2, p, "count", c)
    BY <1>10, <2>10, <2>11, <2>12 DEF Taking
  <2> QED BY <1>0, <1>1, <1>3, <1>7, <2>6, <2>7, <2>8, <2>13, BlockTaken
<1> QED BY <1>12, <1>13

\* A handle of process p, or the call that closes it, is counted in block b.
LEMMA CountsMoved ==
  ASSUME Types, Control, NEW home, NEW pos, Heap(home, pos), Counts(home), NEW p \in Procs, p \notin gone,
         NEW b \in Blocks, NEW n \in Names, home[b] = n, ref[b].nPID = p, UNCHANGED gone,
         \A q \in Procs : q # p => pc'[q] = pc[q] /\ call'[q] = call[q] /\ handles'[q] = handles[q],
         \A j \in Blocks : j # b => ref'[j] = ref[j],
         ref'[b].nPID = p,
         \A h \in handles'[p] : h \in handles[p] \/ (h.name = n /\ h.block = b),
         \A m \in Names : m # n => HandlesOn(p, m)' = HandlesOn(p, m),
         pc[p] \in {"append", "count"} => call[p].name = n, pc[p] # "dropBlock",
         Closing(p) => call[p].block = b,
         Closing(p)' \/ pc'[p] \in {"dropBlock", "count"} => call'[p].block = b /\ call'[p].name = n,
         pc'[p] = "dropBlock" => ref'[b].nValue = 0,
         ref'[b].nValue = Cardinality(HandlesOn(p, n))' + Pending(p, b)',
         ref'[b].nValue = 0 => pc'[p] = "dropBlock"
  PROVE  Counts(home)'
<1>0. /\ \A q \in Procs, m \in Names : q # p => HandlesOn(q, m)' = HandlesOn(q, m)
      /\ \A q \in Procs : \A h \in handles[q] : h.block \in Blocks /\ h.name \in Names
      /\ NoName \notin Names
  BY NullAssumption DEF HandlesOn, Types, LocalTypes, Handle
<1>1. ASSUME NEW q \in Procs, NEW h \in handles'[q] PROVE home[h.block] = h.name /\ ref'[h.block].nPID = q
  <2>1. CASE h \in handles[q]
    <3>1. h.block \in Blocks /\ home[h.block] = h.name /\ ref[h.block].nPID = q
      BY <1>0, <2>1 DEF Counts
    <3> QED BY <3>1
  <2>2. CASE h \notin handles[q]
    BY <1>1, <2>2
  <2> QED BY <2>1, <2>2
<1>2. ASSUME NEW q \in Procs, Closing(q)' \/ pc'[q] \in {"dropBlock", "count"}
      PROVE  call'[q].block \in Blocks /\ home[call'[q].block] = call'[q].name /\ ref'[call'[q].block].nPID = q
  <2>1. CASE q = p
    BY <1>2, <2>1
  <2>2. CASE q # p
    <3>1. call[q].block \in Blocks /\ home[call[q].block] = call[q].name /\ ref[call[q].block].nPID = q
      BY <1>2, <2>2 DEF Counts, Closing
    <3> QED BY <2>2, <3>1
  <2> QED BY <2>1, <2>2
<1>3. ASSUME NEW q \in Procs, pc'[q] = "dropBlock" PROVE ref'[call'[q].block].nValue = 0
  <2>1. CASE q = p
    BY <1>3, <2>1
  <2>2. CASE q # p
    <3>1. call[q].block \in Blocks /\ ref[call[q].block].nPID = q /\ ref[call[q].block].nValue = 0
      BY <1>3, <2>2 DEF Counts
    <3> QED BY <2>2, <3>1
  <2> QED BY <2>1, <2>2
<1>4. ASSUME NEW k \in Blocks, k # b, home[k] # NoName, ref'[k].nPID \notin gone
      PROVE  /\ ref'[k].nValue = Cardinality(HandlesOn(ref[k].nPID, home[k]))' + Pending(ref[k].nPID, k)'
             /\ ref'[k].nPID = ref[k].nPID
             /\ ref'[k].nValue = 0 =>
                  \/ pc'[ref'[k].nPID] \in {"append", "count"} /\ home[k] = call'[ref'[k].nPID].name
                  \/ pc'[ref'[k].nPID] = "dropBlock" /\ call'[ref'[k].nPID].block = k
  <2>0. ref'[k] = ref[k] /\ ref[k].nPID \in Procs /\ home[k] \in Names
    BY <1>4 DEF Heap
  <2>1. PICK q \in Procs : q = ref[k].nPID
    BY <2>0
  <2>2. PICK m \in Names : m = home[k]
    BY <2>0
  <2>3. ASSUME q = p, m = n PROVE FALSE
    <3>1. home[k] = home[b] /\ home[k] # NoName /\ ref[k].nPID = ref[b].nPID
      BY <1>4, <2>1, <2>2, <2>3
    <3> QED BY <1>4, <3>1 DEF Heap
  <2>4. ref[k].nValue = Cardinality(HandlesOn(q, m)) + Pending(q, k)
    BY <1>4, <2>0, <2>1, <2>2 DEF Counts
  <2>5. HandlesOn(q, m)' = HandlesOn(q, m)
    BY <1>0, <2>3
  <2>6. Pending(q, k)' = Pending(q, k)
    <3>1. CASE q = p
      BY <1>4, <3>1 DEF Pending
    <3>2. CASE q # p
      BY <3>2 DEF Pending, Closing
    <3> QED BY <3>1, <3>2
  <2>7. ref[k].nValue = 0 => \/ pc[q] \in {"append", "count"} /\ home[k] = call[q].name
                             \/ pc[q] = "dropBlock" /\ call[q].block = k
    BY <1>4, <2>0, <2>1 DEF Counts
  <2>8. ref[k].nValue = 0 => q # p
    BY <2>2, <2>3, <2>7
  <2>9. Cardinality(HandlesOn(ref[k].nPID, home[k]))' = Cardinality(HandlesOn(q, m))
    BY <2>0, <2>1, <2>2, <2>5
  <2>10. Pending(ref[k].nPID, k)' = Pending(q, k)
    BY <2>0, <2>1, <2>6
  <2> QED BY <2>0, <2>1, <2>4, <2>7, <2>8, <2>9, <2>10
<1>5. /\ ref'[b].nValue = Cardinality(HandlesOn(ref[b].nPID, home[b]))' + Pending(ref[b].nPID, b)'
      /\ ref'[b].nValue = 0 => pc'[ref'[b].nPID] = "dropBlock" /\ call'[ref'[b].nPID].block = b
  <2>1. Cardinality(HandlesOn(ref[b].nPID, home[b]))' = Cardinality(HandlesOn(p, n))'
    OBVIOUS
  <2>2. Pending(ref[b].nPID, b)' = Pending(p, b)'
    OBVIOUS
  <2> QED BY <2>1, <2>2
<1>6. ASSUME NEW k \in Blocks, home[k] # NoName, ref'[k].nPID \notin gone
      PROVE  /\ ref'[k].nValue = Cardinality(HandlesOn(ref[k].nPID, home[k]))' + Pending(ref[k].nPID, k)'
             /\ ref'[k].nValue = 0 =>
                  \/ pc'[ref'[k].nPID] \in {"append", "count"} /\ home[k] = call'[ref'[k].nPID].name
                  \/ pc'[ref'[k].nPID] = "dropBlock" /\ call'[ref'[k].nPID].block = k
  <2>1. CASE k = b
    BY <1>5, <2>1
  <2>2. CASE k # b
    BY <1>4, <1>6, <2>2
  <2> QED BY <2>1, <2>2
<1> QED BY <1>1, <1>2, <1>3, <1>6 DEF Counts

\* Create counts the handle.
LEMMA CreateCountKeeps ==
  ASSUME IInv, NEW p \in Procs, CreateCount(p)
  PROVE  IInv'
<1>0. Types /\ Control /\ Links /\ Bounded /\ TypeOK
  BY DEF IInv, Types
<1>1. PICK e, home, pos : Sound(e, home, pos)
  BY DEF IInv
<1>2. Packed(e) /\ Heap(home, pos) /\ Counts(home) /\ Stages(home) /\ Torn(home)
  BY <1>1 DEF Sound
<1>3. /\ pc[p] = "count" /\ call[p] \in Call /\ call[p].name \in Names /\ call[p].then = "idle"
      /\ call[p].obj \in Objects
      /\ UNCHANGED <<regime, sem, lock, linked, gone, torn>>
      /\ pc' = [pc EXCEPT ![p] = "unlock"] /\ call' = [call EXCEPT ![p] = NoCall]
      /\ p \notin gone
  BY <1>0, CallIs DEF CreateCount, Goto, Become, Control, Flow, Busy, Removing, Creating
<1>4. pc[p] \in UnderLock \ Removing /\ Busy(p) /\ p \in Opening
  BY <1>3 DEF UnderLock, Busy, Removing, Opening, OpenLabels
<1>5. PICK n \in Names : n = call[p].name
  BY <1>3
<1>6. PICK b \in Blocks : b = call[p].block /\ home[b] = n /\ ref[b].nPID = p
  BY <1>2, <1>3, <1>5 DEF Counts
<1>7. n # NoName
  BY NullAssumption
<1> DEFINE free == Min(1 .. MaxOpen \ {h.id : h \in HandlesOn(p, n)})
<1>8. /\ Cardinality(OpenHandles) < MaxOpen /\ IsFiniteSet(HandlesOn(p, n))
      /\ Cardinality(HandlesOn(p, n)) \in Nat /\ Cardinality(HandlesOn(p, n)) < MaxOpen
      /\ free \in 1 .. MaxOpen \ {h.id : h \in HandlesOn(p, n)}
  BY <1>0, <1>4, RoomForHandle
<1>9. PICK i \in 1 .. MaxOpen : i = free
  BY <1>8
<1> DEFINE h == [id |-> i, name |-> n, obj |-> call[p].obj, block |-> b]
<1>10. handles' = [handles EXCEPT ![p] = @ \cup {h}]
  BY <1>5, <1>6, <1>9 DEF CreateCount
<1>11. h \in Handle /\ h.name = n /\ h.block = b /\ h.obj = call[p].obj /\ h.id = i
  BY <1>3 DEF Handle
<1>12. h \notin handles[p]
  <2>1. h \in handles[p] => h \in HandlesOn(p, n)
    BY <1>11 DEF HandlesOn
  <2> QED BY <1>8, <1>9, <1>11, <2>1
<1> HIDE DEF h, free
<1>13. /\ handles'[p] = handles[p] \cup {h} /\ \A q \in Procs : q # p => handles'[q] = handles[q]
       /\ pc'[p] = "unlock" /\ call'[p] = NoCall
       /\ \A q \in Procs : q # p => pc'[q] = pc[q] /\ call'[q] = call[q]
  BY <1>0, <1>3, <1>10 DEF Types, LocalTypes
<1>14. /\ HandlesOn(p, n)' = HandlesOn(p, n) \cup {h} /\ h \notin HandlesOn(p, n)
       /\ \A m \in Names : m # n => HandlesOn(p, m)' = HandlesOn(p, m)
  BY <1>11, <1>12, <1>13 DEF HandlesOn
<1>15. Cardinality(HandlesOn(p, n))' = Cardinality(HandlesOn(p, n)) + 1
  BY <1>8, <1>14, FS_AddElement
<1>16. ~Closing(p) /\ ~Closing(p)'
  BY <1>3, <1>13 DEF Closing, NoCall
<1>17. PICK v \in 0 .. MaxOpen : v = ref[b].nValue + 1 /\ v = Cardinality(HandlesOn(p, n)) + 1
  <2>1. ref[b].nValue = Cardinality(HandlesOn(p, n)) + Pending(p, b)
    BY <1>2, <1>3, <1>6, <1>7 DEF Counts
  <2>2. Pending(p, b) = 0
    BY <1>16 DEF Pending
  <2>3. MaxOpen \in Nat
    BY BoundAssumption
  <2> QED BY <1>8, <2>1, <2>2, <2>3
<1>18. Recount(b, v)
  <2>1. ref' = [ref EXCEPT ![b].nValue = @ + 1]
    BY <1>6 DEF CreateCount
  <2> QED BY <1>3, <1>17, <2>1 DEF Recount
<1>19. /\ Packed(e)' /\ Heap(home, pos)' /\ ref'[b].nPID = p /\ ref'[b].nValue = v
       /\ \A j \in Blocks : j # b => ref'[j] = ref[j]
       /\ SemType' /\ RefType'
  BY <1>0, <1>2, <1>6, <1>7, <1>18, CountChanged
<1>20. Types'
  <2>1. "unlock" \in Labels /\ lock' \in Procs \cup {NoPid} /\ linked' \in [Names -> Objects \cup {NoObject}]
        /\ gone' \subseteq Procs /\ torn' \in BOOLEAN /\ handles' \in [Procs -> SUBSET Handle]
    BY <1>0, <1>3, <1>10, <1>11 DEF Labels, UnderLock, Types, TypeOK, LocalTypes
  <2> QED BY <1>0, <1>3, <1>19, <2>1, NoCallIs, TypesKept
<1>21. Control'
  BY <1>0, <1>20, ControlUnderLock
<1>22. Counts(home)'
  <2>1. \A g \in handles'[p] : g \in handles[p] \/ (g.name = n /\ g.block = b)
    BY <1>11, <1>13
  <2>2. Pending(p, b)' = 0
    BY <1>16 DEF Pending
  <2>3. ref'[b].nValue = Cardinality(HandlesOn(p, n))' + Pending(p, b)' /\ ref'[b].nValue # 0
    BY <1>8, <1>15, <1>17, <1>19, <2>2
  <2>4. pc[p] \in {"append", "count"} => call[p].name = n
    BY <1>5
  <2>5. pc[p] # "dropBlock" /\ pc'[p] \notin {"dropBlock", "count"} /\ ref'[b].nPID = p /\ p \notin gone
    BY <1>3, <1>13, <1>19
  <2>6. \A q \in Procs : q # p => pc'[q] = pc[q] /\ call'[q] = call[q] /\ handles'[q] = handles[q]
    BY <1>13
  <2>7. \A m \in Names : m # n => HandlesOn(p, m)' = HandlesOn(p, m)
    BY <1>14
  <2>8. (\A j \in Blocks : j # b => ref'[j] = ref[j]) /\ UNCHANGED gone
    BY <1>3, <1>19
  <2>9. home[b] = n /\ ref[b].nPID = p /\ Heap(home, pos) /\ Counts(home)
    BY <1>2, <1>6
  <2> QED BY <1>0, <1>16, <2>1, <2>3, <2>4, <2>5, <2>6, <2>7, <2>8, <2>9, CountsMoved
<1>23. Stages(home)'
  <2>1. StageOf(home, p)'
    BY <1>13 DEF StageOf
  <2> QED BY <1>0, <1>2, <1>3, <1>4, <1>13, <2>1, StagesKept
<1>24. Torn(home)'
  <2>1. \A j \in Blocks : home[j] # NoName /\ ref'[j].nPID \in gone =>
          home[j] = home[j] /\ ref'[j].nPID = ref[j].nPID /\ ref'[j].nValue = ref[j].nValue
    BY <1>3, <1>19
  <2>2. ASSUME NEW m \in 0 .. LastEntry, sem'[m].szName # NoName, sem'[m].nFirst = 0
        PROVE  Covered(m)' \/ (torn /\ \A j \in Blocks : ~DeadZero(home, j))
    <3>1. ~Covered(m)
      BY <1>0, <1>3, <1>4, NoneCovered DEF Covering
    <3> QED BY <1>2, <1>3, <2>2, <3>1 DEF Torn
  <2> QED BY <1>0, <1>2, <1>3, <1>4, <1>13, <2>1, <2>2, TornKept
<1>25. Bounded'
  <2>1. OpenHandles' = OpenHandles \cup {<<p, h>>}
    BY <1>13 DEF OpenHandles
  <2>2. Opening' = Opening \ {p}
    BY <1>13 DEF Opening, OpenLabels, NoCall
  <2>3. /\ IsFiniteSet(OpenHandles) /\ Cardinality(OpenHandles) \in Nat
        /\ IsFiniteSet(Opening) /\ Cardinality(Opening) \in Nat
        /\ Cardinality(OpenHandles) + Cardinality(Opening) <= MaxOpen /\ MaxOpen \in Nat
    BY <1>0, OpenedIs, BoundAssumption DEF Bounded
  <2>4. IsFiniteSet(OpenHandles') /\ Cardinality(OpenHandles') <= Cardinality(OpenHandles) + 1
        /\ Cardinality(OpenHandles') \in Nat
    <3>1. Cardinality(OpenHandles \cup {<<p, h>>}) \in {Cardinality(OpenHandles), Cardinality(OpenHandles) + 1}
          /\ IsFiniteSet(OpenHandles \cup {<<p, h>>})
      BY <2>3, FS_AddElement
    <3> QED BY <2>1, <2>3, <3>1
  <2>5. IsFiniteSet(Opening') /\ Cardinality(Opening') = Cardinality(Opening) - 1
    BY <1>4, <2>2, <2>3, FS_RemoveElement
  <2>6. Cardinality(OpenHandles') + Cardinality(Opening') <= MaxOpen
    BY <2>3, <2>4, <2>5
  <2> QED BY <2>4, <2>6 DEF Bounded, Opened
<1>26. Links'
  <2>1. \A m \in Names : HasEntry(m)' <=> HasEntry(m)
    BY <1>3 DEF HasEntry
  <2>2. /\ \A q \in Procs : q # p => /\ Holding(q)' <=> Holding(q)
                                     /\ Unlinking(q)' <=> Unlinking(q)
        /\ ~Holding(p) /\ ~Unlinking(p)'
    BY <1>3, <1>13 DEF Holding, Unlinking, NoCall
  <2>3. ASSUME NEW m \in Names, gone' = {}, linked'[m] # NoObject
        PROVE  HasEntry(m)' \/ \E q \in Procs : call'[q].name = m /\ Holding(q)'
    BY <1>0, <1>3, <1>13, <2>1, <2>2, <2>3 DEF Links
  <2>4. ASSUME regime' = "mortal", NEW q \in Procs, NEW g \in handles'[q] PROVE linked'[g.name] = g.obj
    <3>1. CASE g \in handles[q]
      BY <1>0, <1>3, <2>4, <3>1 DEF Links
    <3>2. CASE g \notin handles[q]
      <4>1. q = p /\ g = h
        BY <1>13, <2>4, <3>2
      <4>2. linked[n] = call[p].obj
        BY <1>0, <1>3, <1>5, <2>4, NoObjectFact DEF Links
      <4> QED BY <1>3, <1>11, <4>1, <4>2
    <3> QED BY <3>1, <3>2
  <2>5. ASSUME regime' = "mortal", NEW q \in Procs, call'[q].obj # NoObject
        PROVE  linked'[call'[q].name] = call'[q].obj
    <3>1. q # p
      BY <1>13, <2>5 DEF NoCall
    <3> QED BY <1>0, <1>3, <1>13, <2>5, <3>1 DEF Links
  <2>6. ASSUME regime' = "mortal", NEW q \in Procs, Unlinking(q)' PROVE ~HasEntry(call[q].name)'
    <3>1. q # p /\ Unlinking(q) /\ call'[q] = call[q]
      BY <1>13, <2>2, <2>6
    <3> QED BY <1>0, <1>3, <2>6, <3>1 DEF Links, HasEntry
  <2> QED BY <2>3, <2>4, <2>5, <2>6 DEF Links
<1> QED BY <1>19, <1>20, <1>21, <1>22, <1>23, <1>24, <1>25, <1>26 DEF IInv, Sound

\* CloseMutex begins: the handle is gone, its count is pending.
LEMMA CloseKeeps ==
  ASSUME IInv, NEW p \in Procs, NEW h \in handles[p], Close(p, h)
  PROVE  IInv'
<1>0. Types /\ Control /\ Links /\ Bounded /\ TypeOK
  BY DEF IInv, Types
<1>1. PICK e, home, pos : Sound(e, home, pos)
  BY DEF IInv
<1>2. Packed(e) /\ Heap(home, pos) /\ Counts(home) /\ Stages(home) /\ Torn(home)
  BY <1>1 DEF Sound
<1>3. /\ pc[p] = "idle" /\ UNCHANGED <<regime, table, lock, linked, gone, torn>>
      /\ pc' = [pc EXCEPT ![p] = "lock"] /\ handles' = [handles EXCEPT ![p] = @ \ {h}] /\ p \notin gone
      /\ call[p] = NoCall
  BY <1>0 DEF Close, Goto, Control, Flow, Busy
<1>4. h \in Handle /\ h.name \in Names /\ h.block \in Blocks
  BY <1>0 DEF Types, LocalTypes, Handle
<1>5. PICK b \in Blocks, n \in Names : b = h.block /\ n = h.name
  BY <1>4
<1>6. home[b] = n /\ ref[b].nPID = p
  BY <1>2, <1>5 DEF Counts
<1> DEFINE c == [NoCall EXCEPT !.name = n, !.block = b, !.then = "uncount"]
<1>7. call' = [call EXCEPT ![p] = c]
  BY <1>5 DEF Close, Become
<1>8. c \in Call /\ c.name = n /\ c.block = b /\ c.then = "uncount" /\ c.obj = NoObject
  BY NoCallIs DEF Call, NoCall
<1> HIDE DEF c
<1>9. /\ handles'[p] = handles[p] \ {h} /\ \A q \in Procs : q # p => handles'[q] = handles[q]
      /\ pc'[p] = "lock" /\ call'[p] = c
      /\ \A q \in Procs : q # p => pc'[q] = pc[q] /\ call'[q] = call[q]
  BY <1>0, <1>3, <1>7 DEF Types, LocalTypes
<1>10. SemType' /\ RefType' /\ Packed(e)' /\ Heap(home, pos)' /\ \A m : HasEntry(m)' <=> HasEntry(m)
  BY <1>0, <1>2, <1>3, TableKept
<1>11. Types'
  <2>1. "lock" \in Labels /\ lock' \in Procs \cup {NoPid} /\ linked' \in [Names -> Objects \cup {NoObject}]
        /\ gone' \subseteq Procs /\ torn' \in BOOLEAN /\ handles' \in [Procs -> SUBSET Handle]
    BY <1>0, <1>3 DEF Labels, Types, TypeOK, LocalTypes
  <2> QED BY <1>0, <1>3, <1>7, <1>8, <1>10, <2>1, TypesKept
<1>12. Control'
  BY <1>0, <1>11, ControlBegin DEF Begin
<1>13. Closing(p)' /\ ~Closing(p)
  BY <1>3, <1>8, <1>9 DEF Closing, NoCall
<1>14. Counts(home)'
  <2>1. IsFiniteSet(HandlesOn(p, n)) /\ Cardinality(HandlesOn(p, n)) \in Nat
    BY <1>0, HandlesFinite, FS_CardinalityType DEF Bounded
  <2>2. HandlesOn(p, n)' = HandlesOn(p, n) \ {h} /\ h \in HandlesOn(p, n)
    BY <1>5, <1>9 DEF HandlesOn
  <2>3. Cardinality(HandlesOn(p, n))' = Cardinality(HandlesOn(p, n)) - 1
    BY <2>1, <2>2, FS_RemoveElement
  <2>4. ref[b].nValue = Cardinality(HandlesOn(p, n)) + Pending(p, b)
    BY <1>2, <1>3, <1>5, <1>6, NullAssumption DEF Counts
  <2>5. Pending(p, b) = 0 /\ Pending(p, b)' = 1
    BY <1>8, <1>9, <1>13 DEF Pending
  <2>6. ref'[b].nValue = Cardinality(HandlesOn(p, n))' + Pending(p, b)' /\ ref'[b].nPID = p
    BY <1>3, <1>6, <2>1, <2>3, <2>4, <2>5 DEF table
  <2>7. ref'[b].nValue # 0
    <3>1. IsFiniteSet(HandlesOn(p, n) \ {h})
      BY <2>1, FS_RemoveElement
    <3>2. Cardinality(HandlesOn(p, n) \ {h}) \in Nat
      BY <3>1, FS_CardinalityType
    <3> QED BY <2>2, <2>5, <2>6, <3>2
  <2>8. \A m \in Names : m # n => HandlesOn(p, m)' = HandlesOn(p, m)
    BY <1>5, <1>9 DEF HandlesOn
  <2>9. /\ \A j \in Blocks : j # b => ref'[j] = ref[j]
        /\ \A q \in Procs : q # p => pc'[q] = pc[q] /\ call'[q] = call[q] /\ handles'[q] = handles[q]
        /\ \A g \in handles'[p] : g \in handles[p] \/ (g.name = n /\ g.block = b)
    BY <1>3, <1>9 DEF table
  <2>10. call'[p].block = b /\ call'[p].name = n /\ pc'[p] # "dropBlock" /\ pc[p] \notin {"append", "count", "dropBlock"}
    BY <1>3, <1>8, <1>9
  <2>11. UNCHANGED gone /\ p \notin gone
    BY <1>3
  <2> QED BY <1>0, <1>2, <1>6, <1>13, <2>6, <2>7, <2>8, <2>9, <2>10, <2>11, CountsMoved
<1>15. Stages(home)'
  <2>1. StageOf(home, p)'
    BY <1>9 DEF StageOf
  <2> QED BY <1>0, <1>2, <1>3, <1>9, <2>1, StagesKept
<1>16. Torn(home)'
  <2>1. \A j \in Blocks : home[j] # NoName /\ ref'[j].nPID \in gone =>
          home[j] = home[j] /\ ref'[j].nPID = ref[j].nPID /\ ref'[j].nValue = ref[j].nValue
    BY <1>3 DEF table
  <2>2. ASSUME NEW m \in 0 .. LastEntry, sem'[m].szName # NoName, sem'[m].nFirst = 0
        PROVE  Covered(m)' \/ (torn /\ \A j \in Blocks : ~DeadZero(home, j))
    <3>1. Covered(m) => Covered(m)'
      BY <1>3, <1>9 DEF Covered, Covering
    <3> QED BY <1>2, <1>3, <2>2, <3>1 DEF Torn, table
  <2>3. pc[p] \notin Removing /\ UNCHANGED sem
    BY <1>3 DEF Removing, table
  <2> QED BY <1>0, <1>2, <1>3, <1>9, <2>1, <2>2, <2>3, TornKept
<1>17. Bounded'
  <2>1. (\A q \in Procs : handles'[q] \subseteq handles[q])
        /\ pc'[p] \notin OpenLabels /\ call'[p].then # "create"
    BY <1>8, <1>9 DEF OpenLabels
  <2> QED BY <1>0, <1>9, <2>1, BoundedKept
<1>18. Links'
  <2>1. ~Holding(p) /\ ~Unlinking(p)' /\ call'[p].obj = NoObject
    BY <1>3, <1>8, <1>9 DEF Holding, Unlinking, NoCall
  <2>2. \A q \in Procs : handles'[q] \subseteq handles[q]
    BY <1>9
  <2> QED BY <1>0, <1>3, <1>9, <1>10, <2>1, <2>2, LinksKept
<1> QED BY <1>10, <1>11, <1>12, <1>14, <1>15, <1>16, <1>17, <1>18 DEF IInv, Sound

\* Destroy takes the handle off the count.
LEMMA DestroyUncountKeeps ==
  ASSUME IInv, NEW p \in Procs, DestroyUncount(p)
  PROVE  IInv'
<1>0. Types /\ Control /\ Links /\ Bounded /\ TypeOK
  BY DEF IInv, Types
<1>1. PICK e, home, pos : Sound(e, home, pos)
  BY DEF IInv
<1>2. Packed(e) /\ Heap(home, pos) /\ Counts(home) /\ Stages(home) /\ Torn(home)
  BY <1>1 DEF Sound
<1>3. /\ pc[p] = "uncount" /\ UNCHANGED <<regime, sem, lock, linked, gone, torn, handles>> /\ p \notin gone
      /\ call[p] \in Call /\ call[p].name \in Names /\ call[p].then = "idle" /\ call[p].obj = NoObject
  BY <1>0, CallIs DEF DestroyUncount, Goto, Control, Flow, Busy, Removing, Creating
<1>4. pc[p] \in UnderLock \ Removing /\ Busy(p) /\ Closing(p)
  BY <1>3 DEF UnderLock, Busy, Removing, Closing
<1>5. PICK b \in Blocks, n \in Names : b = call[p].block /\ n = call[p].name
  BY <1>2, <1>3, <1>4 DEF Counts
<1>6. home[b] = n /\ ref[b].nPID = p /\ n # NoName
  BY <1>2, <1>4, <1>5, NullAssumption DEF Counts
<1>7. /\ Cardinality(HandlesOn(p, n)) \in Nat
      /\ ref[b].nValue = Cardinality(HandlesOn(p, n)) + 1
  <2>1. IsFiniteSet(HandlesOn(p, n)) /\ Cardinality(HandlesOn(p, n)) \in Nat
    BY <1>0, HandlesFinite, FS_CardinalityType DEF Bounded
  <2>2. ref[b].nValue = Cardinality(HandlesOn(p, n)) + Pending(p, b)
    BY <1>2, <1>3, <1>6 DEF Counts
  <2>3. Pending(p, b) = 1
    BY <1>4, <1>5 DEF Pending
  <2> QED BY <2>1, <2>2, <2>3
<1>8. ref[b].nValue \in 0 .. MaxOpen /\ MaxOpen \in Nat
  BY <1>0, TableTypes, BoundAssumption
<1>9. PICK v \in 0 .. MaxOpen : v = ref[b].nValue - 1 /\ v = Cardinality(HandlesOn(p, n))
  BY <1>7, <1>8
<1>10. Recount(b, v)
  <2>1. ref' = [ref EXCEPT ![b].nValue = @ - 1]
    BY <1>5 DEF DestroyUncount
  <2> QED BY <1>3, <1>9, <2>1 DEF Recount
<1>11. /\ Packed(e)' /\ Heap(home, pos)' /\ ref'[b].nPID = p /\ ref'[b].nValue = v
       /\ \A j \in Blocks : j # b => ref'[j] = ref[j]
       /\ SemType' /\ RefType'
  BY <1>0, <1>2, <1>6, <1>10, CountChanged
<1> DEFINE l == IF v > 0 THEN "unlock" ELSE "dropBlock"
           c == IF v > 0 THEN NoCall ELSE call[p]
<1>12. pc' = [pc EXCEPT ![p] = l] /\ call' = [call EXCEPT ![p] = c]
  <2>1. ref[b].nValue > 1 <=> v > 0
    BY <1>8, <1>9
  <2> QED BY <1>5, <2>1 DEF DestroyUncount, Goto, Become
<1>13. /\ l \in {"unlock", "dropBlock"} /\ (l = "dropBlock" <=> v = 0)
       /\ c \in Call /\ c.then = "idle" /\ c.obj = NoObject
       /\ l = "dropBlock" => c.name = n /\ c.block = b
  <2>1. NoCall.then = "idle" /\ NoCall.obj = NoObject
    BY DEF NoCall
  <2>2. v \in Nat
    OBVIOUS
  <2>3. CASE v > 0
    BY <1>3, <2>1, <2>3, NoCallIs
  <2>4. CASE v = 0
    BY <1>3, <1>5, <2>4
  <2> QED BY <2>2, <2>3, <2>4
<1> HIDE DEF l, c
<1>14. pc'[p] = l /\ call'[p] = c /\ \A q \in Procs : q # p => pc'[q] = pc[q] /\ call'[q] = call[q]
  BY <1>0, <1>12 DEF Types, LocalTypes
<1>15. Types'
  <2>1. l \in Labels /\ lock' \in Procs \cup {NoPid} /\ linked' \in [Names -> Objects \cup {NoObject}]
        /\ gone' \subseteq Procs /\ torn' \in BOOLEAN /\ handles' \in [Procs -> SUBSET Handle]
    BY <1>0, <1>3, <1>13 DEF Labels, UnderLock, Types, TypeOK, LocalTypes
  <2> QED BY <1>0, <1>3, <1>11, <1>12, <1>13, <2>1, TypesKept
<1>16. Control'
  BY <1>0, <1>15, ControlUnderLock
<1>17. Counts(home)'
  <2>1. Closing(p)' <=> FALSE
    BY <1>13, <1>14 DEF Closing
  <2>2. \A m \in Names : HandlesOn(p, m)' = HandlesOn(p, m)
    BY <1>3 DEF HandlesOn
  <2>3. ref'[b].nValue = Cardinality(HandlesOn(p, n))' + Pending(p, b)'
    <3>1. Pending(p, b)' = 0
      BY <2>1 DEF Pending
    <3> QED BY <1>7, <1>9, <1>11, <2>2, <3>1
  <2>4. /\ \A q \in Procs : q # p => pc'[q] = pc[q] /\ call'[q] = call[q] /\ handles'[q] = handles[q]
        /\ \A h \in handles'[p] : h \in handles[p] \/ (h.name = n /\ h.block = b)
    BY <1>3, <1>14
  <2>5. /\ pc[p] \notin {"append", "count", "dropBlock"} /\ pc'[p] # "count"
        /\ pc'[p] = "dropBlock" => call'[p].block = b /\ call'[p].name = n /\ ref'[b].nValue = 0
        /\ ref'[b].nValue = 0 => pc'[p] = "dropBlock"
    BY <1>3, <1>11, <1>13, <1>14
  <2>6. UNCHANGED gone /\ p \notin gone /\ call[p].block = b
    BY <1>3, <1>5
  <2>7. \A j \in Blocks : j # b => ref'[j] = ref[j]
    BY <1>11
  <2> QED BY <1>0, <1>2, <1>6, <1>11, <2>1, <2>2, <2>3, <2>4, <2>5, <2>6, <2>7, CountsMoved
<1>18. Stages(home)'
  <2>1. StageOf(home, p)'
    BY <1>13, <1>14 DEF StageOf
  <2> QED BY <1>0, <1>2, <1>3, <1>4, <1>14, <2>1, StagesKept
<1>19. Torn(home)'
  <2>1. \A j \in Blocks : home[j] # NoName /\ ref'[j].nPID \in gone =>
          home[j] = home[j] /\ ref'[j].nPID = ref[j].nPID /\ ref'[j].nValue = ref[j].nValue
    BY <1>3, <1>11
  <2>2. ASSUME NEW m \in 0 .. LastEntry, sem'[m].szName # NoName, sem'[m].nFirst = 0
        PROVE  Covered(m)' \/ (torn /\ \A j \in Blocks : ~DeadZero(home, j))
    <3>1. ~Covered(m)
      BY <1>0, <1>3, <1>4, NoneCovered DEF Covering
    <3> QED BY <1>2, <1>3, <2>2, <3>1 DEF Torn
  <2> QED BY <1>0, <1>2, <1>3, <1>4, <1>14, <2>1, <2>2, TornKept
<1>20. Bounded'
  <2>1. handles' = handles /\ pc'[p] \notin OpenLabels /\ call'[p].then # "create"
    BY <1>3, <1>13, <1>14 DEF OpenLabels
  <2> QED BY <1>0, <1>14, <2>1, BoundedKept
<1>21. Links'
  <2>1. ~Holding(p) /\ ~Unlinking(p)' /\ call'[p].obj = NoObject
    BY <1>3, <1>13, <1>14 DEF Holding, Unlinking
  <2>2. \A m \in Names : HasEntry(m)' <=> HasEntry(m)
    BY <1>3 DEF HasEntry
  <2> QED BY <1>0, <1>3, <1>14, <2>1, <2>2, LinksKept
<1> QED BY <1>11, <1>15, <1>16, <1>17, <1>18, <1>19, <1>20, <1>21 DEF IInv, Sound

\* MarkOwner and UnmarkOwner.
LEMMA MarkKeeps ==
  ASSUME IInv, NEW p \in Procs, NEW h \in handles[p], NEW owner \in {p, NoPid}, Mark(p, h, owner)
  PROVE  IInv'
<1>0. Types /\ Control /\ Links /\ Bounded /\ TypeOK
  BY DEF IInv, Types
<1>1. PICK e, home, pos : Sound(e, home, pos)
  BY DEF IInv
<1>2. Packed(e) /\ Heap(home, pos) /\ Counts(home) /\ Stages(home) /\ Torn(home)
  BY <1>1 DEF Sound
<1>3. /\ pc[p] = "idle" /\ UNCHANGED <<regime, ref, lock, linked, gone, torn, handles, pc, call>>
      /\ pc' = [pc EXCEPT ![p] = pc[p]] /\ call' = [call EXCEPT ![p] = call[p]]
  BY <1>0 DEF Mark, Types, LocalTypes
<1>4. PICK n \in Names : n = h.name
  BY <1>0 DEF Types, LocalTypes, Handle
<1>5. Remark(n, owner) /\ owner \in Procs \cup {NoPid}
  BY <1>4 DEF Mark, Remark
<1>6. /\ Packed(e)' /\ Heap(home, pos)'
      /\ \A m \in 0 .. LastEntry : /\ sem'[m].szName = sem[m].szName /\ sem'[m].nFirst = sem[m].nFirst
                                   /\ sem[m].szName # n => sem'[m] = sem[m]
      /\ SemType' /\ RefType'
  BY <1>0, <1>2, <1>5, MarkChanged
<1>7. Types'
  <2>1. /\ pc[p] \in Labels /\ call[p] \in Call
        /\ lock' \in Procs \cup {NoPid} /\ linked' \in [Names -> Objects \cup {NoObject}]
        /\ gone' \subseteq Procs /\ torn' \in BOOLEAN /\ handles' \in [Procs -> SUBSET Handle]
    BY <1>0, <1>3 DEF Types, TypeOK, LocalTypes
  <2>2. SemType' /\ RefType'
    BY <1>6
  <2>3. regime' = regime /\ pc' = [pc EXCEPT ![p] = pc[p]] /\ call' = [call EXCEPT ![p] = call[p]]
    BY <1>3
  <2> QED BY <1>0, <2>1, <2>2, <2>3, TypesKept
<1>8. Control'
  BY <1>0, <1>7, ControlBegin DEF Begin
<1>9. Counts(home)'
  <2>1. /\ \A j \in Blocks : home[j] # NoName =>
             home[j] = home[j] /\ ref'[j].nPID = ref[j].nPID /\ ref'[j].nValue = ref[j].nValue
        /\ \A j \in Blocks : home[j] # NoName /\ home[j] = NoName => ref[j].nPID \in gone
    BY <1>3
  <2>2. /\ pc[p] \notin {"append", "count", "dropBlock"} /\ pc'[p] \notin {"append", "count", "dropBlock"}
        /\ Closing(p)' <=> Closing(p)
        /\ Closing(p) => call'[p].block = call[p].block /\ call'[p].name = call[p].name
        /\ \A q \in Procs : q # p => pc'[q] = pc[q] /\ call'[q] = call[q]
    BY <1>3 DEF Closing
  <2> QED BY <1>0, <1>2, <1>3, <2>1, <2>2, CountsKept
<1>10. Stages(home)'
  <2>1. \A q \in Procs : call[q].entry \in 0 .. LastEntry
    BY <1>0, CallIs
  <2> QED BY <1>2, <1>3, <1>6, <2>1 DEF Stages, StageOf
<1>11. Torn(home)'
  <2>1. /\ \A k \in Blocks : DeadZero(home, k)' <=> DeadZero(home, k)
        /\ \A m \in 0 .. LastEntry : Covered(m)' <=> Covered(m)
    BY <1>3 DEF DeadZero, Covered
  <2>2. ASSUME NEW k \in Blocks, DeadZero(home, k)
        PROVE  \/ lock' \in gone' /\ ref'[k].nPID = lock'
               \/ \E q \in Procs : /\ pc'[q] \in Removing /\ call'[q].victim = ref'[k].nPID
                                   /\ \E i \in call'[q].entry .. LastEntry : sem'[i].szName = home[k]
    <3>1. CASE lock \in gone /\ ref[k].nPID = lock
      BY <1>3, <3>1
    <3>2. CASE ~(lock \in gone /\ ref[k].nPID = lock)
      <4>1. PICK q \in Procs : /\ pc[q] \in Removing /\ call[q].victim = ref[k].nPID
                               /\ \E i \in call[q].entry .. LastEntry : sem[i].szName = home[k]
        BY <1>2, <2>2, <3>2 DEF Torn
      <4>2. PICK i \in call[q].entry .. LastEntry : sem[i].szName = home[k]
        BY <4>1
      <4>3. i \in 0 .. LastEntry
        BY <1>0, CallIs, Sizes
      <4> QED BY <1>3, <1>6, <4>1, <4>2, <4>3
    <3> QED BY <3>1, <3>2
  <2>3. ASSUME NEW m \in 0 .. LastEntry, sem'[m].szName # NoName, sem'[m].nFirst = 0
        PROVE  Covered(m)' \/ (torn' /\ \A k \in Blocks : ~DeadZero(home, k)')
    BY <1>2, <1>3, <1>6, <2>1, <2>3 DEF Torn
  <2> QED BY <2>1, <2>2, <2>3 DEF Torn
<1>12. Bounded'
  BY <1>0, <1>3 DEF Bounded, Opened, OpenHandles, Opening
<1>13. Links'
  <2>1. \A m \in Names : HasEntry(m)' <=> HasEntry(m)
    BY <1>6 DEF HasEntry
  <2>2. /\ Holding(p)' <=> Holding(p)
        /\ Unlinking(p)' <=> Unlinking(p)
    BY <1>3 DEF Holding, Unlinking
  <2> QED BY <1>0, <1>3, <2>1, <2>2, LinksKept
<1> QED BY <1>6, <1>7, <1>8, <1>9, <1>10, <1>11, <1>12, <1>13 DEF IInv, Sound

-----------------------------------------------------------------------------
(* The dead, and what is cleaned up after them.                            *)

\* Destroy deletes the block of the last handle.
LEMMA DestroyBlockKeeps ==
  ASSUME IInv, NEW p \in Procs, DestroyBlock(p)
  PROVE  IInv'
<1>0. Types /\ Control /\ Links /\ Bounded /\ TypeOK
  BY DEF IInv, Types
<1>1. PICK e, home, pos : Sound(e, home, pos)
  BY DEF IInv
<1>2. Packed(e) /\ Heap(home, pos) /\ Counts(home) /\ Stages(home) /\ Torn(home)
  BY <1>1 DEF Sound
<1>3. /\ pc[p] = "dropBlock" /\ UNCHANGED <<regime, lock, linked, gone, torn, handles>> /\ p \notin gone
      /\ call[p] \in Call /\ call[p].name \in Names /\ call[p].then = "idle" /\ call[p].obj = NoObject
  BY <1>0, CallIs DEF DestroyBlock, Goto, Control, Flow, Busy, Removing, Creating
<1>4. pc[p] \in UnderLock \ Removing /\ Busy(p) /\ ~Closing(p)
  BY <1>3 DEF UnderLock, Busy, Removing, Closing
<1>5. PICK b \in Blocks, n \in Names : b = call[p].block /\ n = call[p].name
  BY <1>2, <1>3 DEF Counts
<1>6. home[b] = n /\ ref[b].nPID = p /\ n # NoName /\ ref[b].nValue = 0
  BY <1>2, <1>3, <1>5, NullAssumption DEF Counts
<1>7. FindSemData(n) = {m \in 0 .. LastEntry : sem[m].szName = n}
  BY <1>0, <1>2, EntriesAre
<1>8. FindSemData(n) # {}
  <2>1. PICK m \in 0 .. LastEntry : sem[m].szName = home[b]
    BY <1>2, <1>6 DEF Heap
  <2> QED BY <1>6, <1>7, <2>1
<1>9. PICK i \in FindSemData(n) :
        /\ Goto(p, "dropBlock", IF FirstWithout(i, b) = 0 THEN "dropEntry" ELSE "unlock")
        /\ ref' = RefWithout(b) /\ sem' = [sem EXCEPT ![i].nFirst = FirstWithout(i, b)]
        /\ Become(p, IF FirstWithout(i, b) = 0 THEN [call[p] EXCEPT !.entry = i] ELSE NoCall)
  BY <1>5, <1>8 DEF DestroyBlock
<1>10. PICK f \in Blocks \cup {0} : f = FirstWithout(i, b)
  BY <1>0, <1>7, TableTypes DEF FirstWithout
<1>11. i \in 0 .. LastEntry /\ sem[i].szName = n
  BY <1>7
<1> DEFINE home2 == [home EXCEPT ![b] = NoName]
           l == IF f = 0 THEN "dropEntry" ELSE "unlock"
           c == IF f = 0 THEN [call[p] EXCEPT !.entry = i] ELSE NoCall
<1>12. pc' = [pc EXCEPT ![p] = l] /\ call' = [call EXCEPT ![p] = c]
  BY <1>9, <1>10 DEF Goto, Become
<1>13. /\ c \in Call /\ c.then = "idle" /\ c.obj = NoObject
       /\ l \in {"dropEntry", "unlock"} /\ (l = "dropEntry" <=> f = 0)
       /\ l = "dropEntry" => c.name = n /\ c.entry = i
  BY <1>3, <1>5, <1>11, NoCallIs DEF Call, NoCall
<1>14. \A j \in Blocks : home2[j] = IF j = b THEN NoName ELSE home[j]
  BY <1>2 DEF Heap
<1> HIDE DEF l, c
<1>15. /\ Packed(e)' /\ Heap(home2, pos)'
       /\ \A j \in Blocks : j # b => ref'[j].nPID = ref[j].nPID /\ ref'[j].nValue = ref[j].nValue
       /\ \A m \in 0 .. LastEntry : /\ sem'[m].szName = sem[m].szName
                                    /\ m # i => sem'[m].nFirst = sem[m].nFirst
       /\ sem'[i].nFirst = f
       /\ SemType' /\ RefType'
  <2>1. home[b] = sem[i].szName /\ home[b] # NoName
    BY <1>6, <1>11
  <2>2. ref' = RefWithout(b) /\ sem' = [sem EXCEPT ![i].nFirst = FirstWithout(i, b)]
    BY <1>9
  <2>3. /\ Packed(e)' /\ Heap(home2, pos)'
        /\ \A j \in Blocks : j # b => ref'[j].nPID = ref[j].nPID /\ ref'[j].nValue = ref[j].nValue
        /\ \A m \in 0 .. LastEntry : /\ sem'[m].szName = sem[m].szName /\ sem'[m].nOwnerPID = sem[m].nOwnerPID
                                     /\ m # i => sem'[m].nFirst = sem[m].nFirst
        /\ sem'[i].nFirst = FirstWithout(i, b)
        /\ SemType' /\ RefType'
    BY <1>0, <1>2, <1>11, <2>1, <2>2, BlockRemoved
  <2> QED BY <1>10, <2>3
<1> HIDE DEF home2
<1>16. pc'[p] = l /\ call'[p] = c /\ \A q \in Procs : q # p => pc'[q] = pc[q] /\ call'[q] = call[q]
  BY <1>0, <1>12 DEF Types, LocalTypes
<1>17. Types'
  <2>1. l \in Labels /\ lock' \in Procs \cup {NoPid} /\ linked' \in [Names -> Objects \cup {NoObject}]
        /\ gone' \subseteq Procs /\ torn' \in BOOLEAN /\ handles' \in [Procs -> SUBSET Handle]
    BY <1>0, <1>3, <1>13 DEF Labels, UnderLock, Types, TypeOK, LocalTypes
  <2> QED BY <1>0, <1>3, <1>12, <1>13, <1>15, <2>1, TypesKept
<1>18. Control'
  BY <1>0, <1>17, ControlUnderLock
<1>19. Counts(home2)'
  <2>0. /\ \A q \in Procs, m \in Names \cup {NoName} : HandlesOn(q, m)' = HandlesOn(q, m)
        /\ \A q \in Procs : \A h \in handles[q] : h.block \in Blocks /\ h.name \in Names
    BY <1>0, <1>3 DEF HandlesOn, Types, LocalTypes, Handle
  <2>1. HandlesOn(p, n) = {}
    <3>1. IsFiniteSet(HandlesOn(p, n)) /\ Cardinality(HandlesOn(p, n)) \in Nat
      BY <1>0, HandlesFinite, FS_CardinalityType DEF Bounded
    <3>2. ref[b].nValue = Cardinality(HandlesOn(p, n)) + Pending(p, b) /\ Pending(p, b) = 0
      BY <1>2, <1>3, <1>4, <1>6 DEF Counts, Pending
    <3> QED BY <1>6, <3>1, <3>2, FS_EmptySet
  <2>2. ASSUME NEW q \in Procs, NEW h \in handles'[q] PROVE home2[h.block] = h.name /\ ref'[h.block].nPID = q
    <3>1. h \in handles[q] /\ h.block \in Blocks /\ home[h.block] = h.name /\ ref[h.block].nPID = q
      BY <1>2, <1>3, <2>0, <2>2 DEF Counts
    <3>2. h.block # b
      BY <1>6, <2>1, <3>1 DEF HandlesOn
    <3> QED BY <1>14, <1>15, <3>1, <3>2
  <2>3. ASSUME NEW q \in Procs, Closing(q)' \/ pc'[q] \in {"dropBlock", "count"}
        PROVE  /\ q # p
               /\ call'[q].block \in Blocks /\ home2[call'[q].block] = call'[q].name
               /\ ref'[call'[q].block].nPID = q /\ call[q].block # b
    <3>1. q # p
      BY <1>13, <1>16, <2>3 DEF Closing
    <3>2. call[q].block \in Blocks /\ home[call[q].block] = call[q].name /\ ref[call[q].block].nPID = q
      BY <1>2, <1>16, <2>3, <3>1 DEF Counts, Closing
    <3>3. call[q].block # b
      BY <1>6, <3>1, <3>2
    <3> QED BY <1>14, <1>15, <1>16, <3>1, <3>2, <3>3
  <2>4. ASSUME NEW q \in Procs, pc'[q] = "dropBlock" PROVE ref'[call'[q].block].nValue = 0
    <3>1. q # p /\ call[q].block # b /\ pc[q] = "dropBlock" /\ call'[q] = call[q]
      BY <1>16, <2>3, <2>4
    <3>2. call[q].block \in Blocks /\ ref[call[q].block].nValue = 0
      BY <1>2, <3>1 DEF Counts
    <3> QED BY <1>15, <3>1, <3>2
  <2>5. ASSUME NEW k \in Blocks, home2[k] # NoName, ref'[k].nPID \notin gone'
        PROVE  /\ ref'[k].nValue = Cardinality(HandlesOn(ref[k].nPID, home2[k]))' + Pending(ref[k].nPID, k)'
               /\ ref'[k].nValue = 0 =>
                    \/ pc'[ref'[k].nPID] \in {"append", "count"} /\ home2[k] = call'[ref'[k].nPID].name
                    \/ pc'[ref'[k].nPID] = "dropBlock" /\ call'[ref'[k].nPID].block = k
    <3>1. k # b /\ home2[k] = home[k] /\ ref'[k].nPID = ref[k].nPID /\ ref'[k].nValue = ref[k].nValue
      BY <1>14, <1>15, <2>5
    <3>2. ref[k].nPID \in Procs /\ home[k] \in Names /\ ref[k].nPID \notin gone /\ home[k] # NoName
      BY <1>2, <1>3, <2>5, <3>1 DEF Heap
    <3>3. PICK q \in Procs, m \in Names : q = ref[k].nPID /\ m = home[k]
      BY <3>2
    <3>4. ref[k].nValue = Cardinality(HandlesOn(q, m)) + Pending(q, k)
      BY <1>2, <3>2, <3>3 DEF Counts
    <3>5. ref[k].nValue = 0 => \/ pc[q] \in {"append", "count"} /\ home[k] = call[q].name
                               \/ pc[q] = "dropBlock" /\ call[q].block = k
      BY <1>2, <3>2, <3>3 DEF Counts
    <3>6. ref[k].nValue = 0 => q # p
      BY <1>3, <1>5, <3>1, <3>5
    <3>7. Pending(q, k)' = Pending(q, k)
      <4>1. ~Closing(p)'
        BY <2>3
      <4>2. q # p => (Closing(q)' <=> Closing(q)) /\ call'[q] = call[q]
        BY <1>16 DEF Closing
      <4> QED BY <1>4, <4>1, <4>2 DEF Pending
    <3>8. Cardinality(HandlesOn(ref[k].nPID, home2[k]))' = Cardinality(HandlesOn(q, m))
      BY <2>0, <3>1, <3>3
    <3>9. Pending(ref[k].nPID, k)' = Pending(q, k)
      BY <3>1, <3>3, <3>7
    <3> QED BY <1>16, <3>1, <3>3, <3>4, <3>5, <3>6, <3>8, <3>9
  <2> QED BY <2>2, <2>3, <2>4, <2>5 DEF Counts
<1>20. Stages(home2)'
  <2>1. StageOf(home2, p)'
    BY <1>6, <1>11, <1>13, <1>15, <1>16 DEF StageOf
  <2> QED BY <1>0, <1>2, <1>3, <1>4, <1>16, <2>1, StagesKept
<1>21. Torn(home2)'
  <2>1. \A j \in Blocks : home2[j] # NoName /\ ref'[j].nPID \in gone =>
          home2[j] = home[j] /\ ref'[j].nPID = ref[j].nPID /\ ref'[j].nValue = ref[j].nValue
    BY <1>14, <1>15
  <2>2. ASSUME NEW m \in 0 .. LastEntry, sem'[m].szName # NoName, sem'[m].nFirst = 0
        PROVE  Covered(m)' \/ (torn /\ \A j \in Blocks : ~DeadZero(home, j))
    <3>1. CASE m = i
      BY <1>13, <1>15, <1>16, <2>2, <3>1 DEF Covered, Covering
    <3>2. CASE m # i
      <4>1. ~Covered(m)
        BY <1>0, <1>3, <1>4, NoneCovered DEF Covering
      <4> QED BY <1>2, <1>15, <2>2, <3>2, <4>1 DEF Torn
    <3> QED BY <3>1, <3>2
  <2> QED BY <1>0, <1>2, <1>3, <1>4, <1>15, <1>16, <2>1, <2>2, TornKept
<1>22. Bounded'
  <2>1. handles' = handles /\ pc'[p] \notin OpenLabels /\ call'[p].then # "create"
    BY <1>3, <1>13, <1>16 DEF OpenLabels
  <2> QED BY <1>0, <1>16, <2>1, BoundedKept
<1>23. Links'
  <2>1. ~Holding(p) /\ ~Unlinking(p)' /\ call'[p].obj = NoObject
    BY <1>3, <1>13, <1>16 DEF Holding, Unlinking
  <2>2. \A m \in Names : HasEntry(m)' <=> HasEntry(m)
    BY <1>15 DEF HasEntry
  <2> QED BY <1>0, <1>3, <1>16, <2>1, <2>2, LinksKept
<1> QED BY <1>15, <1>17, <1>18, <1>19, <1>20, <1>21, <1>22, <1>23 DEF IInv, Sound

\* The lock is taken from a dead holder.
LEMMA LockOfDeadKeeps ==
  ASSUME IInv, NEW p \in Procs, LockOfDead(p)
  PROVE  IInv'
<1>0. Types /\ Control /\ Links /\ Bounded /\ TypeOK
  BY DEF IInv, Types
<1>1. PICK e, home, pos : Sound(e, home, pos)
  BY DEF IInv
<1>2. Packed(e) /\ Heap(home, pos) /\ Counts(home) /\ Stages(home) /\ Torn(home)
  BY <1>1 DEF Sound
<1>3. /\ pc[p] = "lock" /\ UNCHANGED <<regime, table, linked, gone, torn, handles>> /\ lock' = p
      /\ call[p] \in Call /\ call[p].then \in {"create", "uncount"} /\ call[p].entry = 0
      /\ lock \in gone /\ lock \in Procs
  BY <1>0, CallIs DEF LockOfDead, Goto, Control, Flow
<1> DEFINE c == [call[p] EXCEPT !.victim = lock]
<1>4. pc' = [pc EXCEPT ![p] = "remove"] /\ call' = [call EXCEPT ![p] = c]
  BY DEF LockOfDead, Goto, Become
<1>5. /\ c \in Call /\ c.victim = lock /\ c.then = call[p].then /\ c.name = call[p].name
      /\ c.obj = call[p].obj /\ c.block = call[p].block /\ c.entry = 0
  BY <1>3 DEF Call
<1> HIDE DEF c
<1>6. pc'[p] = "remove" /\ call'[p] = c /\ \A q \in Procs : q # p => pc'[q] = pc[q] /\ call'[q] = call[q]
  BY <1>0, <1>4 DEF Types, LocalTypes
<1>7. SemType' /\ RefType' /\ Packed(e)' /\ Heap(home, pos)' /\ \A m : HasEntry(m)' <=> HasEntry(m)
  BY <1>0, <1>2, <1>3, TableKept
<1>8. Types'
  <2>1. "remove" \in Labels /\ lock' \in Procs \cup {NoPid} /\ linked' \in [Names -> Objects \cup {NoObject}]
        /\ gone' \subseteq Procs /\ torn' \in BOOLEAN /\ handles' \in [Procs -> SUBSET Handle]
    BY <1>0, <1>3 DEF Labels, UnderLock, Types, TypeOK, LocalTypes
  <2> QED BY <1>0, <1>3, <1>4, <1>5, <1>7, <2>1, TypesKept
<1>9. Control'
  BY <1>0, <1>8, ControlLock
<1>10. Counts(home)'
  <2>1. /\ \A j \in Blocks : home[j] # NoName =>
             home[j] = home[j] /\ ref'[j].nPID = ref[j].nPID /\ ref'[j].nValue = ref[j].nValue
        /\ \A j \in Blocks : home[j] # NoName /\ home[j] = NoName => ref[j].nPID \in gone
    BY <1>3 DEF table
  <2>2. /\ pc[p] \notin {"append", "count", "dropBlock"} /\ pc'[p] \notin {"append", "count", "dropBlock"}
        /\ Closing(p)' <=> Closing(p)
        /\ Closing(p) => call'[p].block = call[p].block /\ call'[p].name = call[p].name
    BY <1>3, <1>5, <1>6 DEF Closing
  <2> QED BY <1>0, <1>2, <1>3, <1>6, <2>1, <2>2, CountsKept
<1>11. Stages(home)'
  <2>1. StageOf(home, p)'
    BY <1>6 DEF StageOf
  <2> QED BY <1>0, <1>2, <1>3, <1>6, <2>1, StagesKept
<1>12. Torn(home)'
  <2>1. \A k \in Blocks : DeadZero(home, k)' <=> DeadZero(home, k)
    BY <1>3 DEF DeadZero, table
  <2>2. ASSUME NEW k \in Blocks, DeadZero(home, k)
        PROVE  \E q \in Procs : /\ pc'[q] \in Removing /\ call'[q].victim = ref'[k].nPID
                                /\ \E i \in call'[q].entry .. LastEntry : sem'[i].szName = home[k]
    <3>1. ref[k].nPID = lock
      BY <1>0, <1>2, <1>3, <2>2 DEF Torn, Control, Removing, UnderLock
    <3>2. \E i \in 0 .. LastEntry : sem[i].szName = home[k]
      BY <1>2, <2>2 DEF Heap, DeadZero
    <3> QED BY <1>3, <1>5, <1>6, <3>1, <3>2 DEF Removing, table
  <2>3. ASSUME NEW m \in 0 .. LastEntry, sem'[m].szName # NoName, sem'[m].nFirst = 0
        PROVE  Covered(m)' \/ (torn' /\ \A k \in Blocks : ~DeadZero(home, k)')
    <3>1. Covered(m) => Covered(m)'
      BY <1>3, <1>6 DEF Covered, Covering
    <3> QED BY <1>2, <1>3, <2>1, <2>3, <3>1 DEF Torn, table
  <2> QED BY <2>1, <2>2, <2>3 DEF Torn
<1>13. Bounded'
  <2>1. handles' = handles /\ pc'[p] \notin OpenLabels /\ (call'[p].then = "create" => p \in Opening)
    BY <1>3, <1>5, <1>6 DEF OpenLabels, Opening
  <2> QED BY <1>0, <1>6, <2>1, BoundedKept
<1>14. Links'
  <2>1. /\ Holding(p) => Holding(p)' /\ call'[p].name = call[p].name
        /\ ~Unlinking(p)' /\ call'[p].obj = call[p].obj /\ call'[p].name = call[p].name
    BY <1>3, <1>5, <1>6 DEF Holding, Unlinking
  <2>2. \A q \in Procs : handles'[q] \subseteq handles[q]
    BY <1>3
  <2> QED BY <1>0, <1>3, <1>6, <1>7, <2>1, <2>2, LinksKept
<1> QED BY <1>7, <1>8, <1>9, <1>10, <1>11, <1>12, <1>13, <1>14 DEF IInv, Sound

\* A process dies: its counts stay behind, and what it was writing is half done.
LEMMA DieKeeps ==
  ASSUME IInv, NEW p \in Procs, Die(p)
  PROVE  IInv'
<1>0. Types /\ Control /\ Links /\ Bounded /\ TypeOK
  BY DEF IInv, Types
<1>1. PICK e, home, pos : Sound(e, home, pos)
  BY DEF IInv
<1>2. Packed(e) /\ Heap(home, pos) /\ Counts(home) /\ Stages(home) /\ Torn(home)
  BY <1>1 DEF Sound
<1>3. /\ regime = "mortal" /\ pc[p] # "dead" /\ p \notin gone /\ (InTable(p) => ~torn) /\ torn' = (torn \/ InTable(p))
      /\ pc' = [pc EXCEPT ![p] = "dead"] /\ gone' = gone \cup {p} /\ call' = [call EXCEPT ![p] = NoCall]
      /\ handles' = [handles EXCEPT ![p] = {}] /\ UNCHANGED <<regime, table, lock, linked>>
  BY <1>0 DEF Die, Become, Control
<1>4. /\ pc'[p] = "dead" /\ call'[p] = NoCall /\ handles'[p] = {}
      /\ \A q \in Procs : q # p => pc'[q] = pc[q] /\ call'[q] = call[q] /\ handles'[q] = handles[q]
  BY <1>0, <1>3 DEF Types, LocalTypes
<1>5. SemType' /\ RefType' /\ Packed(e)' /\ Heap(home, pos)' /\ \A m : HasEntry(m)' <=> HasEntry(m)
  BY <1>0, <1>2, <1>3, TableKept
<1>6. Types'
  <2>1. "dead" \in Labels /\ lock' \in Procs \cup {NoPid} /\ linked' \in [Names -> Objects \cup {NoObject}]
        /\ gone' \subseteq Procs /\ torn' \in BOOLEAN /\ handles' \in [Procs -> SUBSET Handle]
    BY <1>0, <1>3 DEF Labels, Types, TypeOK, LocalTypes, InTable
  <2> QED BY <1>0, <1>3, <1>5, <2>1, NoCallIs, TypesKept
<1>7. Control'
  BY <1>0, <1>6, ControlDie
<1>8. /\ pc[p] \in UnderLock \cup {"removeEntry"} => InTable(p)
      /\ torn => pc[p] \notin UnderLock
      /\ lock \in gone => torn
      /\ \A q \in Procs : pc[q] \in Removing => torn /\ q # p
  <2>1. pc[p] \in UnderLock \cup {"removeEntry"} => InTable(p)
    BY <1>0 DEF Control, InTable
  <2>2. torn => pc[p] \notin UnderLock
    BY <1>3, <2>1
  <2>3. \A q \in Procs : pc[q] \in Removing => torn
    BY <1>0 DEF Control, Flow
  <2>4. Removing \subseteq UnderLock
    BY DEF Removing, UnderLock
  <2> QED BY <1>0, <2>1, <2>2, <2>3, <2>4 DEF Control
<1>9. ASSUME NEW k \in Blocks, home[k] # NoName, ref[k].nPID = p, ref[k].nValue = 0
      PROVE  pc[p] \in {"append", "count", "dropBlock"} /\ lock = p
  <2>1. pc[p] \in {"append", "count", "dropBlock"}
    BY <1>2, <1>3, <1>9 DEF Counts
  <2> QED BY <1>0, <2>1 DEF Control, UnderLock
<1>10. Counts(home)'
  <2>0. /\ \A q \in Procs, m \in Names \cup {NoName} : q # p => HandlesOn(q, m)' = HandlesOn(q, m)
        /\ ref' = ref /\ ~Closing(p)'
    BY <1>3, <1>4 DEF HandlesOn, table, Closing, NoCall
  <2>1. \A q \in Procs : q # p => (Closing(q)' <=> Closing(q))
    BY <1>4 DEF Closing
  <2>2. ASSUME NEW q \in Procs, NEW h \in handles'[q] PROVE home[h.block] = h.name /\ ref'[h.block].nPID = q
    BY <1>2, <1>4, <2>0, <2>2 DEF Counts
  <2>3. ASSUME NEW q \in Procs, Closing(q)' \/ pc'[q] \in {"dropBlock", "count"}
        PROVE  call'[q].block \in Blocks /\ home[call'[q].block] = call'[q].name /\ ref'[call'[q].block].nPID = q
    BY <1>2, <1>4, <2>0, <2>1, <2>3 DEF Counts
  <2>4. ASSUME NEW q \in Procs, pc'[q] = "dropBlock" PROVE ref'[call'[q].block].nValue = 0
    BY <1>2, <1>4, <2>0, <2>4 DEF Counts
  <2>5. ASSUME NEW k \in Blocks, home[k] # NoName, ref'[k].nPID \notin gone'
        PROVE  /\ ref'[k].nValue = Cardinality(HandlesOn(ref[k].nPID, home[k]))' + Pending(ref[k].nPID, k)'
               /\ ref'[k].nValue = 0 =>
                    \/ pc'[ref'[k].nPID] \in {"append", "count"} /\ home[k] = call'[ref'[k].nPID].name
                    \/ pc'[ref'[k].nPID] = "dropBlock" /\ call'[ref'[k].nPID].block = k
    <3>1. ref[k].nPID \in Procs /\ home[k] \in Names /\ ref[k].nPID \notin gone /\ ref[k].nPID # p
      BY <1>2, <1>3, <2>0, <2>5 DEF Heap
    <3>2. PICK q \in Procs, m \in Names : q = ref[k].nPID /\ m = home[k]
      BY <3>1
    <3>3. ref[k].nValue = Cardinality(HandlesOn(q, m)) + Pending(q, k)
      BY <1>2, <2>5, <3>1, <3>2 DEF Counts
    <3>4. ref[k].nValue = 0 => \/ pc[q] \in {"append", "count"} /\ home[k] = call[q].name
                               \/ pc[q] = "dropBlock" /\ call[q].block = k
      BY <1>2, <2>5, <3>1, <3>2 DEF Counts
    <3>5. Pending(q, k)' = Pending(q, k)
      BY <1>4, <2>1, <3>1, <3>2 DEF Pending
    <3>6. Cardinality(HandlesOn(ref[k].nPID, home[k]))' = Cardinality(HandlesOn(q, m))
      BY <2>0, <3>1, <3>2
    <3>7. Pending(ref[k].nPID, k)' = Pending(q, k)
      BY <2>0, <3>2, <3>5
    <3> QED BY <1>4, <2>0, <3>1, <3>2, <3>3, <3>4, <3>6, <3>7
  <2> QED BY <2>2, <2>3, <2>4, <2>5 DEF Counts
<1>11. Stages(home)'
  <2>1. StageOf(home, p)'
    BY <1>4 DEF StageOf
  <2>2. ASSUME NEW q \in Procs, q # p PROVE StageOf(home, q)'
    <3>1. StageOf(home, q)
      BY <1>2 DEF Stages
    <3> QED BY <1>3, <1>4, <2>2, <3>1 DEF StageOf, table
  <2> QED BY <2>1, <2>2 DEF Stages
<1>12. Torn(home)'
  <2>1. ASSUME NEW k \in Blocks, DeadZero(home, k)'
        PROVE  DeadZero(home, k) \/ (ref[k].nPID = p /\ pc[p] \in {"append", "count", "dropBlock"} /\ lock = p)
    BY <1>3, <1>9, <2>1 DEF DeadZero, table
  <2>2. ASSUME NEW k \in Blocks, DeadZero(home, k)'
        PROVE  \/ lock' \in gone' /\ ref'[k].nPID = lock'
               \/ \E q \in Procs : /\ pc'[q] \in Removing /\ call'[q].victim = ref'[k].nPID
                                   /\ \E i \in call'[q].entry .. LastEntry : sem'[i].szName = home[k]
    <3>1. CASE DeadZero(home, k)
      <4>1. CASE lock \in gone /\ ref[k].nPID = lock
        BY <1>3, <4>1 DEF table
      <4>2. CASE ~(lock \in gone /\ ref[k].nPID = lock)
        <5>1. PICK q \in Procs : /\ pc[q] \in Removing /\ call[q].victim = ref[k].nPID
                                 /\ \E i \in call[q].entry .. LastEntry : sem[i].szName = home[k]
          BY <1>2, <3>1, <4>2 DEF Torn
        <5> QED BY <1>3, <1>4, <1>8, <5>1 DEF table
      <4> QED BY <4>1, <4>2
    <3>2. CASE ref[k].nPID = p /\ lock = p
      BY <1>3, <3>2 DEF table
    <3> QED BY <2>1, <2>2, <3>1, <3>2
  <2>3. ASSUME NEW m \in 0 .. LastEntry, sem'[m].szName # NoName, sem'[m].nFirst = 0
        PROVE  Covered(m)' \/ (torn' /\ \A k \in Blocks : ~DeadZero(home, k)')
    <3>1. sem[m].szName # NoName /\ sem[m].nFirst = 0
      BY <1>3, <2>3 DEF table
    <3>2. CASE \E q \in Procs : q # p /\ pc[q] \in Covering /\ call[q].entry = m
      BY <1>4, <3>2 DEF Covered
    <3>3. CASE pc[p] \in Covering
      <4>1. InTable(p) /\ ~torn
        BY <1>3, <1>8, <3>3 DEF Covering, UnderLock
      <4>2. ASSUME NEW k \in Blocks, DeadZero(home, k)' PROVE FALSE
        <5>1. DeadZero(home, k)
          BY <2>1, <3>3, <4>2 DEF Covering
        <5> QED BY <1>2, <1>8, <4>1, <5>1 DEF Torn
      <4> QED BY <1>3, <4>1, <4>2
    <3>4. CASE torn /\ \A k \in Blocks : ~DeadZero(home, k)
      <4>1. ASSUME NEW k \in Blocks, DeadZero(home, k)' PROVE FALSE
        BY <1>8, <2>1, <3>4, <4>1 DEF UnderLock
      <4> QED BY <1>3, <3>4, <4>1
    <3> QED BY <1>2, <3>1, <3>2, <3>3, <3>4 DEF Torn, Covered
  <2> QED BY <2>2, <2>3 DEF Torn
<1>13. Bounded'
  <2>1. (\A q \in Procs : handles'[q] \subseteq handles[q])
        /\ pc'[p] \notin OpenLabels /\ call'[p].then # "create"
    BY <1>4 DEF OpenLabels, NoCall
  <2> QED BY <1>0, <1>4, <2>1, BoundedKept
<1>14. Links'
  <2>1. ~Unlinking(p)' /\ call'[p].obj = NoObject
    BY <1>4 DEF Unlinking, NoCall
  <2>2. \A q \in Procs : q # p => (Unlinking(q)' <=> Unlinking(q))
    BY <1>4 DEF Unlinking
  <2>3. ASSUME NEW q \in Procs, Unlinking(q)' PROVE ~HasEntry(call[q].name)'
    <3>1. q # p /\ Unlinking(q) /\ call'[q] = call[q]
      BY <1>4, <2>1, <2>2, <2>3
    <3>2. ~HasEntry(call[q].name)
      BY <1>0, <1>3, <3>1 DEF Links
    <3> QED BY <1>3, <3>1, <3>2 DEF HasEntry, table
  <2>4. ASSUME NEW q \in Procs, NEW h \in handles'[q] PROVE linked'[h.name] = h.obj
    BY <1>0, <1>3, <1>4, <2>4 DEF Links
  <2>5. ASSUME NEW q \in Procs, call'[q].obj # NoObject PROVE linked'[call'[q].name] = call'[q].obj
    BY <1>0, <1>3, <1>4, <2>1, <2>5 DEF Links
  <2>6. gone' # {}
    BY <1>3
  <2> QED BY <2>3, <2>4, <2>5, <2>6 DEF Links
<1> QED BY <1>5, <1>6, <1>7, <1>10, <1>11, <1>12, <1>13, <1>14 DEF IInv, Sound

\* A step of the cleanup: where the process goes, and what it has still to remove.
Cleaning(home, home2, p, l, c) ==
  /\ l \in {"create", "uncount", "remove", "removeLast"}
  /\ c.name = call[p].name /\ c.block = call[p].block /\ c.obj = call[p].obj
  /\ IF l \in Removing THEN c.then = call[p].then ELSE l = call[p].then /\ c.then = "idle"
  /\ l = "removeLast" => sem'[c.entry].nFirst = 0 /\ sem'[c.entry].szName # NoName
  /\ \A j \in Blocks : home2[j] # NoName =>
       home2[j] = home[j] /\ ref'[j].nPID = ref[j].nPID /\ ref'[j].nValue = ref[j].nValue
  /\ \A j \in Blocks : home[j] # NoName /\ home2[j] = NoName => ref[j].nPID \in gone
  /\ \A m \in 0 .. LastEntry : sem'[m].szName = sem[m].szName
  /\ \A j \in Blocks, m \in call[p].entry .. LastEntry :
       DeadZero(home, j) /\ home2[j] # NoName /\ ref[j].nPID = call[p].victim /\ sem[m].szName = home[j] =>
         l \in Removing /\ c.victim = call[p].victim /\ m \in c.entry .. LastEntry
  /\ \A m \in 0 .. LastEntry : sem'[m].szName # NoName /\ sem'[m].nFirst = 0 =>
       (l = "removeLast" /\ m = c.entry) \/ (sem[m].szName # NoName /\ sem[m].nFirst = 0)

\* All that is said of the table, after such a step.
LEMMA CleaningKeeps ==
  ASSUME Types, Control, Links, Bounded, NEW e, NEW home, NEW pos, Sound(e, home, pos), NEW p \in Procs,
         pc[p] = "remove", UNCHANGED <<regime, lock, linked, gone, torn, handles>>,
         NEW home2, Packed(e)', Heap(home2, pos)', SemType', RefType',
         NEW l, NEW c \in Call,
         pc' = [pc EXCEPT ![p] = l], call' = [call EXCEPT ![p] = c],
         Cleaning(home, home2, p, l, c), Types' => Control'
  PROVE  IInv'
<1> USE DEF Cleaning
<1>1. Packed(e) /\ Heap(home, pos) /\ Counts(home) /\ Stages(home) /\ Torn(home) /\ TypeOK
  BY DEF Sound, Types
<1>2. /\ pc[p] \in UnderLock /\ Busy(p) /\ lock = p /\ p \notin gone /\ torn
      /\ call[p].then \in {"create", "uncount"} /\ gone # {} /\ pc[p] \notin Covering
  BY DEF UnderLock, Busy, Removing, Control, Flow, Covering
<1>3. pc'[p] = l /\ call'[p] = c /\ \A q \in Procs : q # p => pc'[q] = pc[q] /\ call'[q] = call[q]
  BY DEF Types, LocalTypes
<1>4. Types' /\ Control'
  <2>1. l \in Labels /\ lock' \in Procs \cup {NoPid} /\ linked' \in [Names -> Objects \cup {NoObject}]
        /\ gone' \subseteq Procs /\ torn' \in BOOLEAN /\ handles' \in [Procs -> SUBSET Handle]
    BY DEF Labels, UnderLock, Types, TypeOK, LocalTypes
  <2>2. Types'
    BY <2>1, TypesKept
  <2> QED BY <2>2
<1>5. Counts(home2)'
  <2>1. /\ pc[p] \notin {"append", "count", "dropBlock"} /\ pc'[p] \notin {"append", "count", "dropBlock"}
        /\ Closing(p)' <=> Closing(p)
        /\ Closing(p) => call'[p].block = call[p].block /\ call'[p].name = call[p].name
    BY <1>2, <1>3 DEF Closing, Removing
  <2> QED BY <1>1, <1>3, <2>1, CountsKept
<1>6. Stages(home2)'
  <2>1. StageOf(home2, p)'
    BY <1>3 DEF StageOf
  <2> QED BY <1>1, <1>2, <1>3, <2>1, StagesKept
<1>7. Torn(home2)'
  <2>1. ASSUME NEW k \in Blocks, DeadZero(home2, k)'
        PROVE  DeadZero(home, k) /\ home2[k] = home[k] /\ home2[k] # NoName /\ ref'[k].nPID = ref[k].nPID
    BY <2>1 DEF DeadZero
  <2>2. ASSUME NEW k \in Blocks, DeadZero(home2, k)'
        PROVE  \E q \in Procs : /\ pc'[q] \in Removing /\ call'[q].victim = ref'[k].nPID
                                /\ \E i \in call'[q].entry .. LastEntry : sem'[i].szName = home2[k]
    <3>1. PICK q \in Procs : /\ pc[q] \in Removing /\ call[q].victim = ref[k].nPID
                             /\ \E i \in call[q].entry .. LastEntry : sem[i].szName = home[k]
      BY <1>1, <1>2, <2>1, <2>2 DEF Torn
    <3>2. q = p
      BY <1>2, <3>1 DEF Control, Removing, UnderLock
    <3>3. PICK i \in call[p].entry .. LastEntry : sem[i].szName = home[k]
      BY <3>1, <3>2
    <3>4. i \in 0 .. LastEntry
      BY CallIs, Sizes
    <3>5. l \in Removing /\ c.victim = call[p].victim /\ i \in c.entry .. LastEntry
      BY <2>1, <2>2, <3>1, <3>2, <3>3
    <3> QED BY <1>3, <2>1, <2>2, <3>1, <3>2, <3>3, <3>4, <3>5
  <2>3. ASSUME NEW m \in 0 .. LastEntry, sem'[m].szName # NoName, sem'[m].nFirst = 0
        PROVE  Covered(m)' \/ (torn' /\ \A k \in Blocks : ~DeadZero(home2, k)')
    <3>1. CASE l = "removeLast" /\ m = c.entry
      BY <1>3, <3>1 DEF Covered, Covering
    <3>2. CASE sem[m].szName # NoName /\ sem[m].nFirst = 0
      <4>1. ~Covered(m)
        BY <1>2, NoneCovered
      <4>2. \A k \in Blocks : ~DeadZero(home, k)
        BY <1>1, <3>2, <4>1 DEF Torn
      <4> QED BY <1>2, <2>1, <4>2
    <3> QED BY <2>3, <3>1, <3>2
  <2> QED BY <2>2, <2>3 DEF Torn
<1>8. Bounded'
  <2>1. handles' = handles /\ (pc'[p] \in OpenLabels \/ call'[p].then = "create" => p \in Opening)
    BY <1>2, <1>3 DEF OpenLabels, Opening, Removing
  <2> QED BY <1>3, <2>1, BoundedKept
<1>9. Links'
  <2>1. /\ Holding(p) => Holding(p)' /\ call'[p].name = call[p].name
        /\ ~Unlinking(p)' /\ call'[p].obj = call[p].obj /\ call'[p].name = call[p].name
    BY <1>2, <1>3 DEF Holding, Unlinking, Removing
  <2>2. \A n \in Names : HasEntry(n)' <=> HasEntry(n)
    BY DEF HasEntry
  <2> QED BY <1>3, <2>1, <2>2, LinksKept
<1> QED BY <1>4, <1>5, <1>6, <1>7, <1>8, <1>9 DEF IInv, Sound

\* Remove goes on to the next entry or deletes a block of the dead.
LEMMA RemoveNextKeeps ==
  ASSUME IInv, NEW p \in Procs, RemoveNext(p)
  PROVE  IInv'
<1>0. Types /\ Control /\ Links /\ Bounded /\ TypeOK
  BY DEF IInv, Types
<1>1. PICK e, home, pos : Sound(e, home, pos)
  BY DEF IInv
<1>2. Packed(e) /\ Heap(home, pos) /\ Counts(home) /\ Stages(home) /\ Torn(home)
  BY <1>1 DEF Sound
<1>3. /\ pc[p] = "remove" /\ UNCHANGED <<regime, lock, linked, gone, torn, handles>> /\ lock = p /\ p \notin gone
      /\ call[p] \in Call /\ call[p].then \in {"create", "uncount"} /\ call[p].victim \in gone
  BY <1>0, CallIs DEF RemoveNext, Goto, Control, Flow, Removing, UnderLock
<1>4. Types' => Control'
  BY <1>0, ControlRemoveNext
<1>5. PICK i \in 0 .. LastEntry : i = call[p].entry
  BY <1>0, CallIs
<1>6. PICK v \in Procs : v = call[p].victim
  BY <1>0, <1>3 DEF TypeOK
<1>7. PICK k : k = FindRefCount(sem[i].nFirst, v)
  OBVIOUS
<1>8. \/ k = 0 /\ \A j \in Blocks : home[j] # NoName /\ home[j] = sem[i].szName => ref[j].nPID # v
      \/ k \in Blocks /\ home[k] # NoName /\ home[k] = sem[i].szName /\ ref[k].nPID = v
  BY <1>0, <1>2, <1>7, FindRefCountIs
<1>9. /\ LastEntry \in Nat
      /\ \A m \in 0 .. LastEntry : sem[m].szName = NoName => m >= e
      /\ \A m \in 0 .. LastEntry : m >= e => sem[m].szName = NoName
      /\ e \in 0 .. LastEntry
      /\ sem[i].nFirst \in Blocks \cup {0}
  BY <1>0, <1>2, Sizes, TableTypes, NullAssumption DEF Packed, NoEntry
<1>10. CASE sem[i].nFirst = 0
  <2> DEFINE c == [call[p] EXCEPT !.entry = 0, !.victim = NoPid, !.then = "idle"]
  <2>1. PICK l \in {"create", "uncount"} : l = call[p].then
    BY <1>3
  <2>2. UNCHANGED table /\ pc' = [pc EXCEPT ![p] = l] /\ call' = [call EXCEPT ![p] = c]
    BY <1>5, <1>10, <2>1 DEF RemoveNext, Goto, Become
  <2>3. /\ c \in Call /\ c.then = "idle" /\ c.name = call[p].name /\ c.block = call[p].block
        /\ c.obj = call[p].obj
    <3>1. ASSUME NEW x \in Call
          PROVE  /\ [x EXCEPT !.entry = 0, !.victim = NoPid, !.then = "idle"] \in Call
                 /\ [x EXCEPT !.entry = 0, !.victim = NoPid, !.then = "idle"].then = "idle"
                 /\ [x EXCEPT !.entry = 0, !.victim = NoPid, !.then = "idle"].name = x.name
                 /\ [x EXCEPT !.entry = 0, !.victim = NoPid, !.then = "idle"].block = x.block
                 /\ [x EXCEPT !.entry = 0, !.victim = NoPid, !.then = "idle"].obj = x.obj
      <4>1. 0 \in 0 .. LastEntry
        BY <1>9
      <4> QED BY <4>1 DEF Call
    <3> QED BY <1>3, <3>1
  <2> HIDE DEF c
  <2>4. SemType' /\ RefType' /\ Packed(e)' /\ Heap(home, pos)'
    BY <1>0, <1>2, <2>2, TableKept
  <2>5. ASSUME NEW j \in Blocks, NEW m \in call[p].entry .. LastEntry, DeadZero(home, j), sem[m].szName = home[j]
        PROVE  FALSE
    <3>1. m \in 0 .. LastEntry /\ i <= m /\ sem[m].szName # NoName
      BY <1>5, <1>9, <2>5 DEF DeadZero
    <3>2. sem[i].szName # NoName
      BY <1>9, <3>1
    <3>3. ~Covered(i)
      BY <1>0, <1>3, NoneCovered DEF Covering, UnderLock
    <3> QED BY <1>2, <1>10, <2>5, <3>2, <3>3 DEF Torn
  <2>6. Cleaning(home, home, p, l, c)
    BY <2>1, <2>2, <2>3, <2>5 DEF Cleaning, Removing, table
  <2>7. c \in Call /\ pc' = [pc EXCEPT ![p] = l] /\ call' = [call EXCEPT ![p] = c]
    BY <2>1, <2>2, <2>3
  <2>8. pc[p] = "remove" /\ UNCHANGED <<regime, lock, linked, gone, torn, handles>>
    BY <1>3
  <2> QED BY <1>0, <1>1, <1>4, <2>4, <2>6, <2>7, <2>8, CleaningKeeps
<1>11. ASSUME sem[i].nFirst # 0
       PROVE  i + 1 \in 0 .. LastEntry /\ sem[i].szName # NoName
  <2>1. sem[i].nFirst \in Blocks
    BY <1>9, <1>11
  <2>2. sem[i].szName # NoName
    BY <1>2, <2>1 DEF Heap
  <2> QED BY <1>9, <2>2
<1>12. ASSUME NEW m \in call[p].entry .. LastEntry, m # i
       PROVE  m \in (i + 1) .. LastEntry
  BY <1>5, <1>12
<1>13. CASE sem[i].nFirst # 0 /\ k = 0
  <2> DEFINE c == [call[p] EXCEPT !.entry = i + 1]
  <2>1. UNCHANGED table /\ pc' = [pc EXCEPT ![p] = "remove"] /\ call' = [call EXCEPT ![p] = c]
    BY <1>5, <1>6, <1>7, <1>13 DEF RemoveNext, Goto, Become
  <2>2. /\ c \in Call /\ c.then = call[p].then /\ c.name = call[p].name /\ c.block = call[p].block
        /\ c.obj = call[p].obj /\ c.victim = call[p].victim /\ c.entry = i + 1
    BY <1>3, <1>11, <1>13 DEF Call
  <2> HIDE DEF c
  <2>3. SemType' /\ RefType' /\ Packed(e)' /\ Heap(home, pos)'
    BY <1>0, <1>2, <2>1, TableKept
  <2>4. ASSUME NEW j \in Blocks, NEW m \in call[p].entry .. LastEntry, DeadZero(home, j), sem[m].szName = home[j],
               ref[j].nPID = call[p].victim
        PROVE  m \in c.entry .. LastEntry
    <3>1. m # i
      BY <1>6, <1>8, <1>13, <2>4, Sizes DEF DeadZero
    <3> QED BY <1>12, <2>2, <3>1
  <2>5. Cleaning(home, home, p, "remove", c)
    BY <2>1, <2>2, <2>4 DEF Cleaning, Removing, table
  <2> QED BY <1>0, <1>1, <1>3, <1>4, <2>1, <2>2, <2>3, <2>5, CleaningKeeps
<1>14. CASE sem[i].nFirst # 0 /\ k # 0
  <2>1. k \in Blocks /\ home[k] = sem[i].szName /\ home[k] # NoName /\ ref[k].nPID = v
    BY <1>8, <1>14
  <2>2. PICK f \in Blocks \cup {0} : f = FirstWithout(i, k)
    BY <1>0, <2>1, TableTypes DEF FirstWithout
  <2> DEFINE home2 == [home EXCEPT ![k] = NoName]
             l == IF f = 0 THEN "removeLast" ELSE "remove"
             c == IF f = 0 THEN call[p] ELSE [call[p] EXCEPT !.entry = i + 1]
  <2>3. /\ ref' = RefWithout(k) /\ sem' = [sem EXCEPT ![i].nFirst = FirstWithout(i, k)]
        /\ pc' = [pc EXCEPT ![p] = l] /\ call' = [call EXCEPT ![p] = c]
    BY <1>5, <1>6, <1>7, <1>14, <2>2 DEF RemoveNext, Goto, Become
  <2>4. /\ c \in Call /\ c.then = call[p].then /\ c.name = call[p].name /\ c.block = call[p].block
        /\ c.obj = call[p].obj /\ c.victim = call[p].victim
        /\ c.entry = IF f = 0 THEN i ELSE i + 1
        /\ l \in {"remove", "removeLast"} /\ (l = "removeLast" <=> f = 0)
    BY <1>3, <1>5, <1>11, <1>14 DEF Call
  <2>5. \A j \in Blocks : home2[j] = IF j = k THEN NoName ELSE home[j]
    BY <1>2 DEF Heap
  <2> HIDE DEF l, c
  <2>6. /\ Packed(e)' /\ Heap(home2, pos)'
        /\ \A j \in Blocks : j # k => ref'[j].nPID = ref[j].nPID /\ ref'[j].nValue = ref[j].nValue
        /\ \A m \in 0 .. LastEntry : /\ sem'[m].szName = sem[m].szName /\ sem'[m].nOwnerPID = sem[m].nOwnerPID
                                     /\ m # i => sem'[m].nFirst = sem[m].nFirst
        /\ sem'[i].nFirst = FirstWithout(i, k)
        /\ SemType' /\ RefType'
    BY <1>0, <1>2, <2>1, <2>3, BlockRemoved
  <2> HIDE DEF home2
  <2>7. Packed(e)' /\ Heap(home2, pos)' /\ SemType' /\ RefType'
    BY <2>6
  <2>8. ASSUME NEW j \in Blocks, NEW m \in call[p].entry .. LastEntry, DeadZero(home, j), home2[j] # NoName,
               ref[j].nPID = call[p].victim, sem[m].szName = home[j]
        PROVE  m \in c.entry .. LastEntry
    <3>1. m # i
      BY <1>2, <1>6, <2>1, <2>5, <2>8 DEF Heap
    <3>2. m \in i + 1 .. LastEntry /\ i \in Nat
      BY <1>12, <3>1
    <3> QED BY <2>4, <3>2
  <2>9. \A j \in Blocks : home2[j] # NoName =>
          home2[j] = home[j] /\ ref'[j].nPID = ref[j].nPID /\ ref'[j].nValue = ref[j].nValue
    BY <2>5, <2>6
  <2>10. \A j \in Blocks : home[j] # NoName /\ home2[j] = NoName => ref[j].nPID \in gone
    BY <1>3, <1>6, <2>1, <2>5
  <2>11. l = "removeLast" => sem'[c.entry].nFirst = 0 /\ sem'[c.entry].szName # NoName
    BY <1>11, <1>14, <2>2, <2>4, <2>6
  <2>12. \A m \in 0 .. LastEntry : sem'[m].szName # NoName /\ sem'[m].nFirst = 0 =>
           (l = "removeLast" /\ m = c.entry) \/ (sem[m].szName # NoName /\ sem[m].nFirst = 0)
    BY <2>2, <2>4, <2>6
  <2>13. Cleaning(home, home2, p, l, c)
    BY <2>4, <2>6, <2>8, <2>9, <2>10, <2>11, <2>12 DEF Cleaning, Removing
  <2>14. c \in Call /\ pc' = [pc EXCEPT ![p] = l] /\ call' = [call EXCEPT ![p] = c]
    BY <2>3, <2>4
  <2>15. pc[p] = "remove" /\ UNCHANGED <<regime, lock, linked, gone, torn, handles>>
    BY <1>3
  <2> QED BY <1>0, <1>1, <1>4, <2>7, <2>13, <2>14, <2>15, CleaningKeeps
<1> QED BY <1>10, <1>13, <1>14

-----------------------------------------------------------------------------
(* The invariant, and what follows from it.                                *)

\* The empty table is sound.
LEMMA InitKeeps == Init => IInv
<1> SUFFICES ASSUME Init PROVE IInv
  OBVIOUS
<1>0. LastEntry \in Nat /\ 0 \in 0 .. LastEntry /\ NoCall \in Call /\ MaxOpen \in Nat \ {0}
      /\ NoName \notin Names /\ NoPid \notin Procs
  BY Sizes, NoCallIs, BoundAssumption, NullAssumption
<1>1. Types
  <2>1. NoEntry \in Entry /\ NoRef \in Block
    BY <1>0 DEF NoEntry, NoRef, Entry, Block
  <2>2. TypeOK
    BY <1>0, <2>1 DEF Init, TypeOK, Entry
  <2>3. LocalTypes
    BY <1>0, RegimeAssumption DEF Init, LocalTypes, Labels
  <2> QED BY <2>2, <2>3 DEF Types
<1>2. \A p \in Procs : pc[p] = "idle" /\ call[p] = NoCall /\ handles[p] = {}
  BY DEF Init
<1>3. Control
  BY <1>0, <1>2 DEF Init, Control, Flow, Busy, Creating, NoCall, UnderLock, Removal, Removing
<1>4. Bounded
  <2>1. OpenHandles = {}
    BY <1>2 DEF OpenHandles
  <2>2. Opening = {}
    BY <1>2 DEF Opening, OpenLabels, NoCall
  <2> QED BY <1>0, <2>1, <2>2, FS_EmptySet DEF Bounded, Opened
<1>5. Links
  BY <1>2 DEF Init, Links, Unlinking, NoCall
<1> DEFINE home == [k \in Blocks |-> NoName]
           pos == [k \in Blocks |-> 0]
<1>6. /\ \A k \in Blocks : home[k] = NoName /\ ref[k] = NoRef
      /\ \A i \in 0 .. LastEntry : sem[i] = NoEntry
      /\ NoEntry.szName = NoName /\ NoEntry.nFirst = 0
      /\ home \in [Blocks -> Names \cup {NoName}] /\ pos \in [Blocks -> Nat]
  BY DEF Init, NoEntry
<1> HIDE DEF home, pos
<1>7. Packed(0)
  BY <1>0, <1>6 DEF Packed
<1>8. Heap(home, pos)
  BY <1>0, <1>6, Sizes DEF Heap
<1>9. Counts(home)
  BY <1>2, <1>6 DEF Counts, Closing, NoCall
<1>10. Stages(home)
  BY <1>2 DEF Stages, StageOf
<1>11. Torn(home)
  BY <1>6 DEF Torn, DeadZero
<1>12. Sound(0, home, pos)
  BY <1>7, <1>8, <1>9, <1>10, <1>11 DEF Sound
<1> QED BY <1>1, <1>3, <1>4, <1>5, <1>12 DEF IInv

\* So is one that does not change,
LEMMA StutterKeeps ==
  ASSUME IInv, UNCHANGED vars
  PROVE  IInv'
<1> USE DEF vars, table
<1>1. PICK e, home, pos : Sound(e, home, pos)
  BY DEF IInv
<1>2. Types'
  BY DEF IInv, Types, TypeOK, LocalTypes
<1>3. Control'
  BY DEF IInv, Control, Flow, Busy, Creating
<1>4. Links'
  BY DEF IInv, Links, HasEntry, Holding, Unlinking
<1>5. Bounded'
  BY DEF IInv, Bounded, Opened, OpenHandles, Opening
<1>6. Packed(e)'
  BY <1>1 DEF Sound, Packed
<1>7. Heap(home, pos)'
  BY <1>1 DEF Sound, Heap
<1>8. Counts(home)'
  BY <1>1 DEF Sound, Counts, Closing, Pending, HandlesOn
<1>9. Stages(home)'
  BY <1>1 DEF Sound, Stages, StageOf
<1>10. Torn(home)'
  BY <1>1 DEF Sound, Torn, DeadZero, Covered
<1>11. Sound(e, home, pos)'
  BY <1>6, <1>7, <1>8, <1>9, <1>10 DEF Sound
<1> QED BY <1>2, <1>3, <1>4, <1>5, <1>11 DEF IInv

\* one after any step,
LEMMA NextKeeps ==
  ASSUME IInv, [Next]_vars
  PROVE  IInv'
<1>1. CASE UNCHANGED vars
  BY <1>1, StutterKeeps
<1>2. ASSUME NEW p \in Procs, Begin(p) PROVE IInv'
  <2>1. ASSUME NEW n \in Names, NEW create \in BOOLEAN, Open(p, n, create) PROVE IInv'
    BY <2>1, OpenKeeps
  <2>2. ASSUME NEW h \in handles[p], Close(p, h) PROVE IInv'
    BY <2>2, CloseKeeps
  <2>3. ASSUME NEW h \in handles[p], Mark(p, h, p) \/ Mark(p, h, NoPid) PROVE IInv'
    BY <2>3, MarkKeeps
  <2> QED BY <1>2, <2>1, <2>2, <2>3 DEF Begin
<1>3. ASSUME NEW p \in Procs, Step(p) PROVE IInv'
  <2>1. CASE RefreshFind(p)
    BY <2>1, RefreshFindKeeps
  <2>2. CASE RefreshScan(p)
    BY <2>2, RefreshScanKeeps
  <2>3. CASE RefreshRemoveFind(p)
    BY <2>3, RefreshRemoveFindKeeps
  <2>4. CASE RefreshRemoveBlock(p)
    BY <2>4, RefreshRemoveBlockKeeps
  <2>5. CASE RefreshRemoveEntry(p)
    BY <2>5, RefreshRemoveEntryKeeps
  <2>6. CASE UnlinkOld(p) \/ UnlinkLast(p)
    BY <2>6, UnlinkKeeps
  <2>7. CASE SemOpen(p)
    BY <2>7, SemOpenKeeps
  <2>8. CASE CreateEntry(p)
    BY <2>8, CreateEntryKeeps
  <2>9. CASE CreateFirst(p)
    BY <2>9, CreateFirstKeeps
  <2>10. CASE CreateAppend(p)
    BY <2>10, CreateAppendKeeps
  <2>11. CASE CreateCount(p)
    BY <2>11, CreateCountKeeps
  <2>12. CASE DestroyUncount(p)
    BY <2>12, DestroyUncountKeeps
  <2>13. CASE DestroyBlock(p)
    BY <2>13, DestroyBlockKeeps
  <2>14. CASE DestroyEntry(p)
    BY <2>14, DestroyEntryKeeps
  <2>15. CASE LockFree(p)
    BY <2>15, LockFreeKeeps
  <2>16. CASE LockOfDead(p)
    BY <2>16, LockOfDeadKeeps
  <2>17. CASE RemoveNext(p)
    BY <2>17, RemoveNextKeeps
  <2>18. CASE RemoveLast(p)
    BY <2>18, RemoveLastKeeps
  <2>19. CASE Unlock(p)
    BY <2>19, UnlockKeeps
  <2> QED BY <1>3, <2>1, <2>2, <2>3, <2>4, <2>5, <2>6, <2>7, <2>8, <2>9, <2>10, <2>11, <2>12,
             <2>13,
             <2>14, <2>15, <2>16, <2>17, <2>18, <2>19 DEF Step
<1>4. ASSUME NEW p \in Procs, Die(p) PROVE IInv'
  BY <1>4, DieKeeps
<1> QED BY <1>1, <1>2, <1>3, <1>4 DEF Next

\* and so it always is.
LEMMA Invariant == Spec => []IInv
<1>1. Init => IInv
  BY InitKeeps
<1>2. IInv /\ [Next]_vars => IInv'
  BY NextKeeps
<1> QED BY <1>1, <1>2, PTL DEF Spec

\* The table and the lock hold what the code may store in them; in particular the count of a
\* block never leaves 0 .. MaxOpen (Create, Destroy).
THEOREM MapTypes == Spec => []TypeOK
<1>1. IInv => TypeOK
  BY DEF IInv, Types
<1> QED BY <1>1, Invariant, PTL

\* However creates, destroys and cleanups follow each other, the lists are doubly linked, end and
\* share no block, and no name has two entries (DeleteRefCount, DeleteSemData).
THEOREM MapLists == Spec => []ListsSound
<1>1. ASSUME IInv PROVE ListsSound
  <2>0. TypeOK
    BY <1>1 DEF IInv, Types
  <2>1. PICK e, home, pos : Sound(e, home, pos)
    BY <1>1 DEF IInv
  <2>2. Packed(e) /\ Heap(home, pos)
    BY <2>1 DEF Sound
  <2>3. Entries \subseteq 0 .. LastEntry /\ \A i \in Entries : sem[i].szName # NoName
    BY Sizes DEF Entries
  <2>4. ASSUME NEW i \in Entries, sem[i].nFirst # 0 PROVE ref[sem[i].nFirst].nPrev = 0
    BY <2>0, <2>2, <2>3, <2>4, TableTypes DEF Heap
  <2>5. ASSUME NEW i \in Entries, NEW k \in Chain(sem[i].nFirst), ref[k].nNext # 0
        PROVE  ref[ref[k].nNext].nPrev = k
    <3>1. k \in Blocks /\ home[k] # NoName
      BY <2>0, <2>2, <2>3, ChainIs
    <3>2. ref[k].nNext \in Blocks
      BY <2>0, <2>5, <3>1, TableTypes
    <3> QED BY <2>2, <3>1, <3>2 DEF Heap
  <2>6. ASSUME NEW i \in Entries, NEW j \in Entries, i # j
        PROVE  sem[i].szName # sem[j].szName /\ Chain(sem[i].nFirst) \cap Chain(sem[j].nFirst) = {}
    <3>1. sem[i].szName # sem[j].szName
      BY <2>2, <2>3, <2>6 DEF Packed
    <3>2. /\ Chain(sem[i].nFirst) = {k \in Blocks : home[k] # NoName /\ home[k] = sem[i].szName}
          /\ Chain(sem[j].nFirst) = {k \in Blocks : home[k] # NoName /\ home[k] = sem[j].szName}
      BY <2>0, <2>2, <2>3, ChainIs
    <3> QED BY <3>1, <3>2
  <2> QED BY <2>4, <2>5, <2>6 DEF ListsSound
<1> QED BY <1>1, Invariant, PTL

\* A live process that is not in a call has one block in the list of each name it has open, which
\* counts its handles, and none in the others, whoever died meanwhile (Create, Destroy, Remove).
THEOREM MapCounts == Spec => []CountsMatch
<1>1. ASSUME IInv PROVE CountsMatch
  <2>0. Types /\ TypeOK /\ Control /\ Bounded
    BY <1>1 DEF IInv, Types
  <2>1. PICK e, home, pos : Sound(e, home, pos)
    BY <1>1 DEF IInv
  <2>2. Packed(e) /\ Heap(home, pos) /\ Counts(home)
    BY <2>1 DEF Sound
  <2> SUFFICES ASSUME NEW p \in Procs, NEW n \in Names, pc[p] = "idle",
                      NEW mine, mine = {k \in UNION {Chain(sem[i].nFirst) : i \in FindSemData(n)} : ref[k].nPID = p}
               PROVE  /\ mine = {h.block : h \in HandlesOn(p, n)}
                      /\ \A k \in mine : ref[k].nValue = Cardinality(HandlesOn(p, n))
                      /\ Cardinality(mine) <= 1
    BY DEF CountsMatch
  <2>3. p \notin gone /\ ~Closing(p) /\ n # NoName
    BY <2>0, Resting, NullAssumption DEF Busy, Control
  <2>4. mine = {k \in Blocks : home[k] = n /\ ref[k].nPID = p}
    <3>1. FindSemData(n) = {i \in 0 .. LastEntry : sem[i].szName = n}
      BY <2>0, <2>2, EntriesAre
    <3>2. \A i \in FindSemData(n) : Chain(sem[i].nFirst) = {k \in Blocks : home[k] = n}
      <4>1. ASSUME NEW i \in FindSemData(n) PROVE Chain(sem[i].nFirst) = {k \in Blocks : home[k] = n}
        <5>1. i \in 0 .. LastEntry /\ sem[i].szName = n
          BY <3>1
        <5>2. Chain(sem[i].nFirst) = {k \in Blocks : home[k] # NoName /\ home[k] = sem[i].szName}
          BY <2>0, <2>2, <5>1, ChainIs
        <5> QED BY <2>3, <5>1, <5>2
      <4> QED BY <4>1
    <3>3. \A k \in Blocks : home[k] = n => FindSemData(n) # {}
      BY <2>2, <2>3, <3>1 DEF Heap
    <3> QED BY <3>2, <3>3
  <2>5. \A k \in mine : ref[k].nValue = Cardinality(HandlesOn(p, n)) /\ ref[k].nValue # 0
    <3>1. ASSUME NEW k \in mine PROVE ref[k].nValue = Cardinality(HandlesOn(p, n)) /\ ref[k].nValue # 0
      <4>1. k \in Blocks /\ home[k] = n /\ ref[k].nPID = p
        BY <2>4
      <4>2. ref[k].nValue = Cardinality(HandlesOn(p, n)) + Pending(p, k) /\ Pending(p, k) = 0
        BY <2>2, <2>3, <4>1 DEF Counts, Pending
      <4>3. IsFiniteSet(HandlesOn(p, n)) /\ Cardinality(HandlesOn(p, n)) \in Nat
        BY <2>0, HandlesFinite, FS_CardinalityType DEF Bounded
      <4>4. ref[k].nValue # 0
        BY <2>2, <2>3, <4>1 DEF Counts
      <4> QED BY <4>2, <4>3, <4>4
    <3> QED BY <3>1
  <2>6. \A k, j \in mine : k = j
    BY <2>2, <2>3, <2>4 DEF Heap
  <2>7. mine = {h.block : h \in HandlesOn(p, n)}
    <3>1. \A h \in HandlesOn(p, n) : h.block \in mine
      BY <2>0, <2>2, <2>4 DEF HandlesOn, Counts, Types, LocalTypes, Handle
    <3>2. ASSUME NEW k \in mine PROVE \E h \in HandlesOn(p, n) : h.block = k
      <4>1. HandlesOn(p, n) # {}
        BY <2>5, FS_EmptySet
      <4> QED BY <2>6, <3>1, <4>1
    <3> QED BY <3>1, <3>2
  <2>8. Cardinality(mine) <= 1
    <3>1. CASE mine = {}
      <4>1. Cardinality({}) = 0
        BY FS_EmptySet
      <4>2. Cardinality(mine) = 0
        BY <3>1, <4>1, Zenon
      <4> QED BY <4>2
    <3>2. CASE mine # {}
      <4>1. PICK k : mine = {k}
        BY <2>6, <3>2
      <4>2. Cardinality({k}) = 1
        BY FS_Singleton
      <4>3. Cardinality(mine) = 1
        BY <4>1, <4>2, Zenon
      <4> QED BY <4>3
    <3> QED BY <3>1, <3>2
  <2> QED BY <2>5, <2>7, <2>8
<1> QED BY <1>1, Invariant, PTL

\* With one process in a call at a time, all live handles of a name are handles on the semaphore
\* that the name is linked to, whoever died meanwhile (Refresh, CreateMutex, CloseMutex).
THEOREM MapOneSemaphore == Spec => []OneSemaphore
<1>1. IInv => OneSemaphore
  BY DEF IInv, Links, OneSemaphore, SameSemaphore
<1> QED BY <1>1, Invariant, PTL

\* When nobody died and everything is closed, the table is empty and no name is linked
\* (CloseMutex, Destroy).
THEOREM MapNothingLeft == Spec => []NothingLeft
<1>1. ASSUME IInv PROVE NothingLeft
  <2>0. Types /\ TypeOK /\ Control /\ Links
    BY <1>1 DEF IInv, Types
  <2>1. PICK e, home, pos : Sound(e, home, pos)
    BY <1>1 DEF IInv
  <2>2. Packed(e) /\ Heap(home, pos) /\ Counts(home) /\ Torn(home)
    BY <2>1 DEF Sound
  <2> SUFFICES ASSUME gone = {}, \A p \in Procs : pc[p] = "idle" /\ handles[p] = {}
               PROVE  Entries = {} /\ \A n \in Names : linked[n] = NoObject
    BY DEF NothingLeft
  <2>3. \A k \in Blocks : home[k] = NoName
    <3> SUFFICES ASSUME NEW k \in Blocks, home[k] # NoName PROVE FALSE
      OBVIOUS
    <3>1. PICK p \in Procs : p = ref[k].nPID
      BY <2>2 DEF Heap
    <3>2. PICK n \in Names : n = home[k]
      BY <2>2 DEF Heap
    <3>3. HandlesOn(p, n) = {} /\ ~Closing(p)
      BY <2>0, Resting DEF Busy, HandlesOn
    <3>4. ref[k].nValue = Cardinality(HandlesOn(p, n)) + Pending(p, k)
      BY <2>2, <3>1, <3>2 DEF Counts
    <3>5. ref[k].nValue = 0
      BY <3>3, <3>4, FS_EmptySet DEF Pending
    <3> QED BY <2>2, <3>1, <3>5 DEF Counts
  <2>4. ASSUME NEW i \in 0 .. LastEntry, sem[i].szName # NoName PROVE FALSE
    <3>1. sem[i].nFirst = 0
      BY <2>0, <2>2, <2>3, TableTypes DEF Heap
    <3>2. ~Covered(i)
      BY DEF Covered, Covering
    <3> QED BY <2>0, <2>2, <2>4, <3>1, <3>2 DEF Torn, Control
  <2>5. Entries = {}
    BY <2>4, Sizes DEF Entries
  <2>6. ASSUME NEW n \in Names PROVE linked[n] = NoObject
    <3>1. \A p \in Procs : ~Holding(p)
      BY <2>0, Resting DEF Busy
    <3>2. ~HasEntry(n)
      BY <2>4, NullAssumption DEF HasEntry
    <3> QED BY <2>0, <3>1, <3>2 DEF Links
  <2> QED BY <2>5, <2>6
<1> QED BY <1>1, Invariant, PTL

-----------------------------------------------------------------------------
(* The owner marks, step by step.                                          *)

\* Every entry with a name after the step is one from before, with its mark, or has a
\* name that had no entry.
EntriesStay ==
  \A j \in 0 .. LastEntry : sem'[j].szName \in Names =>
    \/ ~HasEntry(sem'[j].szName)
    \/ \E i \in 0 .. LastEntry : sem[i].szName = sem'[j].szName /\ sem[i].nOwnerPID = sem'[j].nOwnerPID

\* Such a step keeps the mark of every name that has one before and after it.
LEMMA MarksKept ==
  ASSUME NEW e, Packed(e), EntriesStay, NEW n \in Names, MarkOf(n) # {}, MarkOf(n)' # {}
  PROVE  MarkOf(n)' = MarkOf(n)
<1>1. \A i \in FindSemData(n) : i \in 0 .. LastEntry /\ sem[i].szName = n
  BY DEF FindSemData, Entries
<1>2. \A j \in FindSemData(n)' : j \in 0 .. LastEntry /\ sem'[j].szName = n
  BY DEF FindSemData, Entries
<1>3. ASSUME NEW i \in FindSemData(n), NEW j \in FindSemData(n)'
      PROVE  sem'[j].nOwnerPID = sem[i].nOwnerPID
  <2>1. HasEntry(n)
    BY <1>1 DEF HasEntry
  <2>2. PICK m \in 0 .. LastEntry : sem[m].szName = n /\ sem[m].nOwnerPID = sem'[j].nOwnerPID
    BY <1>2, <2>1 DEF EntriesStay
  <2>3. m = i
    BY <1>1, <2>2, NullAssumption DEF Packed
  <2> QED BY <2>2, <2>3
<1>4. FindSemData(n) # {} /\ FindSemData(n)' # {}
  BY DEF MarkOf
<1>5. MarkOf(n) = {sem[i].nOwnerPID : i \in FindSemData(n)} /\ MarkOf(n)' = {sem'[i].nOwnerPID : i \in FindSemData(n)'}
  BY DEF MarkOf
<1> QED BY <1>3, <1>4, <1>5

\* A step that changes only first blocks.
LEMMA FirstOnly ==
  ASSUME TypeOK, NEW i \in 0 .. LastEntry, NEW x, sem' = [sem EXCEPT ![i].nFirst = x]
  PROVE  EntriesStay
<1>1. \A j \in 0 .. LastEntry : sem'[j].szName = sem[j].szName /\ sem'[j].nOwnerPID = sem[j].nOwnerPID
  BY DEF TypeOK
<1> QED BY <1>1 DEF EntriesStay

\* A step that changes no entry.
LEMMA SameEntries ==
  ASSUME UNCHANGED sem
  PROVE  EntriesStay
BY DEF EntriesStay

\* A step that deletes an entry takes the mark of the one that moves with it.
LEMMA EntryLeaves ==
  ASSUME Types, NEW e, NEW home, NEW pos, Sound(e, home, pos), NEW p \in Procs,
         pc[p] \in {"dropEntry", "removeLast", "removeEntry"}, sem' = SemWithout(call[p].entry), ref' = ref
  PROVE  EntriesStay
<1>1. PICK i \in 0 .. LastEntry : i = call[p].entry
  BY CallIs
<1>2. sem[i].szName # NoName /\ sem[i].nFirst = 0 /\ TypeOK /\ Packed(e) /\ Heap(home, pos)
  BY <1>1 DEF Sound, Stages, StageOf, Types
<1>3. \A m \in 0 .. LastEntry : sem'[m].szName # NoName => \E j \in 0 .. LastEntry : j # i /\ sem'[m] = sem[j]
  BY <1>1, <1>2, EntriesMoved
<1> QED BY <1>3, NullAssumption DEF EntriesStay

\* No step but MarkOwner and UnmarkOwner changes the mark of an entry.
LEMMA StepStays ==
  ASSUME IInv, NEW p \in Procs, Step(p)
  PROVE  EntriesStay
<1>0. Types /\ TypeOK /\ Control /\ call[p].entry \in 0 .. LastEntry
  BY CallIs DEF IInv, Types
<1>1. PICK e, home, pos : Sound(e, home, pos)
  BY DEF IInv
<1>2. Packed(e) /\ Heap(home, pos)
  BY <1>1 DEF Sound
<1>3. CASE UNCHANGED sem
  BY <1>3, SameEntries
<1>4. CASE CreateEntry(p)
  <2>1. PICK n \in Names : n = call[p].name
    BY <1>0, <1>4 DEF CreateEntry, Goto, Control, Flow, Busy
  <2>2. CASE FindSemData(n) # {}
    BY <1>4, <2>1, <2>2, SameEntries DEF CreateEntry
  <2>3. CASE FindSemData(n) = {}
    <3>1. FindSemData(n) = {j \in 0 .. LastEntry : sem[j].szName = n} /\ EndIndex = e
      BY <1>0, <1>2, EntriesAre
    <3>2. ~HasEntry(n)
      BY <2>3, <3>1 DEF HasEntry
    <3>3. sem' = [sem EXCEPT ![e].szName = n, ![e].nOwnerPID = p] /\ ref' = ref
      BY <1>4, <2>1, <2>3, <3>1 DEF CreateEntry
    <3>4. sem'[e].szName = n /\ \A m \in 0 .. LastEntry : m # e => sem'[m] = sem[m]
      BY <1>0, <1>2, <3>2, <3>3, EntryAdded
    <3> QED BY <3>2, <3>4 DEF EntriesStay
  <2> QED BY <2>2, <2>3
<1>5. CASE CreateFirst(p)
  BY <1>0, <1>5, FirstOnly, SameEntries DEF CreateFirst, table
<1>6. CASE RefreshRemoveBlock(p)
  BY <1>0, <1>6, FirstOnly DEF RefreshRemoveBlock
<1>7. CASE RemoveNext(p)
  BY <1>0, <1>7, FirstOnly, SameEntries DEF RemoveNext, table
<1>8. CASE DestroyBlock(p)
  <2>1. CASE UNCHANGED table
    BY <2>1, SameEntries DEF table
  <2>2. CASE ~UNCHANGED table
    <3>1. PICK i \in FindSemData(call[p].name) : sem' = [sem EXCEPT ![i].nFirst = FirstWithout(i, call[p].block)]
      BY <1>8, <2>2 DEF DestroyBlock
    <3>2. i \in 0 .. LastEntry
      BY DEF FindSemData, Entries
    <3> QED BY <1>0, <3>1, <3>2, FirstOnly
  <2> QED BY <2>1, <2>2
<1>9. CASE DestroyEntry(p)
  BY <1>0, <1>1, <1>9, EntryLeaves DEF DestroyEntry, Goto
<1>10. CASE RemoveLast(p)
  BY <1>0, <1>1, <1>10, EntryLeaves DEF RemoveLast, Goto
<1>11. CASE RefreshRemoveEntry(p)
  <2>1. CASE EndIndex = 0
    BY <1>11, <2>1, SameEntries DEF RefreshRemoveEntry
  <2>2. CASE EndIndex # 0
    BY <1>0, <1>1, <1>11, <2>2, EntryLeaves DEF RefreshRemoveEntry, Goto
  <2> QED BY <2>1, <2>2
<1>12. CASE RefreshFind(p) \/ RefreshScan(p) \/ RefreshRemoveFind(p) \/ UnlinkOld(p) \/ SemOpen(p)
            \/ CreateAppend(p) \/ CreateCount(p) \/ DestroyUncount(p) \/ UnlinkLast(p) \/ LockFree(p)
            \/ LockOfDead(p) \/ Unlock(p)
  BY <1>3, <1>12 DEF RefreshFind, RefreshScan, RefreshRemoveFind, UnlinkOld, SemOpen,
     CreateAppend, CreateCount,
                     DestroyUncount, UnlinkLast, LockFree, LockOfDead, Unlock, table
<1> QED BY <1>4, <1>5, <1>6, <1>7, <1>8, <1>9, <1>10, <1>11, <1>12 DEF Step

\* The mark of a name that has an entry before and after a step changes only in MarkOwner or
\* UnmarkOwner by a holder of that name, however the entries are moved about (DeleteSemData).
THEOREM MapMarks == Spec => MarksStay
<1> DEFINE Marked(n) == \E p \in Procs : \E h \in HandlesOn(p, n) : Mark(p, h, p) \/ Mark(p, h, NoPid)
           Stay == \A n \in Names : MarkOf(n) # {} /\ MarkOf(n)' # {} /\ MarkOf(n)' # MarkOf(n) => Marked(n)
<1>1. ASSUME IInv, [Next]_vars, NEW n \in Names, MarkOf(n) # {}, MarkOf(n)' # {}, ~Marked(n)
      PROVE  MarkOf(n)' = MarkOf(n)
  <2>0. Types /\ TypeOK
    BY <1>1 DEF IInv, Types
  <2>1. PICK e, home, pos : Sound(e, home, pos)
    BY <1>1 DEF IInv
  <2>2. Packed(e) /\ Heap(home, pos)
    BY <2>1 DEF Sound
  <2>3. CASE EntriesStay
    BY <1>1, <2>2, <2>3, MarksKept
  <2>4. CASE UNCHANGED vars
    BY <2>3, <2>4, SameEntries DEF vars, table
  <2>5. ASSUME NEW p \in Procs, Step(p) PROVE MarkOf(n)' = MarkOf(n)
    BY <1>1, <2>3, <2>5, StepStays
  <2>6. ASSUME NEW p \in Procs, Die(p) PROVE MarkOf(n)' = MarkOf(n)
    BY <2>3, <2>6, SameEntries DEF Die, table
  <2>7. ASSUME NEW p \in Procs, Begin(p) PROVE MarkOf(n)' = MarkOf(n)
    <3>1. CASE \E m \in Names, create \in BOOLEAN : Open(p, m, create)
      BY <2>3, <3>1, SameEntries DEF Open, table
    <3>2. ASSUME NEW h \in handles[p], Close(p, h) PROVE MarkOf(n)' = MarkOf(n)
      BY <2>3, <3>2, SameEntries DEF Close, table
    <3>3. ASSUME NEW h \in handles[p], NEW owner \in {p, NoPid}, Mark(p, h, owner)
          PROVE  MarkOf(n)' = MarkOf(n)
      <4>1. h.name # n
        BY <1>1, <3>3 DEF HandlesOn
      <4>2. PICK m \in Names : m = h.name
        BY <2>0 DEF Types, LocalTypes, Handle
      <4>3. Remark(m, owner) /\ owner \in Procs \cup {NoPid}
        BY <3>3, <4>2 DEF Mark, Remark
      <4>4. \A j \in 0 .. LastEntry : /\ sem'[j].szName = sem[j].szName
                                      /\ sem[j].szName # m => sem'[j] = sem[j]
        BY <2>0, <2>2, <4>3, MarkChanged
      <4>5. \A j \in 0 .. LastEntry : sem[j].szName = n \/ sem'[j].szName = n => sem'[j] = sem[j]
        BY <4>1, <4>2, <4>4
      <4>6. \A j \in 0 .. LastEntry : sem'[j].szName = NoName <=> sem[j].szName = NoName
        BY <4>4
      <4>7. Entries' = Entries
        BY <4>6, Sizes DEF Entries
      <4>8. FindSemData(n)' = FindSemData(n)
        <5>1. \A i \in Entries : i \in 0 .. LastEntry /\ \A j \in 0 .. (i - 1) : j \in 0 .. LastEntry
          BY Sizes DEF Entries
        <5>2. \A i \in Entries : /\ sem'[i].szName = sem[i].szName
                                 /\ \A j \in 0 .. (i - 1) : sem'[j].szName = sem[j].szName
          BY <4>4, <5>1
        <5>3. FindSemData(n) = {i \in Entries : sem[i].szName = n /\ \A j \in 0 .. (i - 1) : sem[j].szName # n}
          BY DEF FindSemData
        <5>4. FindSemData(n)' = {i \in Entries : sem'[i].szName = n /\ \A j \in 0 .. (i - 1) : sem'[j].szName # n}
          BY <4>7 DEF FindSemData
        <5> QED BY <5>2, <5>3, <5>4
      <4>9. \A j \in FindSemData(n) : sem'[j] = sem[j]
        BY <4>5 DEF FindSemData, Entries
      <4> QED BY <4>8, <4>9 DEF MarkOf
    <3> QED BY <2>7, <3>1, <3>2, <3>3 DEF Begin
  <2> QED BY <1>1, <2>4, <2>5, <2>6, <2>7 DEF Next
<1>2. IInv /\ [Next]_vars => [Stay]_vars
  BY <1>1
<1>3. Spec => [][Stay]_vars
  BY <1>2, Invariant, PTL DEF Spec
<1> QED BY <1>3 DEF MarksStay

-----------------------------------------------------------------------------
(* Room in the table.                                                      *)

\* Where Create needs an entry there is one, and where NewRefCount takes the first block
\* with a count of 0, that block is in no list.
Room ==
  \A p \in Procs :
    /\ pc[p] = "create" /\ FindSemData(call[p].name) = {} => EndIndex < Cardinality(Names)
    /\ \/ pc[p] = "first" /\ sem[call[p].entry].nFirst = 0
       \/ pc[p] = "append" /\ FindRefCount(sem[call[p].entry].nFirst, p) = 0
       => FreeBlock \in Blocks /\ ref[FreeBlock] = NoRef

\* Entries and blocks never run out or into each other when there is room for one entry per
\* name and one block per process and name: Create always finds a free entry, and a block of
\* a dead process that is still linked is never taken for a free one (NewRefCount).
THEOREM MapRoom == Spec => []Room
<1>1. ASSUME IInv, NEW p \in Procs, pc[p] = "create", FindSemData(call[p].name) = {}
      PROVE  EndIndex < Cardinality(Names)
  <2>1. PICK e, home, pos : Sound(e, home, pos)
    BY <1>1 DEF IInv
  <2>2. Packed(e) /\ TypeOK /\ call[p].name \in Names
    BY <1>1, <2>1 DEF Sound, IInv, Types, Control, Flow, Busy
  <2>3. FindSemData(call[p].name) = {i \in 0 .. LastEntry : sem[i].szName = call[p].name} /\ EndIndex = e
    BY <2>2, EntriesAre
  <2>4. ~HasEntry(call[p].name)
    BY <1>1, <2>3 DEF HasEntry
  <2> QED BY <2>2, <2>3, <2>4, RoomForEntry, Sizes
<1>2. ASSUME IInv, NEW p \in Procs, pc[p] \in {"first", "append"},
             \/ pc[p] = "first" /\ sem[call[p].entry].nFirst = 0
             \/ pc[p] = "append" /\ FindRefCount(sem[call[p].entry].nFirst, p) = 0
      PROVE  FreeBlock \in Blocks /\ ref[FreeBlock] = NoRef
  <2>1. Types /\ Control /\ TypeOK
    BY <1>2 DEF IInv, Types
  <2>2. PICK e, home, pos : Sound(e, home, pos)
    BY <1>2 DEF IInv
  <2>3. Packed(e) /\ Heap(home, pos) /\ Counts(home) /\ Stages(home) /\ Torn(home)
    BY <2>2 DEF Sound
  <2>4. PICK i \in 0 .. LastEntry : i = call[p].entry
    BY <2>1, CallIs
  <2>5. PICK n \in Names : n = call[p].name
    BY <1>2, <2>1 DEF Control, Flow, Busy
  <2>6. sem[i].szName = n /\ n # NoName /\ (pc[p] = "append" => sem[i].nFirst # 0)
    BY <1>2, <2>3, <2>4, <2>5, NullAssumption DEF Stages, StageOf
  <2>7. \A k \in Blocks : home[k] = n => ref[k].nPID # p
    <3>1. CASE sem[i].nFirst = 0
      BY <2>1, <2>3, <2>6, <3>1, EmptyList
    <3>2. CASE sem[i].nFirst # 0
      <4>1. FindRefCount(sem[i].nFirst, p) = 0
        BY <1>2, <2>4, <3>2
      <4>2. 0 \notin Blocks
        BY Sizes
      <4>3. \A k \in Blocks : home[k] # NoName /\ home[k] = sem[i].szName => ref[k].nPID # p
        BY <2>1, <2>3, <4>1, <4>2, FindRefCountIs
      <4> QED BY <2>6, <4>3
    <3> QED BY <3>1, <3>2
  <2>8. \A k \in Blocks : home[k] # NoName => ref[k].nValue # 0
    BY <1>2, <2>1, <2>3, <2>5, <2>7, NoZero
  <2>9. FreeBlock \in Blocks /\ home[FreeBlock] = NoName
    BY <2>1, <2>3, <2>7, <2>8, FreeBlockIs
  <2> QED BY <2>3, <2>9 DEF Heap
<1>3. IInv => Room
  BY <1>1, <1>2 DEF Room
<1> QED BY <1>3, Invariant, PTL
=============================================================================
