-------------------------- MODULE PacketStreamProofs --------------------------
(***************************************************************************)
(* What lies between the two ends of a connection is the packets that are  *)
(* sent and not answered, and they are answered once and in order, for any *)
(* senders, packets, body lengths, room in the buffers and timeouts.       *)
(*                                                                         *)
(* The equation at the heart of it is                                      *)
(*     got \o wire \o what the sender in the middle of a packet has left   *)
(*        = the bytes of the packets sent and not answered,                *)
(* and every action moves units across it or adds a packet to both sides.  *)
(***************************************************************************)
EXTENDS PacketStream, SequenceTheorems, FiniteSetTheorems, TLAPS

-----------------------------------------------------------------------------
(* Induction over the naturals, with the property given as a set: from     *)
(* the well-foundedness of the strict subset ordering of finite sets       *)

\* Every set of naturals that is not empty has a least element.
LEMMA Least ==
  ASSUME NEW T \in SUBSET Nat, T # {}
  PROVE  \E x \in T : \A y \in T : x <= y
<1> DEFINE F == {0 .. n : n \in T}
<1>1. F \subseteq FiniteSubsetsOf(Nat) /\ F # {}
  <2>1. \A n \in T : 0 .. n \in SUBSET Nat /\ IsFiniteSet(0 .. n)
    BY FS_Interval
  <2> QED BY <2>1 DEF FiniteSubsetsOf
<1>2. IsWellFoundedOn(StrictSubsetOrdering(Nat), FiniteSubsetsOf(Nat))
  BY FS_StrictSubsetOrderingWellFounded
<1> HIDE DEF F
<1>3. PICK s \in F : \A r \in F : <<r, s>> \notin StrictSubsetOrdering(Nat)
  BY <1>1, <1>2, WFMin
<1>4. PICK x \in T : s = 0 .. x
  BY <1>3 DEF F
<1>5. ASSUME NEW y \in T, y < x PROVE FALSE
  <2>1. 0 .. y \in F
    BY DEF F
  <2>2. <<0 .. y, 0 .. x>> \in StrictSubsetOrdering(Nat)
    <3>1. 0 .. y \subseteq 0 .. x /\ x \in 0 .. x /\ x \notin 0 .. y
      BY <1>5
    <3>2. 0 .. y \in SUBSET Nat /\ 0 .. x \in SUBSET Nat
      OBVIOUS
    <3> QED BY <3>1, <3>2 DEF StrictSubsetOrdering
  <2> QED BY <1>3, <1>4, <2>1, <2>2
<1> QED BY <1>4, <1>5

\* A set that contains 0 and the successor of each of its naturals contains them all.
LEMMA Induction ==
  ASSUME NEW S, 0 \in S, \A n \in Nat : n \in S => n + 1 \in S
  PROVE  \A n \in Nat : n \in S
<1> SUFFICES ASSUME Nat \ S # {} PROVE FALSE
  OBVIOUS
<1>1. PICK x \in Nat \ S : \A y \in Nat \ S : x <= y
  BY Least, Nat \ S \in SUBSET Nat
<1>2. x # 0 /\ x - 1 \in Nat /\ (x - 1) + 1 = x
  BY <1>1
<1>3. x - 1 \in S
  BY <1>1, <1>2
<1> QED BY <1>1, <1>2, <1>3

-----------------------------------------------------------------------------
(* FlattenSeq.  Its function is a CHOOSE, so what it computes rests on     *)
(* there being exactly one function of that form                           *)

\* What FlattenSeq computes at a position from the positions before it.
FlatStep(f, q, i) == IF i = 1 THEN q[i] ELSE f[i - 1] \o q[i]
IsFlat(f, q, n) == f = [i \in 1 .. n |-> FlatStep(f, q, i)]

\* The value of such a function at a position.
LEMMA FlatAt ==
  ASSUME NEW q, NEW n, NEW f, IsFlat(f, q, n), NEW i \in 1 .. n
  PROVE  f[i] = FlatStep(f, q, i)
BY DEF IsFlat

\* There is one of any length.
LEMMA FlatExists ==
  ASSUME NEW U, NEW q \in Seq(Seq(U))
  PROVE  \A n \in Nat : n <= Len(q) => \E f \in [1 .. n -> Seq(U)] : IsFlat(f, q, n)
<1> DEFINE S == {n \in Nat : n <= Len(q) => \E f \in [1 .. n -> Seq(U)] : IsFlat(f, q, n)}
<1>1. 0 \in S
  <2>1. [i \in 1 .. 0 |-> <<>>] \in [1 .. 0 -> Seq(U)]
    BY EmptySeq
  <2>2. IsFlat([i \in 1 .. 0 |-> <<>>], q, 0)
    BY DEF IsFlat
  <2> QED BY <2>1, <2>2
<1>2. ASSUME NEW n \in Nat, n \in S, n + 1 <= Len(q)
      PROVE  \E f \in [1 .. n + 1 -> Seq(U)] : IsFlat(f, q, n + 1)
  <2>1. PICK f \in [1 .. n -> Seq(U)] : IsFlat(f, q, n)
    BY <1>2, LenProperties
  <2>2. n + 1 \in 1 .. Len(q) /\ q[n + 1] \in Seq(U)
    BY <1>2, LenProperties, ElementOfSeq
  <2> DEFINE last == IF n = 0 THEN q[n + 1] ELSE f[n] \o q[n + 1]
             g == [i \in 1 .. n + 1 |-> IF i = n + 1 THEN last ELSE f[i]]
  <2>3. last \in Seq(U)
    BY <2>2, ConcatProperties
  <2>4. g \in [1 .. n + 1 -> Seq(U)]
    BY <2>3
  <2>5. ASSUME NEW i \in 1 .. n + 1
        PROVE  g[i] = FlatStep(g, q, i)
    <3>1. CASE i = n + 1
      BY <3>1 DEF FlatStep
    <3>2. CASE i # n + 1
      <4>1. i \in 1 .. n /\ (i # 1 => i - 1 \in 1 .. n)
        BY <3>2
      <4>2. f[i] = FlatStep(f, q, i)
        BY <2>1, <4>1, FlatAt
      <4>3. g[i] = f[i] /\ (i # 1 => g[i - 1] = f[i - 1])
        BY <3>2, <4>1
      <4> QED BY <4>2, <4>3 DEF FlatStep
    <3> QED BY <3>1, <3>2
  <2>6. IsFlat(g, q, n + 1)
    <3> HIDE DEF last
    <3>1. g = [i \in 1 .. n + 1 |-> g[i]]
      OBVIOUS
    <3> HIDE DEF g
    <3> QED BY <2>5, <3>1 DEF IsFlat
  <2> QED BY <2>4, <2>6
<1>3. \A n \in Nat : n \in S => n + 1 \in S
  BY <1>2
<1> HIDE DEF S
<1>4. \A n \in Nat : n \in S
  BY <1>1, <1>3, Induction
<1> QED BY <1>4 DEF S

\* There is only one.
LEMMA FlatUnique ==
  ASSUME NEW q, NEW n \in Nat, NEW f, NEW g, IsFlat(f, q, n), IsFlat(g, q, n)
  PROVE  f = g
<1> DEFINE S == {i \in Nat : i \in 1 .. n => f[i] = g[i]}
<1>1. 0 \in S
  OBVIOUS
<1>2. ASSUME NEW i \in Nat, i \in S PROVE i + 1 \in S
  <2> SUFFICES ASSUME i + 1 \in 1 .. n PROVE f[i + 1] = g[i + 1]
    OBVIOUS
  <2>0. (i + 1) - 1 = i
    OBVIOUS
  <2>1. f[i + 1] = IF i + 1 = 1 THEN q[i + 1] ELSE f[i] \o q[i + 1]
    BY FlatAt, <2>0 DEF FlatStep
  <2>2. g[i + 1] = IF i + 1 = 1 THEN q[i + 1] ELSE g[i] \o q[i + 1]
    BY FlatAt, <2>0 DEF FlatStep
  <2>3. i + 1 # 1 => f[i] = g[i]
    BY <1>2
  <2> QED BY <2>1, <2>2, <2>3
<1> HIDE DEF S
<1>3. \A i \in Nat : i \in S
  BY <1>1, <1>2, Induction
<1>4. \A i \in 1 .. n : f[i] = g[i]
  BY <1>3 DEF S
<1>5. f = [i \in 1 .. n |-> f[i]] /\ g = [i \in 1 .. n |-> g[i]]
  BY DEF IsFlat
<1> QED BY <1>4, <1>5

\* FlattenSeq is its last value.
LEMMA FlatValue ==
  ASSUME NEW U, NEW q \in Seq(Seq(U)), q # <<>>
  PROVE  \E f \in [1 .. Len(q) -> Seq(U)] : IsFlat(f, q, Len(q)) /\ FlattenSeq(q) = f[Len(q)]
<1>1. Len(q) \in Nat /\ Len(q) # 0
  BY EmptySeq, LenProperties
<1>2. PICK f \in [1 .. Len(q) -> Seq(U)] : IsFlat(f, q, Len(q))
  BY <1>1, FlatExists
<1> DEFINE g == CHOOSE h : IsFlat(h, q, Len(q))
<1>3. IsFlat(g, q, Len(q))
  BY <1>2
<1>4. f = g
  BY <1>1, <1>2, <1>3, FlatUnique
<1>5. FlattenSeq(q) = g[Len(q)]
  BY <1>1, Zenon DEF FlattenSeq, IsFlat, FlatStep
<1> QED BY <1>2, <1>4, <1>5

\* Nothing flattens to nothing.
LEMMA FlatEmpty == FlattenSeq(<<>>) = <<>>
BY DEF FlattenSeq

\* Flattening sequences over U gives a sequence over U.
LEMMA FlatType ==
  ASSUME NEW U, NEW q \in Seq(Seq(U))
  PROVE  FlattenSeq(q) \in Seq(U)
<1>1. CASE q = <<>>
  BY <1>1, FlatEmpty, EmptySeq
<1>2. CASE q # <<>>
  <2>1. PICK f \in [1 .. Len(q) -> Seq(U)] : FlattenSeq(q) = f[Len(q)]
    BY <1>2, FlatValue
  <2>2. Len(q) \in 1 .. Len(q)
    BY <1>2, EmptySeq, LenProperties
  <2> QED BY <2>1, <2>2
<1> QED BY <1>1, <1>2

\* A sequence at the end is a suffix of the whole.
LEMMA FlatAppend ==
  ASSUME NEW U, NEW q \in Seq(Seq(U)), NEW s \in Seq(U)
  PROVE  FlattenSeq(Append(q, s)) = FlattenSeq(q) \o s
<1> DEFINE r == Append(q, s)
           n == Len(q)
<1>1. /\ r \in Seq(Seq(U)) /\ r # <<>> /\ Len(r) = n + 1 /\ n \in Nat
      /\ \A i \in 1 .. n : r[i] = q[i]
      /\ r[n + 1] = s
  BY AppendProperties, LenProperties
<1> HIDE DEF r
<1>2. PICK f \in [1 .. n + 1 -> Seq(U)] : IsFlat(f, r, n + 1) /\ FlattenSeq(r) = f[n + 1]
  BY <1>1, FlatValue
<1>3. f[n + 1] = IF n + 1 = 1 THEN s ELSE f[n] \o s
  <2>1. n + 1 \in 1 .. n + 1 /\ (n + 1) - 1 = n
    BY <1>1
  <2>2. f[n + 1] = IF n + 1 = 1 THEN r[n + 1] ELSE f[(n + 1) - 1] \o r[n + 1]
    BY <1>2, <2>1, FlatAt DEF FlatStep
  <2> QED BY <1>1, <2>1, <2>2
<1>4. CASE q = <<>>
  <2>1. n = 0
    BY <1>4
  <2> QED BY <1>2, <1>3, <1>4, <2>1, FlatEmpty, ConcatEmptySeq DEF r
<1>5. CASE q # <<>>
  <2>1. n # 0
    BY <1>5, EmptySeq
  <2>2. PICK g \in [1 .. n -> Seq(U)] : IsFlat(g, q, n) /\ FlattenSeq(q) = g[n]
    BY <1>5, FlatValue
  <2> DEFINE h == [i \in 1 .. n |-> f[i]]
  <2>3. ASSUME NEW i \in 1 .. n PROVE h[i] = FlatStep(h, q, i)
    <3>1. i \in 1 .. n + 1 /\ (i # 1 => i - 1 \in 1 .. n)
      BY <1>1
    <3>2. f[i] = FlatStep(f, r, i)
      BY <1>2, <3>1, FlatAt
    <3> QED BY <1>1, <3>1, <3>2 DEF FlatStep
  <2>4. IsFlat(h, q, n)
    <3>1. h = [i \in 1 .. n |-> h[i]]
      OBVIOUS
    <3> HIDE DEF h
    <3> QED BY <2>3, <3>1 DEF IsFlat
  <2>5. h = g
    BY <1>1, <2>2, <2>4, FlatUnique
  <2>6. f[n] = g[n]
    BY <1>1, <2>1, <2>5
  <2> QED BY <1>1, <1>2, <1>3, <2>1, <2>2, <2>6 DEF r
<1> QED BY <1>4, <1>5

\* A sequence at the head is a prefix of the whole.
LEMMA FlatHead ==
  ASSUME NEW U
  PROVE  \A q \in Seq(Seq(U)) : q # <<>> => FlattenSeq(q) = Head(q) \o FlattenSeq(Tail(q))
<1> DEFINE P(q) == FlattenSeq(q) = Head(q) \o FlattenSeq(Tail(q))
           S == {n \in Nat : \A q \in Seq(Seq(U)) : Len(q) = n + 1 => P(q)}
<1>1. ASSUME NEW q \in Seq(Seq(U)), q # <<>>
      PROVE  \E r \in Seq(Seq(U)), e \in Seq(U) : q = Append(r, e) /\ Len(q) = Len(r) + 1
  <2>1. PICK r \in Seq(Seq(U)), e \in Seq(U) : q = Append(r, e)
    BY <1>1, SequenceEmptyOrAppend
  <2> QED BY <2>1, AppendProperties
<1>2. ASSUME NEW q \in Seq(Seq(U)), Len(q) = 1 PROVE P(q)
  <2>0. q # <<>>
    <3> SUFFICES ASSUME q = <<>> PROVE FALSE
      OBVIOUS
    <3>1. Len(q) = 0
      BY EmptySeq
    <3> QED BY <1>2, <3>1
  <2>1. PICK r \in Seq(Seq(U)), e \in Seq(U) : q = Append(r, e) /\ Len(q) = Len(r) + 1
    BY <1>1, <2>0
  <2>2. r = <<>>
    BY <1>2, <2>1, EmptySeq, LenProperties
  <2>3. FlattenSeq(q) = <<>> \o e
    BY <2>1, <2>2, FlatAppend, FlatEmpty
  <2>4. Head(q) = e /\ Tail(q) = <<>>
    BY <2>1, <2>2, HeadTailAppend
  <2> QED BY <2>3, <2>4, FlatEmpty, ConcatEmptySeq
<1>3. 0 \in S
  BY <1>2
<1>4. ASSUME NEW n \in Nat, n \in S, NEW q \in Seq(Seq(U)), Len(q) = n + 2 PROVE P(q)
  <2>0. q # <<>>
    BY <1>4, EmptySeq
  <2>1. PICK r \in Seq(Seq(U)), e \in Seq(U) : q = Append(r, e) /\ Len(q) = Len(r) + 1
    BY <1>1, <2>0
  <2>2. r # <<>> /\ Len(r) = n + 1
    BY <1>4, <2>1, LenProperties
  <2>3. P(r)
    BY <1>4, <2>2
  <2>4. Head(r) \in Seq(U) /\ Tail(r) \in Seq(Seq(U))
    BY <2>2, HeadTailProperties
  <2>5. Head(q) = Head(r) /\ Tail(q) = Append(Tail(r), e)
    BY <2>1, <2>2, HeadTailAppend
  <2>6. FlattenSeq(q) = FlattenSeq(r) \o e /\ FlattenSeq(Tail(q)) = FlattenSeq(Tail(r)) \o e
    BY <2>1, <2>4, <2>5, FlatAppend
  <2>7. FlattenSeq(Tail(r)) \in Seq(U)
    BY <2>4, FlatType
  <2>8. (Head(r) \o FlattenSeq(Tail(r))) \o e = Head(r) \o (FlattenSeq(Tail(r)) \o e)
    <3> DEFINE a == Head(r)
               b == FlattenSeq(Tail(r))
    <3>1. a \in Seq(U) /\ b \in Seq(U) /\ e \in Seq(U)
      BY <2>4, <2>7
    <3> HIDE DEF P, S, a, b
    <3>2. (a \o b) \o e = a \o (b \o e)
      BY <3>1, ConcatAssociative
    <3> QED BY <3>2 DEF a, b
  <2> QED BY <2>3, <2>5, <2>6, <2>8
<1>5. \A n \in Nat : n \in S => n + 1 \in S
  BY <1>4
<1> HIDE DEF S
<1>6. \A n \in Nat : n \in S
  BY <1>3, <1>5, Induction
<1> QED
  <2> SUFFICES ASSUME NEW q \in Seq(Seq(U)), q # <<>> PROVE P(q)
    OBVIOUS
  <2>1. Len(q) - 1 \in Nat /\ Len(q) = (Len(q) - 1) + 1
    BY EmptySeq
  <2> QED BY <1>6, <2>1 DEF S

-----------------------------------------------------------------------------
(* Pieces of sequences, the bytes of a packet, what is laid out            *)

Units == Packets \X Nat

\* A packet is longer than its header.
LEMMA SizeType ==
  ASSUME NEW p \in Packets
  PROVE  /\ Size(p) \in Nat /\ BodyLen[p] \in Nat \ {0}
         /\ Size(p) = HeaderLen + BodyLen[p] /\ Size(p) > HeaderLen
BY PacketAssumption DEF Size, HeaderLen

\* The units of a packet.
LEMMA BytesType ==
  ASSUME NEW p \in Packets
  PROVE  /\ Bytes(p) \in Seq(Units) /\ Len(Bytes(p)) = Size(p)
         /\ \A k \in 1 .. Size(p) : Bytes(p)[k] = <<p, k>>
<1> DEFINE e(k) == <<p, k>>
<1>1. Size(p) \in Nat /\ \A k \in 1 .. Size(p) : e(k) \in Units
  BY SizeType DEF Units
<1>2. Bytes(p) \in [1 .. Size(p) -> Units]
  BY <1>1 DEF Bytes
<1>3. Bytes(p) \in Seq(Units)
  BY <1>1, <1>2
<1> QED BY <1>1, <1>2, <1>3, LenProperties DEF Bytes

\* A piece within a sequence has the length asked for and the units from there on.
LEMMA PieceType ==
  ASSUME NEW S, NEW s \in Seq(S), NEW from \in Nat, NEW n \in Nat, from + n <= Len(s)
  PROVE  /\ Piece(s, from, n) \in Seq(S) /\ Len(Piece(s, from, n)) = n
         /\ \A i \in 1 .. n : Piece(s, from, n)[i] = s[from + i]
<1>1. \A i \in from + 1 .. from + n : s[i] \in S
  BY LenProperties
<1>2. /\ Piece(s, from, n) \in Seq(S)
      /\ Len(Piece(s, from, n)) = IF from + 1 <= from + n THEN (from + n) - (from + 1) + 1 ELSE 0
      /\ \A i \in 1 .. (from + n) - (from + 1) + 1 :
            Piece(s, from, n)[i] = s[(from + 1) + i - 1]
  BY <1>1, SubSeqProperties DEF Piece
<1> QED BY <1>2

\* Two pieces that meet are one.
LEMMA PieceSplit ==
  ASSUME NEW S, NEW s \in Seq(S), NEW from \in Nat, NEW n \in Nat, NEW m \in Nat,
         from + n + m <= Len(s)
  PROVE  Piece(s, from, n) \o Piece(s, from + n, m) = Piece(s, from, n + m)
<1>1. /\ from + 1 \in 1 .. Len(s) + 1 /\ from + n \in (from + 1) - 1 .. Len(s)
      /\ from + n + m \in from + n .. Len(s)
  BY LenProperties
<1>2. SubSeq(s, from + 1, from + n) \o SubSeq(s, (from + n) + 1, from + n + m)
        = SubSeq(s, from + 1, from + n + m)
  BY <1>1, ConcatAdjacentSubSeq
<1>3. from + n + m = from + (n + m) /\ from + n + m = (from + n) + m
  OBVIOUS
<1> QED BY <1>2, <1>3 DEF Piece

\* The piece of everything is the sequence.
LEMMA PieceWhole ==
  ASSUME NEW S, NEW s \in Seq(S)
  PROVE  Piece(s, 0, Len(s)) = s
BY SubSeqFull, LenProperties DEF Piece

\* A piece of no units is empty.
LEMMA PieceEmpty ==
  ASSUME NEW s, NEW from \in Nat
  PROVE  Piece(s, from, 0) = <<>>
BY SubSeqEmpty DEF Piece

\* A piece from the start.
LEMMA PieceFront ==
  ASSUME NEW S, NEW s \in Seq(S), NEW n \in Nat, n <= Len(s)
  PROVE  /\ Piece(s, 0, n) \in Seq(S) /\ Len(Piece(s, 0, n)) = n
         /\ \A i \in 1 .. n : Piece(s, 0, n)[i] = s[i]
<1>1. 0 \in Nat /\ 0 + n <= Len(s)
  BY LenProperties
<1>2. /\ Piece(s, 0, n) \in Seq(S) /\ Len(Piece(s, 0, n)) = n
      /\ \A i \in 1 .. n : Piece(s, 0, n)[i] = s[0 + i]
  BY <1>1, PieceType
<1> HIDE DEF Piece
<1>3. \A i \in 1 .. n : 0 + i = i
  OBVIOUS
<1> QED BY <1>2, <1>3

\* A sequence cut in two.
LEMMA Cut ==
  ASSUME NEW S, NEW s \in Seq(S), NEW n \in 0 .. Len(s)
  PROVE  /\ Piece(s, 0, n) \in Seq(S) /\ Len(Piece(s, 0, n)) = n
         /\ Piece(s, n, Len(s) - n) \in Seq(S) /\ Len(Piece(s, n, Len(s) - n)) = Len(s) - n
         /\ Piece(s, 0, n) \o Piece(s, n, Len(s) - n) = s
<1>1. /\ n \in Nat /\ n <= Len(s) /\ Len(s) - n \in Nat /\ n + (Len(s) - n) <= Len(s)
      /\ 1 \in 1 .. Len(s) + 1 /\ n \in 1 - 1 .. Len(s) /\ Len(s) \in n .. Len(s)
  BY LenProperties
<1>2. SubSeq(s, 1, n) \o SubSeq(s, n + 1, Len(s)) = SubSeq(s, 1, Len(s))
  BY <1>1, ConcatAdjacentSubSeq
<1>3. SubSeq(s, 1, Len(s)) = s
  BY SubSeqFull
<1>4. 0 + 1 = 1 /\ 0 + n = n /\ n + (Len(s) - n) = Len(s)
  BY <1>1
<1>5. Piece(s, 0, n) = SubSeq(s, 1, n) /\ Piece(s, n, Len(s) - n) = SubSeq(s, n + 1, Len(s))
  BY <1>4 DEF Piece
<1>6. Piece(s, 0, n) \in Seq(S) /\ Len(Piece(s, 0, n)) = n
  BY <1>1, PieceFront
<1>7. Piece(s, n, Len(s) - n) \in Seq(S) /\ Len(Piece(s, n, Len(s) - n)) = Len(s) - n
  BY <1>1, PieceType
<1> QED BY <1>2, <1>3, <1>5, <1>6, <1>7

\* What begins with a whole packet's first n units.
LEMMA SamePrefix ==
  ASSUME NEW S, NEW a \in Seq(S), NEW b \in Seq(S), NEW c \in Seq(S), NEW d \in Seq(S),
         a \o b = c \o d, Len(a) <= Len(c)
  PROVE  a = Piece(c, 0, Len(a))
<1>1. Len(a) \in Nat /\ Len(b) \in Nat /\ Len(c) \in Nat /\ Len(d) \in Nat
  BY LenProperties
<1>2. Piece(c, 0, Len(a)) \in Seq(S) /\ Len(Piece(c, 0, Len(a))) = Len(a)
      /\ \A i \in 1 .. Len(a) : Piece(c, 0, Len(a))[i] = c[i]
  BY <1>1, PieceFront
<1>3. ASSUME NEW i \in 1 .. Len(a) PROVE a[i] = c[i]
  <2>1. i \in 1 .. Len(a) + Len(b) /\ i \in 1 .. Len(c) + Len(d) /\ i <= Len(a) /\ i <= Len(c)
    BY <1>1
  <2>2. (a \o b)[i] = a[i]
    BY <2>1, ConcatProperties
  <2>3. (c \o d)[i] = c[i]
    BY <2>1, ConcatProperties
  <2> QED BY <2>2, <2>3
<1> DEFINE e == Piece(c, 0, Len(a))
<1>4. e \in Seq(S) /\ Len(e) = Len(a) /\ \A i \in 1 .. Len(a) : a[i] = e[i]
  BY <1>2, <1>3
<1> HIDE DEF e
<1>5. a = e
  BY <1>4, SeqEqual
<1> QED BY <1>5 DEF e

\* The first part of a concatenation is a prefix of it.
LEMMA PrefixOfConcat ==
  ASSUME NEW S, NEW a \in Seq(S), NEW b \in Seq(S)
  PROVE  IsPrefix(a, a \o b)
<1>1. Len(a) \in Nat /\ Len(b) \in Nat /\ a \o b \in Seq(S) /\ Len(a \o b) = Len(a) + Len(b)
  BY LenProperties, ConcatProperties
<1>2. a = Piece(a, 0, Len(a))
  BY PieceWhole
<1>3. (a \o b) \o <<>> = a \o b /\ <<>> \in Seq(S)
  BY <1>1, ConcatEmptySeq, EmptySeq
<1>4. a = Piece(a \o b, 0, Len(a))
  <2> DEFINE c == a \o b
  <2>1. c \in Seq(S) /\ a \o b = c \o <<>> /\ <<>> \in Seq(S) /\ Len(a) <= Len(c)
    BY <1>1, <1>3
  <2> HIDE DEF c
  <2>2. a = Piece(c, 0, Len(a))
    BY <2>1, SamePrefix
  <2> QED BY <2>2 DEF c
<1> QED BY <1>1, <1>2, <1>4 DEF IsPrefix, Piece

-----------------------------------------------------------------------------
\* The first unit of a header names its packet.
LEMMA HeaderFirst ==
  ASSUME NEW p \in Packets
  PROVE  Piece(Bytes(p), 0, HeaderLen)[1][1] = p
<1>1. HeaderLen \in Nat /\ 1 \in 1 .. HeaderLen /\ HeaderLen <= Size(p) /\ 1 \in 1 .. Size(p)
  BY SizeType DEF HeaderLen
<1>2. Piece(Bytes(p), 0, HeaderLen)[1] = Bytes(p)[1]
  BY <1>1, BytesType, PieceFront
<1>3. Bytes(p)[1] = <<p, 1>>
  BY <1>1, BytesType
<1> QED BY <1>2, <1>3

\* A header, real or not, carries an ID and a length.
LEMMA HeadersType ==
  ASSUME NEW s, NEW h \in Headers(s)
  PROVE  h.dwID \in Ids /\ h.dwLen \in Nat
<1>1. CASE \E p \in Packets : s = Piece(Bytes(p), 0, HeaderLen)
  <2>1. PICK p \in Packets : s = Piece(Bytes(p), 0, HeaderLen)
    BY <1>1
  <2>2. s[1][1] = p
    BY <2>1, HeaderFirst
  <2>3. h = [dwID |-> IdOf[p], dwLen |-> BodyLen[p]]
    BY <1>1, <2>2 DEF Headers
  <2> QED BY <2>3, PacketAssumption
<1>2. CASE ~\E p \in Packets : s = Piece(Bytes(p), 0, HeaderLen)
  BY <1>2, PacketAssumption DEF Headers
<1> QED BY <1>1, <1>2

\* A whole header of a packet says that packet's ID and length.
LEMMA HeadersOf ==
  ASSUME NEW p \in Packets
  PROVE  Headers(Piece(Bytes(p), 0, HeaderLen)) = {[dwID |-> IdOf[p], dwLen |-> BodyLen[p]]}
<1> DEFINE s == Piece(Bytes(p), 0, HeaderLen)
<1>1. s[1][1] = p
  BY HeaderFirst
<1>2. \E q \in Packets : s = Piece(Bytes(q), 0, HeaderLen)
  OBVIOUS
<1> HIDE DEF s
<1>3. Headers(s) = {[dwID |-> IdOf[p], dwLen |-> BodyLen[p]]}
  BY <1>1, <1>2 DEF Headers
<1> QED BY <1>3 DEF s

\* A RecvPacket holds a packet or none.
LEMMA HeldType == ASSUME NEW s PROVE Held(s) \in Packets \cup {NoPacket}
<1>1. ASSUME NEW p \in Packets, s = Bytes(p) PROVE s[1][1] = p
  BY <1>1, BytesType, SizeType DEF HeaderLen
<1> QED BY <1>1 DEF Held

\* The units of a packet are that packet.
LEMMA HeldOf == ASSUME NEW p \in Packets PROVE Held(Bytes(p)) = p
<1>1. Bytes(p)[1] = <<p, 1>>
  BY BytesType, SizeType DEF HeaderLen
<1>2. Held(Bytes(p)) = Bytes(p)[1][1]
  BY DEF Held
<1> QED BY <1>1, <1>2

-----------------------------------------------------------------------------
Blocks(ps) == [i \in 1 .. Len(ps) |-> Bytes(ps[i])]

\* The bytes of each of some packets.
LEMMA BlocksType ==
  ASSUME NEW ps \in Seq(Packets)
  PROVE  /\ Blocks(ps) \in Seq(Seq(Units)) /\ Len(Blocks(ps)) = Len(ps)
         /\ \A i \in 1 .. Len(ps) : Blocks(ps)[i] = Bytes(ps[i])
<1>1. Len(ps) \in Nat /\ \A i \in 1 .. Len(ps) : Bytes(ps[i]) \in Seq(Units)
  BY LenProperties, ElementOfSeq, BytesType
<1>2. Blocks(ps) \in [1 .. Len(ps) -> Seq(Units)]
  BY <1>1 DEF Blocks
<1> HIDE DEF Blocks
<1>3. Blocks(ps) \in Seq(Seq(Units)) /\ Len(Blocks(ps)) = Len(ps)
  BY <1>1, <1>2, LenProperties
<1> QED BY <1>3 DEF Blocks

\* What is laid out is units.
LEMMA LaidType == ASSUME NEW ps \in Seq(Packets) PROVE Laid(ps) \in Seq(Units)
BY BlocksType, FlatType DEF Laid, Blocks

\* No packets lay out to nothing.
LEMMA LaidEmpty == Laid(<<>>) = <<>>
<1>1. <<>> \in Seq(Packets) /\ Len(<<>>) = 0
  BY EmptySeq
<1>2. Blocks(<<>>) = <<>>
  BY <1>1, BlocksType, EmptySeq
<1> QED BY <1>2, FlatEmpty DEF Laid, Blocks

\* A packet more lays its bytes at the end.
LEMMA LaidAppend ==
  ASSUME NEW ps \in Seq(Packets), NEW p \in Packets
  PROVE  Laid(Append(ps, p)) = Laid(ps) \o Bytes(p)
<1> DEFINE qs == Append(ps, p)
<1>1. /\ qs \in Seq(Packets) /\ Len(qs) = Len(ps) + 1 /\ Len(ps) \in Nat
      /\ \A i \in 1 .. Len(ps) : qs[i] = ps[i]
      /\ qs[Len(ps) + 1] = p
  BY AppendProperties, LenProperties
<1> HIDE DEF qs
<1>2. Bytes(p) \in Seq(Units)
  BY BytesType
<1>3. Blocks(qs) = Append(Blocks(ps), Bytes(p))
  <2> DEFINE a == Blocks(qs)
             b == Append(Blocks(ps), Bytes(p))
  <2>1. a \in Seq(Seq(Units)) /\ Len(a) = Len(ps) + 1 /\ \A i \in 1 .. Len(ps) + 1 : a[i] = Bytes(qs[i])
    BY <1>1, BlocksType
  <2>2. /\ b \in Seq(Seq(Units)) /\ Len(b) = Len(ps) + 1 /\ b[Len(ps) + 1] = Bytes(p)
        /\ \A i \in 1 .. Len(ps) : b[i] = Bytes(ps[i])
    BY <1>2, BlocksType, AppendProperties
  <2> HIDE DEF a, b
  <2>3. ASSUME NEW i \in 1 .. Len(ps) + 1 PROVE a[i] = b[i]
    <3>1. CASE i = Len(ps) + 1
      BY <1>1, <2>1, <2>2, <3>1
    <3>2. CASE i # Len(ps) + 1
      <4>1. i \in 1 .. Len(ps)
        BY <1>1, <3>2
      <4> QED BY <1>1, <2>1, <2>2, <4>1
    <3> QED BY <3>1, <3>2
  <2>4. a = b
    BY <2>1, <2>2, <2>3, SeqEqual
  <2> QED BY <2>4 DEF a, b
<1>4. FlattenSeq(Append(Blocks(ps), Bytes(p))) = FlattenSeq(Blocks(ps)) \o Bytes(p)
  BY <1>2, BlocksType, FlatAppend
<1> QED BY <1>3, <1>4 DEF Laid, Blocks, qs

\* The first packet lies in front of the others.
LEMMA LaidHead ==
  ASSUME NEW ps \in Seq(Packets), ps # <<>>
  PROVE  Laid(ps) = Bytes(Head(ps)) \o Laid(Tail(ps))
<1>1. /\ Head(ps) = ps[1] /\ Tail(ps) \in Seq(Packets) /\ Len(Tail(ps)) = Len(ps) - 1
      /\ \A i \in 1 .. Len(Tail(ps)) : Tail(ps)[i] = ps[i + 1]
      /\ Len(ps) \in Nat \ {0}
  BY HeadTailProperties, EmptySeq
<1> DEFINE b == Blocks(ps)
           t == Blocks(Tail(ps))
<1>2. b \in Seq(Seq(Units)) /\ Len(b) = Len(ps) /\ \A i \in 1 .. Len(ps) : b[i] = Bytes(ps[i])
  BY BlocksType
<1>3. t \in Seq(Seq(Units)) /\ Len(t) = Len(ps) - 1 /\ \A i \in 1 .. Len(ps) - 1 : t[i] = Bytes(ps[i + 1])
  BY <1>1, BlocksType
<1> HIDE DEF b, t
<1>4. b # <<>>
  BY <1>1, <1>2, EmptySeq
<1>5. /\ Head(b) = Bytes(ps[1]) /\ Tail(b) \in Seq(Seq(Units)) /\ Len(Tail(b)) = Len(ps) - 1
      /\ \A i \in 1 .. Len(ps) - 1 : Tail(b)[i] = b[i + 1]
  BY <1>1, <1>2, <1>4, HeadTailProperties
<1>6. Tail(b) = t
  <2>1. \A i \in 1 .. Len(ps) - 1 : Tail(b)[i] = t[i]
    BY <1>1, <1>2, <1>3, <1>5
  <2> QED BY <1>3, <1>5, <2>1, SeqEqual
<1>7. FlattenSeq(b) = Head(b) \o FlattenSeq(Tail(b))
  BY <1>2, <1>4, FlatHead
<1> QED BY <1>1, <1>5, <1>6, <1>7 DEF Laid, Blocks, b, t

\* The packets sent after the first k.
LEMMA AfterType ==
  ASSUME NEW s \in Seq(Packets), NEW k \in Nat, k <= Len(s)
  PROVE  SubSeq(s, k + 1, Len(s)) \in Seq(Packets)
<1>1. \A i \in k + 1 .. Len(s) : s[i] \in Packets
  BY LenProperties
<1> QED BY <1>1, LenProperties, SubSeqProperties

\* A packet sent adds its bytes to what is unanswered.
LEMMA AfterAppend ==
  ASSUME NEW s \in Seq(Packets), NEW k \in Nat, k <= Len(s), NEW p \in Packets
  PROVE  Laid(SubSeq(Append(s, p), k + 1, Len(Append(s, p))))
           = Laid(SubSeq(s, k + 1, Len(s))) \o Bytes(p)
<1> DEFINE t == Append(s, p)
           a == SubSeq(s, k + 1, Len(s))
           b == SubSeq(t, k + 1, Len(t))
<1>1. /\ t \in Seq(Packets) /\ Len(t) = Len(s) + 1 /\ Len(s) \in Nat
      /\ \A i \in 1 .. Len(s) : t[i] = s[i]
      /\ t[Len(s) + 1] = p
  BY AppendProperties, LenProperties
<1> HIDE DEF t
<1>2. /\ a \in Seq(Packets) /\ Len(a) = Len(s) - k
      /\ \A i \in 1 .. Len(s) - k : a[i] = s[k + i]
  <2> DEFINE m == Len(s) - k
  <2>1. m \in Nat /\ k + m <= Len(s) /\ k + m = Len(s)
    BY <1>1
  <2> HIDE DEF m
  <2>2. /\ Piece(s, k, m) \in Seq(Packets) /\ Len(Piece(s, k, m)) = m
        /\ \A i \in 1 .. m : Piece(s, k, m)[i] = s[k + i]
    BY <2>1, PieceType
  <2>3. Piece(s, k, m) = a
    BY <2>1 DEF Piece
  <2> QED BY <2>2, <2>3 DEF m
<1>3. /\ b \in Seq(Packets) /\ Len(b) = Len(s) + 1 - k
      /\ \A i \in 1 .. Len(s) + 1 - k : b[i] = t[k + i]
  BY <1>1, PieceType, k + (Len(t) - k) = Len(t), Len(t) - k \in Nat DEF Piece
<1> HIDE DEF a, b
<1>4. b = Append(a, p)
  <2>1. /\ Append(a, p) \in Seq(Packets) /\ Len(Append(a, p)) = Len(a) + 1
        /\ \A i \in 1 .. Len(a) : Append(a, p)[i] = a[i]
        /\ Append(a, p)[Len(a) + 1] = p
    BY <1>2, AppendProperties
  <2>2. ASSUME NEW i \in 1 .. Len(b) PROVE b[i] = Append(a, p)[i]
    <3>1. CASE i = Len(a) + 1
      BY <1>1, <1>2, <1>3, <2>1, <3>1
    <3>2. CASE i # Len(a) + 1
      <4>1. i \in 1 .. Len(a) /\ k + i \in 1 .. Len(s)
        <5>1. i \in 1 .. Len(s) + 1 - k /\ i # Len(s) - k + 1 /\ Len(a) = Len(s) - k
          BY <1>2, <1>3, <3>2
        <5> QED BY <1>1, <5>1
      <4> QED BY <1>1, <1>2, <1>3, <2>1, <4>1
    <3> QED BY <3>1, <3>2
  <2>3. Len(b) = Len(Append(a, p))
    BY <1>1, <1>2, <1>3, <2>1
  <2> QED BY <1>3, <2>1, <2>2, <2>3, SeqEqual
<1> QED BY <1>2, <1>4, LaidAppend DEF a, b, t

\* The first packet not answered lies in front.
LEMMA AfterHead ==
  ASSUME NEW s \in Seq(Packets), NEW k \in Nat, k < Len(s)
  PROVE  Laid(SubSeq(s, k + 1, Len(s)))
           = Bytes(s[k + 1]) \o Laid(SubSeq(s, (k + 1) + 1, Len(s)))
<1> DEFINE a == SubSeq(s, k + 1, Len(s))
<1>1. k + 1 \in 1 .. Len(s) /\ Len(s) \in k + 1 .. Len(s)
  BY LenProperties
<1>2. Head(a) = s[k + 1] /\ Tail(a) = SubSeq(s, (k + 1) + 1, Len(s))
  BY <1>1, HeadTailOfSubSeq
<1>3. a \in Seq(Packets) /\ Len(a) = Len(s) - k
  BY <1>1, PieceType, k + (Len(s) - k) = Len(s), Len(s) - k \in Nat DEF Piece
<1> HIDE DEF a
<1>4. a # <<>>
  BY <1>1, <1>3, EmptySeq
<1> QED BY <1>2, <1>3, <1>4, LaidHead DEF a

\* When every packet is answered nothing lies between.
LEMMA AfterAll ==
  ASSUME NEW s \in Seq(Packets)
  PROVE  Laid(SubSeq(s, Len(s) + 1, Len(s))) = <<>>
<1>1. Len(s) \in Nat /\ Len(s) < Len(s) + 1
  BY LenProperties
<1>2. SubSeq(s, Len(s) + 1, Len(s)) = <<>>
  BY <1>1, SubSeqEmpty
<1> QED BY <1>2, LaidEmpty

-----------------------------------------------------------------------------
(* Types and the stages of RecvPacket                                      *)

\* The packet to answer next.
First == sent[Len(answers) + 1]

\* The types, and what each stage of SendPacket and RecvPacket implies.
Shape ==
  /\ TypeOK
  /\ \A s \in Senders : packet[s] = NoPacket => tTotalSent[s] = 0
  /\ stage # "none" => asked \in Ids
  /\ stage \in {"none", "peek"} => got = <<>>
  /\ stage = "peek" => protocol = "bin"
  /\ stage \in {"header", "headerRead"} => want = HeaderLen
  /\ stage \in {"headerRead", "bodyRead"} => Len(got) = want

Faults == {NoFault, "cut", "mixed", "short"}

\* No units are units.
LEMMA EmptyUnits == <<>> \in Seq(Units) /\ Len(<<>>) = 0
BY EmptySeq

\* A RecvPacket that returns leaves the stages as they should be.
LEMMA ReturnsShape ==
  ASSUME Shape, RecvReturns,
         UNCHANGED <<protocol, dwTimeOut, open, packet, tTotalSent, sent>>,
         wire' \in Seq(Units), Len(wire') <= Room, fault' \in Faults,
         answers' \in Seq([packet : Packets \cup {NoPacket}, asked : Ids, ok : BOOLEAN])
  PROVE  Shape'
BY EmptyUnits DEF Shape, TypeOK, RecvReturns, Units, Faults

\* The bounds of what one send or recv moves.
LEMMA Smallest ==
  ASSUME NEW a \in Int, NEW b \in Int, NEW n \in 1 .. Smaller(a, b)
  PROVE  n \in Nat /\ n >= 1 /\ n <= a /\ n <= b
BY DEF Smaller

\* Every step preserves the types and the stages.
LEMMA ShapeStep == ASSUME Shape, Next PROVE Shape'
<1> USE DEF Shape
<1>0. /\ wire \in Seq(Units) /\ got \in Seq(Units) /\ Len(wire) \in Nat /\ Len(got) \in Nat
      /\ fault \in Faults /\ Len(wire) <= Room /\ Room \in Nat /\ want \in Nat
  BY LenProperties, PacketAssumption DEF TypeOK, Units, Faults
<1>1. ASSUME NEW s \in Senders, NEW p \in Packets, SendPacket(s, p) PROVE Shape'
  BY <1>1, SizeType, PacketAssumption DEF SendPacket, TypeOK, setting, receiving, history, Size, HeaderLen
<1>2. ASSUME NEW s \in Senders, SendSome(s) PROVE Shape'
  <2> DEFINE p == packet[s]
  <2>1. p \in Packets /\ tTotalSent[s] \in Nat /\ Size(p) \in Nat /\ tTotalSent[s] < Size(p)
    BY <1>2, SizeType DEF SendSome, TypeOK
  <2>2. PICK n \in 1 .. Smaller(Size(packet[s]) - tTotalSent[s], Room - Len(wire)) :
          /\ wire' = IF open THEN wire \o NextPiece(s, n) ELSE wire
          /\ \/ /\ tTotalSent[s] + n = Size(packet[s])
                /\ SendReturns(s)
                /\ Record(OthersMidPacket(s), "mixed")
             \/ /\ tTotalSent[s] + n < Size(packet[s])
                /\ tTotalSent' = [tTotalSent EXCEPT ![s] = @ + n]
                /\ Record(OthersMidPacket(s), "mixed")
                /\ UNCHANGED packet
             \/ /\ tTotalSent[s] + n < Size(packet[s])
                /\ SendReturns(s)
                /\ Record(TRUE, "cut")
    BY <1>2 DEF SendSome
  <2>3. n \in Nat /\ n >= 1 /\ n <= Size(p) - tTotalSent[s] /\ n <= Room - Len(wire)
    BY <1>0, <2>1, Smallest
  <2>4. NextPiece(s, n) \in Seq(Units) /\ Len(NextPiece(s, n)) = n
    BY <2>1, <2>3, BytesType, PieceType DEF NextPiece
  <2>5. wire' \in Seq(Units) /\ Len(wire') <= Room
    <3>1. wire \o NextPiece(s, n) \in Seq(Units) /\ Len(wire \o NextPiece(s, n)) = Len(wire) + n
      BY <1>0, <2>4, ConcatProperties
    <3> QED BY <1>0, <2>2, <2>3, <3>1
  <2>6. fault' \in Faults
    BY <1>0, <2>2 DEF Record, Faults
  <2>7. /\ packet' \in [Senders -> Packets \cup {NoPacket}] /\ tTotalSent' \in [Senders -> Nat]
        /\ \A u \in Senders : packet'[u] # NoPacket => tTotalSent'[u] < Size(packet'[u])
        /\ \A u \in Senders : packet'[u] = NoPacket => tTotalSent'[u] = 0
    <3>1. CASE SendReturns(s)
      BY <3>1 DEF SendReturns, TypeOK
    <3>2. CASE ~SendReturns(s)
      <4>1. packet' = packet /\ tTotalSent' = [tTotalSent EXCEPT ![s] = @ + n]
            /\ tTotalSent[s] + n < Size(p)
        BY <2>2, <3>2
      <4>2. tTotalSent' \in [Senders -> Nat] /\ tTotalSent'[s] = tTotalSent[s] + n
            /\ \A u \in Senders : u # s => tTotalSent'[u] = tTotalSent[u]
        BY <2>1, <2>3, <4>1 DEF TypeOK
      <4>3. p # NoPacket
        BY <2>1, PacketAssumption
      <4> QED BY <4>1, <4>2, <4>3 DEF TypeOK
    <3> QED BY <3>1, <3>2
  <2>8. sent' \in Seq(Packets)
    BY <1>2, <2>1, AppendProperties DEF SendSome, TypeOK
  <2>9. UNCHANGED <<setting, open, receiving, answers>>
    BY <1>2 DEF SendSome
  <2> HIDE DEF p
  <2> QED BY <2>5, <2>6, <2>7, <2>8, <2>9 DEF TypeOK, setting, receiving, Units, Faults
<1>3. ASSUME NEW s \in Senders, SendTimesOut(s) PROVE Shape'
  <2>1. fault' \in Faults
    BY <1>0, <1>3 DEF SendTimesOut, Record, Faults
  <2> QED BY <1>3, <2>1 DEF SendTimesOut, SendReturns, TypeOK, setting, receiving, Faults
<1>4. ASSUME NEW s \in Senders, SendFails(s) PROVE Shape'
  BY <1>4 DEF SendFails, SendReturns, TypeOK, setting, receiving, history
<1>5. CASE PeekHeader
  <2>1. seen' \in Ids
    BY <1>5, HeadersType DEF PeekHeader
  <2> QED BY <1>5, <2>1 DEF PeekHeader, TypeOK, setting, sending, history
<1>6. ASSUME NEW id \in Ids, RecvPacket(id) PROVE Shape'
  <2>1. got = <<>> /\ Len(got) = 0
    BY <1>6, EmptyUnits DEF RecvPacket
  <2>2. protocol \in {"bin", "json"}
    BY PacketAssumption DEF TypeOK
  <2>3. /\ stage' \in {"peek", "header"} /\ (stage' = "peek" => protocol = "bin")
        /\ want' \in Nat /\ (stage' = "header" => want' = HeaderLen)
        /\ asked' = id
        /\ UNCHANGED <<setting, open, wire, sending, headerID, got, seen, history>>
    BY <1>6, <2>2 DEF RecvPacket, HeaderLen
  <2> QED BY <1>6, <2>1, <2>3 DEF TypeOK, setting, sending, history
<1>7. CASE BinPeek
  <2>1. PICK n \in 1 .. Smaller(HeaderLen, Len(wire)) :
          /\ \E h \in Headers(Piece(wire, 0, n)) : want' = HeaderLen + h.dwLen
          /\ Record(n < HeaderLen, "short")
    BY <1>7 DEF BinPeek
  <2>2. want' \in Nat
    BY <2>1, HeadersType DEF HeaderLen
  <2>3. fault' \in Faults
    BY <1>0, <2>1 DEF Record, Faults
  <2>4. got = <<>> /\ Len(got) = 0
    BY <1>7, EmptyUnits DEF BinPeek
  <2> QED BY <1>7, <2>2, <2>3, <2>4 DEF BinPeek, TypeOK, setting, sending, Faults
<1>8. CASE BinPeekTimesOut
  <2>1. /\ RecvReturns
        /\ UNCHANGED <<protocol, dwTimeOut, open, packet, tTotalSent, sent, wire, fault, answers>>
    BY <1>8 DEF BinPeekTimesOut, setting, sending, history
  <2> QED BY <1>0, <2>1, ReturnsShape DEF TypeOK
<1>9. CASE RecvSome
  <2>1. PICK n \in 1 .. Smaller(Remained, Len(wire)) :
          /\ wire' = Piece(wire, n, Len(wire) - n)
          /\ \/ /\ n = Remained
                /\ stage' = Complete /\ got' = got \o Piece(wire, 0, n)
                /\ UNCHANGED <<asked, headerID, want, seen, fault>>
             \/ /\ n < Remained
                /\ got' = got \o Piece(wire, 0, n)
                /\ UNCHANGED <<stage, asked, headerID, want, seen, fault>>
             \/ /\ n < Remained
                /\ RecvReturns
                /\ Record(TRUE, "cut")
    BY <1>9 DEF RecvSome
  <2>2. n \in Nat /\ n >= 1 /\ n <= want - Len(got) /\ n <= Len(wire)
    BY <1>0, Smallest DEF Remained
  <2>3. /\ Piece(wire, 0, n) \in Seq(Units) /\ Len(Piece(wire, 0, n)) = n
        /\ wire' \in Seq(Units) /\ Len(wire') = Len(wire) - n
    BY <1>0, <2>1, <2>2, Cut, n \in 0 .. Len(wire)
  <2>4. /\ got \o Piece(wire, 0, n) \in Seq(Units)
        /\ Len(got \o Piece(wire, 0, n)) = Len(got) + n
    <3> DEFINE t == Piece(wire, 0, n)
    <3>1. t \in Seq(Units) /\ Len(t) = n /\ got \in Seq(Units)
      BY <1>0, <2>3
    <3> HIDE DEF t
    <3>2. got \o t \in Seq(Units) /\ Len(got \o t) = Len(got) + Len(t)
      BY <3>1, ConcatProperties
    <3> QED BY <3>1, <3>2 DEF t
  <2>5. UNCHANGED <<setting, open, sending, sent, answers>> /\ stage \in {"header", "body"}
    BY <1>9 DEF RecvSome, Reading
  <2>10. ASSUME /\ got' = got \o Piece(wire, 0, n)
                /\ UNCHANGED <<asked, headerID, want, seen, fault>>
                /\ \/ stage' = Complete /\ n = Remained
                   \/ stage' = stage
         PROVE  Shape'
    <3>1. got' \in Seq(Units) /\ Len(got') = Len(got) + n /\ Len(got') <= want
          /\ (n = Remained => Len(got') = want)
      BY <1>0, <2>2, <2>4, <2>10 DEF Remained
    <3>2. stage' \in {"header", "body", "headerRead", "bodyRead"}
          /\ (stage' \in {"headerRead", "bodyRead"} => n = Remained)
          /\ (stage' \in {"header", "headerRead"} => stage = "header")
      BY <2>5, <2>10 DEF Complete
    <3>3. wire' \in Seq(Units) /\ Len(wire') <= Room
      BY <1>0, <2>2, <2>3
    <3> QED BY <2>5, <2>10, <3>1, <3>2, <3>3 DEF TypeOK, setting, sending, Units
  <2>6. CASE /\ n = Remained
             /\ stage' = Complete /\ got' = got \o Piece(wire, 0, n)
             /\ UNCHANGED <<asked, headerID, want, seen, fault>>
    BY <2>6, <2>10
  <2>7. CASE /\ n < Remained
             /\ got' = got \o Piece(wire, 0, n)
             /\ UNCHANGED <<stage, asked, headerID, want, seen, fault>>
    BY <2>7, <2>10
  <2>8. CASE RecvReturns /\ Record(TRUE, "cut")
    <3>1. fault' \in Faults
      BY <1>0, <2>8 DEF Record, Faults
    <3>2. answers' \in Seq([packet : Packets \cup {NoPacket}, asked : Ids, ok : BOOLEAN])
      BY <2>5 DEF TypeOK
    <3>3. UNCHANGED <<protocol, dwTimeOut, open, packet, tTotalSent, sent>>
      BY <2>5 DEF setting, sending
    <3>4. Len(wire') <= Room
      BY <1>0, <2>2, <2>3
    <3> QED BY <2>3, <2>8, <3>1, <3>2, <3>3, <3>4, ReturnsShape
  <2> QED BY <2>1, <2>6, <2>7, <2>8
<1>10. CASE RecvTimesOut
  <2>1. fault' \in Faults
    BY <1>0, <1>10 DEF RecvTimesOut, Record, Faults
  <2>2. /\ RecvReturns
        /\ UNCHANGED <<protocol, dwTimeOut, open, packet, tTotalSent, sent, wire, answers>>
    BY <1>10 DEF RecvTimesOut, setting, sending
  <2> QED BY <1>0, <2>1, <2>2, ReturnsShape DEF TypeOK
<1>11. CASE RecvFails
  <2>1. /\ RecvReturns
        /\ UNCHANGED <<protocol, dwTimeOut, open, packet, tTotalSent, sent, wire, fault, answers>>
    BY <1>11 DEF RecvFails, setting, sending, history
  <2> QED BY <1>0, <2>1, ReturnsShape DEF TypeOK
<1>12. ASSUME NEW q \in Packets \cup {NoPacket}, NEW ok \in BOOLEAN, Answer(q, ok), stage # "none"
       PROVE  Shape'
  <2>1. [packet |-> q, asked |-> asked, ok |-> ok]
           \in [packet : Packets \cup {NoPacket}, asked : Ids, ok : BOOLEAN]
    BY <1>12
  <2>2. answers' \in Seq([packet : Packets \cup {NoPacket}, asked : Ids, ok : BOOLEAN])
    BY <1>12, <2>1, AppendProperties DEF Answer, TypeOK
  <2>3. /\ RecvReturns
        /\ UNCHANGED <<protocol, dwTimeOut, open, packet, tTotalSent, sent, wire, fault>>
    BY <1>12 DEF Answer, setting, sending
  <2> QED BY <1>0, <2>2, <2>3, ReturnsShape
<1>13. CASE JsonHeader
  <2>1. PICK h \in Headers(got) :
          \/ /\ h.dwLen = 0
             /\ Answer(NoPacket, TRUE)
          \/ /\ h.dwLen > 0
             /\ stage' = "body" /\ headerID' = h.dwID /\ want' = HeaderLen + h.dwLen
             /\ UNCHANGED <<setting, open, wire, sending, asked, got, seen, history>>
    BY <1>13 DEF JsonHeader
  <2>2. h.dwID \in Ids /\ h.dwLen \in Nat /\ stage = "headerRead"
    BY <1>13, HeadersType DEF JsonHeader
  <2>3. CASE Answer(NoPacket, TRUE)
    BY <1>12, <2>2, <2>3
  <2>4. CASE /\ stage' = "body" /\ headerID' = h.dwID /\ want' = HeaderLen + h.dwLen
             /\ UNCHANGED <<setting, open, wire, sending, asked, got, seen, history>>
    BY <1>0, <2>2, <2>4 DEF TypeOK, setting, sending, history, HeaderLen
  <2> QED BY <2>1, <2>3, <2>4
<1>14. CASE JsonBody
  <2>1. \E q \in Packets \cup {NoPacket}, ok \in BOOLEAN : Answer(q, ok)
    BY <1>14, HeldType DEF JsonBody
  <2> QED BY <1>12, <1>14, <2>1 DEF JsonBody
<1>15. CASE BinBody
  <2>1. \E q \in Packets \cup {NoPacket}, ok \in BOOLEAN : Answer(q, ok)
    BY <1>15, HeldType DEF BinBody
  <2> QED BY <1>12, <1>15, <2>1 DEF BinBody
<1>16. CASE Break
  <2>1. PICK n \in 0 .. Len(wire) : wire' = Piece(wire, 0, n)
    BY <1>16 DEF Break
  <2>2. wire' \in Seq(Units) /\ Len(wire') <= Room
    BY <1>0, <2>1, Cut
  <2> QED BY <1>16, <2>2 DEF Break, TypeOK, setting, sending, receiving, history, Units
<1> QED BY <1>1, <1>2, <1>3, <1>4, <1>5, <1>6, <1>7, <1>8, <1>9, <1>10, <1>11, <1>13, <1>14,
           <1>15, <1>16 DEF Next, Send, Recv

-----------------------------------------------------------------------------
(* The line between the ends                                               *)

\* The equation; only its left part when the connection is broken.
Line == \E rest \in Seq(Units) : /\ (got \o wire) \o rest = Laid(Unanswered)
                                 /\ open => rest = ToCome
\* Senders do not interleave the pieces of their packets.
OneMid == \A s, u \in Senders : MidPacket(s) /\ MidPacket(u) => s = u
Ordered == /\ Len(answers) <= Len(sent)
           /\ \A i \in DOMAIN answers :
                /\ answers[i].packet = sent[i]
                /\ answers[i].ok <=> IdOf[sent[i]] = answers[i].asked
           /\ seen # NoId => /\ Len(answers) < Len(sent)
                             /\ seen = IdOf[First]
\* While it reads a body, RecvPacket reads that of the packet to answer next.
InBody == stage \in {"body", "bodyRead"} =>
            /\ Len(answers) < Len(sent) /\ want = Size(First)
            /\ protocol = "json" => headerID = IdOf[First]
\* What holds until something goes wrong with the stream.
Clean == OneMid /\ Line /\ Ordered /\ InBody

\* What a sender has left of its packet.
RestOf(s) == Piece(Bytes(packet[s]), tTotalSent[s], Size(packet[s]) - tTotalSent[s])

\* The types of the sequences, and what follows of their lengths.
LEMMA Typed ==
  ASSUME Shape
  PROVE  /\ wire \in Seq(Units) /\ got \in Seq(Units) /\ Len(wire) \in Nat /\ Len(got) \in Nat
         /\ sent \in Seq(Packets) /\ Len(sent) \in Nat
         /\ answers \in Seq([packet : Packets \cup {NoPacket}, asked : Ids, ok : BOOLEAN])
         /\ Len(answers) \in Nat /\ DOMAIN answers = 1 .. Len(answers)
         /\ got \o wire \in Seq(Units) /\ Len(got \o wire) = Len(got) + Len(wire)
         /\ \A i \in 1 .. Len(sent) : sent[i] \in Packets
<1>1. wire \in Seq(Units) /\ got \in Seq(Units) /\ sent \in Seq(Packets)
      /\ answers \in Seq([packet : Packets \cup {NoPacket}, asked : Ids, ok : BOOLEAN])
  BY DEF Shape, TypeOK, Units
<1>2. \A i \in 1 .. Len(sent) : sent[i] \in Packets
  BY <1>1, LenProperties
<1>3. Len(wire) \in Nat /\ Len(got) \in Nat /\ Len(sent) \in Nat
  BY <1>1, LenProperties
<1>4. Len(answers) \in Nat /\ DOMAIN answers = 1 .. Len(answers)
  BY <1>1, LenProperties
<1> QED BY <1>1, <1>2, <1>3, <1>4, ConcatProperties

\* What is not answered lays out to units.
LEMMA UnansweredType ==
  ASSUME Shape, Len(answers) <= Len(sent)
  PROVE  Unanswered \in Seq(Packets) /\ Laid(Unanswered) \in Seq(Units)
BY Typed, AfterType, LaidType DEF Unanswered

\* What a sender has left of its packet is units.
LEMMA RestType ==
  ASSUME Shape, NEW s \in Senders, packet[s] # NoPacket
  PROVE  /\ packet[s] \in Packets /\ tTotalSent[s] \in Nat /\ Size(packet[s]) \in Nat
         /\ tTotalSent[s] < Size(packet[s])
         /\ RestOf(s) \in Seq(Units)
<1>1. /\ packet[s] \in Packets /\ tTotalSent[s] \in Nat /\ tTotalSent[s] < Size(packet[s])
  BY DEF Shape, TypeOK
<1>2. Size(packet[s]) \in Nat
  BY <1>1, SizeType
<1>3. /\ Bytes(packet[s]) \in Seq(Units) /\ Len(Bytes(packet[s])) = Size(packet[s])
      /\ Size(packet[s]) - tTotalSent[s] \in Nat
      /\ tTotalSent[s] + (Size(packet[s]) - tTotalSent[s]) <= Size(packet[s])
  BY <1>1, <1>2, BytesType
<1>4. RestOf(s) \in Seq(Units)
  BY <1>1, <1>3, PieceType DEF RestOf
<1> QED BY <1>1, <1>2, <1>4

\* Nothing is to come when no sender is in the middle of a packet,
LEMMA ToComeNone ==
  ASSUME \A s \in Senders : ~MidPacket(s)
  PROVE  ToCome = <<>>
<1>1. {s \in Senders : MidPacket(s)} = {}
  OBVIOUS
<1> QED BY <1>1 DEF ToCome

\* also after a step.
LEMMA ToComeNoneNext ==
  ASSUME \A s \in Senders : ~MidPacket(s)'
  PROVE  ToCome' = <<>>
<1>1. {s \in Senders : MidPacket(s)'} = {}
  OBVIOUS
<1> QED BY <1>1 DEF ToCome

\* What is to come is what the only sender in the middle of a packet has left,
LEMMA ToComeOne ==
  ASSUME NEW s \in Senders, MidPacket(s), \A u \in Senders : MidPacket(u) => u = s
  PROVE  ToCome = RestOf(s)
<1>1. {u \in Senders : MidPacket(u)} = {s}
  OBVIOUS
<1>2. (CHOOSE u \in {s} : TRUE) = s
  OBVIOUS
<1> QED BY <1>1, <1>2, Zenon DEF ToCome, RestOf

\* also after a step.
LEMMA ToComeOneNext ==
  ASSUME NEW s \in Senders, MidPacket(s)', \A u \in Senders : MidPacket(u)' => u = s
  PROVE  ToCome' = RestOf(s)'
<1>1. {u \in Senders : MidPacket(u)'} = {s}
  OBVIOUS
<1>2. (CHOOSE u \in {s} : TRUE) = s
  OBVIOUS
<1> QED BY <1>1, <1>2, Zenon DEF ToCome, RestOf

\* A step that moves no sender on leaves what is to come as it is.
LEMMA ToComeSame ==
  ASSUME OneMid, tTotalSent' = tTotalSent,
         \A s \in Senders : MidPacket(s) => packet'[s] = packet[s]
  PROVE  ToCome' = ToCome
<1>1. \A s \in Senders : MidPacket(s)' <=> MidPacket(s)
  BY DEF MidPacket
<1>2. CASE \A s \in Senders : ~MidPacket(s)
  BY <1>1, <1>2, ToComeNone, ToComeNoneNext
<1>3. CASE \E s \in Senders : MidPacket(s)
  <2>1. PICK s \in Senders : MidPacket(s)
    BY <1>3
  <2>2. ToCome = RestOf(s)
    BY <2>1, ToComeOne DEF OneMid
  <2>3. ToCome' = RestOf(s)'
    BY <1>1, <2>1, ToComeOneNext DEF OneMid
  <2>4. RestOf(s)' = RestOf(s)
    BY <2>1 DEF RestOf
  <2> QED BY <2>2, <2>3, <2>4
<1> QED BY <1>2, <1>3

\* Such a step lets no second sender into the middle of a packet.
LEMMA OneMidSame ==
  ASSUME OneMid, tTotalSent' = tTotalSent
  PROVE  OneMid'
BY DEF OneMid, MidPacket

\* When units lie between the ends some packet is not answered.
LEMMA NotEmpty ==
  ASSUME Shape, Line, Len(answers) <= Len(sent), got # <<>> \/ wire # <<>>
  PROVE  Len(answers) < Len(sent) /\ First \in Packets
<1>1. PICK rest \in Seq(Units) : (got \o wire) \o rest = Laid(Unanswered)
  BY DEF Line
<1>2. Laid(Unanswered) # <<>>
  BY <1>1, Typed, ConcatEqualIffEmpty
<1>3. Len(answers) # Len(sent)
  BY <1>2, Typed, AfterAll DEF Unanswered
<1> QED BY <1>3, Typed DEF First

\* The first packet not answered lies in front of the line.
LEMMA LineHead ==
  ASSUME Shape, Len(answers) < Len(sent)
  PROVE  /\ First \in Packets /\ Bytes(First) \in Seq(Units) /\ Len(Bytes(First)) = Size(First)
         /\ Laid(SubSeq(sent, (Len(answers) + 1) + 1, Len(sent))) \in Seq(Units)
         /\ Laid(Unanswered) = Bytes(First) \o Laid(SubSeq(sent, (Len(answers) + 1) + 1, Len(sent)))
<1>1. First \in Packets
  BY Typed DEF First
<1>2. SubSeq(sent, (Len(answers) + 1) + 1, Len(sent)) \in Seq(Packets)
  BY Typed, AfterType
<1>3. Laid(Unanswered) = Bytes(First) \o Laid(SubSeq(sent, (Len(answers) + 1) + 1, Len(sent)))
  BY Typed, AfterHead DEF Unanswered, First
<1> QED BY <1>1, <1>2, <1>3, LaidType, BytesType

\* What is first on the line is the front of the first packet not answered.
LEMMA FrontIs ==
  ASSUME Shape, Line, Len(answers) < Len(sent),
         NEW a \in Seq(Units), NEW b \in Seq(Units), got \o wire = a \o b, Len(a) <= Size(First)
  PROVE  a = Piece(Bytes(First), 0, Len(a))
<1>1. PICK rest \in Seq(Units) : (got \o wire) \o rest = Laid(Unanswered)
  BY DEF Line
<1>2. a \o (b \o rest) = Laid(Unanswered) /\ b \o rest \in Seq(Units)
  <2>1. (a \o b) \o rest = a \o (b \o rest)
    BY ConcatAssociative
  <2>2. b \o rest \in Seq(Units)
    BY ConcatProperties
  <2> QED BY <1>1, <2>1, <2>2
<1> QED BY <1>2, LineHead, SamePrefix

\* The line is the same when the units only move from wire to got.
LEMMA LineKept ==
  ASSUME Line, got' \o wire' = got \o wire, open' = open, sent' = sent, answers' = answers,
         open' => ToCome' = ToCome
  PROVE  Line'
BY DEF Line, Unanswered

\* On a broken connection any prefix of what was laid out will do.
LEMMA LineBroken ==
  ASSUME ~open', sent' = sent, answers' = answers, Len(answers) <= Len(sent), Shape,
         NEW a \in Seq(Units), (got' \o wire') \o a = Laid(Unanswered)
  PROVE  Line'
BY DEF Line, Unanswered

-----------------------------------------------------------------------------
(* The sending end                                                         *)

\* A step that moves no units and no sender keeps the line.
LEMMA ReceiverIdle ==
  ASSUME Clean, UNCHANGED <<open, packet, tTotalSent, sent, answers, got, wire>>
  PROVE  Line' /\ OneMid'
<1>1. ToCome' = ToCome
  BY ToComeSame DEF Clean
<1>2. got' \o wire' = got \o wire
  OBVIOUS
<1> QED BY <1>1, <1>2, LineKept, OneMidSame DEF Clean

\* Calling SendPacket sends nothing yet.
LEMMA SendPacketClean ==
  ASSUME Shape, Clean, NEW s \in Senders, NEW p \in Packets, SendPacket(s, p)
  PROVE  Clean'
<1>1. \A u \in Senders : MidPacket(u) => packet'[u] = packet[u]
  <2>1. ~MidPacket(s)
    BY DEF SendPacket, Shape, MidPacket
  <2> QED BY <2>1 DEF SendPacket, Shape, TypeOK
<1>2. UNCHANGED <<open, wire, got, tTotalSent, sent, answers, seen, stage, want, headerID, protocol>>
  BY DEF SendPacket, setting, receiving, history
<1>3. ToCome' = ToCome /\ OneMid'
  BY <1>1, <1>2, ToComeSame, OneMidSame DEF Clean
<1>4. Line'
  BY <1>2, <1>3, LineKept DEF Clean
<1> QED BY <1>2, <1>3, <1>4 DEF Clean, Ordered, InBody, First

\* What SendSome takes belongs to the packet the stream waits for, or starts a new one.
LEMMA SendLays ==
  ASSUME Shape, Clean, NEW s \in Senders, packet[s] # NoPacket, ~OthersMidPacket(s),
         sent' = IF MidPacket(s) THEN sent ELSE Append(sent, packet[s]), answers' = answers
  PROVE  \E rest \in Seq(Units) : /\ (got \o wire) \o rest = Laid(Unanswered)'
                                  /\ open => rest = RestOf(s)
<1>1. PICK rest \in Seq(Units) : (got \o wire) \o rest = Laid(Unanswered) /\ (open => rest = ToCome)
  BY DEF Clean, Line
<1>2. packet[s] \in Packets /\ RestOf(s) \in Seq(Units)
  BY RestType
<1>3. CASE MidPacket(s)
  <2>1. ToCome = RestOf(s)
    BY <1>3, ToComeOne DEF OthersMidPacket
  <2> QED BY <1>1, <1>3, <2>1 DEF Unanswered
<1>4. CASE ~MidPacket(s)
  <2>1. tTotalSent[s] = 0
    BY <1>2, <1>4 DEF Shape, TypeOK, MidPacket
  <2>2. RestOf(s) = Bytes(packet[s])
    <3>1. /\ Bytes(packet[s]) \in Seq(Units)
          /\ Len(Bytes(packet[s])) = Size(packet[s]) /\ Size(packet[s]) \in Nat
      BY <1>2, BytesType, SizeType
    <3>2. Piece(Bytes(packet[s]), 0, Size(packet[s])) = Bytes(packet[s])
      BY <3>1, PieceWhole
    <3>3. Size(packet[s]) - 0 = Size(packet[s])
      BY <3>1
    <3> QED BY <2>1, <3>2, <3>3 DEF RestOf
  <2>3. ToCome = <<>>
    BY <1>4, ToComeNone DEF OthersMidPacket
  <2>4. Laid(Unanswered)' = Laid(Unanswered) \o Bytes(packet[s])
    BY <1>2, <1>4, Typed, AfterAppend DEF Unanswered, Clean, Ordered
  <2>5. ((got \o wire) \o rest) \o Bytes(packet[s]) = (got \o wire) \o (rest \o Bytes(packet[s]))
    <3> DEFINE a == got \o wire
    <3>1. a \in Seq(Units) /\ rest \in Seq(Units) /\ Bytes(packet[s]) \in Seq(Units)
      BY <1>2, <2>2, Typed
    <3> HIDE DEF a
    <3>2. (a \o rest) \o Bytes(packet[s]) = a \o (rest \o Bytes(packet[s]))
      BY <3>1, ConcatAssociative
    <3> QED BY <3>2 DEF a
  <2>6. rest \o Bytes(packet[s]) \in Seq(Units)
    BY <1>2, <2>2, ConcatProperties
  <2>7. open => rest \o Bytes(packet[s]) = RestOf(s)
    BY <1>1, <1>2, <2>2, <2>3, ConcatEmptySeq
  <2>8. (got \o wire) \o (rest \o Bytes(packet[s])) = Laid(Unanswered)'
    BY <1>1, <2>4, <2>5
  <2> QED BY <2>6, <2>7, <2>8
<1> QED BY <1>3, <1>4

\* Answers are not affected by a send.
LEMMA OrderedSend ==
  ASSUME Shape, Ordered, InBody, sent' = sent \/ \E p \in Packets : sent' = Append(sent, p),
         UNCHANGED <<answers, seen, stage, want, headerID, protocol>>
  PROVE  Ordered' /\ InBody'
<1>1. CASE sent' = sent
  BY <1>1 DEF Ordered, InBody, First
<1>2. CASE \E p \in Packets : sent' = Append(sent, p)
  <2>1. Len(sent') = Len(sent) + 1 /\ \A i \in 1 .. Len(sent) : sent'[i] = sent[i]
    BY <1>2, Typed, AppendProperties
  <2>2. Len(answers) < Len(sent) => Len(answers') < Len(sent') /\ First' = First
    BY <2>1, Typed DEF First
  <2>3. Len(answers) <= Len(sent) /\ Len(answers') <= Len(sent')
    BY <2>1, Typed DEF Ordered
  <2>4. \A i \in DOMAIN answers : sent'[i] = sent[i]
    <3>1. \A i \in DOMAIN answers : i \in 1 .. Len(sent)
      BY <2>3, Typed
    <3> QED BY <2>1, <3>1
  <2> QED BY <2>2, <2>3, <2>4 DEF Ordered, InBody
<1> QED BY <1>1, <1>2

\* A send moves units of the packet onto the wire.
LEMMA SendSomeClean ==
  ASSUME Shape, Clean, NEW s \in Senders, SendSome(s), fault = NoFault, fault' = NoFault
  PROVE  Clean'
<1> DEFINE p == packet[s]
           t == tTotalSent[s]
<1>1. PICK n \in 1 .. Smaller(Size(packet[s]) - tTotalSent[s], Room - Len(wire)) :
        /\ wire' = IF open THEN wire \o NextPiece(s, n) ELSE wire
        /\ \/ /\ tTotalSent[s] + n = Size(packet[s])
              /\ SendReturns(s)
              /\ Record(OthersMidPacket(s), "mixed")
           \/ /\ tTotalSent[s] + n < Size(packet[s])
              /\ tTotalSent' = [tTotalSent EXCEPT ![s] = @ + n]
              /\ Record(OthersMidPacket(s), "mixed")
              /\ UNCHANGED packet
           \/ /\ tTotalSent[s] + n < Size(packet[s])
              /\ SendReturns(s)
              /\ Record(TRUE, "cut")
  BY DEF SendSome
<1>2. /\ p # NoPacket
      /\ sent' = IF MidPacket(s) THEN sent ELSE Append(sent, packet[s])
      /\ UNCHANGED <<open, protocol, answers, seen, got, stage, want, headerID>>
  BY DEF SendSome, setting, receiving
<1>3. /\ p \in Packets /\ t \in Nat /\ Size(p) \in Nat /\ t < Size(p) /\ RestOf(s) \in Seq(Units)
  BY <1>2, RestType
<1>4. n \in Nat /\ n >= 1 /\ n <= Size(p) - t
  <2>1. Room - Len(wire) \in Int
    BY Typed, PacketAssumption
  <2>2. Size(packet[s]) - tTotalSent[s] \in Int
    BY <1>3
  <2> HIDE DEF p, t
  <2>3. n \in Nat /\ n >= 1 /\ n <= Size(packet[s]) - tTotalSent[s]
    BY <2>1, <2>2, Smallest
  <2> QED BY <2>3 DEF p, t
<1>5. /\ ~OthersMidPacket(s)
      /\ \/ t + n = Size(p) /\ SendReturns(s)
         \/ /\ t + n < Size(p) /\ packet' = packet
            /\ tTotalSent' = [tTotalSent EXCEPT ![s] = @ + n]
  BY <1>1 DEF Record, NoFault
<1> DEFINE left == Piece(Bytes(p), t + n, Size(p) - (t + n))
<1>6. /\ NextPiece(s, n) \in Seq(Units) /\ left \in Seq(Units)
      /\ NextPiece(s, n) \o left = RestOf(s)
  <2>1. /\ Bytes(p) \in Seq(Units) /\ Len(Bytes(p)) = Size(p)
        /\ Size(p) - (t + n) \in Nat /\ t + n \in Nat
        /\ t + n <= Size(p) /\ (t + n) + (Size(p) - (t + n)) <= Size(p)
        /\ t + n + (Size(p) - (t + n)) <= Size(p) /\ n + (Size(p) - (t + n)) = Size(p) - t
    BY <1>3, <1>4, BytesType
  <2> HIDE DEF p, t
  <2>2. Piece(Bytes(p), t, n) \in Seq(Units) /\ left \in Seq(Units)
    BY <1>3, <1>4, <2>1, PieceType
  <2>3. Piece(Bytes(p), t, n) \o left = Piece(Bytes(p), t, n + (Size(p) - (t + n)))
    BY <1>3, <1>4, <2>1, PieceSplit
  <2> QED BY <2>1, <2>2, <2>3 DEF p, t, NextPiece, RestOf
<1> HIDE DEF left
<1>7. OneMid' /\ ToCome' = left
  <2>1. \A u \in Senders \ {s} : tTotalSent[u] = 0 \/ ~(tTotalSent[u] > 0)
    BY <1>5 DEF OthersMidPacket, MidPacket
  <2>2. CASE t + n = Size(p) /\ SendReturns(s)
    <3>1. \A u \in Senders : ~MidPacket(u)'
      BY <1>3, <1>5, <2>2 DEF SendReturns, MidPacket, OthersMidPacket, Shape, TypeOK
    <3>2. left = <<>>
      <4>1. Size(p) - (t + n) = 0 /\ t + n \in Nat
        BY <1>3, <1>4, <2>2
      <4> QED BY <4>1, PieceEmpty DEF left
    <3> QED BY <3>1, <3>2, ToComeNoneNext DEF OneMid
  <2>3. CASE /\ t + n < Size(p) /\ packet' = packet
             /\ tTotalSent' = [tTotalSent EXCEPT ![s] = @ + n]
    <3>1. tTotalSent'[s] = t + n /\ \A u \in Senders \ {s} : tTotalSent'[u] = tTotalSent[u]
      BY <2>3 DEF Shape, TypeOK
    <3>2. MidPacket(s)' /\ \A u \in Senders : MidPacket(u)' => u = s
      BY <1>3, <1>4, <1>5, <3>1 DEF MidPacket, OthersMidPacket
    <3>3. RestOf(s)' = left
      BY <2>3, <3>1 DEF RestOf, left
    <3> QED BY <3>2, <3>3, ToComeOneNext DEF OneMid
  <2> QED BY <1>5, <2>2, <2>3
<1>8. PICK rest \in Seq(Units) : /\ (got \o wire) \o rest = Laid(Unanswered)'
                                 /\ open => rest = RestOf(s)
  BY <1>2, <1>5, SendLays
<1>9. Line'
  <2>1. CASE ~open
    BY <1>1, <1>2, <1>8, <2>1 DEF Line
  <2>2. CASE open
    <3> DEFINE new == NextPiece(s, n)
    <3>1. (got \o wire) \o (new \o left) = Laid(Unanswered)'
      BY <1>6, <1>8, <2>2
    <3>2. /\ got \in Seq(Units) /\ wire \in Seq(Units) /\ new \in Seq(Units) /\ left \in Seq(Units)
          /\ got \o wire \in Seq(Units)
      BY <1>6, Typed
    <3> HIDE DEF new
    <3>3. ((got \o wire) \o new) \o left = (got \o wire) \o (new \o left)
      <4> DEFINE a == got \o wire
      <4>1. a \in Seq(Units)
        BY <3>2
      <4> HIDE DEF a
      <4>2. (a \o new) \o left = a \o (new \o left)
        BY <3>2, <4>1, ConcatAssociative
      <4> QED BY <4>2 DEF a
    <3>4. (got \o wire) \o new = got \o (wire \o new)
      BY <3>2, ConcatAssociative
    <3>5. (got' \o wire') \o left = Laid(Unanswered)'
      BY <1>1, <1>2, <2>2, <3>1, <3>3, <3>4 DEF new
    <3> QED BY <1>2, <1>7, <3>2, <3>5 DEF Line
  <2> QED BY <2>1, <2>2
<1>10. Ordered' /\ InBody'
  BY <1>2, <1>3, OrderedSend DEF Clean
<1> QED BY <1>7, <1>9, <1>10 DEF Clean

\* A Send that times out before anything moved changes nothing.
LEMMA SendTimesOutClean ==
  ASSUME Shape, Clean, NEW s \in Senders, SendTimesOut(s), fault = NoFault, fault' = NoFault
  PROVE  Clean'
<1>1. ~MidPacket(s) /\ packet[s] # NoPacket
  BY DEF SendTimesOut, Record, NoFault
<1>2. tTotalSent[s] = 0
  BY <1>1 DEF Shape, TypeOK, MidPacket
<1>3. tTotalSent' = tTotalSent /\ \A u \in Senders : u # s => packet'[u] = packet[u]
  BY <1>2 DEF SendTimesOut, SendReturns, Shape, TypeOK
<1>4. ToCome' = ToCome /\ OneMid'
  BY <1>1, <1>3, ToComeSame, OneMidSame DEF Clean
<1>5. UNCHANGED <<open, protocol, wire, sent, answers, seen, got, stage, want, headerID>>
  BY DEF SendTimesOut, setting, receiving
<1>6. Line'
  BY <1>4, <1>5, LineKept DEF Clean
<1> QED BY <1>4, <1>5, <1>6 DEF Clean, Ordered, InBody, First

\* A Send that fails finds the connection broken.
LEMMA SendFailsClean ==
  ASSUME Shape, Clean, NEW s \in Senders, SendFails(s)
  PROVE  Clean'
<1>1. UNCHANGED <<open, protocol, wire, sent, answers, seen, got, stage, want, headerID>> /\ ~open
  BY DEF SendFails, setting, receiving, history
<1>2. OneMid'
  <2>1. \A u \in Senders : MidPacket(u)' => MidPacket(u)
    BY DEF SendFails, SendReturns, MidPacket, Shape, TypeOK
  <2> QED BY <2>1 DEF Clean, OneMid
<1>3. Line'
  BY <1>1, LineKept DEF Clean
<1> QED BY <1>1, <1>2, <1>3 DEF Clean, Ordered, InBody, First

-----------------------------------------------------------------------------
(* The receiving end                                                       *)

\* The first units that the receiver has not answered are those of the packet it must answer next.
LEMMA FrontOfWire ==
  ASSUME Shape, Clean, got = <<>>, Len(wire) >= HeaderLen
  PROVE  /\ Len(answers) < Len(sent) /\ First \in Packets
         /\ Headers(Piece(wire, 0, HeaderLen)) = {[dwID |-> IdOf[First], dwLen |-> BodyLen[First]]}
<1>1. HeaderLen \in 0 .. Len(wire) /\ HeaderLen \in Nat /\ HeaderLen > 0
  BY Typed DEF HeaderLen
<1>2. wire # <<>>
  BY <1>1, EmptyUnits
<1>3. Len(answers) < Len(sent) /\ First \in Packets
  BY <1>2, NotEmpty DEF Clean, Ordered
<1> DEFINE a == Piece(wire, 0, HeaderLen)
           b == Piece(wire, HeaderLen, Len(wire) - HeaderLen)
<1>4. a \in Seq(Units) /\ b \in Seq(Units) /\ a \o b = wire /\ Len(a) = HeaderLen
  BY <1>1, Typed, Cut
<1> HIDE DEF a, b
<1>5. got \o wire = a \o b
  BY <1>4, Typed, ConcatEmptySeq
<1>6. Len(a) <= Size(First)
  BY <1>3, <1>4, SizeType
<1>7. a = Piece(Bytes(First), 0, HeaderLen)
  BY <1>3, <1>4, <1>5, <1>6, FrontIs DEF Clean
<1> QED BY <1>3, <1>7, HeadersOf DEF a

\* PeekHeader shows the packet that comes next.
LEMMA PeekClean ==
  ASSUME Shape, Clean, PeekHeader
  PROVE  Clean'
<1>1. UNCHANGED <<open, protocol, packet, tTotalSent, wire, sent, answers, got, stage, want, headerID>>
  BY DEF PeekHeader, setting, sending, history
<1>2. Line' /\ OneMid'
  BY <1>1, ReceiverIdle
<1>3. got = <<>> /\ Len(wire) >= HeaderLen
  BY DEF PeekHeader, Shape
<1>4. Len(answers) < Len(sent) /\ seen' = IdOf[First]
  BY <1>3, FrontOfWire DEF PeekHeader
<1> QED BY <1>1, <1>2, <1>4 DEF Clean, Ordered, InBody, First

\* Calling RecvPacket reads nothing yet.
LEMMA RecvPacketClean ==
  ASSUME Shape, Clean, NEW id \in Ids, RecvPacket(id)
  PROVE  Clean'
<1>1. /\ UNCHANGED <<open, packet, tTotalSent, wire, sent, answers, got, seen>>
      /\ stage' \in {"peek", "header"}
  BY DEF RecvPacket, setting, sending, history
<1>2. Line' /\ OneMid'
  BY <1>1, ReceiverIdle
<1> QED BY <1>1, <1>2 DEF Clean, Ordered, InBody, First

\* A whole header shown to CBinProtocol is that of the packet that comes next.
LEMMA BinPeekClean ==
  ASSUME Shape, Clean, BinPeek, fault = NoFault, fault' = NoFault
  PROVE  Clean'
<1>1. PICK n \in 1 .. Smaller(HeaderLen, Len(wire)) :
        /\ \E h \in Headers(Piece(wire, 0, n)) : want' = HeaderLen + h.dwLen
        /\ Record(n < HeaderLen, "short")
  BY DEF BinPeek
<1>2. n \in Nat /\ n >= 1 /\ n <= HeaderLen /\ n <= Len(wire) /\ HeaderLen \in Nat
  BY Typed, Smallest DEF HeaderLen
<1>3. n = HeaderLen
  BY <1>1, <1>2 DEF Record, NoFault
<1>4. /\ UNCHANGED <<open, protocol, packet, tTotalSent, wire, sent, answers, got, seen>>
      /\ got = <<>> /\ protocol = "bin"
  BY DEF BinPeek, Shape, setting, sending
<1>5. /\ Len(answers) < Len(sent) /\ First \in Packets
      /\ Headers(Piece(wire, 0, HeaderLen)) = {[dwID |-> IdOf[First], dwLen |-> BodyLen[First]]}
  BY <1>2, <1>3, <1>4, FrontOfWire
<1>6. want' = Size(First)
  BY <1>1, <1>3, <1>5 DEF Size
<1>7. Line' /\ OneMid'
  BY <1>4, ReceiverIdle
<1> QED BY <1>4, <1>5, <1>6, <1>7 DEF Clean, Ordered, InBody, First

\* A call that returns having taken nothing leaves the stream as it was.
LEMMA ReturnsClean ==
  ASSUME Shape, Clean, RecvReturns, got = <<>>,
         UNCHANGED <<open, packet, tTotalSent, wire, sent, answers>>
  PROVE  Clean'
<1>1. got' = got /\ seen' = NoId /\ stage' = "none"
  BY DEF RecvReturns
<1>2. Line' /\ OneMid'
  BY <1>1, ReceiverIdle
<1> QED BY <1>1, <1>2 DEF Clean, Ordered, InBody, First

\* A recv moves units from the wire to the buffer.
LEMMA RecvSomeClean ==
  ASSUME Shape, Clean, RecvSome, fault = NoFault, fault' = NoFault
  PROVE  Clean'
<1>1. PICK n \in 1 .. Smaller(Remained, Len(wire)) :
        /\ wire' = Piece(wire, n, Len(wire) - n)
        /\ got' = got \o Piece(wire, 0, n)
        /\ stage' = Complete \/ stage' = stage
        /\ UNCHANGED <<headerID, want, seen>>
  BY DEF RecvSome, Record, NoFault
<1>2. n \in 0 .. Len(wire)
  <2>1. Remained \in Int
    BY Typed DEF Remained, Shape, TypeOK
  <2> QED BY <1>1, <2>1, Typed, Smallest
<1>3. UNCHANGED <<open, protocol, packet, tTotalSent, sent, answers>> /\ stage \in {"header", "body"}
  BY DEF RecvSome, setting, sending, Reading
<1>4. got' \o wire' = got \o wire
  <2> DEFINE a == Piece(wire, 0, n)
             b == Piece(wire, n, Len(wire) - n)
  <2>1. a \in Seq(Units) /\ b \in Seq(Units) /\ a \o b = wire
    BY <1>2, Typed, Cut
  <2> HIDE DEF a, b
  <2>2. (got \o a) \o b = got \o (a \o b)
    <3>1. got \in Seq(Units) /\ a \in Seq(Units) /\ b \in Seq(Units)
      BY <2>1, Typed
    <3> QED BY <3>1, ConcatAssociative
  <2> QED BY <1>1, <2>1, <2>2 DEF a, b
<1>5. ToCome' = ToCome /\ OneMid'
  BY <1>3, ToComeSame, OneMidSame DEF Clean
<1>6. Line'
  BY <1>3, <1>4, <1>5, LineKept DEF Clean
<1>7. stage' \in {"body", "bodyRead"} => stage = "body"
  BY <1>1, <1>3 DEF Complete
<1> QED BY <1>1, <1>3, <1>5, <1>6, <1>7 DEF Clean, Ordered, InBody, First

\* A Recv that fails finds the connection broken and drained.
LEMMA RecvFailsClean ==
  ASSUME Shape, Clean, RecvFails
  PROVE  Clean'
<1>1. /\ got' = <<>> /\ wire' = <<>> /\ ~open' /\ seen' = NoId /\ stage' = "none"
      /\ UNCHANGED <<packet, tTotalSent, sent, answers>>
  BY DEF RecvFails, RecvReturns, setting, sending, history
<1>2. OneMid' /\ Len(answers) <= Len(sent)
  BY <1>1, OneMidSame DEF Clean, Ordered
<1>3. Laid(Unanswered) \in Seq(Units)
  BY <1>2, UnansweredType
<1>4. (got' \o wire') \o Laid(Unanswered) = Laid(Unanswered)
  BY <1>1, <1>3, ConcatEmptySeq, EmptyUnits
<1>5. Line'
  BY <1>1, <1>2, <1>3, <1>4, LineBroken
<1> QED BY <1>1, <1>2, <1>5 DEF Clean, Ordered, InBody, First

\* A break loses a suffix of the wire.
LEMMA BreakClean ==
  ASSUME Shape, Clean, Break
  PROVE  Clean'
<1>1. PICK n \in 0 .. Len(wire) : wire' = Piece(wire, 0, n)
  BY DEF Break
<1>2. /\ ~open'
      /\ UNCHANGED <<protocol, packet, tTotalSent, sent, answers, got, seen, stage, want, headerID>>
  BY DEF Break, setting, sending, receiving, history
<1>3. OneMid' /\ Len(answers) <= Len(sent)
  BY <1>2, OneMidSame DEF Clean, Ordered
<1> DEFINE a == Piece(wire, 0, n)
           b == Piece(wire, n, Len(wire) - n)
<1>4. a \in Seq(Units) /\ b \in Seq(Units) /\ a \o b = wire
  BY Typed, Cut
<1>5. wire' = a
  BY <1>1
<1> HIDE DEF a, b
<1>6. PICK rest \in Seq(Units) : (got \o wire) \o rest = Laid(Unanswered)
  BY DEF Clean, Line
<1>7. got \in Seq(Units) /\ got \o a \in Seq(Units) /\ b \o rest \in Seq(Units)
  BY <1>4, Typed, ConcatProperties
<1>8. got \o (a \o b) = (got \o a) \o b
  <2>1. got \in Seq(Units) /\ a \in Seq(Units) /\ b \in Seq(Units)
    BY <1>4, <1>7
  <2>2. (got \o a) \o b = got \o (a \o b)
    BY <2>1, ConcatAssociative
  <2> QED BY <2>2
<1>9. ((got \o a) \o b) \o rest = (got \o a) \o (b \o rest)
  <2> DEFINE c == got \o a
  <2>1. c \in Seq(Units)
    BY <1>7
  <2> HIDE DEF c
  <2>2. (c \o b) \o rest = c \o (b \o rest)
    BY <1>4, <2>1, ConcatAssociative
  <2> QED BY <2>2 DEF c
<1>10. (got' \o wire') \o (b \o rest) = Laid(Unanswered)
  BY <1>2, <1>4, <1>5, <1>6, <1>8, <1>9
<1>11. Line'
  BY <1>2, <1>3, <1>7, <1>10, LineBroken
<1> QED BY <1>2, <1>3, <1>11 DEF Clean, Ordered, InBody, First

\* The header read is that of the packet that comes next.
LEMMA JsonHeaderClean ==
  ASSUME Shape, Clean, JsonHeader, fault = NoFault, fault' = NoFault
  PROVE  Clean'
<1>1. stage = "headerRead" /\ Len(got) = HeaderLen /\ HeaderLen \in Nat \ {0}
  BY DEF JsonHeader, Shape, HeaderLen
<1>2. got # <<>>
  BY <1>1, EmptyUnits
<1>3. Len(answers) < Len(sent) /\ First \in Packets
  BY <1>2, NotEmpty DEF Clean, Ordered
<1>4. Len(got) <= Size(First)
  BY <1>1, <1>3, SizeType
<1>5. got = Piece(Bytes(First), 0, HeaderLen)
  BY <1>1, <1>3, <1>4, Typed, FrontIs DEF Clean
<1>6. Headers(got) = {[dwID |-> IdOf[First], dwLen |-> BodyLen[First]]} /\ BodyLen[First] > 0
  BY <1>3, <1>5, HeadersOf, SizeType
<1>7. /\ headerID' = IdOf[First] /\ want' = Size(First)
      /\ UNCHANGED <<protocol, open, wire, packet, tTotalSent, got, seen, sent, answers>>
  <2>1. PICK h \in Headers(got) :
          \/ h.dwLen = 0
          \/ /\ headerID' = h.dwID /\ want' = HeaderLen + h.dwLen
             /\ UNCHANGED <<setting, open, wire, sending, asked, got, seen, history>>
    BY DEF JsonHeader
  <2>2. h.dwID = IdOf[First] /\ h.dwLen = BodyLen[First] /\ h.dwLen # 0
    BY <1>3, <1>6, <2>1, SizeType
  <2> QED BY <2>1, <2>2 DEF Size, setting, sending, history
<1>8. Line' /\ OneMid'
  BY <1>7, ReceiverIdle
<1> QED BY <1>3, <1>7, <1>8 DEF Clean, Ordered, InBody, First

\* A packet read whole is the one to answer next.
LEMMA GotWhole ==
  ASSUME Shape, Clean, stage = "bodyRead"
  PROVE  Len(answers) < Len(sent) /\ First \in Packets /\ got = Bytes(First)
<1>1. Len(answers) < Len(sent) /\ Len(got) = Size(First)
  BY DEF Clean, InBody, Shape
<1>2. /\ First \in Packets /\ Bytes(First) \in Seq(Units) /\ Len(Bytes(First)) = Size(First)
  BY <1>1, LineHead
<1>3. Len(got) <= Size(First)
  BY <1>1, Typed
<1>4. got = Piece(Bytes(First), 0, Len(got))
  BY <1>1, <1>3, Typed, FrontIs DEF Clean
<1>5. got = Piece(Bytes(First), 0, Len(Bytes(First)))
  BY <1>1, <1>2, <1>4
<1> QED BY <1>1, <1>2, <1>5, PieceWhole

\* The answer for that packet takes it off the line.
LEMMA AnswerClean ==
  ASSUME Shape, Clean, stage = "bodyRead", fault = NoFault, NEW ok \in BOOLEAN,
         Answer(First, ok), ok <=> IdOf[First] = asked
  PROVE  Clean'
<1>1. Len(answers) < Len(sent) /\ First \in Packets /\ got = Bytes(First)
  BY GotWhole
<1> DEFINE e == [packet |-> First, asked |-> asked, ok |-> ok]
           after == Laid(SubSeq(sent, (Len(answers) + 1) + 1, Len(sent)))
<1>2. /\ answers' = Append(answers, e)
      /\ stage' = "none" /\ got' = <<>> /\ seen' = NoId
      /\ UNCHANGED <<open, wire, packet, tTotalSent, sent>>
  BY DEF Answer, RecvReturns, setting, sending
<1>3. e \in [packet : Packets \cup {NoPacket}, asked : Ids, ok : BOOLEAN]
  BY <1>1 DEF Shape
<1>4. /\ Len(answers') = Len(answers) + 1 /\ DOMAIN answers' = 1 .. Len(answers) + 1
      /\ \A i \in 1 .. Len(answers) : answers'[i] = answers[i]
      /\ answers'[Len(answers) + 1] = e
  BY <1>2, <1>3, Typed, AppendProperties, LenProperties
<1>5. Ordered'
  <2>1. Len(answers') <= Len(sent')
    BY <1>1, <1>2, <1>4, Typed
  <2>2. ASSUME NEW i \in DOMAIN answers'
        PROVE  /\ answers'[i].packet = sent'[i]
               /\ answers'[i].ok <=> IdOf[sent'[i]] = answers'[i].asked
    <3>1. CASE i = Len(answers) + 1
      <4>1. answers'[i].packet = First /\ answers'[i].ok = ok /\ answers'[i].asked = asked
        BY <1>4, <3>1
      <4> QED BY <1>2, <3>1, <4>1 DEF First
    <3>2. CASE i # Len(answers) + 1
      <4>1. i \in 1 .. Len(answers) /\ i \in DOMAIN answers
        BY <1>4, <3>2, Typed
      <4> QED BY <1>2, <1>4, <4>1 DEF Clean, Ordered
    <3> QED BY <3>1, <3>2
  <2> QED BY <1>2, <2>1, <2>2 DEF Ordered
<1>6. ToCome' = ToCome /\ OneMid'
  BY <1>2, ToComeSame, OneMidSame DEF Clean
<1>7. Line'
  <2>1. PICK rest \in Seq(Units) : (got \o wire) \o rest = Laid(Unanswered) /\ (open => rest = ToCome)
    BY DEF Clean, Line
  <2>2. /\ Bytes(First) \in Seq(Units) /\ after \in Seq(Units)
        /\ Laid(Unanswered) = Bytes(First) \o after
    BY <1>1, LineHead
  <2>3. Laid(Unanswered)' = after
    BY <1>2, <1>4 DEF Unanswered
  <2> HIDE DEF after
  <2>4. wire \in Seq(Units) /\ wire \o rest \in Seq(Units)
    BY Typed, ConcatProperties
  <2>5. (got \o wire) \o rest = got \o (wire \o rest)
    BY <2>4, Typed, ConcatAssociative
  <2>6. Bytes(First) \o (wire \o rest) = Bytes(First) \o after
    BY <1>1, <2>1, <2>2, <2>5
  <2>7. wire \o rest = after
    BY <2>2, <2>4, <2>6, ConcatSimplifications
  <2>8. got' \o wire' = wire
    BY <1>2, <2>4, ConcatEmptySeq
  <2> QED BY <1>2, <1>6, <2>1, <2>3, <2>7, <2>8 DEF Line
<1> QED BY <1>2, <1>5, <1>6, <1>7 DEF Clean, InBody

\* CJsonProtocol answers for the packet that comes next,
LEMMA JsonBodyClean ==
  ASSUME Shape, Clean, JsonBody, fault = NoFault
  PROVE  Clean'
<1>1. stage = "bodyRead" /\ protocol = "json"
  BY DEF JsonBody
<1>2. First \in Packets /\ got = Bytes(First) /\ headerID = IdOf[First]
  BY <1>1, GotWhole DEF Clean, InBody
<1>3. Held(got) = First /\ Held(got) # NoPacket
  BY <1>2, HeldOf, PacketAssumption
<1>4. \E ok \in BOOLEAN : Answer(First, ok) /\ (ok <=> IdOf[First] = asked)
  BY <1>2, <1>3 DEF JsonBody
<1> QED BY <1>1, <1>4, AnswerClean

\* and so does CBinProtocol.
LEMMA BinBodyClean ==
  ASSUME Shape, Clean, BinBody, fault = NoFault
  PROVE  Clean'
<1>1. stage = "bodyRead"
  BY DEF BinBody
<1>2. First \in Packets /\ got = Bytes(First)
  BY <1>1, GotWhole
<1>3. /\ Held(got) = First
      /\ Headers(Piece(got, 0, HeaderLen)) = {[dwID |-> IdOf[First], dwLen |-> BodyLen[First]]}
  BY <1>2, HeldOf, HeadersOf
<1>4. Answer(First, IdOf[First] = asked)
  BY <1>3 DEF BinBody
<1>5. \E ok \in BOOLEAN : Answer(First, ok) /\ (ok <=> IdOf[First] = asked)
  BY <1>4
<1> QED BY <1>1, <1>5, AnswerClean

\* The inductive invariant.
IInv == Shape /\ (fault = NoFault => Clean)

\* A step after which nothing has gone wrong keeps the line and the order.
LEMMA CleanStep ==
  ASSUME IInv, Next, fault' = NoFault
  PROVE  Clean'
<1>1. fault = NoFault
  BY DEF Next, Send, SendPacket, SendSome, SendTimesOut, SendFails, PeekHeader, RecvPacket, Recv,
         BinPeek, BinPeekTimesOut, RecvSome, RecvTimesOut, RecvFails, JsonHeader, JsonBody, BinBody,
         Answer, Break, Record, history, NoFault
<1>2. Shape /\ Clean
  BY <1>1 DEF IInv
<1>3. CASE \E s \in Senders : Send(s)
  BY <1>1, <1>2, <1>3, SendSomeClean, SendTimesOutClean, SendFailsClean DEF Send
<1>4. CASE \E s \in Senders, p \in Packets : SendPacket(s, p)
  BY <1>2, <1>4, SendPacketClean
<1>5. CASE PeekHeader
  BY <1>2, <1>5, PeekClean
<1>6. CASE \E id \in Ids : RecvPacket(id)
  BY <1>2, <1>6, RecvPacketClean
<1>7. CASE Break
  BY <1>2, <1>7, BreakClean
<1>8. CASE BinPeek
  BY <1>1, <1>2, <1>8, BinPeekClean
<1>9. CASE BinPeekTimesOut
  <2>1. /\ got = <<>> /\ RecvReturns
        /\ UNCHANGED <<open, packet, tTotalSent, wire, sent, answers>>
    BY <1>2, <1>9 DEF BinPeekTimesOut, Shape, setting, sending, history
  <2> QED BY <1>2, <2>1, ReturnsClean
<1>10. CASE RecvSome
  BY <1>1, <1>2, <1>10, RecvSomeClean
<1>11. CASE RecvTimesOut
  <2>1. got = <<>>
    BY <1>11 DEF RecvTimesOut, Record, NoFault
  <2>2. RecvReturns /\ UNCHANGED <<open, packet, tTotalSent, wire, sent, answers>>
    BY <1>11 DEF RecvTimesOut, setting, sending
  <2> QED BY <1>2, <2>1, <2>2, ReturnsClean
<1>12. CASE RecvFails
  BY <1>2, <1>12, RecvFailsClean
<1>13. CASE JsonHeader
  BY <1>1, <1>2, <1>13, JsonHeaderClean
<1>14. CASE JsonBody
  BY <1>1, <1>2, <1>14, JsonBodyClean
<1>15. CASE BinBody
  BY <1>1, <1>2, <1>15, BinBodyClean
<1> QED BY <1>3, <1>4, <1>5, <1>6, <1>7, <1>8, <1>9, <1>10, <1>11, <1>12, <1>13, <1>14, <1>15
        DEF Next, Recv

\* The invariant holds at the start,
LEMMA InitIInv == ASSUME Init PROVE IInv
<1>1. /\ wire = <<>> /\ got = <<>> /\ sent = <<>> /\ answers = <<>>
      /\ stage = "none" /\ want = 0 /\ seen = NoId
      /\ packet = [s \in Senders |-> NoPacket] /\ tTotalSent = [s \in Senders |-> 0]
  BY DEF Init
<1>2. \A S : <<>> \in Seq(S) /\ Len(<<>>) = 0
  BY EmptySeq
<1>3. Shape
  BY <1>1, <1>2, PacketAssumption DEF Init, Shape, TypeOK, NoFault
<1>4. ToCome = <<>> /\ OneMid
  <2>1. \A s \in Senders : ~MidPacket(s)
    BY <1>1 DEF MidPacket
  <2> QED BY <2>1, ToComeNone DEF OneMid
<1>5. Laid(Unanswered) = <<>>
  <2>1. Len(answers) = Len(sent)
    BY <1>1
  <2> QED BY <1>3, <2>1, Typed, AfterAll DEF Unanswered
<1>6. Line
  <2>1. (<<>> \o <<>>) \o <<>> = <<>>
    BY EmptyUnits, ConcatEmptySeq
  <2> QED BY <1>1, <1>4, <1>5, <2>1, EmptyUnits DEF Line
<1>7. Ordered /\ InBody
  BY <1>1, <1>3, Typed DEF Ordered, InBody
<1> QED BY <1>3, <1>4, <1>6, <1>7 DEF IInv, Clean

\* in every step that changes nothing,
LEMMA StutterIInv == ASSUME IInv, UNCHANGED vars PROVE IInv'
<1>1. UNCHANGED <<protocol, dwTimeOut, open, wire, packet, tTotalSent, stage, asked, headerID,
                   got, want, seen, sent, answers, fault>>
  BY DEF vars
<1>2. Shape'
  BY <1>1 DEF IInv, Shape, TypeOK
<1>3. ASSUME Clean PROVE Clean'
  <2>1. Line' /\ OneMid'
    BY <1>1, <1>3, ReceiverIdle
  <2> QED BY <1>1, <1>3, <2>1 DEF Clean, Ordered, InBody, First
<1> QED BY <1>1, <1>2, <1>3 DEF IInv

\* and so for ever.
LEMMA IInvHolds == Spec => []IInv
<1>1. Init => IInv
  BY InitIInv
<1>2. IInv /\ [Next]_vars => IInv'
  <2> SUFFICES ASSUME IInv, [Next]_vars PROVE IInv'
    OBVIOUS
  <2>1. CASE Next
    BY <2>1, ShapeStep, CleanStep DEF IInv
  <2>2. CASE UNCHANGED vars
    BY <2>2, StutterIInv
  <2> QED BY <2>1, <2>2
<1> QED BY <1>1, <1>2, PTL DEF Spec

\* No send or recv reaches past its buffer, whatever the sizes (CSyncTCPSocket::Send, Recv).
THEOREM StreamTypes == Spec => []TypeOK
<1>1. IInv => TypeOK
  BY DEF IInv, Shape
<1> QED BY <1>1, IInvHolds, PTL

\* Until a call is cut short, two senders mix their pieces or a header is seen in part, what
\* lies between SendPacket and RecvPacket is exactly the packets sent and not answered.
THEOREM StreamAligned == Spec => []Aligned
<1>1. IInv => Aligned
  <2> SUFFICES ASSUME Shape, Clean PROVE /\ IsPrefix(got \o wire, Laid(Unanswered))
                                         /\ open => got \o wire \o ToCome = Laid(Unanswered)
    BY DEF IInv, Aligned
  <2>1. PICK rest \in Seq(Units) : (got \o wire) \o rest = Laid(Unanswered) /\ (open => rest = ToCome)
    BY DEF Clean, Line
  <2>2. IsPrefix(got \o wire, (got \o wire) \o rest)
    <3> DEFINE a == got \o wire
    <3>1. a \in Seq(Units)
      BY Typed
    <3> HIDE DEF a
    <3>2. IsPrefix(a, a \o rest)
      BY <3>1, PrefixOfConcat
    <3> QED BY <3>2 DEF a
  <2> QED BY <2>1, <2>2
<1> QED BY <1>1, IInvHolds, PTL

\* Under the same condition every packet sent is answered once and in order, delivered if and
\* only if its ID was asked for, and PeekHeader shows the ID of the packet that comes next.
THEOREM StreamInOrder == Spec => []InOrder
<1>1. IInv => InOrder
  BY DEF IInv, Clean, Ordered, InOrder, First
<1> QED BY <1>1, IInvHolds, PTL
=============================================================================
