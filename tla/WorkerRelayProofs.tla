-------------------------- MODULE WorkerRelayProofs --------------------------
(***************************************************************************)
(* The client's bytes are numbered, so that an order is a run of numbers:   *)
(* each part of the program holds the run that follows another's.  Lemmas   *)
(* about the ByteQueue come first, then the invariants one by one: the      *)
(* types, the guard of the stream, which target is whose, what is read      *)
(* before the header is there, the bytes of a tunnel, the packets of a      *)
(* stream of DNS queries, and what the client is sent.                      *)
(***************************************************************************)
EXTENDS WorkerRelay, SeqLemmas

Queues == Seq(Seq(Nat))

(* The chunks before p, p and the ones after it. *)
LEMMA Around ==
  ASSUME NEW c \in Queues, NEW p \in DOMAIN c
  PROVE  \E a, b \in Queues :
           /\ a = SubSeq(c, 1, p - 1) /\ b = SubSeq(c, p + 1, Len(c))
           /\ FlattenSeq(c) = FlattenSeq(a) \o (c[p] \o FlattenSeq(b))
           /\ Offset(c, p) = Len(FlattenSeq(a))
           /\ Offset(c, p + 1) = Len(FlattenSeq(a)) + Len(c[p])
<1>0. Len(c) \in Nat /\ p \in 1..Len(c)
  BY DEF Queues
<1>1. PICK k \in 0..Len(c) : k = p - 1
  <2>1. p - 1 \in 0..Len(c)
    BY <1>0
  <2> QED BY <2>1
<1>2. p \in 1..Len(c) /\ p = k + 1 /\ c[p] \in Seq(Nat)
  BY <1>1 DEF Queues
<1>3. PICK a, d \in Queues : a = SubSeq(c, 1, k) /\ d = SubSeq(c, k + 1, Len(c))
  BY FlatSplit DEF Queues
<1>4. FlattenSeq(c) = FlattenSeq(a) \o FlattenSeq(d)
  BY <1>3, FlatSplit DEF Queues
<1>5. d # <<>> /\ Head(d) = c[p] /\ Tail(d) = SubSeq(c, p + 1, Len(c))
  <2>2. Len(c) \in p..Len(c)
    BY <1>0
  <2>1. SubSeq(c, p, Len(c)) # <<>> /\ Head(SubSeq(c, p, Len(c))) = c[p]
    <3>1. Head(SubSeq(c, p, Len(c))) = c[p]
      BY <1>0, <2>2, HeadTailOfSubSeq DEF Queues
    <3>2. SubSeq(c, p, Len(c)) # <<>>
      <4>1. Len(SubSeq(c, p, Len(c))) = Len(c) - p + 1
        BY <1>0, <2>2 DEF Queues
      <4> QED BY <1>0, <4>1
    <3> QED BY <3>1, <3>2
  <2>3. Tail(SubSeq(c, p, Len(c))) = SubSeq(c, p + 1, Len(c))
    BY <1>0, <2>2, HeadTailOfSubSeq DEF Queues
  <2> QED BY <1>2, <1>3, <2>1, <2>3
<1>6. PICK b \in Queues : b = Tail(d)
  <2>1. Tail(d) \in Queues
    BY <1>5 DEF Queues
  <2> QED BY <2>1
<1>7. FlattenSeq(d) = c[p] \o FlattenSeq(b)
  BY <1>5, <1>6, FlatTail DEF Queues
<1>8. SubSeq(c, 1, p) = Append(a, c[p])
  BY <1>2, <1>3, OneMore DEF Queues
<1>9. PICK A \in Seq(Nat) : A = FlattenSeq(a)
  BY FlatType DEF Queues
<1>10. FlattenSeq(SubSeq(c, 1, p)) = A \o c[p]
  BY <1>2, <1>8, <1>9, FlatAppend DEF Queues
<1>11. Offset(c, p) = Len(A)
  BY <1>1, <1>3, <1>9 DEF Offset, Size
<1>12. Offset(c, p + 1) = Len(A \o c[p])
  <2>1. (p + 1) - 1 = p
    BY <1>2
  <2> QED BY <1>10, <2>1 DEF Offset, Size
<1>13. Len(A \o c[p]) = Len(A) + Len(c[p])
  BY <1>2, ConcatProperties
<1> QED BY <1>1, <1>3, <1>4, <1>5, <1>6, <1>7, <1>9, <1>11, <1>12, <1>13

(* Offsets are numbers, from 0 to the size of the queue. *)
LEMMA OffsetType ==
  ASSUME NEW c \in Queues
  PROVE  /\ \A p \in DOMAIN c : Offset(c, p) \in Nat /\ Offset(c, p + 1) \in Nat
         /\ Offset(c, 1) = 0 /\ Offset(c, Len(c) + 1) = Size(c) /\ Size(c) \in Nat
<1>1. ASSUME NEW p \in DOMAIN c PROVE Offset(c, p) \in Nat /\ Offset(c, p + 1) \in Nat
  <2>1. PICK a \in Queues : /\ Offset(c, p) = Len(FlattenSeq(a))
                            /\ Offset(c, p + 1) = Len(FlattenSeq(a)) + Len(c[p])
    BY Around
  <2>2. FlattenSeq(a) \in Seq(Nat) /\ c[p] \in Seq(Nat)
    BY FlatType DEF Queues
  <2> QED BY <2>1, <2>2
<1>2. Offset(c, 1) = 0
  <2>1. SubSeq(c, 1, 1 - 1) = <<>>
    BY SubSeqEmpty
  <2>2. Len(FlattenSeq(<<>>)) = 0
    BY FlatEmpty
  <2> QED BY <2>1, <2>2 DEF Offset, Size
<1>3. Offset(c, Len(c) + 1) = Size(c)
  <2>1. SubSeq(c, 1, (Len(c) + 1) - 1) = c
    BY SubSeqFull DEF Queues
  <2> QED BY <2>1 DEF Offset, Size
<1>4. Size(c) \in Nat
  <2>1. FlattenSeq(c) \in Seq(Nat)
    BY FlatType DEF Queues
  <2> QED BY <2>1 DEF Size
<1> QED BY <1>1, <1>2, <1>3, <1>4

(* A byte that is there is in a chunk. *)
LEMMA Located ==
  ASSUME NEW c \in Queues, NEW i \in Nat, i < Size(c)
  PROVE  \E p \in DOMAIN c : Offset(c, p) <= i /\ i < Offset(c, p + 1)
<1> DEFINE In(p) == Offset(c, p) <= i /\ i < Offset(c, p + 1)
<1> DEFINE T == {m \in Nat : m <= Len(c) /\ i < Offset(c, m + 1) => \E p \in DOMAIN c : In(p)}
<1>1. 0 \in T
  <2>1. 0 + 1 = 1
    OBVIOUS
  <2>2. ~(i < Offset(c, 0 + 1))
    BY <2>1, OffsetType
  <2> QED BY <2>2
<1>2. ASSUME NEW m \in Nat, m \in T PROVE m + 1 \in T
  <2>1. SUFFICES ASSUME m + 1 <= Len(c), i < Offset(c, (m + 1) + 1) PROVE \E p \in DOMAIN c : In(p)
    OBVIOUS
  <2>2. m + 1 \in DOMAIN c
    BY <2>1 DEF Queues
  <2>3. Offset(c, m + 1) \in Nat
    BY <2>2, OffsetType
  <2>4. CASE i < Offset(c, m + 1)
    <3>1. m <= Len(c)
      BY <2>1 DEF Queues
    <3> QED BY <1>2, <2>4, <3>1
  <2>5. CASE ~(i < Offset(c, m + 1))
    <3>1. Offset(c, m + 1) <= i
      BY <2>3, <2>5
    <3> QED BY <2>1, <2>2, <3>1
  <2> QED BY <2>4, <2>5
<1>3. \A m \in Nat : m \in T
  <2> HIDE DEF T
  <2> QED BY <1>1, <1>2, Induction
<1>4. Len(c) \in Nat /\ Len(c) <= Len(c) /\ i < Offset(c, Len(c) + 1)
  BY OffsetType DEF Queues
<1> QED BY <1>3, <1>4

(* A byte in the middle part of three. *)
LEMMA Middle ==
  ASSUME NEW A \in Seq(Nat), NEW x \in Seq(Nat), NEW B \in Seq(Nat), NEW i \in Nat,
         Len(A) <= i, i < Len(A) + Len(x)
  PROVE  (A \o (x \o B))[i + 1] = x[i - Len(A) + 1]
<1>1. x \o B \in Seq(Nat) /\ Len(x \o B) = Len(x) + Len(B)
  BY ConcatProperties
<1>2. PICK y \in Seq(Nat) : y = x \o B
  BY <1>1
<1>3. i - Len(A) + 1 \in 1..Len(x) /\ i + 1 \in 1..Len(A) + Len(y) /\ ~(i + 1 <= Len(A))
      /\ (i + 1) - Len(A) = i - Len(A) + 1
  BY <1>1, <1>2
<1>4. (A \o y)[i + 1] = y[(i + 1) - Len(A)]
  BY <1>3, ConcatProperties
<1>5. y[i - Len(A) + 1] = x[i - Len(A) + 1]
  BY <1>2, <1>3
<1> QED BY <1>2, <1>3, <1>4, <1>5

(* at reads the byte of the stream (ByteQueue). *)
LEMMA AtByte ==
  ASSUME NEW c \in Queues, NEW i \in Nat, i < Size(c)
  PROVE  At(c, i) = FlattenSeq(c)[i + 1]
<1>1. PICK p \in DOMAIN c : /\ p = CHOOSE q \in DOMAIN c : Offset(c, q) <= i /\ i < Offset(c, q + 1)
                            /\ Offset(c, p) <= i /\ i < Offset(c, p + 1)
  BY Located
<1>2. At(c, i) = c[p][i - Offset(c, p) + 1]
  BY <1>1 DEF At
<1>3. PICK a, b \in Queues :
           /\ FlattenSeq(c) = FlattenSeq(a) \o (c[p] \o FlattenSeq(b))
           /\ Offset(c, p) = Len(FlattenSeq(a))
           /\ Offset(c, p + 1) = Len(FlattenSeq(a)) + Len(c[p])
  BY Around
<1>4. PICK A, B, x \in Seq(Nat) : A = FlattenSeq(a) /\ B = FlattenSeq(b) /\ x = c[p]
  BY FlatType DEF Queues
<1>5. (A \o (x \o B))[i + 1] = x[i - Len(A) + 1]
  <2>1. Len(A) <= i /\ i < Len(A) + Len(x)
    BY <1>1, <1>3, <1>4
  <2> QED BY <2>1, Middle
<1> QED BY <1>2, <1>3, <1>4, <1>5

(* consume leaves what follows in the stream. *)
LEMMA ConsumeBytes ==
  ASSUME NEW c \in Queues, NEW n \in Nat, NEW m \in Nat, Size(c) = n + m
  PROVE  /\ Consume(c, n) \in Queues
         /\ FlattenSeq(Consume(c, n)) = SubSeq(FlattenSeq(c), n + 1, Size(c))
<1>1. FlattenSeq(c) \in Seq(Nat) /\ Len(FlattenSeq(c)) = Size(c)
  BY FlatType DEF Queues, Size
<1>2. CASE n >= Size(c)
  <2>1. Consume(c, n) = <<>>
    BY <1>2 DEF Consume
  <2>2. SubSeq(FlattenSeq(c), n + 1, Size(c)) = <<>>
    BY <1>1, <1>2
  <2>3. <<>> \in Queues
    BY DEF Queues
  <2> QED BY <2>1, <2>2, <2>3, FlatEmpty
<1>3. CASE n < Size(c)
  <2>1. PICK p \in DOMAIN c : /\ p = CHOOSE q \in DOMAIN c : Offset(c, q) <= n /\ n < Offset(c, q + 1)
                              /\ Offset(c, p) <= n /\ n < Offset(c, p + 1)
    BY <1>3, Located
  <2>2. Consume(c, n) = <<SubSeq(c[p], n - Offset(c, p) + 1, Len(c[p]))>> \o SubSeq(c, p + 1, Len(c))
    <3>1. ~(n >= Size(c))
      BY <1>1, <1>3
    <3> QED BY <2>1, <3>1 DEF Consume
  <2>3. PICK a, b \in Queues :
           /\ b = SubSeq(c, p + 1, Len(c))
           /\ FlattenSeq(c) = FlattenSeq(a) \o (c[p] \o FlattenSeq(b))
           /\ Offset(c, p) = Len(FlattenSeq(a))
           /\ Offset(c, p + 1) = Len(FlattenSeq(a)) + Len(c[p])
    BY Around
  <2>4. PICK A, B, x \in Seq(Nat) : A = FlattenSeq(a) /\ B = FlattenSeq(b) /\ x = c[p]
    BY FlatType DEF Queues
  <2>5. PICK k, j \in Nat : n = Len(A) + k /\ k = n - Offset(c, p) /\ Len(x) = k + j
    <3>1. Len(A) \in Nat /\ Len(x) \in Nat /\ Len(A) <= n /\ n < Len(A) + Len(x) /\ Len(A) = Offset(c, p)
      BY <2>1, <2>3, <2>4
    <3>2. n - Len(A) \in Nat /\ Len(x) - (n - Len(A)) \in Nat
      BY <3>1
    <3>3. n = Len(A) + (n - Len(A)) /\ Len(x) = (n - Len(A)) + (Len(x) - (n - Len(A)))
      BY <3>1
    <3> QED BY <3>1, <3>2, <3>3
  <2>6. PICK y \in Seq(Nat) : y = SubSeq(x, k + 1, Len(x))
    <3>1. SubSeq(x, k + 1, Len(x)) \in Seq(Nat)
      OBVIOUS
    <3> QED BY <3>1
  <2>7. Consume(c, n) = <<y>> \o b /\ <<y>> \in Queues
    <3>1. <<y>> \in Queues
      BY DEF Queues
    <3> QED BY <2>2, <2>3, <2>4, <2>5, <2>6, <3>1
  <2>8. Consume(c, n) \in Queues
    BY <2>7, ConcatProperties DEF Queues
  <2>9. FlattenSeq(Consume(c, n)) = y \o B
    <3>1. FlattenSeq(<<y>> \o b) = FlattenSeq(<<y>>) \o FlattenSeq(b)
      BY <2>7, FlatConcat DEF Queues
    <3>2. FlattenSeq(<<y>>) = y
      BY FlatOne
    <3> QED BY <2>4, <2>7, <3>1, <3>2
  <2>10. PICK z \in Seq(Nat) : z = x \o B /\ Len(z) = Len(x) + Len(B)
    BY ConcatProperties
  <2>11. SubSeq(z, k + 1, Len(z)) = y \o B
    <3>1. k \in 0..Len(x)
      BY <2>5
    <3> QED BY <2>6, <2>10, <3>1, DropShort
  <2>13. SubSeq(A \o z, n + 1, Len(A \o z)) = SubSeq(z, k + 1, Len(z))
    <3>1. k \in 0..Len(z)
      BY <2>5, <2>10
    <3>2. SubSeq(A \o z, (Len(A) + k) + 1, Len(A \o z)) = SubSeq(z, k + 1, Len(z))
      BY <3>1, DropLong
    <3> QED BY <2>5, <3>2
  <2> QED BY <1>1, <2>3, <2>4, <2>8, <2>9, <2>10, <2>11, <2>13
<1> QED BY <1>1, <1>2, <1>3

(* slice copies a part of the stream. *)
LEMMA SliceBytes ==
  ASSUME NEW c \in Queues, NEW a \in Nat, NEW b \in Nat, a <= b, b <= Size(c)
  PROVE  Slice(c, a, b) = SubSeq(FlattenSeq(c), a + 1, b)
<1> DEFINE Piece(p) == SubSeq(c[p], IF a > Offset(c, p) THEN a - Offset(c, p) + 1 ELSE 1,
                                    IF b < Offset(c, p + 1) THEN b - Offset(c, p) ELSE Len(c[p]))
<1>1. PICK f : f = [p \in DOMAIN c |-> Piece(p)]
  OBVIOUS
<1>2. PICK n \in Nat : n = Len(c) /\ DOMAIN c = 1..n
  BY DEF Queues
<1>3. Slice(c, a, b) = FlattenSeq(f)
  BY <1>1 DEF Slice
<1>4. ASSUME NEW p \in DOMAIN c PROVE Piece(p) \in Seq(Nat)
  <2>1. PICK x \in Seq(Nat), L, M \in Nat : x = c[p] /\ L = Offset(c, p) /\ M = Offset(c, p + 1) /\ M = L + Len(x)
    <3>1. c[p] \in Seq(Nat) /\ Offset(c, p) \in Nat /\ Offset(c, p + 1) \in Nat
      BY OffsetType DEF Queues
    <3>2. Offset(c, p + 1) = Offset(c, p) + Len(c[p])
      BY Around
    <3> QED BY <3>1, <3>2
  <2>2. SubSeq(x, IF a > L THEN a - L + 1 ELSE 1, IF b < M THEN b - L ELSE Len(x)) \in Seq(Nat)
    <3>1. PICK s, t \in Int : s = (IF a > L THEN a - L + 1 ELSE 1) /\ t = (IF b < M THEN b - L ELSE Len(x))
      <4>1. (IF a > L THEN a - L + 1 ELSE 1) \in Int
        OBVIOUS
      <4>2. (IF b < M THEN b - L ELSE Len(x)) \in Int
        OBVIOUS
      <4> QED BY <4>1, <4>2
    <3>2. 1 <= s /\ t <= Len(x)
      BY <2>1, <3>1
    <3>3. \A i \in s..t : x[i] \in Nat
      BY <3>2
    <3>4. SubSeq(x, s, t) \in Seq(Nat)
      BY <3>3, SubSeqProperties
    <3> QED BY <3>1, <3>4
  <2> QED BY <2>1, <2>2
<1>5. f \in Queues /\ Len(f) = n
  BY <1>1, <1>2, <1>4 DEF Queues
<1> DEFINE End(m) == IF b < Offset(c, m + 1) THEN b ELSE Offset(c, m + 1)
<1> DEFINE T == {m \in Nat : m <= n => FlattenSeq(SubSeq(f, 1, m))
                                         = SubSeq(FlattenSeq(SubSeq(c, 1, m)), a + 1, End(m))}
<1>6. 0 \in T
  <2>1. SubSeq(f, 1, 0) = <<>> /\ SubSeq(c, 1, 0) = <<>>
    OBVIOUS
  <2>2. End(0) = 0
    <3>1. Offset(c, 0 + 1) = 0
      BY OffsetType
    <3> QED BY <3>1
  <2>3. SubSeq(<<>>, a + 1, 0) = <<>>
    BY SubSeqEmpty
  <2> QED BY <2>1, <2>2, <2>3, FlatEmpty
<1>7. ASSUME NEW m \in Nat, m \in T PROVE m + 1 \in T
  <2>1. SUFFICES ASSUME m + 1 <= n
                 PROVE  FlattenSeq(SubSeq(f, 1, m + 1)) = SubSeq(FlattenSeq(SubSeq(c, 1, m + 1)), a + 1, End(m + 1))
    OBVIOUS
  <2>2. PICK p \in 1..n : p = m + 1
    BY <2>1
  <2>3. PICK h, d \in Queues : h = SubSeq(f, 1, m) /\ d = SubSeq(c, 1, m)
    <3>1. SubSeq(f, 1, m) \in Queues /\ SubSeq(c, 1, m) \in Queues
      BY <1>2, <1>5, <2>2, OneMore DEF Queues
    <3> QED BY <3>1
  <2>4. PICK x \in Seq(Nat), A, H \in Seq(Nat) : x = c[p] /\ A = FlattenSeq(d) /\ H = FlattenSeq(h)
    <3>1. c[p] \in Seq(Nat) /\ FlattenSeq(d) \in Seq(Nat) /\ FlattenSeq(h) \in Seq(Nat)
      BY <1>2, FlatType DEF Queues
    <3> QED BY <3>1
  <2>5. SubSeq(c, 1, p) = Append(d, x) /\ SubSeq(f, 1, p) = Append(h, f[p]) /\ f[p] \in Seq(Nat)
    <3>1. SubSeq(c, 1, p) = Append(SubSeq(c, 1, m), c[p])
      BY <1>2, <2>2, OneMore DEF Queues
    <3>2. SubSeq(f, 1, p) = Append(SubSeq(f, 1, m), f[p])
      BY <1>5, <2>2, OneMore DEF Queues
    <3>3. f[p] \in Seq(Nat)
      BY <1>5, <2>2 DEF Queues
    <3> QED BY <2>3, <2>4, <3>1, <3>2, <3>3
  <2>6. FlattenSeq(SubSeq(c, 1, p)) = A \o x
    BY <2>4, <2>5, FlatAppend DEF Queues
  <2>7. FlattenSeq(SubSeq(f, 1, p)) = H \o f[p]
    BY <2>4, <2>5, FlatAppend DEF Queues
  <2>8. PICK L, M \in Nat : /\ L = Offset(c, p) /\ L = Len(A) /\ M = Offset(c, p + 1) /\ M = L + Len(x)
    <3>1. p - 1 = m
      BY <2>2
    <3>2. Offset(c, p) = Len(A)
      BY <2>3, <2>4, <3>1 DEF Offset, Size
    <3>3. Offset(c, p + 1) = Offset(c, p) + Len(c[p])
      BY <1>2, Around
    <3> QED BY <2>4, <3>2, <3>3
  <2>9. f[p] = SubSeq(x, IF a > L THEN a - L + 1 ELSE 1, IF b < M THEN b - L ELSE Len(x))
    BY <1>1, <1>2, <2>4, <2>8
  <2>10. H = SubSeq(A, a + 1, IF b < L THEN b ELSE L)
    <3>1. m <= n
      BY <2>2
    <3> QED BY <1>7, <2>2, <2>3, <2>4, <2>8, <3>1
  <2>11. SubSeq(A, a + 1, IF b < L THEN b ELSE L)
           \o SubSeq(x, IF a > L THEN a - L + 1 ELSE 1, IF b < M THEN b - L ELSE Len(x))
         = SubSeq(A \o x, a + 1, IF b < M THEN b ELSE M)
    <3>1. SubSeq(A, a + 1, IF b < Len(A) THEN b ELSE Len(A))
           \o SubSeq(x, IF a > Len(A) THEN a - Len(A) + 1 ELSE 1,
                        IF b < Len(A) + Len(x) THEN b - Len(A) ELSE Len(x))
         = SubSeq(A \o x, a + 1, IF b < Len(A) + Len(x) THEN b ELSE Len(A) + Len(x))
      BY SliceJoin
    <3> QED BY <2>8, <3>1
  <2>12. End(m + 1) = IF b < M THEN b ELSE M
    BY <2>2, <2>8
  <2> QED BY <2>2, <2>6, <2>7, <2>9, <2>10, <2>11, <2>12
<1>8. n \in T
  <2> HIDE DEF T
  <2> QED BY <1>6, <1>7, Induction
<1>9. SubSeq(f, 1, n) = f /\ SubSeq(c, 1, n) = c
  BY <1>2, <1>5, SubSeqFull DEF Queues
<1>10. End(n) = b
  <2>1. Offset(c, n + 1) = Size(c) /\ Size(c) \in Nat
    BY <1>2, OffsetType
  <2> QED BY <2>1
<1>11. FlattenSeq(SubSeq(f, 1, n)) = SubSeq(FlattenSeq(SubSeq(c, 1, n)), a + 1, End(n))
  BY <1>8
<1> QED BY <1>3, <1>9, <1>10, <1>11

(* How a ByteQueue's bytes were cut into chunks is seen by none of its         *)
(* methods: at and slice return the same for any two cuts of the same bytes,   *)
(* and consume leaves the same bytes of them (ByteQueue).                      *)
THEOREM CutsDoNotMatter ==
  ASSUME NEW c \in Queues, NEW d \in Queues, FlattenSeq(c) = FlattenSeq(d)
  PROVE  /\ Size(c) = Size(d)
         /\ \A i \in Nat : i < Size(c) => At(c, i) = At(d, i)
         /\ \A a, b \in Nat : a <= b /\ b <= Size(c) => Slice(c, a, b) = Slice(d, a, b)
         /\ \A n \in 0..Size(c) : FlattenSeq(Consume(c, n)) = FlattenSeq(Consume(d, n))
<1>1. Size(c) = Size(d) /\ Size(c) \in Nat
  BY FlatType DEF Size, Queues
<1>2. ASSUME NEW i \in Nat, i < Size(c) PROVE At(c, i) = At(d, i)
  <2>1. At(c, i) = FlattenSeq(c)[i + 1]
    BY <1>2, AtByte
  <2>2. i < Size(d)
    BY <1>1, <1>2
  <2>3. At(d, i) = FlattenSeq(d)[i + 1]
    BY <2>2, AtByte
  <2> QED BY <2>1, <2>3
<1>3. ASSUME NEW a \in Nat, NEW b \in Nat, a <= b, b <= Size(c) PROVE Slice(c, a, b) = Slice(d, a, b)
  <2>1. Slice(c, a, b) = SubSeq(FlattenSeq(c), a + 1, b)
    BY <1>3, SliceBytes
  <2>2. b <= Size(d)
    BY <1>1, <1>3
  <2>3. Slice(d, a, b) = SubSeq(FlattenSeq(d), a + 1, b)
    BY <1>3, <2>2, SliceBytes
  <2> QED BY <2>1, <2>3
<1>4. ASSUME NEW n \in 0..Size(c) PROVE FlattenSeq(Consume(c, n)) = FlattenSeq(Consume(d, n))
  <2>1. PICK m \in Nat : n \in Nat /\ Size(c) = n + m
    <3>1. Size(c) - n \in Nat /\ n + (Size(c) - n) = Size(c) /\ n \in Nat
      BY <1>1
    <3> QED BY <3>1
  <2>2. FlattenSeq(Consume(c, n)) = SubSeq(FlattenSeq(c), n + 1, Size(c))
    BY <2>1, ConsumeBytes
  <2>3. Size(d) = n + m
    BY <1>1, <2>1
  <2>4. FlattenSeq(Consume(d, n)) = SubSeq(FlattenSeq(d), n + 1, Size(d))
    BY <2>1, <2>3, ConsumeBytes
  <2> QED BY <1>1, <2>2, <2>4
<1> QED BY <1>1, <1>2, <1>3, <1>4

StreamStates == {"open", "closed", "errored", "cancelled"}
StreamType == [state : StreamStates, backlog : Nat, queued : Queues]
SockLives == {"none", "dialling", "open", "ended", "broken", "closed"}
SockType == [life : SockLives, half : BOOLEAN, got : Seq(Nat)]
PipeType == [state : {"none", "on", "over"}, bytes : Seq(Nat), to : Targets \cup {None}]
Reply == [from : Targets \cup Nat, header : BOOLEAN]

(* Every variable stays in its range, but for what is cut from the stream. *)
RelayType ==
  /\ client \in [request : {"tcp", "udp", "bad", "dns"}, proxy : BOOLEAN, framing : Seq(Nat)]
  /\ sent \in Nat /\ sent <= Total
  /\ ws \in {"open", "closing", "closed"}
  /\ stream \in StreamType
  /\ pc \in {"head", "dial", "write", "pump", "await", "dns", "settle", "done"}
  /\ at \in Targets /\ current \in Targets \cup {None}
  /\ sock \in [Targets -> SockType]
  /\ pipe \in PipeType
  /\ owed \in BOOLEAN /\ sawData \in BOOLEAN
  /\ opening \in Seq(Nat) /\ (pc = "head" => parts \in Queues)

(* Numbered bytes. *)
LEMMA BytesType ==
  ASSUME NEW n \in Nat, NEW k \in Nat
  PROVE  /\ Bytes(n + 1, n + k) \in Seq(Nat) /\ Len(Bytes(n + 1, n + k)) = k
         /\ \A i \in 1..k : Bytes(n + 1, n + k)[i] = n + i
<1>1. (n + k) - (n + 1) + 1 = k
  OBVIOUS
<1> QED BY <1>1 DEF Bytes

(* The fields of the stream. *)
LEMMA StreamIs ==
  ASSUME stream \in StreamType
  PROVE  /\ stream.state \in StreamStates /\ stream.backlog \in Nat /\ stream.queued \in Queues
         /\ stream.queued # <<>> => /\ Head(stream.queued) \in Seq(Nat)
                                    /\ Tail(stream.queued) \in Queues
BY DEF StreamType, Queues

(* The stream after its first chunk is taken. *)
LEMMA TakenType ==
  ASSUME stream \in StreamType, stream.queued # <<>>
  PROVE  /\ Taken \in StreamType /\ Taken.state = stream.state /\ Taken.queued = Tail(stream.queued)
         /\ Taken.backlog = IF Len(stream.queued) = 1 /\ stream.state = "open" THEN 0 ELSE stream.backlog
BY StreamIs DEF Taken, StreamType

(* Initially the variables are in their ranges. *)
LEMMA InitRelayType == Init => RelayType
<1> SUFFICES ASSUME Init PROVE RelayType
  OBVIOUS
<1>1. PICK early \in 0 .. MaxChunk :
          /\ early <= Total
          /\ sent = early
          /\ stream = [state |-> "open", backlog |-> early,
                       queued |-> IF early = 0 THEN <<>> ELSE <<Bytes(1, early)>>]
  BY DEF Init
<1>2. early \in Nat /\ 0 + 1 = 1 /\ 0 + early = early
  BY WorkerRelayAssumption
<1>3. Bytes(1, early) \in Seq(Nat)
  <2>1. Bytes(0 + 1, 0 + early) \in Seq(Nat)
    BY <1>2, BytesType
  <2> QED BY <1>2, <2>1
<1>4. stream \in StreamType
  <2>1. stream.queued \in Queues
    BY <1>1, <1>3 DEF Queues
  <2> QED BY <1>1, <1>2, <2>1 DEF StreamType, StreamStates
<1>5. client \in [request : {"tcp", "udp", "bad", "dns"}, proxy : BOOLEAN, framing : Seq(Nat)]
  <2>1. \A f \in Framings : f \in Seq(Nat)
    <3>1. 0 .. Base * Base - 1 \subseteq Nat
      BY WorkerRelayAssumption
    <3>2. ASSUME NEW f \in Framings PROVE f \in Seq(Nat)
      <4>1. f \in Seq(0 .. Base * Base - 1)
        BY WorkerRelayAssumption
      <4> QED BY <3>1, <4>1, SeqMonotonic
    <3> QED BY <3>2
  <2>2. <<>> \in Seq(Nat)
    OBVIOUS
  <2> QED BY <2>1, <2>2 DEF Init
<1>6. sock \in [Targets -> SockType]
  <2>1. <<>> \in Seq(Nat)
    OBVIOUS
  <2> QED BY <2>1 DEF Init, SockType, SockLives
<1>7. pipe \in PipeType
  <2>1. <<>> \in Seq(Nat)
    OBVIOUS
  <2> QED BY <2>1 DEF Init, NoPipe, PipeType
<1>8. opening \in Seq(Nat) /\ parts \in Queues
  BY DEF Init, Queues
<1> QED BY <1>1, <1>2, <1>4, <1>5, <1>6, <1>7, <1>8 DEF Init, RelayType, Targets, None

(* The sockets after a change of one. *)
LEMMA SockStep ==
  ASSUME NEW ss \in [Targets -> SockType], NEW t \in Targets
  PROVE  /\ \A l \in SockLives : [ss EXCEPT ![t].life = l] \in [Targets -> SockType]
         /\ \A g \in Seq(Nat) : [ss EXCEPT ![t].got = g] \in [Targets -> SockType]
         /\ [ss EXCEPT ![t].half = TRUE] \in [Targets -> SockType]
BY DEF SockType

(* What a message does. *)
MessageCases(n) ==
  \/ stream.state # "open" /\ UNCHANGED <<stream, ws>>
  \/ /\ stream.state = "open" /\ stream.backlog + n > MaxBacklog
     /\ stream' = [stream EXCEPT !.state = "errored", !.queued = <<>>, !.backlog = @ + n]
     /\ ws' = Closing
  \/ /\ stream.state = "open" /\ stream.backlog + n <= MaxBacklog
     /\ stream' = [stream EXCEPT !.queued = Append(@, Bytes(sent + 1, sent + n)),
                                 !.backlog = IF Reads THEN 0 ELSE @ + n]
     /\ UNCHANGED ws

(* A message is one of the three cases, for some number of bytes. *)
LEMMA MessageIs ==
  ASSUME RelayType, Message
  PROVE  /\ ws # "closed" /\ Settled
         /\ \E n \in Nat \ {0} : /\ sent + n <= Total /\ sent' = sent + n /\ n <= MaxChunk
                                 /\ stream.backlog + n \in Nat /\ MessageCases(n)
<1>1. PICK n \in 1 .. MaxChunk :
          /\ sent + n <= Total /\ sent' = sent + n
          /\ LET over == stream.backlog + n > MaxBacklog IN
             IF stream.state # "open" THEN UNCHANGED <<stream, ws>>
             ELSE IF over THEN /\ stream' = [stream EXCEPT !.state = "errored", !.queued = <<>>, !.backlog = @ + n]
                               /\ ws' = Closing
             ELSE /\ stream' = [stream EXCEPT !.queued = Append(@, Bytes(sent + 1, sent + n)),
                                              !.backlog = IF Reads THEN 0 ELSE @ + n]
                  /\ UNCHANGED ws
  BY DEF Message
<1>2. n \in Nat \ {0} /\ n <= MaxChunk
  BY WorkerRelayAssumption
<1>3. stream.backlog \in Nat /\ MaxBacklog \in Nat
  BY StreamIs, WorkerRelayAssumption DEF RelayType
<1>4. stream.backlog + n \in Nat /\ (~(stream.backlog + n > MaxBacklog) => stream.backlog + n <= MaxBacklog)
  BY <1>2, <1>3
<1> QED BY <1>1, <1>2, <1>4 DEF Message, MessageCases

(* What the bytes before the end of the header, and the ones after it, set going. *)
ReadHeadCases(buf) ==
  \/ Len(buf) < HeaderLen /\ parts' = <<buf>> /\ UNCHANGED <<pc, ws, opening, sock>>
  \/ client.request \in {"bad", "udp"} /\ parts' = <<>> /\ Ends /\ UNCHANGED <<opening, sock>>
  \/ /\ ~(Len(buf) < HeaderLen) /\ client.request = "tcp"
     /\ parts' = <<>> /\ opening' = SubSeq(buf, HeaderLen + 1, Len(buf)) /\ pc' = "dial"
     /\ sock' = [sock EXCEPT !["direct"].life = "dialling"] /\ UNCHANGED ws
  \/ /\ ~(Len(buf) < HeaderLen) /\ client.request = "dns"
     /\ parts' = Push(<<>>, SubSeq(buf, HeaderLen + 1, Len(buf)))
     /\ pc' = "dns" /\ UNCHANGED <<ws, opening, sock>>

(* What ReadHead does, case by case. *)
LEMMA ReadHeadIs ==
  ASSUME RelayType, ReadHead
  PROVE  /\ pc = "head" /\ stream.queued # <<>> /\ stream' = Taken
         /\ \E buf \in Seq(Nat) : buf = FlattenSeq(Push(parts, Head(stream.queued))) /\ ReadHeadCases(buf)
         /\ UNCHANGED <<client, sent, at, current, pipe, downVars, dnsVars>>
<1>0. Push(parts, Head(stream.queued)) \in Queues
  BY StreamIs, AppendProperties DEF Push, ReadHead, RelayType, Queues
<1>1. PICK buf \in Seq(Nat) : buf = FlattenSeq(Push(parts, Head(stream.queued)))
  BY <1>0, FlatType DEF Queues
<1>2. LET rest == SubSeq(buf, HeaderLen + 1, Len(buf)) IN
      CASE Parse(buf) = "need" -> parts' = <<buf>> /\ UNCHANGED <<pc, ws, opening, sock>>
         [] Parse(buf) \in {"bad", "udp"} -> parts' = <<>> /\ Ends /\ UNCHANGED <<opening, sock>>
         [] Parse(buf) = "tcp" ->
              /\ parts' = <<>> /\ opening' = rest /\ pc' = "dial"
              /\ sock' = [sock EXCEPT !["direct"].life = "dialling"] /\ UNCHANGED ws
         [] Parse(buf) = "dns" ->
              parts' = Push(<<>>, rest) /\ pc' = "dns" /\ UNCHANGED <<ws, opening, sock>>
  BY <1>1 DEF ReadHead
<1>3. client.request \in {"tcp", "udp", "bad", "dns"}
  BY DEF RelayType
<1>4. Parse(buf) = IF Len(buf) < HeaderLen THEN "need" ELSE client.request
  BY DEF Parse
<1>5. ReadHeadCases(buf)
  <2>1. CASE Len(buf) < HeaderLen
    BY <1>2, <1>4, <2>1 DEF ReadHeadCases
  <2>2. CASE ~(Len(buf) < HeaderLen) /\ client.request \in {"bad", "udp"}
    BY <1>2, <1>4, <2>2 DEF ReadHeadCases
  <2>3. CASE ~(Len(buf) < HeaderLen) /\ client.request = "tcp"
    BY <1>2, <1>4, <2>3 DEF ReadHeadCases
  <2>4. CASE ~(Len(buf) < HeaderLen) /\ client.request = "dns"
    BY <1>2, <1>4, <2>4 DEF ReadHeadCases
  <2> QED BY <1>3, <2>1, <2>2, <2>3, <2>4
<1> QED BY <1>1, <1>5 DEF ReadHead

(* Every step keeps the variables in their ranges. *)
LEMMA StepRelayType == RelayType /\ [Next]_vars => RelayType'
<1> SUFFICES ASSUME RelayType, [Next]_vars PROVE RelayType'
  OBVIOUS
<1> USE DEF RelayType
<1>s. /\ stream.state \in StreamStates /\ stream.backlog \in Nat /\ stream.queued \in Queues
  BY StreamIs
<1>e. <<>> \in Seq(Nat) /\ <<>> \in Queues
  BY DEF Queues
<1>1. CASE Message
  <2>1. PICK n \in Nat \ {0} : /\ sent + n <= Total /\ sent' = sent + n
                               /\ stream.backlog + n \in Nat /\ MessageCases(n)
    BY <1>1, MessageIs
  <2>2. sent' \in Nat /\ Bytes(sent + 1, sent + n) \in Seq(Nat)
    BY <2>1, BytesType
  <2>3. Append(stream.queued, Bytes(sent + 1, sent + n)) \in Queues
    BY <1>s, <2>2, AppendProperties DEF Queues
  <2>4. stream' \in StreamType
    <3>1. (IF Reads THEN 0 ELSE stream.backlog + n) \in Nat
      BY <2>1
    <3>2. CASE stream' = [stream EXCEPT !.queued = Append(@, Bytes(sent + 1, sent + n)),
                                        !.backlog = IF Reads THEN 0 ELSE @ + n]
      <4>1. stream' = [stream EXCEPT !.queued = Append(stream.queued, Bytes(sent + 1, sent + n)),
                                     !.backlog = IF Reads THEN 0 ELSE stream.backlog + n]
        BY <3>2 DEF StreamType
      <4> HIDE DEF Reads
      <4> QED BY <2>3, <3>1, <4>1 DEF StreamType
    <3> QED BY <1>s, <1>e, <2>1, <3>2 DEF StreamType, StreamStates, MessageCases
  <2>5. ws' \in {"open", "closing", "closed"}
    BY <2>1 DEF Closing, MessageCases
  <2>6. Total' = Total
    BY <1>1 DEF Message, Total
  <2> QED BY <1>1, <2>1, <2>2, <2>4, <2>5, <2>6 DEF Message, upVars, sockVars, downVars, dnsVars
<1>2. CASE WsCloses
  <2>1. stream' \in StreamType
    BY <1>2, <1>s, <1>e DEF WsCloses, StreamType, StreamStates
  <2> QED BY <1>2, <2>1 DEF WsCloses, upVars, sockVars, downVars, dnsVars, Total
<1>3. CASE ReadHead
  <2>1. PICK buf \in Seq(Nat) : ReadHeadCases(buf)
    BY <1>3, ReadHeadIs
  <2>2. stream' \in StreamType
    BY <1>3, TakenType DEF ReadHead
  <2>3. sock' \in [Targets -> SockType]
    <3>1. "direct" \in Targets /\ "dialling" \in SockLives
      BY DEF Targets, SockLives
    <3>2. [sock EXCEPT !["direct"].life = "dialling"] \in [Targets -> SockType]
      BY <3>1, SockStep
    <3> QED BY <2>1, <3>2 DEF ReadHeadCases, Ends
  <2>4. pc' \in {"head", "dial", "done", "dns"} /\ ws' \in {"open", "closing", "closed"}
    BY <1>3, <2>1 DEF ReadHead, ReadHeadCases, Ends, Closing
  <2>5. opening' \in Seq(Nat)
    <3>1. SubSeq(buf, HeaderLen + 1, Len(buf)) \in Seq(Nat)
      BY WorkerRelayAssumption
    <3> QED BY <2>1, <3>1 DEF ReadHeadCases
  <2>6. pc' = "head" => parts' \in Queues
    <3>1. <<buf>> \in Queues
      BY DEF Queues
    <3> QED BY <1>3, <2>1, <3>1 DEF ReadHead, ReadHeadCases, Ends
  <2> QED BY <1>3, <2>2, <2>3, <2>4, <2>5, <2>6 DEF ReadHead, downVars, dnsVars, Total
<1>4. CASE HeadEnds
  BY <1>4 DEF HeadEnds, Ends, Closing, upVars, sockVars, downVars, dnsVars, Total
<1>5. ASSUME NEW socks \in [Targets -> SockType], Opened(socks)
      PROVE  at' \in Targets /\ current' \in Targets /\ sock' \in [Targets -> SockType]
             /\ pipe' \in PipeType /\ ws' = ws /\ pc' = "pump"
  <2>1. current # None => [socks EXCEPT ![current].life = "closed"] \in [Targets -> SockType]
    <3>1. "closed" \in SockLives
      BY DEF SockLives
    <3> QED BY <3>1, SockStep
  <2>2. sock' \in [Targets -> SockType]
    BY <1>5, <2>1 DEF Opened
  <2>3. pipe' \in PipeType
    BY <1>5 DEF Opened, PipeType
  <2> QED BY <1>5, <2>2, <2>3 DEF Opened
<1>6. ASSUME NEW socks \in [Targets -> SockType], Leaves(socks)
      PROVE  at' \in Targets /\ sock' \in [Targets -> SockType]
             /\ ws' \in {"open", "closing", "closed"} /\ pc' \in {"dial", "await"}
  <2>1. [socks EXCEPT !["relay"].life = "dialling"] \in [Targets -> SockType] /\ "relay" \in Targets
    BY SockStep DEF SockLives, Targets
  <2> QED BY <1>6, <2>1 DEF Leaves, Retry, Finish, Closing
<1>7. CASE Dialled
  <2>1. PICK socks \in [Targets -> SockType] : socks = [sock EXCEPT ![at].life = "open"]
    BY SockStep DEF SockLives
  <2>2. Opened(socks) \/ (pc' = "write" /\ sock' = socks /\ UNCHANGED <<ws, at, current, pipe>>)
    BY <1>7, <2>1 DEF Dialled
  <2>3. UNCHANGED <<client, sent, stream, upVars, downVars, dnsVars>>
    BY <1>7 DEF Dialled
  <2>4. at' \in Targets /\ current' \in Targets \cup {None} /\ sock' \in [Targets -> SockType]
        /\ pipe' \in PipeType /\ ws' = ws /\ pc' \in {"write", "pump"}
    BY <1>5, <2>2
  <2> QED BY <2>3, <2>4 DEF upVars, downVars, Total
<1>8. CASE OpeningWritten
  <2>1. PICK socks \in [Targets -> SockType] : socks = [sock EXCEPT ![at].got = opening]
    BY SockStep
  <2>2. Opened(socks) /\ UNCHANGED <<client, sent, stream, upVars, downVars, dnsVars>>
    BY <1>8, <2>1 DEF OpeningWritten, OpeningFor
  <2> QED BY <1>5, <2>2 DEF upVars, downVars, Total
<1>9. CASE OpenFails
  <2>1. PICK socks \in [Targets -> SockType] : socks = [sock EXCEPT ![at].life = "broken"]
    BY SockStep DEF SockLives
  <2>2. Leaves(socks) /\ UNCHANGED <<client, sent, stream, upVars, current, pipe, downVars, dnsVars>>
    BY <1>9, <2>1 DEF OpenFails
  <2> QED BY <1>6, <2>2 DEF upVars, downVars, Total
<1>10. CASE PumpEnds
  <2>1. PICK life \in {"ended", "broken"} : Leaves([sock EXCEPT ![at].life = life])
    BY <1>10 DEF PumpEnds
  <2>2. PICK socks \in [Targets -> SockType] : socks = [sock EXCEPT ![at].life = life]
    BY SockStep DEF SockLives
  <2>3. Leaves(socks) /\ UNCHANGED <<client, sent, stream, upVars, current, pipe, downVars, dnsVars>>
    BY <1>10, <2>1, <2>2 DEF PumpEnds
  <2> QED BY <1>6, <2>3 DEF upVars, downVars, Total
<1>11. CASE TargetSends
  BY <1>11 DEF TargetSends, Send, upVars, sockVars, dnsVars, Total
<1>12. CASE PipeReads
  <2>1. stream' \in StreamType
    BY <1>12, TakenType DEF PipeReads
  <2>2. pipe' \in PipeType
    BY <1>12, StreamIs DEF PipeReads, PipeType
  <2> QED BY <1>12, <2>1, <2>2 DEF PipeReads, upVars, sockVars, downVars, dnsVars, Total
<1>13. CASE PipeWrites
  <2>1. pipe.to \in Targets => sock[pipe.to].got \o pipe.bytes \in Seq(Nat)
    BY ConcatProperties DEF SockType, PipeType
  <2>2. pipe.to \in Targets => [sock EXCEPT ![pipe.to].got = @ \o pipe.bytes] \in [Targets -> SockType]
    BY <2>1, SockStep DEF SockType
  <2>3. sock' \in [Targets -> SockType]
    <3>1. pipe.to \notin Targets => [sock EXCEPT ![pipe.to].got = @ \o pipe.bytes] = sock
      OBVIOUS
    <3> QED BY <1>13, <2>2, <3>1 DEF PipeWrites
  <2>4. pipe' \in PipeType
    BY <1>13, <1>e DEF PipeWrites, PipeType
  <2> QED BY <1>13, <2>3, <2>4 DEF PipeWrites, upVars, downVars, dnsVars, Total
<1>14. CASE PipeFails
  <2>1. sock' \in [Targets -> SockType]
    BY <1>14 DEF PipeFails, SockType, SockLives
  <2>2. stream' \in StreamType
    BY <1>14, <1>e, <1>s DEF PipeFails, StreamType, StreamStates
  <2>3. pipe' \in PipeType
    BY <1>14, <1>e DEF PipeFails, NoPipe, PipeType
  <2> QED BY <1>14, <2>1, <2>2, <2>3 DEF PipeFails, Closing, upVars, downVars, dnsVars, Total
<1>15. CASE PipeEnds
  <2>1. sock' \in [Targets -> SockType]
    BY <1>15 DEF PipeEnds, SockType
  <2>2. pipe' \in PipeType
    BY <1>15, <1>e DEF PipeEnds, NoPipe, PipeType
  <2> QED BY <1>15, <2>1, <2>2 DEF PipeEnds, upVars, downVars, dnsVars, Total
<1>16. CASE Returns
  BY <1>16 DEF Returns, upVars, sockVars, downVars, dnsVars, Total
<1>17. CASE DnsReads
  <2>1. stream' \in StreamType
    BY <1>17, TakenType DEF DnsReads
  <2> QED BY <1>17, <2>1 DEF DnsReads, sockVars, downVars, dnsVars, Total
<1>18. CASE Drain
  BY <1>18 DEF Drain, Complete, sockVars, downVars, Total
<1>19. CASE LookupAnswers
  BY <1>19 DEF LookupAnswers, Send, upVars, sockVars, Total
<1>20. CASE LookupFails
  BY <1>20 DEF LookupFails, upVars, sockVars, downVars, Total
<1>21. CASE DnsEnds
  BY <1>21 DEF DnsEnds, upVars, sockVars, downVars, dnsVars, Total
<1>22. CASE DnsSettles
  BY <1>22 DEF DnsSettles, Ends, Closing, upVars, sockVars, downVars, dnsVars, Total
<1>23. CASE UNCHANGED vars
  BY <1>23 DEF vars, Total
<1> QED BY <1>1, <1>2, <1>3, <1>4, <1>7, <1>8, <1>9, <1>10, <1>11, <1>12, <1>13, <1>14, <1>15, <1>16,
           <1>17, <1>18, <1>19, <1>20, <1>21, <1>22, <1>23 DEF Next

(* What is queued, and the guard's count of it. *)
Guarded ==
  /\ Size(stream.queued) <= MaxBacklog
  /\ Size(stream.queued) <= stream.backlog \/ (Reads /\ Len(stream.queued) = 1)
  /\ stream.state = "open" => stream.backlog <= MaxBacklog
  /\ stream.backlog <= MaxBacklog + MaxChunk
  /\ stream.state \in {"errored", "cancelled"} => stream.queued = <<>>

(* The bytes of a queue and their number. *)
LEMMA SizeType ==
  ASSUME NEW c \in Queues
  PROVE  /\ Size(c) \in Nat /\ Len(c) \in Nat /\ FlattenSeq(c) \in Seq(Nat) /\ Len(FlattenSeq(c)) = Size(c)
         /\ Size(<<>>) = 0
<1>1. FlattenSeq(c) \in Seq(Nat)
  BY FlatType DEF Queues
<1> QED BY <1>1, FlatEmpty DEF Size, Queues

(* A chunk is added at the end. *)
LEMMA Queueing ==
  ASSUME NEW c \in Queues, NEW x \in Seq(Nat)
  PROVE  /\ Append(c, x) \in Queues /\ Len(Append(c, x)) = Len(c) + 1
         /\ FlattenSeq(Append(c, x)) = FlattenSeq(c) \o x
         /\ Size(Append(c, x)) = Size(c) + Len(x)
<1>1. Append(c, x) \in Queues /\ Len(Append(c, x)) = Len(c) + 1
  BY AppendProperties DEF Queues
<1>2. FlattenSeq(Append(c, x)) = FlattenSeq(c) \o x
  BY FlatAppend DEF Queues
<1>3. PICK A \in Seq(Nat) : A = FlattenSeq(c)
  BY SizeType
<1>4. Len(A \o x) = Len(A) + Len(x)
  BY ConcatProperties
<1> QED BY <1>1, <1>2, <1>3, <1>4 DEF Size

(* A chunk is taken from the front. *)
LEMMA Dequeueing ==
  ASSUME NEW c \in Queues, c # <<>>
  PROVE  /\ Head(c) \in Seq(Nat) /\ Tail(c) \in Queues
         /\ Len(c) = Len(Tail(c)) + 1 /\ (Len(c) = 1 => Tail(c) = <<>>)
         /\ FlattenSeq(c) = Head(c) \o FlattenSeq(Tail(c))
         /\ Size(c) = Len(Head(c)) + Size(Tail(c))
<1>1. Head(c) \in Seq(Nat) /\ Tail(c) \in Queues /\ Len(c) = Len(Tail(c)) + 1
  BY DEF Queues
<1>2. FlattenSeq(c) = Head(c) \o FlattenSeq(Tail(c))
  BY FlatTail DEF Queues
<1>3. PICK A, x \in Seq(Nat) : A = FlattenSeq(Tail(c)) /\ x = Head(c)
  BY <1>1, SizeType
<1>4. Len(x \o A) = Len(x) + Len(A)
  BY ConcatProperties
<1>5. Len(c) = 1 => Tail(c) = <<>>
  <2>1. PICK t \in Queues : t = Tail(c)
    BY <1>1
  <2>2. Len(c) = 1 => Len(t) = 0
    <3>1. PICK k \in Nat : k = Len(t)
      BY SizeType
    <3>2. Len(c) = k + 1
      BY <1>1, <2>1, <3>1
    <3>3. k + 1 = 1 => k = 0
      OBVIOUS
    <3> QED BY <3>1, <3>2, <3>3
  <2>3. Len(t) = 0 => t = <<>>
    BY DEF Queues
  <2> QED BY <2>1, <2>2, <2>3
<1> QED BY <1>1, <1>2, <1>3, <1>4, <1>5 DEF Size

(* Steps of the reader leave the guard in order. *)
LEMMA TakenGuarded ==
  ASSUME RelayType, Guarded, stream.queued # <<>>, stream' = Taken
  PROVE  Guarded'
<1>0. stream.state \in StreamStates /\ stream.backlog \in Nat /\ stream.queued \in Queues
  BY StreamIs DEF RelayType
<1>1. /\ stream'.state = stream.state /\ stream'.queued = Tail(stream.queued)
      /\ stream'.backlog = IF Len(stream.queued) = 1 /\ stream.state = "open" THEN 0 ELSE stream.backlog
  BY TakenType DEF RelayType
<1>2. PICK q, t \in Queues, n, s, l, k, b \in Nat :
        /\ q = stream.queued /\ t = Tail(q) /\ n = Size(q) /\ s = Size(t) /\ l = Len(q) /\ b = stream.backlog
        /\ k = Len(Head(q)) /\ n = k + s /\ (l = 1 => t = <<>>)
  <2>1. Tail(stream.queued) \in Queues /\ Len(Head(stream.queued)) \in Nat
    BY <1>0, Dequeueing
  <2>2. /\ Size(stream.queued) \in Nat /\ Size(Tail(stream.queued)) \in Nat
        /\ Len(stream.queued) \in Nat
    BY <1>0, <2>1, SizeType
  <2>3. Size(stream.queued) = Len(Head(stream.queued)) + Size(Tail(stream.queued))
        /\ (Len(stream.queued) = 1 => Tail(stream.queued) = <<>>)
    BY <1>0, Dequeueing
  <2> QED BY <1>0, <2>1, <2>2, <2>3
<1>3. MaxBacklog \in Nat /\ MaxChunk \in Nat
  BY WorkerRelayAssumption
<1>4. s <= n
  BY <1>2
<1>5. Size(<<>>) = 0
  BY SizeType, <1>0
<1>6. l = 1 => s = 0
  BY <1>2, <1>5
<1>7. s <= MaxBacklog
  BY <1>2, <1>3, <1>4 DEF Guarded
<1>8. s <= stream'.backlog
  <2>1. CASE l = 1
    BY <1>0, <1>1, <1>6, <2>1, <1>2
  <2>2. CASE l # 1
    <3>1. n <= b
      BY <1>2, <2>2 DEF Guarded
    <3>2. stream'.backlog = b
      BY <1>1, <1>2, <2>2
    <3> QED BY <1>4, <3>1, <3>2
  <2> QED BY <2>1, <2>2
<1>9. stream'.backlog <= b /\ stream'.backlog \in Nat
  BY <1>1, <1>2
<1>10. Size(stream'.queued) = s
  BY <1>1, <1>2
<1>11. stream'.state \notin {"errored", "cancelled"}
  BY <1>1 DEF Guarded
<1>12. stream'.state = "open" => stream'.backlog <= MaxBacklog
  BY <1>1, <1>2, <1>3, <1>9 DEF Guarded
<1>13. stream'.backlog <= MaxBacklog + MaxChunk
  BY <1>2, <1>3, <1>9 DEF Guarded
<1> QED BY <1>7, <1>8, <1>10, <1>11, <1>12, <1>13 DEF Guarded

(* Initially early data is all that is queued. *)
LEMMA InitGuarded == Init => Guarded
<1> SUFFICES ASSUME Init PROVE Guarded
  OBVIOUS
<1>1. PICK early \in 0 .. MaxChunk :
          /\ early <= Total /\ early <= MaxBacklog
          /\ sent = early
          /\ stream = [state |-> "open", backlog |-> early,
                       queued |-> IF early = 0 THEN <<>> ELSE <<Bytes(1, early)>>]
  BY DEF Init
<1>2. early \in Nat /\ 0 + 1 = 1 /\ 0 + early = early
  BY WorkerRelayAssumption
<1>3. Bytes(1, early) \in Seq(Nat) /\ Len(Bytes(1, early)) = early
  <2>1. Bytes(0 + 1, 0 + early) \in Seq(Nat) /\ Len(Bytes(0 + 1, 0 + early)) = early
    BY <1>2, BytesType
  <2> QED BY <1>2, <2>1
<1>4. Size(stream.queued) = early
  <2>1. CASE early = 0
    BY <1>1, <2>1, FlatEmpty DEF Size
  <2>2. CASE early # 0
    <3>1. FlattenSeq(<<Bytes(1, early)>>) = Bytes(1, early)
      BY <1>3, FlatOne
    <3>2. stream.queued = <<Bytes(1, early)>>
      BY <1>1, <2>2
    <3> QED BY <1>3, <3>1, <3>2 DEF Size
  <2> QED BY <2>1, <2>2
<1> QED BY <1>1, <1>2, <1>4, WorkerRelayAssumption DEF Guarded

(* The queue and what reads it are as they were, or more is read. *)
LEMMA StillGuarded ==
  ASSUME Guarded, stream' = stream, Reads => Reads'
  PROVE  Guarded'
BY DEF Guarded

(* Nothing is queued. *)
LEMMA EmptyGuarded ==
  ASSUME RelayType, Guarded, stream'.queued = <<>>, stream'.backlog = stream.backlog,
         stream'.state = "open" => stream.state = "open"
  PROVE  Guarded'
<1>1. Size(<<>>) = 0
  BY FlatEmpty DEF Size
<1>2. stream.backlog \in Nat /\ MaxBacklog \in Nat
  BY StreamIs, WorkerRelayAssumption DEF RelayType
<1> QED BY <1>1, <1>2 DEF Guarded

(* Every step keeps the guard of the stream. *)
LEMMA StepGuarded == RelayType /\ Guarded /\ [Next]_vars => Guarded'
<1> SUFFICES ASSUME RelayType, Guarded, [Next]_vars PROVE Guarded'
  OBVIOUS
<1>s. /\ stream.state \in StreamStates /\ stream.backlog \in Nat /\ stream.queued \in Queues
      /\ stream \in StreamType /\ pipe \in PipeType
  BY StreamIs DEF RelayType
<1>1. CASE Message
  <2>1. PICK n \in Nat \ {0} : /\ sent + n <= Total /\ sent' = sent + n /\ n <= MaxChunk
                               /\ stream.backlog + n \in Nat /\ MessageCases(n)
    BY <1>1, MessageIs DEF RelayType
  <2>2. Reads' = Reads /\ Settled
    BY <1>1 DEF Message, Reads
  <2>3. CASE UNCHANGED stream
    BY <2>2, <2>3, StillGuarded
  <2>4. CASE /\ stream.state = "open" /\ stream.backlog + n > MaxBacklog
             /\ stream' = [stream EXCEPT !.state = "errored", !.queued = <<>>, !.backlog = @ + n]
    <3>1. stream'.queued = <<>> /\ stream'.backlog = stream.backlog + n /\ stream'.state = "errored"
      BY <1>s, <2>4 DEF StreamType
    <3>2. stream.backlog <= MaxBacklog /\ MaxBacklog \in Nat /\ MaxChunk \in Nat
      BY <2>4, WorkerRelayAssumption DEF Guarded
    <3>3. stream.backlog + n <= MaxBacklog + MaxChunk
      BY <1>s, <2>1, <3>2
    <3>4. Size(<<>>) = 0
      BY FlatEmpty DEF Size
    <3> QED BY <1>s, <2>1, <3>1, <3>2, <3>3, <3>4 DEF Guarded
  <2>5. CASE /\ stream.state = "open" /\ stream.backlog + n <= MaxBacklog
             /\ stream' = [stream EXCEPT !.queued = Append(@, Bytes(sent + 1, sent + n)),
                                         !.backlog = IF Reads THEN 0 ELSE @ + n]
    <3>1. PICK x \in Seq(Nat) : x = Bytes(sent + 1, sent + n) /\ Len(x) = n
      BY <2>1, BytesType DEF RelayType
    <3>2. PICK q \in Queues : /\ q = Append(stream.queued, x)
                              /\ Size(q) = Size(stream.queued) + n
                              /\ Len(q) = Len(stream.queued) + 1
      BY <1>s, <3>1, Queueing
    <3>3. /\ stream'.queued = q /\ stream'.backlog = (IF Reads THEN 0 ELSE stream.backlog + n)
          /\ stream'.state = "open"
      BY <1>s, <2>5, <3>1, <3>2 DEF StreamType
    <3>4. /\ Size(stream.queued) \in Nat /\ Len(stream.queued) \in Nat /\ MaxBacklog \in Nat /\ MaxChunk \in Nat
          /\ Size(<<>>) = 0
      BY <1>s, SizeType, WorkerRelayAssumption
    <3>5. Size(stream.queued) <= stream.backlog
      <4>1. CASE stream.queued = <<>>
        BY <1>s, <3>4, <4>1
      <4>2. CASE stream.queued # <<>>
        BY <2>2, <4>2 DEF Guarded, Settled
      <4> QED BY <4>1, <4>2
    <3>6. Size(q) <= stream.backlog + n /\ Size(q) <= MaxBacklog
      BY <1>s, <2>1, <2>5, <3>2, <3>4, <3>5
    <3>7. CASE Reads
      <4>1. stream.queued = <<>>
        BY <2>2, <3>7 DEF Settled
      <4>2. Len(q) = 1
        BY <3>2, <4>1
      <4>3. stream'.backlog = 0 /\ Reads'
        BY <2>2, <3>3, <3>7
      <4> QED BY <3>3, <3>4, <3>6, <4>2, <4>3 DEF Guarded
    <3>8. CASE ~Reads
      <4>1. stream'.backlog = stream.backlog + n
        BY <3>3, <3>8
      <4>2. stream'.backlog <= MaxBacklog + MaxChunk
        BY <1>s, <2>1, <2>5, <3>4, <4>1
      <4> QED BY <2>5, <3>3, <3>6, <4>1, <4>2 DEF Guarded
    <3> QED BY <3>7, <3>8
  <2> QED BY <2>1, <2>3, <2>4, <2>5 DEF MessageCases
<1>2. CASE WsCloses
  <2>1. Reads' = Reads
    BY <1>2 DEF WsCloses, Reads
  <2>2. PICK state \in {"closed", "errored"} :
          stream' = IF stream.state # "open" THEN stream
                    ELSE [stream EXCEPT !.state = state, !.queued = IF state = "closed" THEN @ ELSE <<>>]
    BY <1>2 DEF WsCloses
  <2>3. CASE stream.state # "open"
    BY <2>1, <2>2, <2>3, StillGuarded
  <2>4. CASE stream.state = "open" /\ state = "closed"
    <3>1. stream'.queued = stream.queued /\ stream'.backlog = stream.backlog /\ stream'.state = "closed"
      BY <1>s, <2>2, <2>4 DEF StreamType
    <3> QED BY <2>1, <3>1 DEF Guarded
  <2>5. CASE stream.state = "open" /\ state = "errored"
    <3>1. stream'.queued = <<>> /\ stream'.backlog = stream.backlog /\ stream'.state = "errored"
      BY <1>s, <2>2, <2>5 DEF StreamType
    <3> QED BY <3>1, EmptyGuarded
  <2> QED BY <2>3, <2>4, <2>5
<1>3. CASE ReadHead
  BY <1>3, TakenGuarded DEF ReadHead
<1>4. CASE PipeReads
  BY <1>4, TakenGuarded DEF PipeReads
<1>5. CASE DnsReads
  BY <1>5, TakenGuarded DEF DnsReads
<1>6. CASE HeadEnds \/ DnsEnds
  BY <1>6, EmptyGuarded DEF HeadEnds, DnsEnds
<1>7. CASE PipeEnds
  BY <1>7, EmptyGuarded DEF PipeEnds
<1>8. CASE PipeFails
  <2>1. stream'.queued = <<>> /\ stream'.backlog = stream.backlog /\ stream'.state # "open"
    BY <1>8, <1>s DEF PipeFails, StreamType
  <2> QED BY <2>1, EmptyGuarded
<1>9. CASE PipeWrites
  <2>1. stream' = stream /\ pc' = pc /\ (Reads => Reads')
    <3>1. stream' = stream /\ pc' = pc /\ pipe' = [pipe EXCEPT !.bytes = <<>>, !.to = None]
      BY <1>9 DEF PipeWrites
    <3>2. pipe'.state = pipe.state /\ pipe'.bytes = <<>>
      BY <1>s, <3>1 DEF PipeType
    <3> QED BY <3>1, <3>2 DEF Reads
  <2> QED BY <2>1, StillGuarded
<1>10. ASSUME NEW socks, Opened(socks) PROVE pipe'.state = "on" \/ pipe' = pipe
  BY <1>10, <1>s DEF Opened, PipeType
<1>11. ASSUME NEW socks, Opened(socks) PROVE pipe'.bytes = pipe.bytes
  BY <1>11, <1>s DEF Opened, PipeType
<1>12. CASE Dialled \/ OpeningWritten
  <2>1. stream' = stream /\ pc \notin {"head", "dns"}
    BY <1>12 DEF Dialled, OpeningWritten
  <2>2. pipe' = pipe \/ \E socks : Opened(socks)
    BY <1>12 DEF Dialled, OpeningWritten
  <2>3. pipe'.bytes = pipe.bytes /\ (pipe'.state = "on" \/ pipe' = pipe)
    BY <1>10, <1>11, <2>2
  <2> QED BY <2>1, <2>3, StillGuarded DEF Reads
<1>13. CASE OpenFails \/ PumpEnds
  <2>1. stream' = stream /\ pc \notin {"head", "dns"} /\ pipe' = pipe
    BY <1>13 DEF OpenFails, PumpEnds
  <2> QED BY <2>1, StillGuarded DEF Reads
<1>14. CASE TargetSends
  BY <1>14, StillGuarded DEF TargetSends, Reads
<1>15. CASE Returns
  BY <1>15, StillGuarded DEF Returns, Reads
<1>16. CASE Drain
  BY <1>16, StillGuarded DEF Drain, Reads
<1>17. CASE LookupAnswers \/ LookupFails
  BY <1>17, StillGuarded DEF LookupAnswers, LookupFails, Reads
<1>18. CASE DnsSettles
  BY <1>18, StillGuarded DEF DnsSettles, Ends, Reads
<1>19. CASE UNCHANGED vars
  BY <1>19, StillGuarded DEF vars, Reads
<1> QED BY <1>1, <1>2, <1>3, <1>4, <1>5, <1>6, <1>7, <1>8, <1>9, <1>12, <1>13, <1>14, <1>15, <1>16,
           <1>17, <1>18, <1>19 DEF Next

(* The guard bounds what is queued: a stream that is settled has no chunk handed over but *)
(* not read.                                                                              *)
LEMMA GuardedBounds == Guarded => QueueIsBounded
BY DEF Guarded, QueueIsBounded, Settled

(* A client that sends faster than its target takes never has more than MAX_BACKLOG queued, *)
(* and the guard's count is never below what is there (makeWsReadable).                     *)
THEOREM QueueBounded == Spec => []QueueIsBounded
<1>1. RelayType /\ Guarded /\ [Next]_vars => RelayType' /\ Guarded'
  BY StepRelayType, StepGuarded
<1>2. Init => RelayType /\ Guarded
  BY InitRelayType, InitGuarded
<1> QED BY <1>1, <1>2, GuardedBounds, PTL DEF Spec

(* Which target is current, written to and piped to, and for which request. *)
Shape ==
  /\ pc \in {"dial", "write", "pump", "await"} \/ current # None => client.request = "tcp"
  /\ pc \in {"dns", "settle"} \/ queries # <<>> \/ asking # {} => client.request = "dns"
  /\ (current = None) <=> (pipe.state = "none")
  /\ pipe.bytes # <<>> => pipe.state = "on" /\ pipe.to \in Targets
  /\ pipe.to # None => current # None
  /\ pipe.to = "relay" => current = "relay"
  /\ pc = "head" => current = None /\ at = "direct"
  /\ at = "direct" => current # "relay"
  /\ pc \in {"dial", "write"} => current # at

(* Initially there is no target. *)
LEMMA InitShape == Init => Shape
BY DEF Init, Shape, NoPipe, None

(* The target is the one to write to, and the pipe goes on. *)
LEMMA OpenedIs ==
  ASSUME RelayType, Shape, NEW socks, Opened(socks)
  PROVE  /\ current' = at /\ pc' = "pump" /\ at' = at /\ ws' = ws
         /\ pipe'.state = (IF current = None THEN "on" ELSE pipe.state)
         /\ pipe'.bytes = pipe.bytes /\ pipe'.to = pipe.to
         /\ sock' = IF current = None THEN socks ELSE [socks EXCEPT ![current].life = "closed"]
BY DEF Opened, RelayType, PipeType

(* A task that leaves its target retries, or is over but for the pipe. *)
LEMMA LeavesIs ==
  ASSUME NEW socks, Leaves(socks)
  PROVE  \/ /\ at = "direct" /\ at' = "relay" /\ pc' = "dial" /\ ws' = ws /\ ws = "open" /\ ~sawData
            /\ sock' = [socks EXCEPT !["relay"].life = "dialling"]
         \/ pc' = "await" /\ ws' = Closing /\ sock' = socks /\ at' = at
BY DEF Leaves, Retry, Finish, MayRetry

(* Every step keeps target, pipe and request together. *)
LEMMA StepShape == RelayType /\ Shape /\ [Next]_vars => Shape'
<1> SUFFICES ASSUME RelayType, Shape, [Next]_vars PROVE Shape'
  OBVIOUS
<1>s. pipe \in PipeType /\ at \in Targets /\ current \in Targets \cup {None}
  BY DEF RelayType
<1>n. None \notin Targets /\ "relay" \in Targets /\ "direct" \in Targets /\ "none" = None
  BY DEF Targets, None
<1>1. CASE Message \/ WsCloses \/ TargetSends \/ HeadEnds \/ Returns \/ DnsReads \/ LookupFails \/ LookupAnswers
           \/ DnsEnds \/ DnsSettles \/ UNCHANGED vars
  BY <1>1 DEF Shape, Message, WsCloses, TargetSends, HeadEnds, Returns, DnsReads, LookupFails, LookupAnswers,
              DnsEnds, DnsSettles, Ends, upVars, sockVars, downVars, dnsVars, vars
<1>2. CASE Drain
  BY <1>2 DEF Shape, Drain, Complete, sockVars
<1>3. CASE ReadHead
  <2>1. PICK buf \in Seq(Nat) : ReadHeadCases(buf)
    BY <1>3, ReadHeadIs
  <2>2. UNCHANGED <<client, at, current, pipe, queries, asking>> /\ pc = "head"
    BY <1>3 DEF ReadHead, dnsVars
  <2>3. \/ pc' = "head" \/ pc' = "done" \/ (pc' = "dial" /\ client.request = "tcp")
        \/ (pc' = "dns" /\ client.request = "dns")
    BY <2>1, <2>2 DEF ReadHeadCases, Ends
  <2> QED BY <1>n, <2>2, <2>3 DEF Shape
<1>4. CASE Dialled \/ OpeningWritten
  <2>1. UNCHANGED <<client, queries, asking>> /\ pc \in {"dial", "write"}
    BY <1>4 DEF Dialled, OpeningWritten, dnsVars
  <2>2. (pc' = "write" /\ UNCHANGED <<at, current, pipe>>) \/ \E socks : Opened(socks)
    BY <1>4 DEF Dialled, OpeningWritten
  <2>3. CASE pc' = "write" /\ UNCHANGED <<at, current, pipe>>
    BY <2>1, <2>3 DEF Shape
  <2>4. CASE \E socks : Opened(socks)
    <3>1. /\ current' = at /\ pc' = "pump" /\ at' = at
          /\ pipe'.state = (IF current = None THEN "on" ELSE pipe.state)
          /\ pipe'.bytes = pipe.bytes /\ pipe'.to = pipe.to
      BY <2>4, OpenedIs
    <3> QED BY <1>s, <1>n, <2>1, <3>1 DEF Shape, PipeType, Targets
  <2> QED BY <2>2, <2>3, <2>4
<1>5. CASE OpenFails \/ PumpEnds
  <2>1. UNCHANGED <<client, current, pipe, queries, asking>> /\ pc \in {"dial", "write", "pump"}
    BY <1>5 DEF OpenFails, PumpEnds, dnsVars
  <2>2. (at = "direct" /\ at' = "relay" /\ pc' = "dial") \/ (pc' = "await" /\ at' = at)
    <3>1. \E socks : Leaves(socks)
      BY <1>5 DEF OpenFails, PumpEnds
    <3> QED BY <3>1, LeavesIs
  <2> QED BY <2>1, <2>2 DEF Shape
<1>6. CASE PipeReads
  <2>1. /\ UNCHANGED <<client, pc, at, current, queries, asking>> /\ pipe.state = "on"
        /\ pipe'.state = "on" /\ pipe'.to = current
    BY <1>6, <1>s DEF PipeReads, sockVars, dnsVars, PipeType
  <2> QED BY <1>s, <1>n, <2>1 DEF Shape
<1>7. CASE PipeWrites
  <2>1. /\ UNCHANGED <<client, pc, at, current, queries, asking>>
        /\ pipe'.state = pipe.state /\ pipe'.to = None /\ pipe'.bytes = <<>>
    BY <1>7, <1>s DEF PipeWrites, dnsVars, PipeType
  <2> QED BY <1>n, <2>1 DEF Shape
<1>8. CASE PipeFails
  <2>1. /\ UNCHANGED <<client, pc, at, current, queries, asking>> /\ pipe.bytes # <<>>
        /\ pipe'.state = "over" /\ pipe'.to = None /\ pipe'.bytes = <<>>
    BY <1>8 DEF PipeFails, NoPipe, dnsVars
  <2> QED BY <1>n, <2>1 DEF Shape
<1>9. CASE PipeEnds
  <2>1. /\ UNCHANGED <<client, pc, at, current, queries, asking>> /\ pipe.state = "on"
        /\ pipe'.state = "over" /\ pipe'.to = None /\ pipe'.bytes = <<>>
    BY <1>9 DEF PipeEnds, NoPipe, dnsVars
  <2> QED BY <1>n, <2>1 DEF Shape
<1> QED BY <1>1, <1>2, <1>3, <1>4, <1>5, <1>6, <1>7, <1>8, <1>9 DEF Next

(* The bytes of s are those of the client after the first n. *)
Run(s, n) == \A i \in 1 .. Len(s) : s[i] = n + i

(* What is queued comes after the first p bytes, and up to the last if the stream is open. *)
QueueFollows(p) ==
  /\ Run(FlattenSeq(stream.queued), p)
  /\ stream.state = "open" => p + Size(stream.queued) = sent

Received(p) == p + Size(stream.queued) <= sent

(* No bytes follow any. *)
LEMMA RunEmpty == \A n : Run(<<>>, n)
BY DEF Run

(* Bytes follow one another if both parts do. *)
LEMMA RunConcat ==
  ASSUME NEW s \in Seq(Nat), NEW t \in Seq(Nat), NEW n \in Nat
  PROVE  Run(s \o t, n) <=> Run(s, n) /\ Run(t, n + Len(s))
<1>1. /\ Len(s) \in Nat /\ Len(t) \in Nat /\ Len(s \o t) = Len(s) + Len(t)
      /\ \A i \in 1 .. Len(s) + Len(t) : (s \o t)[i] = IF i <= Len(s) THEN s[i] ELSE t[i - Len(s)]
  BY ConcatProperties
<1>2. ASSUME Run(s \o t, n) PROVE Run(s, n)
  <2>1. ASSUME NEW i \in 1 .. Len(s) PROVE s[i] = n + i
    <3>1. i \in 1 .. Len(s) + Len(t) /\ i <= Len(s)
      BY <1>1
    <3> QED BY <1>1, <1>2, <3>1 DEF Run
  <2> QED BY <2>1 DEF Run
<1>3. ASSUME Run(s \o t, n) PROVE Run(t, n + Len(s))
  <2>1. ASSUME NEW i \in 1 .. Len(t) PROVE t[i] = (n + Len(s)) + i
    <3>1. PICK j \in 1 .. Len(s) + Len(t) : j = Len(s) + i
      <4>1. Len(s) + i \in 1 .. Len(s) + Len(t)
        BY <1>1
      <4> QED BY <4>1
    <3>2. ~(j <= Len(s)) /\ j - Len(s) = i /\ n + j = (n + Len(s)) + i
      BY <1>1, <3>1
    <3>3. (s \o t)[j] = t[i]
      BY <1>1, <3>2
    <3>4. (s \o t)[j] = n + j
      BY <1>1, <1>3 DEF Run
    <3> QED BY <3>2, <3>3, <3>4
  <2> QED BY <2>1 DEF Run
<1>4. ASSUME Run(s, n), Run(t, n + Len(s)) PROVE Run(s \o t, n)
  <2>1. ASSUME NEW i \in 1 .. Len(s) + Len(t) PROVE (s \o t)[i] = n + i
    <3>1. CASE i <= Len(s)
      <4>1. i \in 1 .. Len(s)
        BY <1>1, <3>1
      <4>2. (s \o t)[i] = s[i]
        BY <1>1, <3>1
      <4> QED BY <1>4, <4>1, <4>2 DEF Run
    <3>2. CASE ~(i <= Len(s))
      <4>1. i - Len(s) \in 1 .. Len(t) /\ (n + Len(s)) + (i - Len(s)) = n + i
        BY <1>1, <3>2
      <4>2. (s \o t)[i] = t[i - Len(s)]
        BY <1>1, <3>2
      <4>3. t[i - Len(s)] = (n + Len(s)) + (i - Len(s))
        BY <1>4, <4>1 DEF Run
      <4> QED BY <4>1, <4>2, <4>3
    <3> QED BY <3>1, <3>2
  <2> QED BY <1>1, <2>1 DEF Run
<1> QED BY <1>2, <1>3, <1>4

(* What is left of a run after its first k bytes. *)
LEMMA RunRest ==
  ASSUME NEW s \in Seq(Nat), NEW n \in Nat, NEW k \in 0 .. Len(s), Run(s, n)
  PROVE  /\ Run(SubSeq(s, k + 1, Len(s)), n + k) /\ SubSeq(s, k + 1, Len(s)) \in Seq(Nat)
         /\ k + Len(SubSeq(s, k + 1, Len(s))) = Len(s)
<1>0. k \in Nat /\ Len(s) \in Nat /\ k <= Len(s)
  OBVIOUS
<1>1. PICK r \in Seq(Nat) : r = SubSeq(s, k + 1, Len(s))
  <2>1. SubSeq(s, k + 1, Len(s)) \in Seq(Nat)
    OBVIOUS
  <2> QED BY <2>1
<1>2. Len(r) = Len(s) - k /\ \A i \in 1 .. Len(s) - k : r[i] = s[k + i]
  <2>1. Len(SubSeq(s, k + 1, Len(s))) = Len(s) - k
    OBVIOUS
  <2>2. ASSUME NEW i \in 1 .. Len(s) - k PROVE r[i] = s[k + i]
    <3>1. (k + 1) + i - 1 = k + i /\ i \in 1 .. (Len(s) - (k + 1) + 1)
      BY <1>0
    <3>2. SubSeq(s, k + 1, Len(s))[i] = s[(k + 1) + i - 1]
      BY <1>0
    <3> QED BY <1>1, <3>1, <3>2
  <2> QED BY <1>1, <2>1, <2>2
<1>3. Run(r, n + k)
  <2>1. ASSUME NEW i \in 1 .. Len(r) PROVE r[i] = (n + k) + i
    <3>1. k + i \in 1 .. Len(s) /\ n + (k + i) = (n + k) + i
      BY <1>0, <1>2
    <3>2. s[k + i] = n + (k + i)
      BY <3>1 DEF Run
    <3>3. r[i] = s[k + i]
      BY <1>2
    <3> QED BY <3>1, <3>2, <3>3
  <2> QED BY <2>1 DEF Run
<1>4. k + Len(r) = Len(s)
  BY <1>0, <1>2
<1> QED BY <1>1, <1>3, <1>4

(* Numbered bytes are a run. *)
LEMMA RunBytes ==
  ASSUME NEW n \in Nat, NEW k \in Nat
  PROVE  Run(Bytes(n + 1, n + k), n)
BY BytesType DEF Run

(* A run is determined by its start and its length. *)
LEMMA RunIs ==
  ASSUME NEW s \in Seq(Nat), NEW n \in Nat, Run(s, n)
  PROVE  s = Bytes(n + 1, n + Len(s))
<1>1. PICK t \in Seq(Nat) : t = Bytes(n + 1, n + Len(s)) /\ Len(t) = Len(s)
                            /\ \A i \in 1 .. Len(s) : t[i] = n + i
  BY BytesType
<1>2. \A i \in 1 .. Len(s) : s[i] = t[i]
  BY <1>1 DEF Run
<1>3. s = t
  BY <1>1, <1>2, SeqEqual
<1> QED BY <1>1, <1>3

(***************************************************************************)
(* The queue.                                                              *)
(***************************************************************************)
LEMMA QueueMessage ==
  ASSUME RelayType, Message \/ WsCloses, NEW p \in Nat, QueueFollows(p)
  PROVE  QueueFollows(p)' /\ (Received(p) => Received(p)')
<1>s. /\ stream.state \in StreamStates /\ stream.backlog \in Nat /\ stream.queued \in Queues
      /\ stream \in StreamType /\ sent \in Nat
  BY StreamIs DEF RelayType
<1>e. FlattenSeq(<<>>) = <<>> /\ Size(<<>>) = 0
  BY FlatEmpty DEF Size
<1>t. Size(stream.queued) \in Nat /\ FlattenSeq(stream.queued) \in Seq(Nat)
      /\ Len(FlattenSeq(stream.queued)) = Size(stream.queued)
  BY <1>s, SizeType
<1>0. ASSUME stream'.queued = <<>>, stream'.state # "open", sent' \in Nat, sent' >= sent
      PROVE  QueueFollows(p)' /\ (Received(p) => Received(p)')
  BY <1>0, <1>e, <1>s, <1>t, RunEmpty DEF QueueFollows, Received
<1>1. CASE Message
  <2>1. PICK n \in Nat \ {0} : /\ sent + n <= Total /\ sent' = sent + n /\ n <= MaxChunk
                               /\ stream.backlog + n \in Nat /\ MessageCases(n)
    BY <1>1, MessageIs DEF RelayType
  <2>2. sent' \in Nat /\ sent' >= sent
    BY <1>s, <2>1
  <2>3. CASE stream.state # "open" /\ UNCHANGED stream
    BY <1>s, <1>t, <2>2, <2>3 DEF QueueFollows, Received
  <2>4. CASE /\ stream.state = "open" /\ stream.backlog + n > MaxBacklog
             /\ stream' = [stream EXCEPT !.state = "errored", !.queued = <<>>, !.backlog = @ + n]
    <3>1. stream'.queued = <<>> /\ stream'.state = "errored"
      BY <1>s, <2>4 DEF StreamType
    <3> QED BY <1>0, <2>2, <3>1
  <2>5. CASE /\ stream.state = "open" /\ stream.backlog + n <= MaxBacklog
             /\ stream' = [stream EXCEPT !.queued = Append(@, Bytes(sent + 1, sent + n)),
                                         !.backlog = IF Reads THEN 0 ELSE @ + n]
    <3>1. PICK x \in Seq(Nat) : x = Bytes(sent + 1, sent + n) /\ Len(x) = n /\ Run(x, sent)
      BY <1>s, <2>1, BytesType, RunBytes
    <3>2. PICK q \in Queues : /\ q = Append(stream.queued, x)
                              /\ Size(q) = Size(stream.queued) + n
                              /\ FlattenSeq(q) = FlattenSeq(stream.queued) \o x
      BY <1>s, <3>1, Queueing
    <3>3. stream'.queued = q /\ stream'.state = "open"
      BY <1>s, <2>5, <3>1, <3>2 DEF StreamType
    <3>4. PICK L \in Nat, F \in Seq(Nat) : L = Size(stream.queued) /\ F = FlattenSeq(stream.queued) /\ L = Len(F)
      BY <1>t
    <3>5. p + L = sent
      BY <2>5, <3>4 DEF QueueFollows
    <3>6. Run(F \o x, p)
      <4>1. Run(F, p)
        BY <3>4 DEF QueueFollows
      <4>2. Run(x, p + Len(F))
        BY <3>1, <3>4, <3>5
      <4> QED BY <4>1, <4>2, RunConcat
    <3>7. p + Size(q) = sent'
      <4>1. Size(q) = L + n
        BY <3>2, <3>4
      <4>2. sent' = (p + L) + n
        BY <2>1, <3>5
      <4> QED BY <4>1, <4>2
    <3>8. QueueFollows(p)'
      BY <3>2, <3>3, <3>4, <3>6, <3>7 DEF QueueFollows
    <3>9. Received(p)'
      BY <2>2, <3>3, <3>7 DEF Received
    <3> QED BY <3>8, <3>9
  <2> QED BY <2>1, <2>3, <2>4, <2>5 DEF MessageCases
<1>2. CASE WsCloses
  <2>1. PICK state \in {"closed", "errored"} :
          stream' = IF stream.state # "open" THEN stream
                    ELSE [stream EXCEPT !.state = state, !.queued = IF state = "closed" THEN @ ELSE <<>>]
    BY <1>2 DEF WsCloses
  <2>2. sent' = sent
    BY <1>2 DEF WsCloses
  <2>3. CASE stream.state # "open"
    BY <2>1, <2>2, <2>3 DEF QueueFollows, Received
  <2>4. CASE stream.state = "open" /\ state = "closed"
    <3>1. stream'.queued = stream.queued /\ stream'.state = "closed"
      BY <1>s, <2>1, <2>4 DEF StreamType
    <3> QED BY <2>2, <3>1 DEF QueueFollows, Received
  <2>5. CASE stream.state = "open" /\ state = "errored"
    <3>1. stream'.queued = <<>> /\ stream'.state = "errored"
      BY <1>s, <2>1, <2>5 DEF StreamType
    <3> QED BY <1>0, <1>s, <2>2, <3>1
  <2> QED BY <2>3, <2>4, <2>5
<1> QED BY <1>1, <1>2

(* The chunk taken comes next, and the others follow it. *)
LEMMA QueueTaken ==
  ASSUME RelayType, stream.queued # <<>>, stream' = Taken, sent' = sent, NEW p \in Nat, QueueFollows(p)
  PROVE  \E h \in Seq(Nat), k \in Nat :
           /\ h = Head(stream.queued) /\ k = p + Len(h) /\ Run(h, p)
           /\ QueueFollows(k)' /\ (Received(p) => Received(k)')
<1>s. stream.queued \in Queues /\ sent \in Nat
  BY StreamIs DEF RelayType
<1>1. stream'.state = stream.state /\ stream'.queued = Tail(stream.queued)
  BY TakenType DEF RelayType
<1>2. PICK h \in Seq(Nat), t \in Queues : h = Head(stream.queued) /\ t = Tail(stream.queued)
  BY <1>s, Dequeueing
<1>3. FlattenSeq(stream.queued) = h \o FlattenSeq(t) /\ Size(stream.queued) = Len(h) + Size(t)
  BY <1>s, <1>2, Dequeueing
<1>4. PICK F \in Seq(Nat), L, k \in Nat : F = FlattenSeq(t) /\ L = Size(t) /\ k = Len(h)
  BY <1>2, SizeType
<1>5. Run(h, p) /\ Run(F, p + k)
  <2>1. Run(h \o F, p)
    BY <1>3, <1>4 DEF QueueFollows
  <2> QED BY <1>4, <2>1, RunConcat
<1>6. p + (k + L) = (p + k) + L
  BY <1>4
<1>7. stream'.state = "open" => (p + k) + L = sent
  BY <1>1, <1>3, <1>4, <1>6 DEF QueueFollows
<1>8. Received(p) => (p + k) + L <= sent
  BY <1>3, <1>4, <1>6 DEF Received
<1>9. PICK m \in Nat : m = p + k
  OBVIOUS
<1>10. QueueFollows(m)'
  BY <1>1, <1>2, <1>4, <1>5, <1>7, <1>9 DEF QueueFollows
<1>11. Received(p) => Received(m)'
  BY <1>1, <1>2, <1>4, <1>8, <1>9 DEF Received
<1> QED BY <1>2, <1>4, <1>5, <1>9, <1>10, <1>11

(* Nothing follows in a stream that is over and empty. *)
LEMMA QueueOver ==
  ASSUME NEW p, stream'.queued = <<>>, stream'.state # "open"
  PROVE  QueueFollows(p)'
BY FlatEmpty, RunEmpty DEF QueueFollows

(* A queue that is left alone still follows. *)
LEMMA QueueKept ==
  ASSUME NEW p, stream' = stream, sent' = sent
  PROVE  (QueueFollows(p) => QueueFollows(p)') /\ (Received(p) => Received(p)')
BY DEF QueueFollows, Received

(* The payload that came with the header, what the targets were given after it, what is *)
(* being written: one after the other, up to byte p.                                    *)
Lined(o, d, r, b, p) ==
  /\ Run(o, HeaderLen)
  /\ Run(d, HeaderLen + Len(o))
  /\ Run(r, HeaderLen + Len(o) + Len(d))
  /\ Run(b, HeaderLen + Len(o) + Len(d) + Len(r))
  /\ p = HeaderLen + Len(o) + Len(d) + Len(r) + Len(b)

After(o, g) == SubSeq(g, Len(o) + 1, Len(g))

(* The length of a sequence is a number. *)
LEMMA LenIs == \A s \in Seq(Nat) : Len(s) \in Nat
OBVIOUS

(* The bytes of the first chunk, and of the others after it. *)
LEMMA RunChunks ==
  ASSUME NEW c \in Queues, c # <<>>, NEW n \in Nat,
         Run(Head(c), n), Run(FlattenSeq(Tail(c)), n + Len(Head(c)))
  PROVE  Run(FlattenSeq(c), n) /\ n + Size(c) = (n + Len(Head(c))) + Size(Tail(c))
<1>1. PICK h, F \in Seq(Nat), L \in Nat : h = Head(c) /\ F = FlattenSeq(Tail(c)) /\ L = Size(Tail(c))
  BY SizeType, Dequeueing
<1>2. FlattenSeq(c) = h \o F /\ Size(c) = Len(h) + L
  BY <1>1, Dequeueing
<1>3. Run(h \o F, n)
  BY <1>1, RunConcat
<1>4. n + (Len(h) + L) = (n + Len(h)) + L
  BY <1>1
<1> QED BY <1>1, <1>2, <1>3, <1>4

(* Bytes, in steps that only put them together. *)
Text == Seq(Nat)

(* At first all the bytes are in the payload of the header. *)
LEMMA LinedStart ==
  ASSUME NEW o \in Seq(Nat), Run(o, HeaderLen)
  PROVE  Lined(o, <<>>, <<>>, <<>>, HeaderLen + Len(o))
<1>1. HeaderLen + Len(o) = HeaderLen + Len(o) + Len(<<>>) + Len(<<>>) + Len(<<>>)
  BY WorkerRelayAssumption
<1> QED BY <1>1, RunEmpty DEF Lined

(* Bytes are read into the pipe, and go on to the first target or to the relay host. *)
LEMMA LinedSteps ==
  ASSUME NEW o \in Seq(Nat), NEW d \in Seq(Nat), NEW r \in Seq(Nat), NEW b \in Seq(Nat), NEW p \in Nat,
         Lined(o, d, r, b, p)
  PROVE  /\ Lined(o, d, r \o b, <<>>, p)
         /\ r = <<>> => Lined(o, d \o b, <<>>, <<>>, p)
         /\ \E q \in Nat : Lined(o, d, r, <<>>, q)
         /\ b = <<>> => \A h \in Seq(Nat), k \in Nat : Run(h, p) /\ k = p + Len(h) => Lined(o, d, r, h, k)
<1>0. HeaderLen \in Nat
  BY WorkerRelayAssumption
<1>1. PICK H, O, D, R, B \in Nat : H = HeaderLen /\ O = Len(o) /\ D = Len(d) /\ R = Len(r) /\ B = Len(b)
  <2>1. Len(o) \in Nat /\ Len(d) \in Nat /\ Len(r) \in Nat /\ Len(b) \in Nat
    BY LenIs
  <2> QED BY <1>0, <2>1
<1>2. Len(r \o b) = R + B /\ Len(d \o b) = D + B /\ Len(<<>>) = 0
  BY <1>1
<1>3. Run(o, H) /\ Run(d, H + O) /\ Run(r, H + O + D) /\ Run(b, H + O + D + R) /\ p = H + O + D + R + B
  BY <1>1 DEF Lined
<1>4. Lined(o, d, r \o b, <<>>, p)
  <2>1. Run(r \o b, H + O + D)
    <3>1. PICK n \in Nat : n = H + O + D
      OBVIOUS
    <3>2. Run(r, n) /\ Run(b, n + Len(r))
      BY <1>1, <1>3, <3>1
    <3> QED BY <3>1, <3>2, RunConcat
  <2>2. p = H + O + D + (R + B) + 0
    BY <1>3
  <2> QED BY <1>1, <1>2, <1>3, <2>1, <2>2, RunEmpty DEF Lined
<1>5. ASSUME r = <<>> PROVE Lined(o, d \o b, <<>>, <<>>, p)
  <2>1. R = 0
    BY <1>1, <1>5
  <2>2. Run(d \o b, H + O)
    <3>1. PICK n \in Nat : n = H + O
      OBVIOUS
    <3>3. n + D = H + O + D + R
      BY <2>1, <3>1
    <3>2. Run(d, n) /\ Run(b, n + Len(d))
      BY <1>1, <1>3, <3>1, <3>3
    <3> QED BY <3>1, <3>2, RunConcat
  <2>3. p = H + O + (D + B) + 0 + 0
    BY <1>3, <2>1
  <2> QED BY <1>1, <1>2, <1>3, <2>2, <2>3, RunEmpty DEF Lined
<1>6. \E q \in Nat : Lined(o, d, r, <<>>, q)
  <2>1. PICK q \in Nat : q = H + O + D + R + 0
    OBVIOUS
  <2> QED BY <1>1, <1>2, <1>3, <2>1, RunEmpty DEF Lined
<1>7. ASSUME b = <<>>, NEW h \in Seq(Nat), NEW k \in Nat, Run(h, p), k = p + Len(h)
      PROVE  Lined(o, d, r, h, k)
  <2>1. p = H + O + D + R
    BY <1>1, <1>2, <1>3, <1>7
  <2> QED BY <1>1, <1>3, <1>7, <2>1 DEF Lined
<1> QED BY <1>4, <1>5, <1>6, <1>7

(* What a target was given after the payload. *)
LEMMA AfterIs ==
  ASSUME NEW o \in Seq(Nat), NEW g \in Seq(Nat)
  PROVE  /\ After(o, g) \in Seq(Nat)
         /\ After(o, <<>>) = <<>> /\ After(o, o) = <<>>
         /\ o = <<>> => IsPrefix(o, g)
         /\ IsPrefix(o, o)
<1>1. After(o, g) \in Seq(Nat)
  BY DEF After
<1>2. After(o, <<>>) = <<>>
  <2>1. Len(o) + 1 > Len(<<>>)
    OBVIOUS
  <2> QED BY <2>1, SubSeqEmpty DEF After
<1>3. After(o, o) = <<>>
  <2>1. Len(o) + 1 > Len(o)
    OBVIOUS
  <2> QED BY <2>1, SubSeqEmpty DEF After
<1>4. o = <<>> => IsPrefix(o, g)
  BY DEF IsPrefix
<1>5. IsPrefix(o, o)
  BY DEF IsPrefix
<1> QED BY <1>1, <1>2, <1>3, <1>4, <1>5

(* A target that is given more keeps the payload in front. *)
LEMMA AfterMore ==
  ASSUME NEW o \in Seq(Nat), NEW g \in Seq(Nat), NEW x \in Seq(Nat), IsPrefix(o, g)
  PROVE  IsPrefix(o, g \o x) /\ After(o, g \o x) = After(o, g) \o x
<1>1. PICK n \in 0 .. Len(g) : n = Len(o)
  BY DEF IsPrefix
<1>2. Len(g \o x) = Len(g) + Len(x)
  BY ConcatProperties
<1>3. SubSeq(g \o x, n + 1, Len(g \o x)) = SubSeq(g, n + 1, Len(g)) \o x
  BY DropShort
<1>4. SubSeq(g \o x, 1, n) = SubSeq(g, 1, n)
  <2>1. n \in Nat /\ n <= Len(g) /\ 0 + 1 = 1
    OBVIOUS
  <2>2. SubSeq(g \o x, 0 + 1, n) = SubSeq(g, 0 + 1, n)
    BY <2>1, SliceInside
  <2> QED BY <2>1, <2>2
<1>5. IsPrefix(o, g \o x)
  BY <1>1, <1>2, <1>4 DEF IsPrefix
<1> QED BY <1>1, <1>3, <1>5 DEF After

(* Until the header is there its bytes are in parts, and nothing else has happened. *)
HeadInv ==
  pc = "head" =>
    /\ Size(parts) < HeaderLen /\ Run(FlattenSeq(parts), 0)
    /\ QueueFollows(Size(parts)) /\ Received(Size(parts))
    /\ opening = <<>> /\ \A t \in Targets : sock[t].got = <<>>
    /\ queries = <<>> /\ asking = {}

(* A target that was given anything was given the payload first; the bytes after it went *)
(* to the first target until the relay host took its place.                              *)
SwapInv ==
  /\ \A t \in Targets : sock[t].got # <<>> \/ current = t \/ pipe.to = t => IsPrefix(opening, sock[t].got)
  /\ Rest("relay") # <<>> => current = "relay" /\ pipe.to # "direct"
  /\ pc \in {"dial", "write"} => sock[at].got = <<>>
  /\ at = "direct" => sock["relay"].got = <<>>

UplinkInv ==
  client.request = "tcp" /\ pc # "head" =>
    /\ \E p \in Nat : Lined(opening, Rest("direct"), Rest("relay"), pipe.bytes, p) /\ QueueFollows(p)
    /\ SwapInv

(* The rest of a target is what it was given after the payload. *)
LEMMA RestIs ==
  ASSUME RelayType, NEW t \in Targets
  PROVE  Rest(t) = After(opening, sock[t].got) /\ Rest(t) \in Seq(Nat) /\ sock[t].got \in Seq(Nat)
<1>1. sock[t].got \in Seq(Nat) /\ opening \in Seq(Nat)
  BY DEF RelayType, SockType
<1>2. Rest(t) = After(opening, sock[t].got)
  BY DEF Rest, After
<1> QED BY <1>1, <1>2, AfterIs

(* All the client has sent of a tunnel whose payload is o, with the chunks q queued. *)
Lines == [o : Text, d : Text, r : Text, b : Text, p : Nat, q : Queues]

(* All the client has sent of a tunnel, in its order. *)
LEMMA LinedIs ==
  ASSUME NEW l \in Lines, Lined(l.o, l.d, l.r, l.b, l.p), Run(FlattenSeq(l.q), l.p)
  PROVE  FlattenSeq(<<l.o, l.d, l.r, l.b>> \o l.q)
           = Bytes(HeaderLen + 1, HeaderLen + Len(l.o) + Len(l.d) + Len(l.r) + Len(l.b) + Size(l.q))
<1>l. /\ l.o \in Text /\ l.d \in Text /\ l.r \in Text /\ l.b \in Text /\ l.p \in Nat /\ l.q \in Queues
  BY DEF Lines
<1>a. PICK o \in Text, d \in Text : o = l.o /\ d = l.d
  BY <1>l
<1>b. PICK r \in Text, b \in Text : r = l.r /\ b = l.b
  BY <1>l
<1>c. PICK p \in Nat, q \in Queues : p = l.p /\ q = l.q
  BY <1>l
<1>d. Lined(o, d, r, b, p) /\ Run(FlattenSeq(q), p)
  BY <1>a, <1>b, <1>c
<1>q. q \in Seq(Text)
  BY DEF Queues, Text
<1>1. /\ <<o, d, r, b>> \o q \in Queues /\ <<o, d, r, b>> \o q # <<>>
      /\ Tail(<<o, d, r, b>> \o q) = <<d, r, b>> \o q /\ Head(<<o, d, r, b>> \o q) = o
  <2>1. <<o, d, r, b>> \o q \in Seq(Text)
    BY <1>q
  <2>2. /\ <<o, d, r, b>> \o q # <<>> /\ Head(<<o, d, r, b>> \o q) = o
        /\ Tail(<<o, d, r, b>> \o q) = <<d, r, b>> \o q
    BY <1>q
  <2> QED BY <2>1, <2>2 DEF Queues, Text
<1>2. /\ <<d, r, b>> \o q \in Queues /\ <<d, r, b>> \o q # <<>>
      /\ Tail(<<d, r, b>> \o q) = <<r, b>> \o q /\ Head(<<d, r, b>> \o q) = d
  <2>1. <<d, r, b>> \o q \in Seq(Text)
    BY <1>q
  <2>2. /\ <<d, r, b>> \o q # <<>> /\ Head(<<d, r, b>> \o q) = d
        /\ Tail(<<d, r, b>> \o q) = <<r, b>> \o q
    BY <1>q
  <2> QED BY <2>1, <2>2 DEF Queues, Text
<1>3. /\ <<r, b>> \o q \in Queues /\ <<r, b>> \o q # <<>>
      /\ Tail(<<r, b>> \o q) = <<b>> \o q /\ Head(<<r, b>> \o q) = r
  <2>1. <<r, b>> \o q \in Seq(Text)
    BY <1>q
  <2>2. /\ <<r, b>> \o q # <<>> /\ Head(<<r, b>> \o q) = r
        /\ Tail(<<r, b>> \o q) = <<b>> \o q
    BY <1>q
  <2> QED BY <2>1, <2>2 DEF Queues, Text
<1>4. /\ <<b>> \o q \in Queues /\ <<b>> \o q # <<>>
      /\ Tail(<<b>> \o q) = q /\ Head(<<b>> \o q) = b
  <2>1. <<b>> \o q \in Seq(Text)
    BY <1>q
  <2>2. <<b>> \o q # <<>> /\ Head(<<b>> \o q) = b /\ Tail(<<b>> \o q) = q
    BY <1>q
  <2> QED BY <2>1, <2>2 DEF Queues, Text
<1>5. PICK q1, q2, q3, q4 \in Queues :
        /\ q4 = <<o, d, r, b>> \o q /\ q4 # <<>> /\ Head(q4) = o /\ Tail(q4) = q3
        /\ q3 # <<>> /\ Head(q3) = d /\ Tail(q3) = q2
        /\ q2 # <<>> /\ Head(q2) = r /\ Tail(q2) = q1
        /\ q1 # <<>> /\ Head(q1) = b /\ Tail(q1) = q
  BY <1>1, <1>2, <1>3, <1>4, Zenon
<1>6. PICK m0, m1, m2, m3 \in Nat :
        /\ m0 = HeaderLen /\ m1 = m0 + Len(o) /\ m2 = m1 + Len(d) /\ m3 = m2 + Len(r) /\ p = m3 + Len(b)
        /\ Run(o, m0) /\ Run(d, m1) /\ Run(r, m2) /\ Run(b, m3)
  <2>1. HeaderLen \in Nat
    BY WorkerRelayAssumption
  <2>2. Len(o) \in Nat /\ Len(d) \in Nat /\ Len(r) \in Nat /\ Len(b) \in Nat
    BY LenIs DEF Text
  <2> QED BY <1>d, <2>1, <2>2 DEF Lined
<1>7. Run(FlattenSeq(q1), m3) /\ m3 + Size(q1) = p + Size(q)
  <2>1. m3 + Len(Head(q1)) = p /\ Tail(q1) = q
    BY <1>5, <1>6
  <2>2. q1 # <<>> /\ Run(Head(q1), m3) /\ Run(FlattenSeq(Tail(q1)), m3 + Len(Head(q1)))
    BY <1>d, <1>5, <1>6, <2>1
  <2>3. Run(FlattenSeq(q1), m3) /\ m3 + Size(q1) = (m3 + Len(Head(q1))) + Size(Tail(q1))
    BY <2>2, RunChunks, Zenon
  <2> QED BY <2>1, <2>3
<1>8. Run(FlattenSeq(q2), m2) /\ m2 + Size(q2) = m3 + Size(q1)
  <2>1. m2 + Len(Head(q2)) = m3 /\ Tail(q2) = q1
    BY <1>5, <1>6
  <2>2. q2 # <<>> /\ Run(Head(q2), m2) /\ Run(FlattenSeq(Tail(q2)), m2 + Len(Head(q2)))
    BY <1>5, <1>6, <1>7, <2>1
  <2>3. Run(FlattenSeq(q2), m2) /\ m2 + Size(q2) = (m2 + Len(Head(q2))) + Size(Tail(q2))
    BY <2>2, RunChunks, Zenon
  <2> QED BY <2>1, <2>3
<1>9. Run(FlattenSeq(q3), m1) /\ m1 + Size(q3) = m2 + Size(q2)
  <2>1. m1 + Len(Head(q3)) = m2 /\ Tail(q3) = q2
    BY <1>5, <1>6
  <2>2. q3 # <<>> /\ Run(Head(q3), m1) /\ Run(FlattenSeq(Tail(q3)), m1 + Len(Head(q3)))
    BY <1>5, <1>6, <1>8, <2>1
  <2>3. Run(FlattenSeq(q3), m1) /\ m1 + Size(q3) = (m1 + Len(Head(q3))) + Size(Tail(q3))
    BY <2>2, RunChunks, Zenon
  <2> QED BY <2>1, <2>3
<1>10. Run(FlattenSeq(q4), m0) /\ m0 + Size(q4) = m1 + Size(q3)
  <2>1. m0 + Len(Head(q4)) = m1 /\ Tail(q4) = q3
    BY <1>5, <1>6
  <2>2. q4 # <<>> /\ Run(Head(q4), m0) /\ Run(FlattenSeq(Tail(q4)), m0 + Len(Head(q4)))
    BY <1>5, <1>6, <1>9, <2>1
  <2>3. Run(FlattenSeq(q4), m0) /\ m0 + Size(q4) = (m0 + Len(Head(q4))) + Size(Tail(q4))
    BY <2>2, RunChunks, Zenon
  <2> QED BY <2>1, <2>3
<1>11. FlattenSeq(q4) = Bytes(m0 + 1, m0 + Size(q4))
  <2>1. PICK F \in Seq(Nat) : F = FlattenSeq(q4) /\ Len(F) = Size(q4)
    BY SizeType
  <2> QED BY <1>10, <2>1, RunIs, Zenon
<1>12. m0 + Size(q4) = HeaderLen + Len(o) + Len(d) + Len(r) + Len(b) + Size(q)
  BY <1>6, <1>7, <1>8, <1>9, <1>10
<1> QED BY <1>a, <1>b, <1>c, <1>5, <1>6, <1>11, <1>12

(* Initially early data is the first of the stream. *)
LEMMA InitHead == Init => HeadInv
<1> SUFFICES ASSUME Init PROVE HeadInv
  OBVIOUS
<1>1. PICK early \in 0 .. MaxChunk :
          /\ early <= Total /\ early <= MaxBacklog
          /\ sent = early
          /\ stream = [state |-> "open", backlog |-> early,
                       queued |-> IF early = 0 THEN <<>> ELSE <<Bytes(1, early)>>]
  BY DEF Init
<1>2. early \in Nat /\ 0 + 1 = 1 /\ 0 + early = early /\ HeaderLen \in Nat \ {0}
  BY WorkerRelayAssumption
<1>3. PICK x \in Seq(Nat) : x = Bytes(1, early) /\ Len(x) = early /\ Run(x, 0)
  <2>1. /\ Bytes(0 + 1, 0 + early) \in Seq(Nat) /\ Len(Bytes(0 + 1, 0 + early)) = early
        /\ Run(Bytes(0 + 1, 0 + early), 0)
    BY <1>2, BytesType, RunBytes
  <2> QED BY <1>2, <2>1
<1>4. Size(<<>>) = 0 /\ FlattenSeq(<<>>) = <<>> /\ Run(<<>>, 0)
  BY FlatEmpty, RunEmpty DEF Size
<1>5. Size(stream.queued) = early /\ Run(FlattenSeq(stream.queued), 0)
  <2>1. CASE early = 0
    BY <1>1, <1>4, <2>1
  <2>2. CASE early # 0
    <3>1. FlattenSeq(<<x>>) = x
      BY FlatOne
    <3>2. stream.queued = <<x>>
      BY <1>1, <1>3, <2>2
    <3> QED BY <1>3, <3>1, <3>2 DEF Size
  <2> QED BY <2>1, <2>2
<1>6. parts = <<>> /\ opening = <<>> /\ queries = <<>> /\ asking = {} /\ \A t \in Targets : sock[t].got = <<>>
  BY DEF Init
<1>7. QueueFollows(0) /\ Received(0)
  BY <1>1, <1>2, <1>5 DEF QueueFollows, Received
<1> QED BY <1>2, <1>4, <1>6, <1>7 DEF HeadInv

(* push adds the bytes of a chunk. *)
LEMMA PushBytes ==
  ASSUME NEW c \in Queues, NEW x \in Seq(Nat)
  PROVE  /\ Push(c, x) \in Queues /\ FlattenSeq(Push(c, x)) = FlattenSeq(c) \o x
         /\ Size(Push(c, x)) = Size(c) + Len(x)
<1>1. CASE x = <<>>
  <2>1. PICK F \in Seq(Nat), L \in Nat : F = FlattenSeq(c) /\ L = Size(c)
    BY SizeType
  <2>2. F \o <<>> = F /\ Len(<<>>) = 0 /\ L + 0 = L
    BY ConcatEmptySeq
  <2> QED BY <1>1, <2>1, <2>2 DEF Push
<1>2. CASE x # <<>>
  BY <1>2, Queueing DEF Push
<1> QED BY <1>1, <1>2

(* The bytes read so far and what follows them. *)
LEMMA HeadBytes ==
  ASSUME RelayType, HeadInv, ReadHead
  PROVE  \E buf \in Seq(Nat), k \in Nat :
           /\ ReadHeadCases(buf) /\ k = Len(buf) /\ Run(buf, 0) /\ QueueFollows(k)' /\ Received(k)'
           /\ ~(k < HeaderLen) =>
                \E rest \in Seq(Nat) : /\ rest = SubSeq(buf, HeaderLen + 1, Len(buf))
                                       /\ Run(rest, HeaderLen) /\ HeaderLen + Len(rest) = k
<1>1. pc = "head" /\ stream.queued # <<>> /\ stream' = Taken /\ sent' = sent
  BY ReadHeadIs
<1>2. PICK buf \in Seq(Nat) : buf = FlattenSeq(Push(parts, Head(stream.queued))) /\ ReadHeadCases(buf)
  BY ReadHeadIs
<1>3. parts \in Queues
  BY <1>1 DEF RelayType
<1>4. PICK p \in Nat, F \in Seq(Nat) : p = Size(parts) /\ F = FlattenSeq(parts) /\ Len(F) = p
  BY <1>3, SizeType
<1>5. Run(F, 0) /\ QueueFollows(p) /\ Received(p)
  BY <1>1, <1>4 DEF HeadInv
<1>6. PICK h \in Seq(Nat), k \in Nat :
           /\ h = Head(stream.queued) /\ k = p + Len(h) /\ Run(h, p)
           /\ QueueFollows(k)' /\ (Received(p) => Received(k)')
  BY <1>1, <1>5, QueueTaken
<1>7. buf = F \o h
  BY <1>2, <1>3, <1>4, <1>6, PushBytes
<1>8. Run(buf, 0) /\ Len(buf) = k
  <2>1. Run(h, 0 + Len(F))
    BY <1>4, <1>6
  <2>2. Run(F \o h, 0)
    BY <1>5, <2>1, RunConcat
  <2>3. Len(F \o h) = Len(F) + Len(h)
    BY ConcatProperties
  <2> QED BY <1>4, <1>6, <1>7, <2>2, <2>3
<1>9. ASSUME ~(k < HeaderLen)
      PROVE  \E rest \in Seq(Nat) : /\ rest = SubSeq(buf, HeaderLen + 1, Len(buf))
                                    /\ Run(rest, HeaderLen) /\ HeaderLen + Len(rest) = k
  <2>1. PICK H \in 0 .. Len(buf) : H = HeaderLen
    BY <1>8, <1>9, WorkerRelayAssumption
  <2>2. /\ Run(SubSeq(buf, H + 1, Len(buf)), 0 + H) /\ SubSeq(buf, H + 1, Len(buf)) \in Seq(Nat)
        /\ H + Len(SubSeq(buf, H + 1, Len(buf))) = Len(buf)
    BY <1>8, RunRest
  <2>3. 0 + H = H
    OBVIOUS
  <2> QED BY <1>8, <2>1, <2>2, <2>3
<1> QED BY <1>2, <1>5, <1>6, <1>8, <1>9

(* Every step keeps the bytes read in order until the header is there. *)
LEMMA StepHead == RelayType /\ Shape /\ HeadInv /\ [Next]_vars => HeadInv'
<1> SUFFICES ASSUME RelayType, Shape, HeadInv, [Next]_vars, pc' = "head" PROVE HeadInv'
  BY DEF HeadInv
<1>1. CASE ReadHead
  <2>1. PICK buf \in Seq(Nat), k \in Nat :
           ReadHeadCases(buf) /\ k = Len(buf) /\ Run(buf, 0) /\ QueueFollows(k)' /\ Received(k)'
    BY <1>1, HeadBytes
  <2>2. k < HeaderLen /\ parts' = <<buf>> /\ UNCHANGED <<opening, sock>>
    BY <2>1 DEF ReadHeadCases, Ends
  <2>3. FlattenSeq(<<buf>>) = buf /\ Size(<<buf>>) = k
    BY <2>1, FlatOne DEF Size
  <2>4. pc = "head" /\ UNCHANGED <<queries, asking>>
    BY <1>1 DEF ReadHead, dnsVars
  <2>5. opening' = <<>> /\ queries' = <<>> /\ asking' = {} /\ \A t \in Targets : sock'[t].got = <<>>
    BY <2>2, <2>4 DEF HeadInv
  <2> QED BY <2>1, <2>2, <2>3, <2>5 DEF HeadInv
<1>2. CASE Message \/ WsCloses
  <2>1. UNCHANGED <<pc, parts, opening, sock, queries, asking>>
    BY <1>2 DEF Message, WsCloses, upVars, sockVars, dnsVars
  <2>2. pc = "head" /\ parts \in Queues
    BY <2>1 DEF RelayType
  <2>3. PICK p \in Nat : p = Size(parts)
    BY <2>2, SizeType
  <2>4. QueueFollows(p) /\ Received(p)
    BY <2>2, <2>3 DEF HeadInv
  <2>5. QueueFollows(p)' /\ Received(p)'
    BY <1>2, <2>4, QueueMessage
  <2> QED BY <2>1, <2>2, <2>3, <2>5 DEF HeadInv
<1>3. CASE UNCHANGED vars
  <2>1. UNCHANGED <<pc, parts, opening, sock, queries, asking, stream, sent>>
    BY <1>3 DEF vars
  <2> QED BY <2>1 DEF HeadInv, QueueFollows, Received
<1>4. CASE \/ HeadEnds \/ Dialled \/ OpeningWritten \/ OpenFails \/ PumpEnds \/ Returns
           \/ DnsEnds \/ DnsSettles
  <2>1. ASSUME NEW socks, Leaves(socks) PROVE pc' # "head"
    BY <2>1 DEF Leaves, Retry, Finish
  <2>2. ASSUME NEW socks, Opened(socks) PROVE pc' # "head"
    BY <2>2 DEF Opened
  <2> QED BY <1>4, <2>1, <2>2 DEF HeadEnds, Dialled, OpeningWritten, OpenFails, PumpEnds, Returns,
                                 DnsEnds, DnsSettles, Ends
<1>5. CASE TargetSends \/ DnsReads \/ Drain
  BY <1>5 DEF TargetSends, DnsReads, Drain, Complete
<1>6. CASE LookupAnswers \/ LookupFails
  BY <1>6 DEF LookupAnswers, LookupFails, HeadInv
<1>7. CASE PipeReads \/ PipeWrites \/ PipeFails \/ PipeEnds
  <2>1. pc = "head" /\ pipe.state = "on"
    BY <1>7 DEF PipeReads, PipeWrites, PipeFails, PipeEnds, Shape
  <2> QED BY <2>1 DEF Shape
<1> QED BY <1>1, <1>2, <1>3, <1>4, <1>5, <1>6, <1>7 DEF Next

(* Initially the header is not there. *)
LEMMA InitUplink == Init => UplinkInv
BY DEF Init, UplinkInv

(* What a target was given is as it was. *)
LEMMA GotKept ==
  ASSUME opening' = opening, NEW t \in Targets, sock'[t].got = sock[t].got
  PROVE  Rest(t)' = Rest(t)
BY DEF Rest

(* The bytes of the client are where they were, but for those that are dropped. *)
LEMMA LineKept ==
  ASSUME RelayType, UplinkInv, client.request = "tcp", pc # "head",
         opening' = opening, pipe'.bytes = pipe.bytes,
         Rest("direct")' = Rest("direct"), Rest("relay")' = Rest("relay"),
         \A p \in Nat : QueueFollows(p) => QueueFollows(p)'
  PROVE  \E p \in Nat : Lined(opening, Rest("direct"), Rest("relay"), pipe.bytes, p)' /\ QueueFollows(p)'
<1>1. PICK p \in Nat : Lined(opening, Rest("direct"), Rest("relay"), pipe.bytes, p) /\ QueueFollows(p)
  BY DEF UplinkInv
<1>2. QueueFollows(p)'
  BY <1>1
<1>3. Lined(opening, Rest("direct"), Rest("relay"), pipe.bytes, p)'
        <=> Lined(opening', Rest("direct")', Rest("relay")', pipe'.bytes, p)
  BY DEF Lined, Run
<1> QED BY <1>1, <1>2, <1>3

(* The order of the bytes after a step, by its parts. *)
LEMMA LinePrime ==
  ASSUME NEW o, NEW d, NEW r, NEW b, NEW p, Lined(o, d, r, b, p),
         opening' = o, Rest("direct")' = d, Rest("relay")' = r, pipe'.bytes = b
  PROVE  Lined(opening, Rest("direct"), Rest("relay"), pipe.bytes, p)'
<1>3. Lined(opening, Rest("direct"), Rest("relay"), pipe.bytes, p)'
        <=> Lined(opening', Rest("direct")', Rest("relay")', pipe'.bytes, p)
  BY DEF Lined, Run
<1> QED BY <1>3

(* The line as constants. *)
LEMMA LineNow ==
  ASSUME RelayType, UplinkInv, client.request = "tcp", pc # "head"
  PROVE  \E o, d, r, b \in Seq(Nat), p \in Nat :
           /\ o = opening /\ d = Rest("direct") /\ r = Rest("relay") /\ b = pipe.bytes
           /\ Lined(o, d, r, b, p) /\ QueueFollows(p)
<1>1. Rest("direct") \in Seq(Nat) /\ Rest("relay") \in Seq(Nat)
  BY RestIs DEF Targets
<1>2. opening \in Seq(Nat) /\ pipe.bytes \in Seq(Nat)
  BY DEF RelayType, PipeType
<1> QED BY <1>1, <1>2 DEF UplinkInv

UplinkGoal ==
  /\ \E p \in Nat : Lined(opening, Rest("direct"), Rest("relay"), pipe.bytes, p) /\ QueueFollows(p)
  /\ SwapInv

(* The end of the header leaves the payload and what follows it. *)
LEMMA UplinkHead ==
  ASSUME RelayType, Shape, HeadInv, ReadHead \/ HeadEnds, client.request = "tcp", pc' # "head"
  PROVE  UplinkGoal'
<1>1. /\ pc = "head" /\ opening = <<>> /\ pipe' = pipe /\ at' = at /\ current' = current
      /\ \A t \in Targets : sock[t].got = <<>>
  BY DEF ReadHead, HeadEnds, HeadInv, sockVars
<1>2. pipe.bytes = <<>> /\ pipe.to = None /\ current = None /\ at = "direct"
  BY <1>1 DEF Shape
<1>3. PICK o \in Seq(Nat), p \in Nat : opening' = o /\ p = HeaderLen + Len(o) /\ Run(o, HeaderLen) /\ QueueFollows(p)'
  <2>1. CASE ReadHead
    <3>1. PICK buf \in Seq(Nat), k \in Nat :
           /\ ReadHeadCases(buf) /\ k = Len(buf) /\ Run(buf, 0) /\ QueueFollows(k)' /\ Received(k)'
           /\ ~(k < HeaderLen) =>
                \E rest \in Seq(Nat) : /\ rest = SubSeq(buf, HeaderLen + 1, Len(buf))
                                       /\ Run(rest, HeaderLen) /\ HeaderLen + Len(rest) = k
      BY <2>1, HeadBytes
    <3>2. ~(k < HeaderLen) /\ opening' = SubSeq(buf, HeaderLen + 1, Len(buf))
      BY <1>1, <3>1 DEF ReadHeadCases
    <3>3. PICK rest \in Seq(Nat) : /\ rest = SubSeq(buf, HeaderLen + 1, Len(buf))
                                   /\ Run(rest, HeaderLen) /\ HeaderLen + Len(rest) = k
      BY <3>1, <3>2
    <3> QED BY <3>1, <3>2, <3>3
  <2>2. CASE HeadEnds
    <3>1. opening' = <<>> /\ stream'.queued = <<>> /\ stream'.state # "open"
      BY <1>1, <2>2 DEF HeadEnds, upVars
    <3>2. PICK p \in Nat : p = HeaderLen + Len(<<>>)
      BY WorkerRelayAssumption
    <3>3. QueueFollows(p)'
      BY <3>1, QueueOver
    <3>4. <<>> \in Seq(Nat) /\ Run(<<>>, HeaderLen)
      BY RunEmpty
    <3> QED BY <3>1, <3>2, <3>3, <3>4
  <2> QED BY <2>1, <2>2
<1>4. \A t \in Targets : sock'[t].got = <<>>
  <2>1. CASE ReadHead
    <3>1. PICK buf \in Seq(Nat) : ReadHeadCases(buf)
      BY <2>1, ReadHeadIs
    <3>2. sock \in [Targets -> SockType]
      BY DEF RelayType
    <3> QED BY <1>1, <3>1, <3>2 DEF ReadHeadCases, SockType
  <2>2. CASE HeadEnds
    BY <1>1, <2>2 DEF HeadEnds, sockVars
  <2> QED BY <2>1, <2>2
<1>5. Rest("direct")' = <<>> /\ Rest("relay")' = <<>>
  <2>1. ASSUME NEW t \in Targets PROVE Rest(t)' = <<>>
    <3>1. Rest(t)' = SubSeq(sock'[t].got, Len(opening') + 1, Len(sock'[t].got))
      BY DEF Rest
    <3>2. SubSeq(<<>>, Len(o) + 1, Len(<<>>)) = <<>>
      BY AfterIs DEF After
    <3> QED BY <1>3, <1>4, <3>1, <3>2
  <2> QED BY <2>1 DEF Targets
<1>6. Lined(opening, Rest("direct"), Rest("relay"), pipe.bytes, p)'
  <2>1. Lined(o, <<>>, <<>>, <<>>, p)
    BY <1>3, LinedStart
  <2> QED BY <1>1, <1>2, <1>3, <1>5, <2>1, LinePrime
<1>7. SwapInv'
  BY <1>1, <1>2, <1>4, <1>5 DEF SwapInv, Targets, None, RelayType
<1> QED BY <1>3, <1>6, <1>7 DEF UplinkGoal

(* Steps that leave what the targets were given. *)
LEMMA UplinkSame ==
  ASSUME RelayType, Shape, UplinkInv, client.request = "tcp", pc # "head",
         opening' = opening, pipe'.bytes = pipe.bytes, \A t \in Targets : sock'[t].got = sock[t].got,
         \A p \in Nat : QueueFollows(p) => QueueFollows(p)',
         current' = current, pipe'.to \in {pipe.to, None},
         \/ at' = at /\ (pc' \in {"dial", "write"} => pc \in {"dial", "write"})
         \/ at = "direct" /\ at' = "relay"
  PROVE  UplinkGoal'
<1>1. Rest("direct")' = Rest("direct") /\ Rest("relay")' = Rest("relay")
  BY GotKept DEF Targets
<1>2. \E p \in Nat : Lined(opening, Rest("direct"), Rest("relay"), pipe.bytes, p)' /\ QueueFollows(p)'
  BY <1>1, LineKept
<1>3. SwapInv
  BY DEF UplinkInv
<1>4. at \in Targets /\ None \notin Targets /\ None # "direct"
  BY DEF RelayType, Targets, None
<1>5. SwapInv'
  <2>1. \A t \in Targets : sock'[t].got # <<>> \/ current' = t \/ pipe'.to = t => IsPrefix(opening', sock'[t].got)
    BY <1>3, <1>4 DEF SwapInv
  <2>2. Rest("relay")' # <<>> => current' = "relay" /\ pipe'.to # "direct"
    BY <1>1, <1>3, <1>4 DEF SwapInv
  <2>3. (pc' \in {"dial", "write"} => sock'[at'].got = <<>>) /\ (at' = "direct" => sock'["relay"].got = <<>>)
    BY <1>3, <1>4 DEF SwapInv, Targets
  <2> QED BY <2>1, <2>2, <2>3 DEF SwapInv
<1> QED BY <1>2, <1>5 DEF UplinkGoal

(* A target is opened: it is given the payload first, or has none to be given. *)
LEMMA UplinkOpens ==
  ASSUME RelayType, Shape, UplinkInv, client.request = "tcp", pc # "head",
         Dialled \/ OpeningWritten
  PROVE  UplinkGoal'
<1>s. sock \in [Targets -> SockType] /\ at \in Targets /\ pipe \in PipeType /\ opening \in Seq(Nat)
      /\ current \in Targets \cup {None}
  BY DEF RelayType
<1>1. UNCHANGED <<opening, stream, sent>> /\ pc \in {"dial", "write"}
  BY DEF Dialled, OpeningWritten, upVars
<1>2. \A p \in Nat : QueueFollows(p) => QueueFollows(p)'
  BY <1>1, QueueKept
<1>3. SwapInv /\ sock[at].got = <<>> /\ Rest("relay") = <<>>
  <2>1. SwapInv /\ sock[at].got = <<>>
    BY <1>1 DEF UplinkInv, SwapInv
  <2>2. current # "relay"
    BY <1>1, <1>s DEF Shape, Targets
  <2> QED BY <2>1, <2>2 DEF SwapInv
<1>4. CASE pc' = "write" /\ Dialled
  <2>1. sock' = [sock EXCEPT ![at].life = "open"] /\ UNCHANGED <<at, current, pipe>>
    BY <1>4 DEF Dialled, Opened
  <2>2. \A t \in Targets : sock'[t].got = sock[t].got
    BY <1>s, <2>1 DEF SockType
  <2> QED BY <1>1, <1>2, <2>1, <2>2, UplinkSame
<1>5. CASE \E socks \in [Targets -> SockType] :
              /\ Opened(socks) /\ socks[at].got = opening
              /\ \A t \in Targets : t # at => socks[t].got = sock[t].got
  <2>1. PICK socks \in [Targets -> SockType] :
              /\ Opened(socks) /\ socks[at].got = opening
              /\ \A t \in Targets : t # at => socks[t].got = sock[t].got
    BY <1>5
  <2>2. /\ current' = at /\ pc' = "pump" /\ at' = at /\ pipe'.bytes = pipe.bytes /\ pipe'.to = pipe.to
        /\ sock' = IF current = None THEN socks ELSE [socks EXCEPT ![current].life = "closed"]
    BY <2>1, OpenedIs
  <2>3. \A t \in Targets : sock'[t].got = socks[t].got
    BY <2>1, <2>2 DEF SockType
  <2>4. \A t \in Targets : Rest(t)' = Rest(t)
    <3>1. ASSUME NEW t \in Targets, t # at PROVE Rest(t)' = Rest(t)
      <4>1. sock'[t].got = sock[t].got
        BY <2>1, <2>3, <3>1
      <4> QED BY <1>1, <4>1, GotKept
    <3>2. Rest(at) = <<>>
      BY <1>3, <1>s, AfterIs DEF Rest, After
    <3>3. SubSeq(sock'[at].got, Len(opening') + 1, Len(sock'[at].got)) = <<>>
      <4>1. sock'[at].got = opening
        BY <1>s, <2>1, <2>3
      <4>2. SubSeq(opening, Len(opening) + 1, Len(opening)) = <<>>
        BY <1>s, AfterIs DEF After
      <4> QED BY <1>1, <4>1, <4>2
    <3>4. ASSUME NEW t \in Targets, t = at PROVE Rest(t)' = Rest(t)
      BY <2>2, <3>2, <3>3, <3>4 DEF Rest
    <3> QED BY <3>1, <3>4
  <2>5. Rest("direct")' = Rest("direct") /\ Rest("relay")' = Rest("relay")
    BY <2>4 DEF Targets
  <2>6. \E p \in Nat : Lined(opening, Rest("direct"), Rest("relay"), pipe.bytes, p)' /\ QueueFollows(p)'
    BY <1>1, <1>2, <2>2, <2>5, LineKept
  <2>7. IsPrefix(opening, opening)
    BY <1>s, AfterIs
  <2>8. SwapInv'
    <3>1. ASSUME NEW t \in Targets, sock'[t].got # <<>> \/ current' = t \/ pipe'.to = t
          PROVE  IsPrefix(opening', sock'[t].got)
      <4>1. CASE t = at
        BY <1>1, <2>1, <2>3, <2>7, <4>1
      <4>2. CASE t # at
        <5>1. sock'[t].got = sock[t].got
          BY <2>1, <2>3, <4>2
        <5> QED BY <1>1, <1>3, <2>2, <3>1, <4>2, <5>1 DEF SwapInv
      <4> QED BY <4>1, <4>2
    <3>2. at' = "direct" => sock'["relay"].got = <<>>
      BY <1>3, <2>1, <2>2, <2>3 DEF SwapInv, Targets
    <3> QED BY <1>3, <2>2, <2>5, <3>1, <3>2 DEF SwapInv
  <2> QED BY <2>6, <2>8 DEF UplinkGoal
<1>6. CASE Dialled /\ pc' # "write"
  <2>1. Opened([sock EXCEPT ![at].life = "open"]) /\ opening = <<>>
    BY <1>6 DEF Dialled, OpeningFor
  <2>2. PICK socks \in [Targets -> SockType] : socks = [sock EXCEPT ![at].life = "open"]
    BY <1>s, SockStep DEF SockLives
  <2>3. \A t \in Targets : socks[t].got = sock[t].got
    BY <1>s, <2>2 DEF SockType
  <2> QED BY <1>3, <1>5, <1>s, <2>1, <2>2, <2>3
<1>7. CASE OpeningWritten
  <2>1. Opened([sock EXCEPT ![at].got = opening])
    BY <1>7 DEF OpeningWritten, OpeningFor
  <2>2. PICK socks \in [Targets -> SockType] : socks = [sock EXCEPT ![at].got = opening]
    BY <1>s, SockStep
  <2>3. socks[at].got = opening /\ \A t \in Targets : t # at => socks[t].got = sock[t].got
    BY <1>s, <2>2 DEF SockType
  <2> QED BY <1>5, <2>1, <2>2, <2>3
<1> QED BY <1>4, <1>6, <1>7

(* The pipe reads the next chunk. *)
LEMMA UplinkReads ==
  ASSUME RelayType, Shape, UplinkInv, client.request = "tcp", pc # "head", PipeReads
  PROVE  UplinkGoal'
<1>s. pipe \in PipeType
  BY DEF RelayType
<1>1. /\ UNCHANGED <<opening, sock, at, current, pc, sent>> /\ pipe.state = "on" /\ pipe.bytes = <<>>
      /\ stream.queued # <<>> /\ stream' = Taken
      /\ pipe'.bytes = Head(stream.queued) /\ pipe'.to = current
  BY <1>s DEF PipeReads, PipeType, upVars, sockVars
<1>2. PICK o, d, r, b \in Seq(Nat), p \in Nat :
           /\ o = opening /\ d = Rest("direct") /\ r = Rest("relay") /\ b = pipe.bytes
           /\ Lined(o, d, r, b, p) /\ QueueFollows(p)
  BY LineNow
<1>3. PICK h \in Seq(Nat), k \in Nat :
           h = Head(stream.queued) /\ k = p + Len(h) /\ Run(h, p) /\ QueueFollows(k)'
  BY <1>1, <1>2, QueueTaken
<1>4. Lined(o, d, r, h, k)
  BY <1>1, <1>2, <1>3, LinedSteps
<1>5. Rest("direct")' = Rest("direct") /\ Rest("relay")' = Rest("relay")
  BY <1>1, GotKept DEF Targets
<1>6. Lined(opening, Rest("direct"), Rest("relay"), pipe.bytes, k)'
  <2>1. opening' = o /\ Rest("direct")' = d /\ Rest("relay")' = r /\ pipe'.bytes = h
    BY <1>1, <1>2, <1>3, <1>5
  <2> QED BY <1>4, <2>1, LinePrime
<1>7. SwapInv'
  <2>1. SwapInv
    BY DEF UplinkInv
  <2>2. \A t \in Targets : sock'[t].got # <<>> \/ current' = t \/ pipe'.to = t => IsPrefix(opening', sock'[t].got)
    BY <1>1, <2>1 DEF SwapInv
  <2>3. Rest("relay")' # <<>> => current' = "relay" /\ pipe'.to # "direct"
    BY <1>1, <1>5, <2>1 DEF SwapInv
  <2>4. (pc' \in {"dial", "write"} => sock'[at'].got = <<>>) /\ (at' = "direct" => sock'["relay"].got = <<>>)
    BY <1>1, <2>1 DEF SwapInv
  <2> QED BY <2>2, <2>3, <2>4 DEF SwapInv
<1> QED BY <1>3, <1>6, <1>7 DEF UplinkGoal

(* A chunk is written to the target it was read for. *)
LEMMA UplinkWrites ==
  ASSUME RelayType, Shape, UplinkInv, client.request = "tcp", pc # "head", PipeWrites
  PROVE  UplinkGoal'
<1>s. pipe \in PipeType /\ sock \in [Targets -> SockType] /\ current \in Targets \cup {None} /\ at \in Targets
  BY DEF RelayType
<1>1. /\ UNCHANGED <<opening, stream, at, current, pc, sent>> /\ pipe.bytes # <<>> /\ pipe.to \in Targets
      /\ sock' = [sock EXCEPT ![pipe.to].got = @ \o pipe.bytes]
      /\ pipe'.bytes = <<>> /\ pipe'.to = None
  BY <1>s DEF PipeWrites, PipeType, upVars, Shape
<1>i. SwapInv
  BY DEF UplinkInv
<1>2. PICK o, d, r, b \in Seq(Nat), p \in Nat :
           /\ o = opening /\ d = Rest("direct") /\ r = Rest("relay") /\ b = pipe.bytes
           /\ Lined(o, d, r, b, p) /\ QueueFollows(p)
  BY LineNow
<1>3. PICK t \in Targets, g \in Seq(Nat) : t = pipe.to /\ g = sock[t].got /\ IsPrefix(o, g)
  BY <1>s, <1>1, <1>2, <1>i DEF SwapInv, SockType
<1>4. IsPrefix(o, g \o b) /\ After(o, g \o b) = After(o, g) \o b
  BY <1>3, AfterMore
<1>5. sock'[t].got = g \o b /\ \A u \in Targets : u # t => sock'[u].got = sock[u].got
  BY <1>s, <1>1, <1>2, <1>3 DEF SockType
<1>6. Rest(t)' = Rest(t) \o b
  <2>1. Rest(t)' = After(o, g \o b)
    <3>1. Rest(t)' = SubSeq(sock'[t].got, Len(opening') + 1, Len(sock'[t].got))
      BY DEF Rest
    <3> QED BY <1>1, <1>2, <1>5, <3>1 DEF After
  <2>2. Rest(t) = After(o, g)
    BY <1>2, <1>3 DEF Rest, After
  <2> QED BY <1>4, <2>1, <2>2
<1>7. \A u \in Targets : u # t => Rest(u)' = Rest(u)
  BY <1>1, <1>5, GotKept
<1>8. /\ t = "relay" => current = "relay"
      /\ t = "direct" => r = <<>>
      /\ current # None
  <2>1. None # "direct" /\ None # "relay"
    BY DEF None
  <2> QED BY <1>2, <1>3, <1>i, <2>1 DEF Shape, SwapInv, Targets
<1>9. Lined(opening, Rest("direct"), Rest("relay"), pipe.bytes, p)'
  <2>1. CASE t = "direct"
    <3>1. Lined(o, d \o b, <<>>, <<>>, p)
      BY <1>2, <1>8, <2>1, LinedSteps
    <3>2. opening' = o /\ Rest("direct")' = d \o b /\ Rest("relay")' = <<>> /\ pipe'.bytes = <<>>
      BY <1>1, <1>2, <1>6, <1>7, <1>8, <2>1 DEF Targets
    <3> QED BY <3>1, <3>2, LinePrime
  <2>2. CASE t = "relay"
    <3>1. Lined(o, d, r \o b, <<>>, p)
      BY <1>2, LinedSteps
    <3>2. opening' = o /\ Rest("direct")' = d /\ Rest("relay")' = r \o b /\ pipe'.bytes = <<>>
      BY <1>1, <1>2, <1>6, <1>7, <2>2 DEF Targets
    <3> QED BY <3>1, <3>2, LinePrime
  <2> QED BY <2>1, <2>2 DEF Targets
<1>10. QueueFollows(p)'
  BY <1>1, <1>2, QueueKept
<1>11. SwapInv'
  <2>1. ASSUME NEW u \in Targets, sock'[u].got # <<>> \/ current' = u \/ pipe'.to = u
        PROVE  IsPrefix(opening', sock'[u].got)
    <3>1. CASE u = t
      BY <1>1, <1>2, <1>4, <1>5, <3>1
    <3>2. CASE u # t
      <4>1. sock'[u].got = sock[u].got /\ (sock[u].got # <<>> \/ current = u)
        BY <1>1, <1>5, <2>1, <3>2 DEF Targets, None
      <4> QED BY <1>1, <1>i, <4>1 DEF SwapInv
    <3> QED BY <3>1, <3>2
  <2>2. Rest("relay")' # <<>> => current' = "relay" /\ pipe'.to # "direct"
    <3>1. CASE t = "relay"
      BY <1>1, <1>8, <3>1 DEF None
    <3>2. CASE t = "direct"
      BY <1>2, <1>7, <1>8, <3>2 DEF Targets
    <3> QED BY <3>1, <3>2 DEF Targets
  <2>3. pc \in {"dial", "write"} => t # at
    <3>1. ASSUME pc \in {"dial", "write"}, t = at PROVE FALSE
      BY <1>s, <1>8, <3>1 DEF Shape, Targets
    <3> QED BY <3>1
  <2>4. pc' \in {"dial", "write"} => sock'[at'].got = <<>>
    BY <1>1, <1>5, <1>i, <1>s, <2>3 DEF SwapInv
  <2>5. at' = "direct" => sock'["relay"].got = <<>>
    <3>1. ASSUME at = "direct" PROVE t # "relay"
      BY <1>8, <3>1 DEF Shape
    <3> QED BY <1>1, <1>5, <1>i, <3>1 DEF SwapInv, Targets
  <2> QED BY <2>1, <2>2, <2>4, <2>5 DEF SwapInv
<1> QED BY <1>9, <1>10, <1>11 DEF UplinkGoal

(* A write that fails loses the chunk and what is queued, and nothing follows it. *)
LEMMA UplinkFails ==
  ASSUME RelayType, Shape, UplinkInv, client.request = "tcp", pc # "head", PipeFails
  PROVE  UplinkGoal'
<1>s. pipe \in PipeType /\ sock \in [Targets -> SockType] /\ stream \in StreamType
  BY DEF RelayType
<1>1. /\ UNCHANGED <<opening, at, current, pc>>
      /\ sock' = [sock EXCEPT ![pipe.to].life = IF @ = "open" THEN "broken" ELSE @]
      /\ pipe'.bytes = <<>> /\ pipe'.to = None
      /\ stream'.queued = <<>> /\ stream'.state # "open"
  BY <1>s DEF PipeFails, NoPipe, upVars, StreamType
<1>i. SwapInv
  BY DEF UplinkInv
<1>2. PICK o, d, r, b \in Seq(Nat), p \in Nat :
           /\ o = opening /\ d = Rest("direct") /\ r = Rest("relay") /\ b = pipe.bytes
           /\ Lined(o, d, r, b, p) /\ QueueFollows(p)
  BY LineNow
<1>3. PICK q \in Nat : Lined(o, d, r, <<>>, q)
  BY <1>2, LinedSteps
<1>4. \A t \in Targets : sock'[t].got = sock[t].got
  BY <1>s, <1>1 DEF SockType
<1>5. Rest("direct")' = Rest("direct") /\ Rest("relay")' = Rest("relay")
  BY <1>1, <1>4, GotKept DEF Targets
<1>6. Lined(opening, Rest("direct"), Rest("relay"), pipe.bytes, q)'
  <2>1. opening' = o /\ Rest("direct")' = d /\ Rest("relay")' = r /\ pipe'.bytes = <<>>
    BY <1>1, <1>2, <1>5
  <2> QED BY <1>3, <2>1, LinePrime
<1>7. QueueFollows(q)'
  BY <1>1, QueueOver
<1>8. SwapInv'
  <2>1. None # "direct" /\ at \in Targets
    BY DEF None, RelayType
  <2>2. \A t \in Targets : sock'[t].got # <<>> \/ current' = t \/ pipe'.to = t => IsPrefix(opening', sock'[t].got)
    BY <1>1, <1>4, <1>i DEF SwapInv, Targets, None
  <2>3. Rest("relay")' # <<>> => current' = "relay" /\ pipe'.to # "direct"
    BY <1>1, <1>5, <1>i, <2>1 DEF SwapInv
  <2>4. (pc' \in {"dial", "write"} => sock'[at'].got = <<>>) /\ (at' = "direct" => sock'["relay"].got = <<>>)
    BY <1>1, <1>4, <1>i, <2>1 DEF SwapInv, Targets
  <2> QED BY <2>2, <2>3, <2>4 DEF SwapInv
<1> QED BY <1>6, <1>7, <1>8 DEF UplinkGoal

(* Every step keeps the bytes of a tunnel in order. *)
LEMMA StepUplink == RelayType /\ Shape /\ HeadInv /\ UplinkInv /\ [Next]_vars => UplinkInv'
<1> SUFFICES ASSUME RelayType, Shape, HeadInv, UplinkInv, [Next]_vars, client'.request = "tcp", pc' # "head"
             PROVE  UplinkGoal'
  BY DEF UplinkInv, UplinkGoal
<1>s. pipe \in PipeType /\ sock \in [Targets -> SockType] /\ at \in Targets
  BY DEF RelayType
<1>0. client.request = "tcp"
  <2>1. client' = client
    BY DEF Next, vars, Message, WsCloses, ReadHead, HeadEnds, Dialled, OpeningWritten, OpenFails, TargetSends,
           PumpEnds, PipeReads, PipeWrites, PipeFails, PipeEnds, Returns, DnsReads, Drain, LookupAnswers,
           LookupFails, DnsEnds, DnsSettles
  <2> QED BY <2>1
<1>1. CASE ReadHead \/ HeadEnds
  BY <1>0, <1>1, UplinkHead
<1>2. CASE (Message \/ WsCloses) /\ pc # "head"
  <2>1. UNCHANGED <<opening, sock, at, current, pipe, pc>>
    BY <1>2 DEF Message, WsCloses, upVars, sockVars
  <2>2. \A p \in Nat : QueueFollows(p) => QueueFollows(p)'
    BY <1>2, QueueMessage
  <2> QED BY <1>0, <1>2, <2>1, <2>2, UplinkSame
<1>3. CASE (TargetSends \/ Returns \/ UNCHANGED vars) /\ pc # "head"
  <2>1. UNCHANGED <<opening, sock, at, current, pipe, stream, sent>> /\ (pc' = pc \/ pc' = "done")
    BY <1>3 DEF TargetSends, Returns, vars, upVars, sockVars
  <2>2. \A p \in Nat : QueueFollows(p) => QueueFollows(p)'
    BY <2>1, QueueKept
  <2> QED BY <1>0, <1>3, <2>1, <2>2, UplinkSame
<1>4. CASE Dialled \/ OpeningWritten
  <2>1. pc # "head"
    BY <1>4 DEF Dialled, OpeningWritten
  <2> QED BY <1>0, <1>4, <2>1, UplinkOpens
<1>5. CASE OpenFails \/ PumpEnds
  <2>1. UNCHANGED <<opening, current, pipe, stream, sent>> /\ pc # "head"
    BY <1>5 DEF OpenFails, PumpEnds, upVars
  <2>2. PICK life \in SockLives : Leaves([sock EXCEPT ![at].life = life])
    BY <1>5 DEF OpenFails, PumpEnds, SockLives
  <2>3. \/ /\ at = "direct" /\ at' = "relay" /\ pc' = "dial"
           /\ sock' = [[sock EXCEPT ![at].life = life] EXCEPT !["relay"].life = "dialling"]
        \/ pc' = "await" /\ sock' = [sock EXCEPT ![at].life = life] /\ at' = at
    BY <2>2, LeavesIs
  <2>4. \A t \in Targets : sock'[t].got = sock[t].got
    <3>1. PICK socks \in [Targets -> SockType] : socks = [sock EXCEPT ![at].life = life]
      BY <1>s, SockStep
    <3>2. \A t \in Targets : socks[t].got = sock[t].got
      BY <1>s, <3>1 DEF SockType
    <3>3. sock' = socks \/ sock' = [socks EXCEPT !["relay"].life = "dialling"]
      BY <2>3, <3>1
    <3>4. \A t \in Targets : sock'[t].got = socks[t].got
      <4>1. CASE sock' = socks
        BY <4>1
      <4>2. CASE sock' = [socks EXCEPT !["relay"].life = "dialling"]
        <5>1. "relay" \in Targets /\ socks \in [Targets -> [life : SockLives, half : BOOLEAN, got : Seq(Nat)]]
          BY DEF SockType, Targets
        <5>2. \A t \in Targets : [socks EXCEPT !["relay"].life = "dialling"][t].got = socks[t].got
          BY <5>1
        <5> QED BY <4>2, <5>2
      <4> QED BY <3>3, <4>1, <4>2
    <3> QED BY <3>2, <3>4
  <2>5. \A p \in Nat : QueueFollows(p) => QueueFollows(p)'
    BY <2>1, QueueKept
  <2> QED BY <1>0, <2>1, <2>3, <2>4, <2>5, UplinkSame
<1>6. CASE (PipeReads \/ PipeWrites \/ PipeFails) /\ pc # "head"
  BY <1>0, <1>6, UplinkReads, UplinkWrites, UplinkFails
<1>7. CASE PipeEnds /\ pc # "head"
  <2>1. UNCHANGED <<opening, at, current, pc, stream, sent>> /\ pipe'.bytes = pipe.bytes /\ pipe'.to = None
    BY <1>7 DEF PipeEnds, NoPipe, upVars
  <2>2. \A t \in Targets : sock'[t].got = sock[t].got
    BY <1>s, <1>7 DEF PipeEnds, SockType
  <2>3. \A p \in Nat : QueueFollows(p) => QueueFollows(p)'
    BY <2>1, QueueKept
  <2> QED BY <1>0, <1>7, <2>1, <2>2, <2>3, UplinkSame
<1>8. pc' = pc => pc # "head"
  OBVIOUS
<1>9. (Message \/ WsCloses \/ TargetSends \/ UNCHANGED vars \/ PipeReads \/ PipeWrites \/ PipeFails \/ PipeEnds)
      => pc' = pc
  BY DEF Message, WsCloses, TargetSends, vars, PipeReads, PipeWrites, PipeFails, PipeEnds
<1>10. Returns => pc # "head"
  BY DEF Returns
<1>11. ~(DnsReads \/ Drain \/ LookupAnswers \/ LookupFails \/ DnsEnds \/ DnsSettles)
  BY <1>0 DEF Shape, DnsReads, Drain, Complete, LookupAnswers, LookupFails, DnsEnds, DnsSettles
<1> QED BY <1>1, <1>2, <1>3, <1>4, <1>5, <1>6, <1>7, <1>8, <1>9, <1>10, <1>11 DEF Next

(* Bytes in order are sent once. *)
LEMMA UplinkIs == RelayType /\ UplinkInv => UplinkOnce
<1> SUFFICES ASSUME RelayType, UplinkInv, client.request = "tcp", pc \in {"dial", "write", "pump", "await", "done"}
             PROVE  /\ \A t \in Targets : sock[t].got # <<>> => IsPrefix(opening, sock[t].got)
                    /\ FlattenSeq(<<opening, Rest("direct"), Rest("relay"), pipe.bytes>> \o stream.queued)
                          = Bytes(HeaderLen + 1, HeaderLen + Len(opening) + Len(Rest("direct")) + Len(Rest("relay"))
                                                   + Len(pipe.bytes) + Size(stream.queued))
  BY DEF UplinkOnce
<1>1. PICK o, d, r, b \in Seq(Nat), p \in Nat :
           /\ o = opening /\ d = Rest("direct") /\ r = Rest("relay") /\ b = pipe.bytes
           /\ Lined(o, d, r, b, p) /\ QueueFollows(p)
  BY LineNow
<1>2. PICK q \in Queues : q = stream.queued /\ Run(FlattenSeq(q), p)
  BY <1>1, StreamIs DEF RelayType, QueueFollows
<1>3. FlattenSeq(<<o, d, r, b>> \o q)
           = Bytes(HeaderLen + 1, HeaderLen + Len(o) + Len(d) + Len(r) + Len(b) + Size(q))
  <2>1. PICK l \in Lines : l = [o |-> o, d |-> d, r |-> r, b |-> b, p |-> p, q |-> q]
    BY DEF Lines, Text
  <2>2. l.o = o /\ l.d = d /\ l.r = r /\ l.b = b /\ l.p = p /\ l.q = q
    BY <2>1
  <2>3. Lined(l.o, l.d, l.r, l.b, l.p) /\ Run(FlattenSeq(l.q), l.p)
    BY <1>1, <1>2, <2>2
  <2>4. FlattenSeq(<<l.o, l.d, l.r, l.b>> \o l.q)
          = Bytes(HeaderLen + 1, HeaderLen + Len(l.o) + Len(l.d) + Len(l.r) + Len(l.b) + Size(l.q))
    BY <2>3, LinedIs, Zenon
  <2> QED BY <2>2, <2>4
<1>4. \A t \in Targets : sock[t].got # <<>> => IsPrefix(opening, sock[t].got)
  BY DEF UplinkInv, SwapInv
<1> QED BY <1>1, <1>2, <1>3, <1>4

(* The client's bytes reach a target once and in order, across a retry that swaps the *)
(* target under the pipe (runTcpRelay).                                               *)
THEOREM UplinkSentOnce == Spec => []UplinkOnce
<1>1. Init => RelayType /\ Shape /\ HeadInv /\ UplinkInv
  BY InitRelayType, InitShape, InitHead, InitUplink
<1>2. RelayType /\ Shape /\ HeadInv /\ UplinkInv /\ [Next]_vars => (RelayType /\ Shape /\ HeadInv /\ UplinkInv)'
  BY StepRelayType, StepShape, StepHead, StepUplink
<1> QED BY <1>1, <1>2, UplinkIs, PTL DEF Spec

(***************************************************************************)
(* The bytes of a DNS client.                                              *)
(***************************************************************************)
Frames(f) == [i \in DOMAIN f |-> Framed(f[i])]

(* Two digits say how long a packet is. *)
LEMMA FramedIs ==
  ASSUME NEW n \in Nat
  PROVE  /\ Framed(n) \in Seq(Nat) /\ Len(Framed(n)) = 2 + n
         /\ Framed(n)[1] = n \div Base /\ Framed(n)[2] = n % Base
         /\ (n \div Base) * Base + (n % Base) = n
         /\ (n \div Base) * Base \in Nat /\ n % Base \in Nat
<1>b. Base \in Nat \ {0}
  BY WorkerRelayAssumption
<1>1. PICK hi, lo \in Nat : hi = n \div Base /\ lo = n % Base
  <2>1. n \div Base \in Nat /\ n % Base \in Nat
    BY <1>b
  <2> QED BY <2>1
<1>2. (n \div Base) * Base + (n % Base) = n
  BY <1>b
<1>7. (n \div Base) * Base \in Nat
  <2>1. \A x \in Nat : x * Base \in Nat
    BY <1>b
  <2> QED BY <1>1, <2>1
<1>3. PICK x \in Seq(Nat) : x = [i \in 1 .. n |-> 0] /\ Len(x) = n
  <2>1. [i \in 1 .. n |-> 0] \in Seq(Nat) /\ Len([i \in 1 .. n |-> 0]) = n
    OBVIOUS
  <2> QED BY <2>1
<1>4. PICK d \in Seq(Nat) : d = <<hi, lo>> /\ Len(d) = 2 /\ d[1] = hi /\ d[2] = lo
  <2>1. <<hi, lo>> \in Seq(Nat) /\ Len(<<hi, lo>>) = 2 /\ <<hi, lo>>[1] = hi /\ <<hi, lo>>[2] = lo
    OBVIOUS
  <2> QED BY <2>1
<1>5. Framed(n) = d \o x
  BY <1>1, <1>3, <1>4 DEF Framed
<1>6. /\ d \o x \in Seq(Nat) /\ Len(d \o x) = 2 + n
      /\ (d \o x)[1] = hi /\ (d \o x)[2] = lo
  BY <1>3, <1>4
<1> QED BY <1>1, <1>2, <1>5, <1>6, <1>7

(* The packets on the wire. *)
LEMMA FramesIs ==
  ASSUME NEW f \in Seq(Nat)
  PROVE  /\ Frames(f) \in Queues /\ Len(Frames(f)) = Len(f) /\ DOMAIN Frames(f) = DOMAIN f
         /\ \A i \in DOMAIN f : Frames(f)[i] = Framed(f[i])
<1>1. \A i \in 1 .. Len(f) : Framed(f[i]) \in Seq(Nat)
  <2>1. \A i \in 1 .. Len(f) : f[i] \in Nat
    OBVIOUS
  <2> QED BY <2>1, FramedIs
<1> QED BY <1>1 DEF Frames, Queues

(* The header and the packets. *)
LEMMA WireIs ==
  ASSUME NEW f \in Seq(Nat)
  PROVE  \E z, W \in Seq(Nat) :
            /\ Len(z) = HeaderLen /\ W = FlattenSeq(Frames(f))
            /\ Wire(f) = z \o W /\ Len(Wire(f)) = HeaderLen + Size(Frames(f))
<1>1. HeaderLen \in Nat
  BY WorkerRelayAssumption
<1>2. PICK z \in Seq(Nat) : z = [i \in 1 .. HeaderLen |-> 0] /\ Len(z) = HeaderLen
  <2>1. [i \in 1 .. HeaderLen |-> 0] \in Seq(Nat) /\ Len([i \in 1 .. HeaderLen |-> 0]) = HeaderLen
    BY <1>1
  <2> QED BY <2>1
<1>3. PICK W \in Seq(Nat) : W = FlattenSeq(Frames(f)) /\ Len(W) = Size(Frames(f))
  BY FramesIs, SizeType
<1>4. Wire(f) = z \o W
  BY <1>2, <1>3 DEF Wire, Frames
<1>5. Len(z \o W) = Len(z) + Len(W)
  BY ConcatProperties
<1> QED BY <1>2, <1>3, <1>4, <1>5

(* What comes before a packet is the header and the packets before it. *)
LEMMA BeforeOffset ==
  ASSUME NEW f \in Seq(Nat), NEW k \in 0 .. Len(f)
  PROVE  Before(f, k + 1) = HeaderLen + Offset(Frames(f), k + 1)
<1>0. k \in Nat /\ (k + 1) - 1 = k /\ Len(f) \in Nat
  OBVIOUS
<1>1. PICK g \in Seq(Nat) : g = SubSeq(f, 1, k) /\ Len(g) = k /\ \A i \in 1 .. k : g[i] = f[i]
  <2>1. SubSeq(f, 1, k) \in Seq(Nat) /\ Len(SubSeq(f, 1, k)) = k /\ \A i \in 1 .. k : SubSeq(f, 1, k)[i] = f[i]
    OBVIOUS
  <2> QED BY <2>1
<1>2. PICK c, d \in Queues : c = Frames(f) /\ d = Frames(g) /\ Len(c) = Len(f) /\ Len(d) = k
                             /\ \A i \in 1 .. k : d[i] = c[i]
  <2>1. \A i \in 1 .. k : Frames(g)[i] = Frames(f)[i]
    <3>1. \A i \in 1 .. k : i \in DOMAIN g /\ i \in DOMAIN f
      BY <1>1
    <3>2. \A i \in DOMAIN g : Frames(g)[i] = Framed(g[i])
      BY FramesIs
    <3>3. \A i \in DOMAIN f : Frames(f)[i] = Framed(f[i])
      BY FramesIs
    <3> QED BY <1>1, <3>1, <3>2, <3>3
  <2>2. Frames(f) \in Queues /\ Len(Frames(f)) = Len(f)
    BY FramesIs
  <2>3. Frames(g) \in Queues /\ Len(Frames(g)) = Len(g)
    BY FramesIs
  <2> QED BY <1>1, <2>1, <2>2, <2>3
<1>3. PICK e \in Queues : e = SubSeq(c, 1, k) /\ Len(e) = k /\ \A i \in 1 .. k : e[i] = c[i]
  <2>1. k \in 0 .. Len(c)
    BY <1>2
  <2>2. SubSeq(c, 1, k) \in Queues /\ Len(SubSeq(c, 1, k)) = k /\ \A i \in 1 .. k : SubSeq(c, 1, k)[i] = c[i]
    BY <2>1 DEF Queues
  <2> QED BY <2>2
<1>4. d = e
  <2>1. Len(d) = Len(e) /\ \A i \in 1 .. Len(d) : d[i] = e[i]
    BY <1>2, <1>3
  <2> QED BY <2>1, SeqEqual DEF Queues
<1>5. Len(Wire(g)) = HeaderLen + Size(d)
  BY <1>2, WireIs
<1>6. Before(f, k + 1) = Len(Wire(g))
  BY <1>0, <1>1 DEF Before
<1>7. Offset(c, k + 1) = Size(e)
  BY <1>0, <1>3 DEF Offset
<1> QED BY <1>2, <1>4, <1>5, <1>6, <1>7

(* Before the first packet is the header; after the last nothing is left. *)
LEMMA BeforeEnds ==
  ASSUME NEW f \in Seq(Nat)
  PROVE  Before(f, 0 + 1) = HeaderLen /\ Before(f, Len(f) + 1) = Len(Wire(f)) /\ Len(Wire(f)) \in Nat
<1>1. HeaderLen \in Nat /\ HeaderLen + 0 = HeaderLen
  BY WorkerRelayAssumption
<1>2. PICK k \in 0 .. Len(f) : k = Len(f)
  OBVIOUS
<1>3. 0 \in 0 .. Len(f) /\ 0 + 1 = 1
  OBVIOUS
<1>4. Frames(f) \in Queues /\ Len(Frames(f)) = k
  BY <1>2, FramesIs
<1>5. Offset(Frames(f), 1) = 0 /\ Offset(Frames(f), k + 1) = Size(Frames(f)) /\ Size(Frames(f)) \in Nat
  BY <1>4, OffsetType
<1>6. Len(Wire(f)) = HeaderLen + Size(Frames(f))
  BY WireIs
<1>7. Before(f, k + 1) = HeaderLen + Offset(Frames(f), k + 1)
  BY BeforeOffset
<1>8. Before(f, 0 + 1) = HeaderLen + Offset(Frames(f), 0 + 1)
  BY <1>3, BeforeOffset
<1> QED BY <1>1, <1>2, <1>3, <1>5, <1>6, <1>7, <1>8

(* Where a packet is, and how long. *)
LEMMA PacketIs ==
  ASSUME NEW f \in Seq(Nat), NEW k \in Nat, k < Len(f)
  PROVE  \E b, n \in Nat :
            /\ b = Before(f, k + 1) /\ n = f[k + 1] /\ Before(f, (k + 1) + 1) = b + (2 + n)
            /\ Wire(f)[b + 1] = n \div Base /\ Wire(f)[b + 2] = n % Base
<1>1. PICK p \in 1 .. Len(f) : p = k + 1 /\ k \in 0 .. Len(f) /\ p \in 0 .. Len(f)
  OBVIOUS
<1>2. PICK n \in Nat : n = f[p]
  OBVIOUS
<1>3. PICK c \in Queues : c = Frames(f) /\ p \in DOMAIN c /\ c[p] = Framed(n)
  BY <1>1, <1>2, FramesIs
<1>4. PICK a, r \in Queues :
           /\ FlattenSeq(c) = FlattenSeq(a) \o (c[p] \o FlattenSeq(r))
           /\ Offset(c, p) = Len(FlattenSeq(a))
           /\ Offset(c, p + 1) = Len(FlattenSeq(a)) + Len(c[p])
  BY <1>3, Around
<1>5. PICK A, B, x \in Seq(Nat), L \in Nat :
           /\ A = FlattenSeq(a) /\ B = FlattenSeq(r) /\ x = c[p] /\ L = Len(A)
  <2>1. FlattenSeq(a) \in Seq(Nat) /\ FlattenSeq(r) \in Seq(Nat) /\ c[p] \in Seq(Nat)
    BY <1>3, FlatType, FramedIs DEF Queues
  <2>2. Len(FlattenSeq(a)) \in Nat
    BY <2>1
  <2> QED BY <2>1, <2>2
<1>6. Len(x) = 2 + n /\ x[1] = n \div Base /\ x[2] = n % Base
  BY <1>3, <1>5, FramedIs
<1>7. PICK z, W \in Seq(Nat) : Len(z) = HeaderLen /\ W = FlattenSeq(c) /\ Wire(f) = z \o W
  BY <1>3, WireIs
<1>8. HeaderLen \in Nat
  BY WorkerRelayAssumption
<1>9. PICK b \in Nat : b = HeaderLen + L
  BY <1>8
<1>10. Before(f, k + 1) = b
  BY <1>1, <1>3, <1>4, <1>5, <1>9, BeforeOffset
<1>11. Before(f, p + 1) = b + (2 + n)
  <2>1. Before(f, p + 1) = HeaderLen + Offset(c, p + 1)
    BY <1>1, <1>3, BeforeOffset
  <2>2. Offset(c, p + 1) = L + (2 + n)
    BY <1>4, <1>5, <1>6
  <2> QED BY <1>8, <1>9, <2>1, <2>2
<1>12. W[L + 1] = x[1] /\ W[L + 2] = x[2]
  <2>0. W = A \o (x \o B)
    BY <1>4, <1>5, <1>7
  <2>1. PICK l \in Nat : l = L + 1
    OBVIOUS
  <2>2. W[L + 1] = x[L - L + 1]
    <3>1. Len(A) <= L /\ L < Len(A) + Len(x)
      BY <1>5, <1>6
    <3>2. (A \o (x \o B))[L + 1] = x[L - Len(A) + 1]
      BY <3>1, Middle
    <3> QED BY <1>5, <2>0, <3>2
  <2>3. W[l + 1] = x[l - L + 1]
    <3>1. Len(A) <= l /\ l < Len(A) + Len(x)
      <4>1. Len(A) = L /\ Len(x) = 2 + n /\ l = L + 1
        BY <1>5, <1>6, <2>1
      <4>2. L <= L + 1 /\ L + 1 < L + (2 + n)
        OBVIOUS
      <4> QED BY <4>1, <4>2
    <3>2. (A \o (x \o B))[l + 1] = x[l - Len(A) + 1]
      BY <3>1, Middle
    <3> QED BY <1>5, <2>0, <3>2
  <2>4. L - L + 1 = 1 /\ l - L + 1 = 2 /\ l + 1 = L + 2
    BY <2>1
  <2> QED BY <2>2, <2>3, <2>4
<1>13. Wire(f)[b + 1] = W[L + 1] /\ Wire(f)[b + 2] = W[L + 2]
  <2>1. Len(W) >= L + 2
    <3>1. x \o B \in Seq(Nat) /\ Len(x \o B) = Len(x) + Len(B)
      BY ConcatProperties
    <3>2. PICK y \in Seq(Nat), t \in Nat : y = x \o B /\ Len(y) = (2 + n) + t
      <4>1. Len(B) \in Nat
        OBVIOUS
      <4> QED BY <1>6, <3>1, <4>1
    <3>3. Len(A \o y) = Len(A) + Len(y)
      BY ConcatProperties
    <3>4. W = A \o y
      BY <1>4, <1>5, <1>7, <3>2
    <3>5. L + ((2 + n) + t) >= L + 2
      OBVIOUS
    <3> QED BY <1>5, <3>2, <3>3, <3>4, <3>5
  <2>2. /\ b + 1 \in 1 .. Len(z) + Len(W) /\ ~(b + 1 <= Len(z)) /\ (b + 1) - Len(z) = L + 1
        /\ b + 2 \in 1 .. Len(z) + Len(W) /\ ~(b + 2 <= Len(z)) /\ (b + 2) - Len(z) = L + 2
    BY <1>7, <1>8, <1>9, <2>1
  <2>3. (z \o W)[b + 1] = W[(b + 1) - Len(z)] /\ (z \o W)[b + 2] = W[(b + 2) - Len(z)]
    BY <2>2, ConcatProperties
  <2> QED BY <1>7, <2>2, <2>3
<1> QED BY <1>1, <1>2, <1>6, <1>10, <1>11, <1>12, <1>13

(* Later packets come later. *)
LEMMA BeforeGrows ==
  ASSUME NEW f \in Seq(Nat), NEW k \in Nat
  PROVE  \A m \in Nat : k + m <= Len(f) => /\ Before(f, (k + m) + 1) \in Nat
                                           /\ Before(f, k + 1) <= Before(f, (k + m) + 1)
<1> DEFINE T == {m \in Nat : k + m <= Len(f) => /\ Before(f, (k + m) + 1) \in Nat
                                                /\ Before(f, k + 1) <= Before(f, (k + m) + 1)}
<1>1. 0 \in T
  <2>1. k + 0 = k
    OBVIOUS
  <2>2. ASSUME k <= Len(f) PROVE Before(f, k + 1) \in Nat
    <3>1. CASE k < Len(f)
      BY <3>1, PacketIs
    <3>2. CASE ~(k < Len(f))
      <4>1. k = Len(f)
        BY <2>2, <3>2
      <4> QED BY <4>1, BeforeEnds
    <3> QED BY <3>1, <3>2
  <2>3. \A x \in Nat : x <= x
    OBVIOUS
  <2> QED BY <2>1, <2>2, <2>3
<1>2. ASSUME NEW m \in Nat, m \in T PROVE m + 1 \in T
  <2>1. SUFFICES ASSUME k + (m + 1) <= Len(f)
                 PROVE  /\ Before(f, (k + (m + 1)) + 1) \in Nat
                        /\ Before(f, k + 1) <= Before(f, (k + (m + 1)) + 1)
    OBVIOUS
  <2>2. PICK j \in Nat : j = k + m /\ j < Len(f) /\ k + (m + 1) = j + 1
    <3>1. k + m \in Nat /\ k + m < Len(f) /\ k + (m + 1) = (k + m) + 1
      BY <2>1
    <3> QED BY <3>1
  <2>3. PICK b, n \in Nat : b = Before(f, j + 1) /\ Before(f, (j + 1) + 1) = b + (2 + n)
    BY <2>2, PacketIs
  <2>4. Before(f, k + 1) <= b
    BY <1>2, <2>2, <2>3
  <2>5. Before(f, k + 1) \in Nat
    <3>1. k < Len(f)
      BY <2>2
    <3> QED BY <3>1, PacketIs
  <2>6. b + (2 + n) \in Nat /\ Before(f, k + 1) <= b + (2 + n)
    BY <2>4, <2>5
  <2> QED BY <2>2, <2>3, <2>6
<1> HIDE DEF T
<1>3. \A m \in Nat : m \in T
  BY <1>1, <1>2, Induction
<1> QED BY <1>3 DEF T

(* What a DNS client's stream is cut into: the bytes not cut off yet follow the packets   *)
(* that were, and what is queued follows them.                                            *)
CutAt(b, p) ==
  /\ b = Before(client.framing, Len(queries) + 1) /\ p = b + Size(parts)
  /\ Run(FlattenSeq(parts), b) /\ QueueFollows(p) /\ Received(p)

DnsInv ==
  pc = "dns" =>
    /\ parts \in Queues /\ Len(queries) \in Nat /\ Len(queries) <= Len(client.framing)
    /\ \E b, p \in Nat : CutAt(b, p)

QueriesInv ==
  /\ queries \in Queues /\ asking \subseteq 1 .. Len(queries)
  /\ \A i \in 1 .. Len(queries) : queries[i] = Packet(i)

(* A part of a sequence, byte by byte. *)
LEMMA PartAt ==
  ASSUME NEW s \in Seq(Nat), NEW a \in Nat, NEW k \in Nat, a + k <= Len(s)
  PROVE  /\ SubSeq(s, a + 1, a + k) \in Seq(Nat) /\ Len(SubSeq(s, a + 1, a + k)) = k
         /\ \A i \in 1 .. k : SubSeq(s, a + 1, a + k)[i] = s[a + i]
OBVIOUS

(* A part of a run. *)
LEMMA RunSlice ==
  ASSUME NEW s \in Seq(Nat), NEW n \in Nat, NEW a \in Nat, NEW k \in Nat, Run(s, n), a + k <= Len(s)
  PROVE  SubSeq(s, a + 1, a + k) = Bytes((n + a) + 1, (n + a) + k)
<1>1. PICK t \in Seq(Nat) : /\ t = Bytes((n + a) + 1, (n + a) + k) /\ Len(t) = k
                            /\ \A i \in 1 .. k : t[i] = (n + a) + i
  <2>1. PICK m \in Nat : m = n + a
    OBVIOUS
  <2> QED BY <2>1, BytesType
<1>2. PICK r \in Seq(Nat) : r = SubSeq(s, a + 1, a + k) /\ Len(r) = k /\ \A i \in 1 .. k : r[i] = s[a + i]
  BY PartAt
<1>3. ASSUME NEW i \in 1 .. k PROVE r[i] = t[i]
  <2>1. a + i \in 1 .. Len(s) /\ n + (a + i) = (n + a) + i
    OBVIOUS
  <2>2. s[a + i] = n + (a + i)
    BY <2>1 DEF Run
  <2> QED BY <1>1, <1>2, <2>1, <2>2
<1>4. r = t
  BY <1>1, <1>2, <1>3, SeqEqual
<1> QED BY <1>1, <1>2, <1>4

(* A part of a run that starts at its third byte. *)
LEMMA PacketSlice ==
  ASSUME NEW s \in Text, NEW n \in Nat, NEW k \in Nat, Run(s, n), 2 + k <= Len(s)
  PROVE  SubSeq(s, 2 + 1, 2 + k) = Bytes((n + 2) + 1, (n + 2) + k)
BY RunSlice DEF Text

(* A query is added at the end. *)
LEMMA MoreQueries ==
  ASSUME NEW s \in Queues, NEW x \in Text
  PROVE  /\ Append(s, x) \in Queues /\ Len(Append(s, x)) = Len(s) + 1 /\ Append(s, x)[Len(s) + 1] = x
         /\ \A i \in 1 .. Len(s) : Append(s, x)[i] = s[i]
BY DEF Text, Queues

(* With two bytes there, they are the length of the next packet. *)
LEMMA LengthRead ==
  ASSUME RelayType, Shape, DnsInv, pc = "dns", Size(parts) >= 2
  PROVE  \E b, p, n, q \in Nat :
            /\ CutAt(b, p) /\ q = Len(queries) /\ q < Len(client.framing) /\ n = client.framing[q + 1]
            /\ Before(client.framing, (q + 1) + 1) = b + (2 + n)
            /\ Value(At(parts, 0)) * Base + Value(At(parts, 1)) = n
            /\ 2 + Value(At(parts, 0)) * Base + Value(At(parts, 1)) = 2 + n
<1>1. PICK b, p \in Nat : CutAt(b, p)
  BY DEF DnsInv
<1>2. PICK f \in Seq(Nat), q \in Nat : f = client.framing /\ q = Len(queries) /\ q <= Len(f)
  BY DEF DnsInv, RelayType
<1>3. PICK F \in Seq(Nat), S, Q \in Nat : /\ F = FlattenSeq(parts) /\ S = Size(parts) /\ S = Len(F)
                                          /\ Q = Size(stream.queued)
  BY SizeType, StreamIs DEF RelayType, DnsInv
<1>4. q < Len(f)
  <2>1. CASE q = Len(f)
    <3>1. b = Len(Wire(f))
      BY <1>1, <1>2, <2>1, BeforeEnds DEF CutAt
    <3>2. sent <= Len(Wire(f)) /\ sent \in Nat
      BY <1>2 DEF RelayType, Shape, Total
    <3>3. (b + S) + Q <= sent
      BY <1>1, <1>3 DEF CutAt, Received
    <3> QED BY <1>3, <3>1, <3>2, <3>3
  <2> QED BY <1>2, <2>1
<1>5. PICK n \in Nat : /\ n = f[q + 1] /\ Before(f, (q + 1) + 1) = b + (2 + n)
                       /\ Wire(f)[b + 1] = n \div Base /\ Wire(f)[b + 2] = n % Base
  <2>1. \E c, n \in Nat : /\ c = Before(f, q + 1) /\ n = f[q + 1] /\ Before(f, (q + 1) + 1) = c + (2 + n)
                          /\ Wire(f)[c + 1] = n \div Base /\ Wire(f)[c + 2] = n % Base
    BY <1>4, PacketIs
  <2>2. b = Before(f, q + 1)
    BY <1>1, <1>2 DEF CutAt
  <2> QED BY <2>1, <2>2
<1>6. At(parts, 0) = b + 1 /\ At(parts, 1) = b + 2
  <2>1. parts \in Queues
    BY DEF DnsInv
  <2>2. At(parts, 0) = F[0 + 1] /\ At(parts, 1) = F[1 + 1]
    <3>1. 0 < Size(parts) /\ 1 < Size(parts)
      BY <1>3
    <3> QED BY <1>3, <2>1, <3>1, AtByte
  <2>3. F[1] = b + 1 /\ F[2] = b + 2
    <3>1. 1 \in 1 .. Len(F) /\ 2 \in 1 .. Len(F)
      BY <1>3
    <3>2. Run(F, b)
      BY <1>1, <1>3 DEF CutAt
    <3> QED BY <3>1, <3>2 DEF Run
  <2> QED BY <2>2, <2>3
<1>7. Value(At(parts, 0)) = n \div Base /\ Value(At(parts, 1)) = n % Base
  BY <1>2, <1>5, <1>6 DEF Value
<1>8. (n \div Base) * Base + (n % Base) = n
  BY FramedIs
<1>9. 2 + (n \div Base) * Base + (n % Base) = 2 + n
  <2>1. PICK v, lo \in Nat : v = (n \div Base) * Base /\ lo = n % Base
    BY FramedIs
  <2>2. 2 + v + lo = 2 + (v + lo)
    OBVIOUS
  <2> QED BY <1>8, <2>1, <2>2
<1> QED BY <1>1, <1>2, <1>4, <1>5, <1>7, <1>8, <1>9

(* Initially no packet has been cut. *)
LEMMA InitDns == Init => DnsInv /\ QueriesInv
<1> SUFFICES ASSUME Init PROVE DnsInv /\ QueriesInv
  OBVIOUS
<1>1. pc = "head" /\ queries = <<>> /\ asking = {}
  BY DEF Init
<1>2. DnsInv
  BY <1>1 DEF DnsInv
<1>3. <<>> \in Queues /\ Len(<<>>) = 0 /\ 1 .. 0 = {}
  BY DEF Queues
<1> QED BY <1>1, <1>2, <1>3 DEF QueriesInv

(* A packet cut off the stream is the one the client sent. *)
LEMMA DrainCuts ==
  ASSUME RelayType, Shape, DnsInv, QueriesInv, Drain
  PROVE  DnsInv' /\ QueriesInv'
<1>0. /\ Complete /\ pc = "dns" /\ Size(parts) >= 2
      /\ Size(parts) >= 2 + Value(At(parts, 0)) * Base + Value(At(parts, 1))
      /\ UNCHANGED <<client, sent, stream, pc>>
  BY DEF Drain, Complete
<1>1. PICK b, p, n, q \in Nat :
            /\ CutAt(b, p) /\ q = Len(queries) /\ q < Len(client.framing) /\ n = client.framing[q + 1]
            /\ Before(client.framing, (q + 1) + 1) = b + (2 + n)
            /\ Value(At(parts, 0)) * Base + Value(At(parts, 1)) = n
            /\ 2 + Value(At(parts, 0)) * Base + Value(At(parts, 1)) = 2 + n
  BY <1>0, LengthRead
<1>2. PICK F \in Seq(Nat), S \in Nat : F = FlattenSeq(parts) /\ S = Size(parts) /\ S = Len(F)
  BY <1>0, SizeType DEF DnsInv
<1>3. parts \in Queues /\ Run(F, b)
  BY <1>0, <1>1, <1>2 DEF DnsInv, CutAt
<1>4. PICK m, c \in Nat : S = c + m /\ c = 2 + n
  <2>1. S >= 2 + n
    BY <1>0, <1>1, <1>2
  <2>2. S - (2 + n) \in Nat /\ S = (2 + n) + (S - (2 + n)) /\ 2 + n \in Nat
    BY <2>1
  <2> QED BY <2>2
<1>5. PICK x \in Seq(Nat) : x = Packet(q + 1) /\ x = Slice(parts, 2, c)
  <2>1. SubSeq(F, 2 + 1, 2 + n) = Bytes((b + 2) + 1, (b + 2) + n)
    <3>1. 2 + n <= Len(F) /\ F \in Text
      BY <1>2, <1>4 DEF Text
    <3> QED BY <1>3, <3>1, PacketSlice, Zenon
  <2>2. Slice(parts, 2, c) = SubSeq(F, 2 + 1, c)
    <3>1. 2 <= c /\ c <= Size(parts)
      BY <1>2, <1>4
    <3> QED BY <1>2, <1>3, <3>1, SliceBytes
  <2>3. Packet(q + 1) = Bytes((b + 2) + 1, (b + 2) + n)
    <3>1. Packet(q + 1) = Bytes(b + 3, b + 2 + n)
      BY <1>1 DEF Packet, CutAt
    <3>2. b + 3 = (b + 2) + 1
      OBVIOUS
    <3> QED BY <3>1, <3>2
  <2>4. Bytes((b + 2) + 1, (b + 2) + n) \in Seq(Nat)
    <3>1. b + 2 \in Nat
      OBVIOUS
    <3> QED BY <3>1, BytesType, Zenon
  <2> QED BY <1>4, <2>1, <2>2, <2>3, <2>4
<1>6. queries' = Append(queries, x) /\ parts' = Consume(parts, c) /\ asking' = asking \cup {q + 1}
  <2>1. /\ queries' = Append(queries, Slice(parts, 2, 2 + (Value(At(parts, 0)) * Base + Value(At(parts, 1)))))
        /\ parts' = Consume(parts, 2 + (Value(At(parts, 0)) * Base + Value(At(parts, 1))))
        /\ asking' = asking \cup {Len(queries) + 1}
    BY DEF Drain
  <2> QED BY <1>1, <1>4, <1>5, <2>1
<1>7. PICK P \in Queues, R \in Seq(Nat) :
           P = Consume(parts, c) /\ R = FlattenSeq(P) /\ Run(R, b + c) /\ Size(P) = m
  <2>1. /\ Consume(parts, c) \in Queues
        /\ FlattenSeq(Consume(parts, c)) = SubSeq(F, c + 1, Len(F))
    BY <1>2, <1>3, <1>4, ConsumeBytes
  <2>2. /\ Run(SubSeq(F, c + 1, Len(F)), b + c) /\ SubSeq(F, c + 1, Len(F)) \in Seq(Nat)
        /\ c + Len(SubSeq(F, c + 1, Len(F))) = Len(F)
    <3>1. c \in 0 .. Len(F)
      BY <1>2, <1>4
    <3> QED BY <1>3, <3>1, RunRest
  <2>3. PICK P \in Queues, R \in Seq(Nat) :
           P = Consume(parts, c) /\ R = FlattenSeq(P) /\ R = SubSeq(F, c + 1, Len(F))
    BY <2>1, <2>2
  <2>4. Size(P) = m
    <3>1. Size(P) = Len(R)
      BY <2>3, SizeType
    <3>2. c + Len(R) = c + m
      BY <1>2, <1>4, <2>2, <2>3
    <3> QED BY <3>1, <3>2
  <2> QED BY <2>2, <2>3, <2>4
<1>8. PICK Q \in Queues : Q = Append(queries, x) /\ Len(Q) = q + 1 /\ Q[q + 1] = x
                          /\ \A i \in 1 .. q : Q[i] = queries[i]
  <2>1. queries \in Queues /\ Len(queries) = q /\ x \in Text
    BY <1>1 DEF QueriesInv, Text
  <2>2. /\ Append(queries, x) \in Queues /\ Len(Append(queries, x)) = Len(queries) + 1
        /\ Append(queries, x)[Len(queries) + 1] = x
        /\ \A i \in 1 .. Len(queries) : Append(queries, x)[i] = queries[i]
    BY <2>1, MoreQueries, Zenon
  <2> QED BY <2>1, <2>2
<1>9. PICK d \in Nat : d = b + c
  OBVIOUS
<1>10. p = d + m /\ d = Before(client.framing, (q + 1) + 1)
  <2>1. p = b + S
    BY <1>1, <1>2 DEF CutAt
  <2>2. b + (c + m) = (b + c) + m
    OBVIOUS
  <2> QED BY <1>1, <1>4, <1>9, <2>1, <2>2
<1>11. QueueFollows(p)' /\ Received(p)'
  <2>1. QueueFollows(p) /\ Received(p)
    BY <1>1 DEF CutAt
  <2> QED BY <1>0, <2>1, QueueKept
<1>12. CutAt(d, p)'
  BY <1>0, <1>6, <1>7, <1>8, <1>9, <1>10, <1>11 DEF CutAt
<1>13. DnsInv'
  <2>1. q + 1 \in Nat /\ q + 1 <= Len(client.framing)
    <3>1. PICK N \in Nat : N = Len(client.framing)
      <4>1. client.framing \in Seq(Nat)
        BY DEF RelayType
      <4>2. Len(client.framing) \in Nat
        BY <4>1
      <4> QED BY <4>2
    <3> QED BY <1>1, <3>1
  <2> QED BY <1>0, <1>6, <1>7, <1>8, <1>12, <2>1 DEF DnsInv
<1>14. QueriesInv'
  <2>1. asking \cup {q + 1} \subseteq 1 .. q + 1
    <3>1. asking \subseteq 1 .. q
      BY <1>1 DEF QueriesInv
    <3>2. 1 .. q \subseteq 1 .. q + 1 /\ q + 1 \in 1 .. q + 1
      OBVIOUS
    <3> QED BY <3>1, <3>2, Zenon
  <2>2. ASSUME NEW i \in 1 .. q + 1 PROVE Q[i] = Packet(i)
    <3>1. i \in 1 .. q \/ i = q + 1
      OBVIOUS
    <3> QED BY <1>1, <1>5, <1>8, <3>1 DEF QueriesInv
  <2>3. \A i : Packet(i)' = Packet(i)
    BY <1>0 DEF Packet
  <2> QED BY <1>6, <1>8, <2>1, <2>2, <2>3 DEF QueriesInv
<1> QED BY <1>13, <1>14

(* A client asks for one thing. *)
LEMMA ClientStays == [Next]_vars => client' = client
BY DEF Next, vars, Message, WsCloses, ReadHead, HeadEnds, Dialled, OpeningWritten, OpenFails, TargetSends,
       PumpEnds, PipeReads, PipeWrites, PipeFails, PipeEnds, Returns, DnsReads, Drain, LookupAnswers,
       LookupFails, DnsEnds, DnsSettles

(* The first packets come with the end of the header. *)
LEMMA DnsStarts ==
  ASSUME RelayType, Shape, HeadInv, ReadHead, pc' = "dns"
  PROVE  DnsInv'
<1>1. PICK buf \in Seq(Nat), k \in Nat :
           /\ ReadHeadCases(buf) /\ k = Len(buf) /\ Run(buf, 0) /\ QueueFollows(k)' /\ Received(k)'
           /\ ~(k < HeaderLen) =>
                \E rest \in Seq(Nat) : /\ rest = SubSeq(buf, HeaderLen + 1, Len(buf))
                                       /\ Run(rest, HeaderLen) /\ HeaderLen + Len(rest) = k
  BY HeadBytes
<1>2. pc = "head" /\ UNCHANGED <<client, queries>>
  BY ReadHeadIs DEF dnsVars
<1>3. ~(k < HeaderLen) /\ parts' = Push(<<>>, SubSeq(buf, HeaderLen + 1, Len(buf)))
  BY <1>1, <1>2 DEF ReadHeadCases, Ends
<1>4. PICK rest \in Seq(Nat) : /\ rest = SubSeq(buf, HeaderLen + 1, Len(buf))
                               /\ Run(rest, HeaderLen) /\ HeaderLen + Len(rest) = k
  BY <1>1, <1>3
<1>5. PICK P \in Queues : P = Push(<<>>, rest) /\ FlattenSeq(P) = rest /\ Size(P) = Len(rest)
  <2>1. <<>> \in Queues /\ Size(<<>>) = 0 /\ FlattenSeq(<<>>) = <<>> /\ <<>> \o rest = rest /\ 0 + Len(rest) = Len(rest)
    BY FlatEmpty, ConcatEmptySeq DEF Size, Queues
  <2>2. /\ Push(<<>>, rest) \in Queues /\ FlattenSeq(Push(<<>>, rest)) = FlattenSeq(<<>>) \o rest
        /\ Size(Push(<<>>, rest)) = Size(<<>>) + Len(rest)
    BY <2>1, PushBytes
  <2> QED BY <2>1, <2>2
<1>6. parts' = P /\ queries' = <<>> /\ Len(<<>>) = 0
  BY <1>2, <1>3, <1>4, <1>5 DEF HeadInv
<1>7. client.framing \in Seq(Nat) /\ HeaderLen \in Nat
  BY WorkerRelayAssumption DEF RelayType
<1>8. Before(client.framing, 0 + 1) = HeaderLen
  BY <1>7, BeforeEnds
<1>9. CutAt(HeaderLen, k)'
  BY <1>1, <1>2, <1>4, <1>5, <1>6, <1>8 DEF CutAt
<1>10. Len(queries') \in Nat /\ Len(queries') <= Len(client'.framing)
  BY <1>2, <1>6, <1>7
<1> QED BY <1>5, <1>6, <1>7, <1>9, <1>10 DEF DnsInv

(* What stays in order while the packets are not touched. *)
LEMMA DnsKept ==
  ASSUME RelayType, DnsInv, pc = "dns", UNCHANGED <<client, parts, queries>>,
         \A p \in Nat : QueueFollows(p) => QueueFollows(p)' /\ (Received(p) => Received(p)')
  PROVE  DnsInv'
<1>1. PICK b, p \in Nat : CutAt(b, p)
  BY DEF DnsInv
<1>2. CutAt(b, p)'
  BY <1>1 DEF CutAt
<1>3. parts \in Queues /\ Len(queries) \in Nat /\ Len(queries) <= Len(client.framing)
  BY DEF DnsInv
<1> QED BY <1>2, <1>3 DEF DnsInv

(* A chunk read is put behind the others. *)
LEMMA DnsTakes ==
  ASSUME RelayType, DnsInv, DnsReads
  PROVE  DnsInv'
<1>1. /\ pc = "dns" /\ stream.queued # <<>> /\ stream' = Taken /\ parts' = Push(parts, Head(stream.queued))
      /\ UNCHANGED <<client, queries, sent, pc>>
  BY DEF DnsReads, dnsVars
<1>2. PICK b, p \in Nat : CutAt(b, p)
  BY <1>1 DEF DnsInv
<1>3. parts \in Queues /\ Len(queries) \in Nat /\ Len(queries) <= Len(client.framing)
  BY <1>1 DEF DnsInv
<1>4. PICK h \in Seq(Nat), k \in Nat :
           /\ h = Head(stream.queued) /\ k = p + Len(h) /\ Run(h, p)
           /\ QueueFollows(k)' /\ (Received(p) => Received(k)')
  BY <1>1, <1>2, QueueTaken DEF CutAt
<1>5. PICK F \in Seq(Nat), S \in Nat : F = FlattenSeq(parts) /\ S = Size(parts) /\ S = Len(F)
  BY <1>3, SizeType
<1>6. PICK P \in Queues : P = parts' /\ FlattenSeq(P) = F \o h /\ Size(P) = S + Len(h)
  BY <1>1, <1>3, <1>4, <1>5, PushBytes
<1>7. Run(F \o h, b)
  <2>1. Run(F, b) /\ Run(h, b + Len(F))
    BY <1>2, <1>4, <1>5 DEF CutAt
  <2> QED BY <2>1, RunConcat
<1>8. k = b + (S + Len(h))
  <2>1. p = b + S
    BY <1>2, <1>5 DEF CutAt
  <2>2. PICK l \in Nat : l = Len(h)
    BY LenIs
  <2>3. (b + S) + l = b + (S + l)
    OBVIOUS
  <2> QED BY <1>4, <2>1, <2>2, <2>3
<1>9. CutAt(b, k)'
  BY <1>1, <1>2, <1>4, <1>6, <1>7, <1>8 DEF CutAt
<1> QED BY <1>1, <1>3, <1>6, <1>9 DEF DnsInv

(* Every step keeps the packets cut and the bytes left in order. *)
LEMMA StepDns == RelayType /\ Shape /\ HeadInv /\ DnsInv /\ QueriesInv /\ [Next]_vars => DnsInv'
<1> SUFFICES ASSUME RelayType, Shape, HeadInv, DnsInv, QueriesInv, [Next]_vars, pc' = "dns"
             PROVE  DnsInv'
  BY DEF DnsInv
<1>0. client' = client
  BY ClientStays
<1>1. CASE ReadHead
  BY <1>1, DnsStarts
<1>2. CASE DnsReads
  BY <1>2, DnsTakes
<1>3. CASE Drain
  BY <1>3, DrainCuts
<1>4. CASE Message \/ WsCloses
  <2>1. pc = "dns" /\ UNCHANGED <<parts, queries>>
    BY <1>4 DEF Message, WsCloses, upVars, dnsVars
  <2>2. \A p \in Nat : QueueFollows(p) => QueueFollows(p)' /\ (Received(p) => Received(p)')
    BY <1>4, QueueMessage
  <2> QED BY <1>0, <2>1, <2>2, DnsKept
<1>5. CASE LookupAnswers \/ LookupFails \/ UNCHANGED vars
  <2>1. pc = "dns" /\ UNCHANGED <<parts, queries, stream, sent>>
    BY <1>5 DEF LookupAnswers, LookupFails, vars, upVars
  <2>2. \A p \in Nat : QueueFollows(p) => QueueFollows(p)' /\ (Received(p) => Received(p)')
    BY <2>1, QueueKept
  <2> QED BY <1>0, <2>1, <2>2, DnsKept
<1>6. CASE \/ HeadEnds \/ Dialled \/ OpeningWritten \/ OpenFails \/ PumpEnds \/ Returns \/ TargetSends
           \/ DnsEnds \/ DnsSettles
  <2>1. ASSUME NEW socks, Leaves(socks) PROVE pc' # "dns"
    BY <2>1 DEF Leaves, Retry, Finish
  <2>2. ASSUME NEW socks, Opened(socks) PROVE pc' # "dns"
    BY <2>2 DEF Opened
  <2> QED BY <1>6, <2>1, <2>2 DEF HeadEnds, Dialled, OpeningWritten, OpenFails, PumpEnds, Returns, TargetSends,
                                 DnsEnds, DnsSettles, Ends
<1>7. CASE PipeReads \/ PipeWrites \/ PipeFails \/ PipeEnds
  <2>1. pc = "dns" /\ pipe.state = "on"
    BY <1>7 DEF PipeReads, PipeWrites, PipeFails, PipeEnds, Shape
  <2> QED BY <2>1 DEF Shape
<1> QED BY <1>1, <1>2, <1>3, <1>4, <1>5, <1>6, <1>7 DEF Next

(* Every step keeps the packets cut as the client sent them. *)
LEMMA StepQueries == RelayType /\ Shape /\ HeadInv /\ DnsInv /\ QueriesInv /\ [Next]_vars => QueriesInv'
<1> SUFFICES ASSUME RelayType, Shape, HeadInv, DnsInv, QueriesInv, [Next]_vars PROVE QueriesInv'
  OBVIOUS
<1>0. \A i : Packet(i)' = Packet(i)
  BY ClientStays DEF Packet
<1>1. CASE Drain
  BY <1>1, DrainCuts
<1>2. ASSUME queries' = queries, asking' \subseteq asking PROVE QueriesInv'
  BY <1>0, <1>2 DEF QueriesInv
<1>3. CASE ~Drain
  <2>1. queries' = queries /\ asking' \subseteq asking
    BY <1>3 DEF Next, vars, Message, WsCloses, ReadHead, HeadEnds, Dialled, OpeningWritten, OpenFails, TargetSends,
       PumpEnds, PipeReads, PipeWrites, PipeFails, PipeEnds, Returns, DnsReads, LookupAnswers,
       LookupFails, DnsEnds, DnsSettles, dnsVars
  <2> QED BY <1>2, <2>1
<1> QED BY <1>1, <1>3

(* No packet that is there waits. *)
LEMMA NoneWaits ==
  ASSUME RelayType, Shape, DnsInv, Settled, pc = "dns", stream.state = "open",
         NEW i \in DOMAIN client.framing, Before(client.framing, i + 1) <= sent
  PROVE  i \in 1 .. Len(queries)
<1>1. PICK f \in Seq(Nat), q \in Nat : f = client.framing /\ q = Len(queries) /\ q <= Len(f)
  BY DEF DnsInv, RelayType
<1>2. PICK b, p \in Nat : CutAt(b, p)
  BY DEF DnsInv
<1>3. PICK S \in Nat : S = Size(parts) /\ parts \in Queues
  BY SizeType DEF DnsInv
<1>4. b + S = sent
  <2>1. stream.queued = <<>>
    BY DEF Settled, Reads
  <2>2. Size(<<>>) = 0
    BY FlatEmpty DEF Size
  <2>3. p + 0 = sent
    BY <1>2, <2>1, <2>2 DEF CutAt, QueueFollows
  <2> QED BY <1>2, <1>3, <2>3 DEF CutAt
<1>5. i \in 1 .. Len(f)
  BY <1>1
<1>6. SUFFICES ASSUME ~(i <= q) PROVE FALSE
  BY <1>1, <1>5
<1>7. PICK j, m \in Nat : j = q + 1 /\ i = j + m
  <2>1. i - (q + 1) \in Nat /\ i = (q + 1) + (i - (q + 1)) /\ q + 1 \in Nat
    BY <1>5, <1>6
  <2> QED BY <2>1
<1>8. q < Len(f)
  BY <1>5, <1>6
<1>9. PICK n \in Nat : Before(f, j + 1) = b + (2 + n)
  <2>1. \E c, n \in Nat : c = Before(f, q + 1) /\ Before(f, (q + 1) + 1) = c + (2 + n)
    BY <1>8, PacketIs
  <2>2. b = Before(f, q + 1)
    BY <1>1, <1>2 DEF CutAt
  <2> QED BY <1>7, <2>1, <2>2
<1>10. Before(f, i + 1) \in Nat /\ b + (2 + n) <= Before(f, i + 1)
  <2>1. j + m <= Len(f)
    BY <1>5, <1>7
  <2>2. Before(f, (j + m) + 1) \in Nat /\ Before(f, j + 1) <= Before(f, (j + m) + 1)
    BY <2>1, BeforeGrows
  <2> QED BY <1>7, <1>9, <2>2
<1>11. S >= 2 + n
  <2>1. Before(f, i + 1) <= b + S
    BY <1>1, <1>4
  <2> QED BY <1>10, <2>1
<1>12. Size(parts) >= 2
  BY <1>3, <1>11
<1>13. PICK c, r, k, t \in Nat :
            /\ CutAt(c, r) /\ t = Len(queries)
            /\ Before(client.framing, (t + 1) + 1) = c + (2 + k)
            /\ 2 + Value(At(parts, 0)) * Base + Value(At(parts, 1)) = 2 + k
  BY <1>12, LengthRead
<1>14. c = b /\ k = n
  <2>1. c = b
    BY <1>2, <1>13 DEF CutAt
  <2>2. b + (2 + k) = b + (2 + n)
    BY <1>1, <1>7, <1>9, <1>13, <2>1
  <2> QED BY <2>1, <2>2
<1>15. Complete
  BY <1>3, <1>11, <1>12, <1>13, <1>14 DEF Complete
<1> QED BY <1>15 DEF Settled

(* The invariants imply that packets are cut as they were sent. *)
LEMMA CutIsSent == RelayType /\ Shape /\ DnsInv /\ QueriesInv => PacketsAsSent
<1> SUFFICES ASSUME RelayType, Shape, DnsInv, QueriesInv PROVE PacketsAsSent
  OBVIOUS
<1>1. DOMAIN queries = 1 .. Len(queries)
  BY DEF QueriesInv, Queues
<1>2. \A i \in DOMAIN queries : queries[i] = Packet(i)
  BY <1>1 DEF QueriesInv
<1>3. ASSUME Settled, pc = "dns", stream.state = "open",
             NEW i \in DOMAIN client.framing, Before(client.framing, i + 1) <= sent
      PROVE  i \in DOMAIN queries
  BY <1>1, <1>3, NoneWaits
<1> QED BY <1>2, <1>3 DEF PacketsAsSent

(* However the bytes of a DNS client are cut into messages, the packets asked for are the *)
(* ones it sent, in order, and none that has arrived waits (drain, ByteQueue).            *)
THEOREM PacketsCutAsSent == Spec => []PacketsAsSent
<1>1. Init => RelayType /\ Shape /\ HeadInv /\ DnsInv /\ QueriesInv
  BY InitRelayType, InitShape, InitHead, InitDns
<1>2. RelayType /\ Shape /\ HeadInv /\ DnsInv /\ QueriesInv /\ [Next]_vars
        => (RelayType /\ Shape /\ HeadInv /\ DnsInv /\ QueriesInv)'
  BY StepRelayType, StepShape, StepHead, StepDns, StepQueries
<1> QED BY <1>1, <1>2, CutIsSent, PTL DEF Spec

(***************************************************************************)
(* What the client is sent.                                                *)
(***************************************************************************)
Replies == Seq(Reply)

(* The header goes with the first message; the messages of a tunnel come from the target *)
(* that is tried, and those of a stream of packets from queries that were answered.      *)
RepliesInv ==
  /\ down \in Replies
  /\ ws = "open" => (owed <=> down = <<>>)
  /\ \A i \in 1 .. Len(down) : down[i].header <=> i = 1
  /\ client.request = "tcp" => /\ down # <<>> => sawData
                               /\ \A i \in 1 .. Len(down) : down[i].from = at
  /\ client.request = "dns" => /\ \A i \in 1 .. Len(down) : down[i].from \in (1 .. Len(queries)) \ asking
                               /\ \A i, j \in 1 .. Len(down) : i # j => down[i].from # down[j].from
  /\ down # <<>> => client.request \in {"tcp", "dns"}

(* A message is added at the end. *)
LEMMA MoreReplies ==
  ASSUME NEW d \in Replies, NEW r \in Reply
  PROVE  /\ Append(d, r) \in Replies /\ Len(d) \in Nat /\ Len(Append(d, r)) = Len(d) + 1
         /\ Append(d, r)[Len(d) + 1] = r /\ Append(d, r) # <<>>
         /\ \A i \in 1 .. Len(d) : Append(d, r)[i] = d[i]
         /\ (d = <<>>) <=> (Len(d) = 0)
BY DEF Replies

(* Initially the client has been sent nothing. *)
LEMMA InitReplies == Init => RepliesInv
<1> SUFFICES ASSUME Init PROVE RepliesInv
  OBVIOUS
<1>1. down = <<>> /\ owed = TRUE
  BY DEF Init
<1>2. <<>> \in Replies /\ Len(<<>>) = 0 /\ 1 .. 0 = {}
  BY DEF Replies
<1> QED BY <1>1, <1>2 DEF RepliesInv

(* A message leaves those before it. *)
LEMMA SendIs ==
  ASSUME RelayType, RepliesInv, NEW from \in Targets \cup Nat, Send(from), ws' = ws
  PROVE  /\ down' \in Replies /\ Len(down) \in Nat
         /\ ws' = "open" => (owed' <=> down' = <<>>)
         /\ \A i \in 1 .. Len(down') : down'[i].header <=> i = 1
         /\ \A i \in 1 .. Len(down') : \/ i \in 1 .. Len(down) /\ down'[i] = down[i]
                                       \/ i = Len(down) + 1 /\ down'[i].from = from
<1>1. PICK r \in Reply : r = [from |-> from, header |-> owed] /\ r.from = from /\ (r.header <=> owed)
  <2>1. owed \in BOOLEAN
    BY DEF RelayType
  <2>2. [from |-> from, header |-> owed] \in Reply
    BY <2>1 DEF Reply
  <2>3. [from |-> from, header |-> owed].from = from /\ ([from |-> from, header |-> owed].header <=> owed)
    BY Zenon
  <2> QED BY <2>2, <2>3, Zenon
<1>2. PICK d \in Replies : d = down
  BY DEF RepliesInv
<1>3. PICK n \in Nat, e \in Replies :
        /\ n = Len(d) /\ e = Append(d, r) /\ Len(e) = n + 1 /\ e[n + 1] = r /\ e # <<>>
        /\ \A i \in 1 .. n : e[i] = d[i]
        /\ (d = <<>>) <=> (n = 0)
  BY MoreReplies
<1>4. owed' = FALSE /\ down' = IF ws = "open" THEN e ELSE d
  BY <1>1, <1>2, <1>3 DEF Send
<1>5. CASE ws = "open"
  <2>1. down' = e /\ Len(down') = n + 1
    BY <1>3, <1>4, <1>5
  <2>2. \A i \in 1 .. n + 1 : i \in 1 .. n \/ i = n + 1
    OBVIOUS
  <2>3. owed <=> n = 0
    BY <1>2, <1>3, <1>5 DEF RepliesInv
  <2>4. ASSUME NEW i \in 1 .. n + 1 PROVE e[i].header <=> i = 1
    <3>1. CASE i \in 1 .. n
      BY <1>2, <1>3, <3>1 DEF RepliesInv
    <3>2. CASE i = n + 1
      <4>1. e[i] = r /\ (n = 0 <=> i = 1)
        BY <1>3, <3>2
      <4> QED BY <1>1, <2>3, <4>1
    <3> QED BY <2>2, <3>1, <3>2
  <2>5. \A i \in 1 .. n + 1 : \/ i \in 1 .. n /\ e[i] = d[i]
                              \/ i = n + 1 /\ e[i].from = from
    BY <1>1, <1>3, <2>2
  <2> QED BY <1>2, <1>3, <1>4, <2>1, <2>4, <2>5
<1>6. CASE ws # "open"
  <2>1. down' = d
    BY <1>4, <1>6
  <2> QED BY <1>2, <1>3, <1>6, <2>1 DEF RepliesInv
<1> QED BY <1>5, <1>6

(* Every step keeps each message with the one it comes from. *)
LEMMA StepReplies == RelayType /\ Shape /\ QueriesInv /\ RepliesInv /\ [Next]_vars => RepliesInv'
<1> SUFFICES ASSUME RelayType, Shape, QueriesInv, RepliesInv, [Next]_vars PROVE RepliesInv'
  OBVIOUS
<1>0. client' = client
  BY ClientStays
<1>s. at \in Targets /\ sawData \in BOOLEAN /\ ws \in {"open", "closing", "closed"}
  BY DEF RelayType
<1>1. CASE TargetSends
  <2>1. Send(at) /\ ws' = ws /\ sawData' = TRUE /\ at' = at
    BY <1>1 DEF TargetSends, sockVars
  <2>2. client.request = "tcp"
    BY <1>1 DEF TargetSends, Shape
  <2>3. /\ down' \in Replies
        /\ ws' = "open" => (owed' <=> down' = <<>>)
        /\ \A i \in 1 .. Len(down') : down'[i].header <=> i = 1
        /\ \A i \in 1 .. Len(down') : \/ i \in 1 .. Len(down) /\ down'[i] = down[i]
                                      \/ i = Len(down) + 1 /\ down'[i].from = at
    BY <1>s, <2>1, SendIs
  <2>4. \A i \in 1 .. Len(down') : down'[i].from = at
    BY <2>2, <2>3 DEF RepliesInv
  <2> QED BY <1>0, <2>1, <2>2, <2>3, <2>4 DEF RepliesInv
<1>2. CASE LookupAnswers
  <2>1. PICK q \in asking : /\ asking' = asking \ {q} /\ Send(q)
                            /\ UNCHANGED <<ws, at, sawData, queries>>
    BY <1>2 DEF LookupAnswers, sockVars
  <2>2. q \in 1 .. Len(queries) /\ q \in Nat
    <3>1. Len(queries) \in Nat
      BY DEF QueriesInv, Queues
    <3>2. q \in 1 .. Len(queries)
      BY DEF QueriesInv
    <3> QED BY <3>1, <3>2
  <2>3. client.request = "dns"
    BY <2>1 DEF Shape
  <2>4. /\ down' \in Replies /\ Len(down) \in Nat
        /\ ws' = "open" => (owed' <=> down' = <<>>)
        /\ \A i \in 1 .. Len(down') : down'[i].header <=> i = 1
        /\ \A i \in 1 .. Len(down') : \/ i \in 1 .. Len(down) /\ down'[i] = down[i]
                                      \/ i = Len(down) + 1 /\ down'[i].from = q
    BY <2>1, <2>2, SendIs
  <2>5. \A i \in 1 .. Len(down) : down[i].from \in (1 .. Len(queries)) \ asking
    BY <2>3 DEF RepliesInv
  <2>6. \A i, j \in 1 .. Len(down) : i # j => down[i].from # down[j].from
    BY <2>3 DEF RepliesInv
  <2>7. \A i \in 1 .. Len(down') : down'[i].from \in (1 .. Len(queries)) \ (asking \ {q})
    BY <2>2, <2>4, <2>5
  <2>8. ASSUME NEW i \in 1 .. Len(down'), NEW j \in 1 .. Len(down'), i # j
        PROVE  down'[i].from # down'[j].from
    <3>1. CASE i \in 1 .. Len(down) /\ down'[i] = down[i] /\ j \in 1 .. Len(down) /\ down'[j] = down[j]
      BY <2>6, <2>8, <3>1
    <3>2. CASE i \in 1 .. Len(down) /\ down'[i] = down[i] /\ j = Len(down) + 1 /\ down'[j].from = q
      BY <2>5, <3>2
    <3>3. CASE j \in 1 .. Len(down) /\ down'[j] = down[j] /\ i = Len(down) + 1 /\ down'[i].from = q
      BY <2>5, <3>3
    <3> QED BY <2>4, <2>8, <3>1, <3>2, <3>3
  <2>9. client.request # "tcp"
    BY <2>3
  <2> QED BY <1>0, <2>1, <2>3, <2>4, <2>7, <2>8, <2>9 DEF RepliesInv
<1>3. CASE Drain
  <2>1. /\ \E x : queries' = Append(queries, x)
        /\ asking' = asking \cup {Len(queries) + 1} /\ UNCHANGED <<ws, owed, sawData, down, at>>
    BY <1>3 DEF Drain, sockVars, downVars
  <2>2. client.request = "dns"
    BY <1>3 DEF Drain, Complete, Shape
  <2>3. PICK n \in Nat : n = Len(queries) /\ Len(queries') = n + 1
    <3>1. queries \in Seq(Seq(Nat))
      BY DEF QueriesInv, Queues
    <3> QED BY <2>1, <3>1
  <2>4. (1 .. n) \ asking \subseteq (1 .. n + 1) \ (asking \cup {n + 1})
    OBVIOUS
  <2> QED BY <1>0, <2>1, <2>2, <2>3, <2>4 DEF RepliesInv
<1>4. ASSUME UNCHANGED <<owed, down, queries>>, at' = at \/ (client.request = "tcp" /\ ~sawData), asking' \subseteq asking,
             sawData' = sawData, ws' = ws \/ ws' # "open"
      PROVE  RepliesInv'
  <2>1. ws' = "open" => (owed' <=> down' = <<>>)
    BY <1>4 DEF RepliesInv
  <2>2. \A i \in 1 .. Len(down') : down'[i].header <=> i = 1
    BY <1>4 DEF RepliesInv
  <2>3. client'.request = "tcp" => /\ down' # <<>> => sawData'
                                   /\ \A i \in 1 .. Len(down') : down'[i].from = at'
    <3>1. CASE at' = at
      BY <1>0, <1>4, <3>1 DEF RepliesInv
    <3>2. CASE client.request = "tcp" /\ ~sawData
      <4>1. down = <<>> /\ Len(<<>>) = 0 /\ 1 .. 0 = {}
        BY <3>2 DEF RepliesInv
      <4> QED BY <1>4, <4>1
    <3> QED BY <1>4, <3>1, <3>2
  <2>4. client'.request = "dns" =>
           /\ \A i \in 1 .. Len(down') : down'[i].from \in (1 .. Len(queries')) \ asking'
           /\ \A i, j \in 1 .. Len(down') : i # j => down'[i].from # down'[j].from
    BY <1>0, <1>4 DEF RepliesInv
  <2>5. down' \in Replies /\ (down' # <<>> => client'.request \in {"tcp", "dns"})
    BY <1>0, <1>4 DEF RepliesInv
  <2> QED BY <2>1, <2>2, <2>3, <2>4, <2>5 DEF RepliesInv
<1>c. Closing = ws \/ Closing # "open"
  BY DEF Closing
<1>5. CASE OpenFails \/ PumpEnds
  <2>1. PICK socks : Leaves(socks)
    BY <1>5 DEF OpenFails, PumpEnds
  <2>2. client.request = "tcp"
    BY <1>5 DEF OpenFails, PumpEnds, Shape
  <2>3. (at' = at \/ ~sawData) /\ (ws' = ws \/ ws' = Closing)
    BY <2>1, LeavesIs
  <2>4. UNCHANGED <<owed, down, queries, asking, sawData>>
    BY <1>5 DEF OpenFails, PumpEnds, downVars, dnsVars
  <2> QED BY <1>4, <1>c, <2>2, <2>3, <2>4
<1>6. CASE Dialled \/ OpeningWritten
  <2>1. UNCHANGED <<at, ws>>
    BY <1>6 DEF Dialled, OpeningWritten, Opened
  <2>2. UNCHANGED <<owed, down, queries, asking, sawData>>
    BY <1>6 DEF Dialled, OpeningWritten, downVars, dnsVars
  <2> QED BY <1>4, <2>1, <2>2
<1>7. CASE ReadHead
  <2>1. PICK buf \in Seq(Nat) : ReadHeadCases(buf)
    BY <1>7, ReadHeadIs
  <2>2. ws' = ws \/ ws' = Closing
    BY <2>1 DEF ReadHeadCases, Ends
  <2>3. UNCHANGED <<owed, down, queries, asking, sawData, at>>
    BY <1>7 DEF ReadHead, downVars, dnsVars
  <2> QED BY <1>4, <1>c, <2>2, <2>3
<1>8. CASE Message
  <2>1. ws' = ws \/ ws' = Closing
    <3>1. \E n : MessageCases(n)
      BY <1>8, MessageIs
    <3> QED BY <3>1 DEF MessageCases
  <2>2. UNCHANGED <<owed, down, queries, asking, sawData, at>>
    BY <1>8 DEF Message, downVars, dnsVars, sockVars
  <2> QED BY <1>4, <1>c, <2>1, <2>2
<1>9. CASE \/ WsCloses \/ HeadEnds \/ PipeReads \/ PipeWrites \/ PipeFails \/ PipeEnds \/ Returns
           \/ DnsReads \/ LookupFails \/ DnsEnds \/ DnsSettles \/ UNCHANGED vars
  <2>1. ws' = ws \/ ws' = Closing \/ ws' = "closed"
    BY <1>9 DEF WsCloses, HeadEnds, PipeReads, PipeWrites, PipeFails, PipeEnds, Returns, DnsReads, LookupFails,
                DnsEnds, DnsSettles, Ends, vars
  <2>2. UNCHANGED <<owed, down, queries, sawData, at>> /\ asking' \subseteq asking
    BY <1>9 DEF WsCloses, HeadEnds, PipeReads, PipeWrites, PipeFails, PipeEnds, Returns, DnsReads, LookupFails,
                DnsEnds, DnsSettles, vars, downVars, dnsVars, sockVars
  <2> QED BY <1>4, <1>c, <2>1, <2>2
<1> QED BY <1>1, <1>2, <1>3, <1>5, <1>6, <1>7, <1>8, <1>9 DEF Next

(* The invariant implies that replies are their own. *)
LEMMA OwnReplies == RelayType /\ RepliesInv => RepliesAreOwn
<1> SUFFICES ASSUME RelayType, RepliesInv PROVE RepliesAreOwn
  OBVIOUS
<1>1. DOMAIN down = 1 .. Len(down) /\ \A i \in DOMAIN down : down[i].header \in BOOLEAN
  <2>1. down \in Seq(Reply)
    BY DEF RepliesInv, Replies
  <2>2. \A r \in Reply : r.header \in BOOLEAN
    BY DEF Reply
  <2>3. DOMAIN down = 1 .. Len(down) /\ \A i \in DOMAIN down : down[i] \in Reply
    BY <2>1
  <2> QED BY <2>2, <2>3
<1>2. \A i \in DOMAIN down : down[i].header = (i = 1)
  BY <1>1, Zenon DEF RepliesInv
<1>3. ASSUME NEW i \in DOMAIN down, NEW j \in DOMAIN down, i # j
      PROVE  (down[i].from = down[j].from) = (client.request = "tcp")
  <2>1. down # <<>>
    BY <1>1
  <2>2. CASE client.request = "tcp"
    BY <1>1, <2>2 DEF RepliesInv
  <2>3. CASE client.request = "dns"
    BY <1>1, <1>3, <2>3 DEF RepliesInv
  <2> QED BY <2>1, <2>2, <2>3 DEF RepliesInv
<1> QED BY <1>2, <1>3 DEF RepliesAreOwn

(* What is cut from the stream: every step keeps the range of the parts. *)
LEMMA StepParts ==
  RelayType /\ RelayType' /\ DnsInv' /\ parts \in Queues /\ [Next]_vars => parts' \in Queues
<1> SUFFICES ASSUME RelayType, RelayType', DnsInv', parts \in Queues, [Next]_vars PROVE parts' \in Queues
  OBVIOUS
<1>1. pc' = "head" \/ pc' = "dns" => parts' \in Queues
  BY DEF RelayType, DnsInv
<1>2. CASE ReadHead
  <2>1. parts' = <<>> \/ pc' \in {"head", "dns"}
    <3>1. Parse(FlattenSeq(Push(parts, Head(stream.queued)))) \in {"need", "tcp", "udp", "bad", "dns"}
      BY DEF Parse, RelayType
    <3>2. pc = "head"
      BY <1>2 DEF ReadHead
    <3> QED BY <1>2, <3>1, <3>2 DEF ReadHead
  <2>2. <<>> \in Queues
    BY DEF Queues
  <2> QED BY <1>1, <2>1, <2>2
<1>3. CASE DnsReads \/ Drain
  <2>1. pc' = "dns"
    BY <1>3 DEF DnsReads, Drain, Complete
  <2> QED BY <1>1, <2>1
<1>4. CASE ~(ReadHead \/ DnsReads \/ Drain)
  <2>1. parts' = parts
    BY <1>4 DEF Next, vars, upVars, Message, WsCloses, HeadEnds, Dialled, OpeningWritten, OpenFails, TargetSends,
       PumpEnds, PipeReads, PipeWrites, PipeFails, PipeEnds, Returns, LookupAnswers, LookupFails, DnsEnds, DnsSettles
  <2> QED BY <2>1
<1> QED BY <1>2, <1>3, <1>4

(* The messages of a tunnel come from a target, those of a stream of packets from a query. *)
LEMMA RepliesFrom ==
  RelayType /\ RepliesInv =>
    down \in Seq([from : IF client.request = "tcp" THEN Targets ELSE Nat, header : BOOLEAN])
<1> SUFFICES ASSUME RelayType, RepliesInv
             PROVE  down \in Seq([from : IF client.request = "tcp" THEN Targets ELSE Nat, header : BOOLEAN])
  OBVIOUS
<1> DEFINE Own == [from : IF client.request = "tcp" THEN Targets ELSE Nat, header : BOOLEAN]
<1>1. down \in Seq(Reply) /\ Len(down) \in Nat /\ DOMAIN down = 1 .. Len(down)
  BY DEF RepliesInv, Replies
<1>2. ASSUME NEW i \in 1 .. Len(down) PROVE down[i] \in Own
  <2>1. down[i] \in [from : Targets \cup Nat, header : BOOLEAN]
    <3>1. down[i] \in Reply
      <4> HIDE DEF Own
      <4> QED BY <1>1
    <3> QED BY <3>1 DEF Reply
  <2>2. down # <<>>
    BY <1>1
  <2>3. CASE client.request = "tcp"
    <3>1. down[i].from \in Targets
      BY <2>3 DEF RepliesInv, RelayType
    <3> QED BY <2>1, <2>3, <3>1
  <2>4. CASE client.request = "dns"
    <3>1. down[i].from \in Nat
      BY <2>4 DEF RepliesInv
    <3> QED BY <2>1, <2>4, <3>1
  <2> QED BY <2>2, <2>3, <2>4 DEF RepliesInv
<1> HIDE DEF Own
<1>3. down = [i \in 1 .. Len(down) |-> down[i]]
  BY <1>1
<1>4. down \in Seq(Own)
  BY <1>1, <1>2, <1>3
<1> QED BY <1>4 DEF Own

(* The invariants imply the type of every variable. *)
LEMMA RangesKept == RelayType /\ Guarded /\ QueriesInv /\ RepliesInv /\ parts \in Queues => TypeOK
<1> SUFFICES ASSUME RelayType, Guarded, QueriesInv, RepliesInv, parts \in Queues PROVE TypeOK
  OBVIOUS
<1>1. sent \in 0 .. Total
  <2>1. Total \in Nat
    BY BeforeEnds, WorkerRelayAssumption DEF Total, RelayType
  <2> QED BY <2>1 DEF RelayType
<1>2. stream \in [state : StreamStates, backlog : 0 .. MaxBacklog + MaxChunk, queued : Queues]
  <2>1. stream.backlog \in 0 .. MaxBacklog + MaxChunk
    BY StreamIs, WorkerRelayAssumption DEF RelayType, Guarded
  <2> QED BY <2>1 DEF RelayType, StreamType
<1>3. queries \in Queues /\ asking \subseteq DOMAIN queries
  BY DEF QueriesInv, Queues
<1>4. down \in Seq([from : IF client.request = "tcp" THEN Targets ELSE Nat, header : BOOLEAN])
  BY RepliesFrom
<1> QED BY <1>1, <1>2, <1>3, <1>4 DEF TypeOK, RelayType, StreamStates, SockLives, SockType, PipeType, Queues

(* Every variable stays in its range, the queries in flight being some of those cut and a   *)
(* message that of a target or of a query.                                                  *)
THEOREM WorkerRelayTypeCorrect == Spec => []TypeOK
<1> DEFINE I == RelayType /\ Shape /\ HeadInv /\ DnsInv /\ QueriesInv /\ Guarded /\ RepliesInv /\ parts \in Queues
<1>1. Init => I
  <2>1. Init => parts \in Queues
    BY DEF Init, Queues
  <2> QED BY <2>1, InitRelayType, InitShape, InitHead, InitDns, InitGuarded, InitReplies
<1>2. I /\ [Next]_vars => I'
  <2> SUFFICES ASSUME I, [Next]_vars PROVE I'
    OBVIOUS
  <2>1. RelayType' /\ Shape' /\ HeadInv' /\ DnsInv' /\ QueriesInv' /\ Guarded' /\ RepliesInv'
    BY StepRelayType, StepShape, StepHead, StepDns, StepQueries, StepGuarded, StepReplies
  <2>2. parts' \in Queues
    BY <2>1, StepParts
  <2>3. Queues' = Queues
    BY DEF Queues
  <2> QED BY <2>1, <2>2, <2>3
<1>3. I => TypeOK
  BY RangesKept
<1> HIDE DEF I
<1> QED BY <1>1, <1>2, <1>3, PTL DEF Spec

(* The header goes out with the first message and no other, the bytes of a tunnel are those *)
(* of one target, and a query is answered once (reply, pumpDown).                           *)
THEOREM RepliesOwn == Spec => []RepliesAreOwn
<1> DEFINE I == RelayType /\ Shape /\ HeadInv /\ DnsInv /\ QueriesInv /\ RepliesInv
<1>1. Init => I
  BY InitRelayType, InitShape, InitHead, InitDns, InitReplies
<1>2. I /\ [Next]_vars => I'
  BY StepRelayType, StepShape, StepHead, StepDns, StepQueries, StepReplies
<1>3. I => RepliesAreOwn
  BY OwnReplies
<1> HIDE DEF I
<1> QED BY <1>1, <1>2, <1>3, PTL DEF Spec

=============================================================================
