------------------------------ MODULE SeqLemmas ------------------------------
(* Lemmas about the sequences of the community modules that the models use,   *)
(* for elements of any set: FlattenSeq of sequences that grow at the end and   *)
(* shrink at the front.  They are proved by induction over the numbers, of     *)
(* which the library keeps that finite sets are well founded.                  *)
EXTENDS Integers, Sequences, SequencesExt, FiniteSetTheorems, SequenceTheorems, TLAPS

(* What holds of 0, and of n + 1 whenever it holds of n, holds of all numbers. *)
LEMMA Induction ==
  ASSUME NEW S, 0 \in S, \A n \in Nat : n \in S => n + 1 \in S
  PROVE  \A n \in Nat : n \in S
<1> SUFFICES ASSUME NEW z \in Nat, z \notin S PROVE FALSE
  OBVIOUS
<1>1. PICK T : T = {1..n : n \in Nat \ S}
  OBVIOUS
<1>2. T \subseteq FiniteSubsetsOf(Nat) /\ T # {}
  <2>1. \A n \in Nat : IsFiniteSet(1..n) /\ 1..n \subseteq Nat
    BY FS_Interval
  <2> QED BY <1>1, <2>1 DEF FiniteSubsetsOf
<1>3. IsWellFoundedOn(StrictSubsetOrdering(Nat), FiniteSubsetsOf(Nat))
  BY FS_StrictSubsetOrderingWellFounded
<1>4. PICK R, F : R = StrictSubsetOrdering(Nat) /\ F = FiniteSubsetsOf(Nat)
  OBVIOUS
<1>5. \E x \in T : \A y \in T : ~(<<y, x>> \in R)
  BY <1>2, <1>3, <1>4, WFMin
<1>6. PICK n \in Nat \ S : \A m \in Nat \ S : <<1..m, 1..n>> \notin R
  BY <1>1, <1>5
<1>7. n # 0 /\ n - 1 \in Nat
  OBVIOUS
<1>8. n - 1 \in Nat \ S
  BY <1>7
<1>9. PICK m : m = n - 1
  OBVIOUS
<1>10. <<1..m, 1..n>> \notin R
  BY <1>6, <1>8, <1>9
<1>11. <<1..m, 1..n>> \in R
  <2>1. 1..m \subseteq 1..n /\ 1..m # 1..n /\ 1..m \in SUBSET Nat /\ 1..n \in SUBSET Nat
    <3>1. n \in 1..n /\ n \notin 1..m
      BY <1>7, <1>9
    <3> QED BY <1>7, <1>9, <3>1
  <2> QED BY <1>4, <2>1 DEF StrictSubsetOrdering
<1> QED BY <1>10, <1>11

(* f[i] is the first i sequences of c, one after the other (FlattenSeq). *)
IsFlattening(c, f, n) == f = [i \in 1..n |-> IF i = 1 THEN c[i] ELSE f[i-1] \o c[i]]

(* FlattenSeq is the last of the flattenings of the prefixes. *)
LEMMA FlatDef ==
  ASSUME NEW c, NEW n \in Nat, n # 0, n = Len(c), NEW f, IsFlattening(c, f, n)
  PROVE  \E g : IsFlattening(c, g, n) /\ FlattenSeq(c) = g[n]
<1>1. FlattenSeq(c) = (CHOOSE g : IsFlattening(c, g, n))[n]
  BY DEF FlattenSeq, IsFlattening
<1> QED BY <1>1

(* There are flattenings of the prefixes. *)
LEMMA FlatEx ==
  ASSUME NEW c, NEW n \in Nat
  PROVE  \E f : IsFlattening(c, f, n)
<1> DEFINE S == {m \in Nat : \E f : IsFlattening(c, f, m)}
<1>1. 0 \in S
  <2>1. IsFlattening(c, [i \in 1..0 |-> 0], 0)
    BY DEF IsFlattening
  <2> QED BY <2>1
<1>2. ASSUME NEW m \in Nat, m \in S PROVE m + 1 \in S
  <2>1. PICK f : IsFlattening(c, f, m)
    BY <1>2
  <2>2. PICK k : k = m + 1 
    OBVIOUS
  <2>3. PICK g : g = [i \in 1..k |-> IF i = k THEN IF i = 1 THEN c[i] ELSE f[i-1] \o c[i] ELSE f[i]]
    OBVIOUS
  <2>4. ASSUME NEW i \in 1..k PROVE g[i] = IF i = 1 THEN c[i] ELSE g[i-1] \o c[i]
    <3>1. CASE i = k
      <4>1. i # 1 => i-1 \in 1..k /\ i-1 # k
        BY <2>2, <3>1
      <4>2. i # 1 => g[i-1] = f[i-1]
        BY <2>3, <4>1
      <4> QED BY <2>3, <3>1, <4>2
    <3>2. CASE i # k
      <4>1. i \in 1..m
        BY <2>2, <3>2
      <4>2. g[i] = f[i] /\ (i # 1 => g[i-1] = f[i-1])
        <5>1. i # 1 => i-1 \in 1..k /\ i-1 # k
          BY <2>2, <4>1
        <5> QED BY <2>3, <3>2, <5>1
      <4>3. f[i] = IF i = 1 THEN c[i] ELSE f[i-1] \o c[i]
        BY <2>1, <4>1 DEF IsFlattening
      <4> QED BY <4>2, <4>3
    <3> QED BY <3>1, <3>2
  <2>5. g = [i \in 1..k |-> IF i = 1 THEN c[i] ELSE g[i-1] \o c[i]]
    <3>1. DOMAIN g = 1..k /\ g = [i \in 1..k |-> g[i]]
      BY <2>3
    <3> QED BY <2>4, <3>1
  <2>6. IsFlattening(c, g, k)
    BY <2>5 DEF IsFlattening
  <2> QED BY <2>2, <2>6
<1>3. n \in S
  <2> HIDE DEF S
  <2> QED BY <1>1, <1>2, Induction
<1> QED BY <1>3

(* The flattenings of the prefixes are sequences of the same elements. *)
LEMMA FlatPrefixes ==
  ASSUME NEW S, NEW c \in Seq(Seq(S)), NEW n \in Nat, n = Len(c), n # 0
  PROVE  \E f \in [1..n -> Seq(S)] : IsFlattening(c, f, n) /\ FlattenSeq(c) = f[n]
<1>1. PICK f : IsFlattening(c, f, n) /\ FlattenSeq(c) = f[n]
  BY FlatEx, FlatDef
<1>2. \A i \in 1..n : c[i] \in Seq(S)
  OBVIOUS
<1> DEFINE T == {m \in Nat : m \in 1..n => f[m] \in Seq(S)}
<1>3. 0 \in T
  OBVIOUS
<1>4. ASSUME NEW m \in Nat, m \in T PROVE m + 1 \in T
  <2>1. PICK k \in Nat : k = m + 1
    OBVIOUS
  <2>2. CASE k \in 1..n
    <3>1. f[k] = IF k = 1 THEN c[k] ELSE f[k-1] \o c[k]
      BY <1>1, <2>2 DEF IsFlattening
    <3>2. k # 1 => f[k-1] \in Seq(S)
      <4>1. k # 1 => m \in 1..n /\ k - 1 = m
        BY <2>1, <2>2
      <4> QED BY <1>4, <4>1
    <3>3. f[k] \in Seq(S)
      BY <1>2, <2>2, <3>1, <3>2, ConcatProperties
    <3> QED BY <2>1, <3>3
  <2> QED BY <2>1, <2>2
<1>5. \A m \in 1..n : f[m] \in Seq(S)
  <2>1. \A m \in Nat : m \in T
    <3> HIDE DEF T
    <3> QED BY <1>3, <1>4, Induction
  <2> QED BY <2>1
<1>6. f \in [1..n -> Seq(S)]
  BY <1>1, <1>5 DEF IsFlattening
<1> QED BY <1>1, <1>6

(* Nothing flattens to nothing. *)
LEMMA FlatEmpty == FlattenSeq(<<>>) = <<>>
BY DEF FlattenSeq

(* A flattening is a sequence of the same elements. *)
LEMMA FlatType ==
  ASSUME NEW S, NEW c \in Seq(Seq(S))
  PROVE  FlattenSeq(c) \in Seq(S)
<1>1. CASE c = <<>>
  <2>1. FlattenSeq(c) = <<>>
    BY <1>1, FlatEmpty
  <2> QED BY <2>1
<1>2. CASE c # <<>>
  <2>1. PICK n \in Nat : n = Len(c) /\ n # 0
    BY <1>2
  <2>2. n \in 1..n
    BY <2>1
  <2>3. PICK f \in [1..n -> Seq(S)] : FlattenSeq(c) = f[n]
    BY <2>1, FlatPrefixes
  <2> QED BY <2>2, <2>3
<1> QED BY <1>1, <1>2

(* A sequence added at the end is added to the flattening. *)
LEMMA FlatAppend ==
  ASSUME NEW S, NEW c \in Seq(Seq(S)), NEW x \in Seq(S)
  PROVE  FlattenSeq(Append(c, x)) = FlattenSeq(c) \o x
<1>1. PICK d \in Seq(Seq(S)) : d = Append(c, x)
  <2>1. Append(c, x) \in Seq(Seq(S))
    BY AppendProperties
  <2> QED BY <2>1
<1>2. PICK n, k \in Nat : n = Len(c) /\ k = Len(d) /\ k = n + 1
  BY <1>1
<1>3. (\A i \in 1..n : d[i] = c[i]) /\ d[k] = x
  BY <1>1, <1>2
<1>4. PICK g \in [1..k -> Seq(S)] : IsFlattening(d, g, k) /\ FlattenSeq(d) = g[k]
  <2>1. k # 0
    BY <1>2
  <2> QED BY <1>2, <2>1, FlatPrefixes
<1>5. g[k] = IF k = 1 THEN x ELSE g[k-1] \o x
  <2>1. k \in 1..k
    BY <1>2
  <2>2. g[k] = IF k = 1 THEN d[k] ELSE g[k-1] \o d[k]
    BY <1>4, <2>1 DEF IsFlattening
  <2> QED BY <1>3, <2>2
<1>6. CASE n = 0
  <2>1. c = <<>> /\ k = 1
    <3>1. c = <<>>
      BY <1>2, <1>6, EmptySeq
    <3> QED BY <1>2, <1>6, <3>1
  <2>2. <<>> \o x = x
    BY ConcatEmptySeq
  <2> QED BY <1>1, <1>4, <1>5, <2>1, <2>2, FlatEmpty
<1>7. CASE n # 0
  <2>1. PICK f \in [1..n -> Seq(S)] : IsFlattening(c, f, n) /\ FlattenSeq(c) = f[n]
    BY <1>2, <1>7, FlatPrefixes
  <2> DEFINE T == {m \in Nat : m \in 1..n => f[m] = g[m]}
  <2>2. 0 \in T
    OBVIOUS
  <2>3. ASSUME NEW m \in Nat, m \in T PROVE m + 1 \in T
    <3>1. PICK j \in Nat : j = m + 1
      OBVIOUS
    <3>2. CASE j \in 1..n
      <4>1. j \in 1..k /\ d[j] = c[j]
        BY <1>2, <1>3, <3>2
      <4>2. /\ f[j] = IF j = 1 THEN c[j] ELSE f[j-1] \o c[j]
            /\ g[j] = IF j = 1 THEN d[j] ELSE g[j-1] \o d[j]
        BY <1>4, <2>1, <3>2, <4>1 DEF IsFlattening
      <4>3. j # 1 => f[j-1] = g[j-1]
        <5>1. j # 1 => m \in 1..n /\ j - 1 = m
          BY <3>1, <3>2
        <5> QED BY <2>3, <5>1
      <4>4. f[j] = g[j]
        BY <4>1, <4>2, <4>3
      <4> QED BY <3>1, <4>4
    <3> QED BY <3>1, <3>2
  <2>4. \A m \in Nat : m \in T
    <3> HIDE DEF T
    <3> QED BY <2>2, <2>3, Induction
  <2>5. f[n] = g[n] /\ k # 1 /\ k - 1 = n
    BY <1>2, <1>7, <2>4
  <2> QED BY <1>1, <1>4, <1>5, <2>1, <2>5
<1> QED BY <1>6, <1>7

(* One sequence flattens to itself. *)
LEMMA FlatOne ==
  ASSUME NEW S, NEW x \in Seq(S)
  PROVE  FlattenSeq(<<x>>) = x
<1>1. <<x>> = Append(<<>>, x) /\ <<>> \in Seq(Seq(S)) /\ <<>> \o x = x
  BY ConcatEmptySeq
<1> QED BY <1>1, FlatAppend, FlatEmpty

(* A sequence is empty or has a last element. *)
LEMMA LastOf ==
  ASSUME NEW S, NEW s \in Seq(S), NEW n \in Nat, Len(s) = n + 1
  PROVE  \E r \in Seq(S), x \in S : s = Append(r, x) /\ Len(r) = n
<1>1. s # <<>>
  OBVIOUS
<1>2. PICK r \in Seq(S), x \in S : s = Append(r, x)
  BY <1>1, SequenceEmptyOrAppend
<1> QED BY <1>2

(* The flattening of a concatenation. *)
LEMMA FlatConcat ==
  ASSUME NEW S, NEW a \in Seq(Seq(S)), NEW b \in Seq(Seq(S))
  PROVE  FlattenSeq(a \o b) = FlattenSeq(a) \o FlattenSeq(b)
<1> DEFINE T == {n \in Nat : \A e \in Seq(Seq(S)) :
                   Len(e) = n => FlattenSeq(a \o e) = FlattenSeq(a) \o FlattenSeq(e)}
<1>1. PICK A \in Seq(S) : A = FlattenSeq(a)
  BY FlatType
<1>2. 0 \in T
  <2>1. ASSUME NEW e \in Seq(Seq(S)), Len(e) = 0
        PROVE  FlattenSeq(a \o e) = FlattenSeq(a) \o FlattenSeq(e)
    <3>1. e = <<>> /\ a \o e = a
      BY <2>1, ConcatEmptySeq
    <3>2. A \o <<>> = A
      BY ConcatEmptySeq
    <3> QED BY <1>1, <3>1, <3>2, FlatEmpty
  <2> QED BY <2>1
<1>3. ASSUME NEW n \in Nat, n \in T PROVE n + 1 \in T
  <2>1. ASSUME NEW e \in Seq(Seq(S)), Len(e) = n + 1
        PROVE  FlattenSeq(a \o e) = FlattenSeq(a) \o FlattenSeq(e)
    <3>1. PICK r \in Seq(Seq(S)), x \in Seq(S) : e = Append(r, x) /\ Len(r) = n
      BY <2>1, LastOf
    <3>2. PICK R \in Seq(S) : R = FlattenSeq(r)
      BY FlatType
    <3>3. a \o Append(r, x) = Append(a \o r, x) /\ a \o r \in Seq(Seq(S))
      OBVIOUS
    <3>4. FlattenSeq(a \o e) = FlattenSeq(a \o r) \o x
      BY <3>1, <3>3, FlatAppend
    <3>5. FlattenSeq(a \o r) = A \o R
      BY <1>1, <1>3, <3>1, <3>2
    <3>6. FlattenSeq(e) = R \o x
      BY <3>1, <3>2, FlatAppend
    <3>7. (A \o R) \o x = A \o (R \o x)
      <4> HIDE DEF T
      <4> QED OBVIOUS
    <3> QED BY <1>1, <3>4, <3>5, <3>6, <3>7
  <2> QED BY <2>1
<1>4. \A n \in Nat : n \in T
  <2> HIDE DEF T
  <2> QED BY <1>2, <1>3, Induction
<1> QED BY <1>4

(* The flattening begins with the first sequence. *)
LEMMA FlatTail ==
  ASSUME NEW S, NEW c \in Seq(Seq(S)), c # <<>>
  PROVE  FlattenSeq(c) = Head(c) \o FlattenSeq(Tail(c))
<1>1. Head(c) \in Seq(S) /\ Tail(c) \in Seq(Seq(S))
  OBVIOUS
<1>2. PICK h \in Seq(S), r \in Seq(Seq(S)) : h = Head(c) /\ r = Tail(c)
  BY <1>1
<1>3. <<h>> \in Seq(Seq(S)) /\ c = <<h>> \o r
  BY <1>2
<1>4. FlattenSeq(c) = FlattenSeq(<<h>>) \o FlattenSeq(r)
  BY <1>3, FlatConcat
<1> QED BY <1>2, <1>4, FlatOne

(* Any cut of a sequence of sequences. *)
LEMMA FlatSplit ==
  ASSUME NEW S, NEW c \in Seq(Seq(S)), NEW k \in 0..Len(c)
  PROVE  /\ SubSeq(c, 1, k) \in Seq(Seq(S)) /\ SubSeq(c, k + 1, Len(c)) \in Seq(Seq(S))
         /\ FlattenSeq(c) = FlattenSeq(SubSeq(c, 1, k)) \o FlattenSeq(SubSeq(c, k + 1, Len(c)))
<1>1. SubSeq(c, 1, k) \in Seq(Seq(S)) /\ SubSeq(c, k + 1, Len(c)) \in Seq(Seq(S))
  OBVIOUS
<1>2. c = SubSeq(c, 1, k) \o SubSeq(c, k + 1, Len(c))
  <2>1. 1 \in 1..Len(c)+1 /\ k \in 1-1..Len(c) /\ Len(c) \in k..Len(c)
    OBVIOUS
  <2>2. SubSeq(c, 1, k) \o SubSeq(c, k + 1, Len(c)) = SubSeq(c, 1, Len(c))
    BY <2>1, ConcatAdjacentSubSeq
  <2> QED BY <2>2, SubSeqFull
<1>3. PICK a, b \in Seq(Seq(S)) : a = SubSeq(c, 1, k) /\ b = SubSeq(c, k + 1, Len(c))
  BY <1>1
<1>4. FlattenSeq(a \o b) = FlattenSeq(a) \o FlattenSeq(b)
  BY FlatConcat
<1> QED BY <1>1, <1>2, <1>3, <1>4

(* The first k + 1 elements. *)
LEMMA OneMore ==
  ASSUME NEW S, NEW c \in Seq(S), NEW k \in Nat, NEW m \in 1..Len(c), m = k + 1
  PROVE  SubSeq(c, 1, k) \in Seq(S) /\ SubSeq(c, 1, m) = Append(SubSeq(c, 1, k), c[m])
OBVIOUS

(***************************************************************************)
(* Parts of s \o x.                                                        *)
(***************************************************************************)

(* What follows the first n elements, when they do not end in s ... *)
LEMMA DropLong ==
  ASSUME NEW S, NEW s \in Seq(S), NEW x \in Seq(S),
         NEW j \in 0..Len(x)
  PROVE  SubSeq(s \o x, (Len(s) + j) + 1, Len(s \o x)) = SubSeq(x, j + 1, Len(x))
<1>0. PICK n, m \in Nat : n = Len(s) + j /\ Len(x) = j + m
  <2>1. Len(s) + j \in Nat /\ Len(x) - j \in Nat /\ Len(x) = j + (Len(x) - j)
    OBVIOUS
  <2> QED BY <2>1
<1>1. /\ SubSeq(s \o x, n+1, Len(s \o x)) \in Seq(S)
      /\ Len(SubSeq(s \o x, n+1, Len(s \o x))) = m
  BY <1>0
<1>2. ASSUME NEW i \in 1..m PROVE SubSeq(s \o x, n+1, Len(s \o x))[i] = x[j+i]
  <2>1. SubSeq(s \o x, n+1, Len(s \o x))[i] = (s \o x)[n+i]
    BY <1>0
  <2>2. n + i \in 1..Len(s) + Len(x) /\ ~(n + i <= Len(s)) /\ n + i - Len(s) = j + i
    BY <1>0
  <2>3. (s \o x)[n+i] = x[n + i - Len(s)]
    BY <2>2, ConcatProperties
  <2> QED BY <2>1, <2>2, <2>3
<1>3. /\ SubSeq(x, j+1, Len(x)) \in Seq(S)
      /\ Len(SubSeq(x, j+1, Len(x))) = m
  BY <1>0
<1>4. \A i \in 1..m : SubSeq(x, j+1, Len(x))[i] = x[j+i]
  BY <1>0
<1> QED BY <1>0, <1>1, <1>2, <1>3, <1>4

(* ... and when they do. *)
LEMMA DropShort ==
  ASSUME NEW S, NEW s \in Seq(S), NEW x \in Seq(S),
         NEW n \in 0..Len(s)
  PROVE  SubSeq(s \o x, n + 1, Len(s \o x)) = SubSeq(s, n + 1, Len(s)) \o x
<1>0. PICK m \in Nat : n \in Nat /\ Len(s) = n + m
  <2>1. n \in Nat /\ Len(s) - n \in Nat /\ Len(s) = n + (Len(s) - n)
    OBVIOUS
  <2> QED BY <2>1
<1> n \in Nat
  BY <1>0
<1>1. /\ SubSeq(s \o x, n+1, Len(s \o x)) \in Seq(S)
      /\ Len(SubSeq(s \o x, n+1, Len(s \o x))) = m + Len(x)
  BY <1>0
<1>2. \A i \in 1..m+Len(x) : SubSeq(s \o x, n+1, Len(s \o x))[i] = IF i <= m THEN s[n+i] ELSE x[i-m]
  BY <1>0
<1>3. /\ SubSeq(s, n+1, Len(s)) \in Seq(S)
      /\ Len(SubSeq(s, n+1, Len(s))) = m
  BY <1>0
<1>4. \A i \in 1..m : SubSeq(s, n+1, Len(s))[i] = s[n+i]
  BY <1>0
<1>5. PICK f \in Seq(S) : f = SubSeq(s, n + 1, Len(s))
  BY <1>3
<1>6. /\ f \o x \in Seq(S) /\ Len(f \o x) = m + Len(x)
      /\ \A i \in 1..m+Len(x) : (f \o x)[i] = IF i <= m THEN f[i] ELSE x[i-m]
  <2>1. Len(f) = m
    BY <1>3, <1>5
  <2>2. /\ f \o x \in Seq(S) /\ Len(f \o x) = Len(f) + Len(x)
        /\ \A i \in 1 .. Len(f) + Len(x) : (f \o x)[i] = IF i <= Len(f) THEN f[i] ELSE x[i - Len(f)]
    BY ConcatProperties
  <2> QED BY <2>1, <2>2
<1>7. PICK d, e \in Seq(S) : d = SubSeq(s \o x, n+1, Len(s \o x)) /\ e = f \o x
  BY <1>1, <1>6
<1>8. Len(d) = Len(e)
  BY <1>1, <1>6, <1>7
<1>9. ASSUME NEW i \in 1..Len(d) PROVE d[i] = e[i]
  <2>1. i \in 1..m + Len(x) /\ (i <= m => f[i] = s[n+i])
    BY <1>1, <1>4, <1>5, <1>7
  <2> QED BY <1>2, <1>6, <1>7, <2>1
<1>10. d = e
  BY <1>8, <1>9
<1> QED BY <1>5, <1>7, <1>10

(* A part that lies in one of the two, and one that does not. *)
LEMMA SliceInside ==
  ASSUME NEW S, NEW s \in Seq(S), NEW x \in Seq(S), NEW a \in Nat, NEW b \in Nat, NEW L \in Nat,
         L = Len(s)
  PROVE  /\ b <= L => SubSeq(s \o x, a + 1, b) = SubSeq(s, a + 1, b)
         /\ a >= L /\ b <= L + Len(x) => SubSeq(s \o x, a + 1, b) = SubSeq(x, a - L + 1, b - L)
<1>1. b <= L => SubSeq(s \o x, a + 1, b) = SubSeq(s, a + 1, b)
  OBVIOUS
<1>2. a >= L /\ b <= L + Len(x) => SubSeq(s \o x, a + 1, b) = SubSeq(x, a - L + 1, b - L)
  OBVIOUS
<1> QED BY <1>1, <1>2

(* A part that begins in s and ends in x. *)
LEMMA SliceAcross ==
  ASSUME NEW S, NEW s \in Seq(S), NEW x \in Seq(S), NEW a \in 0..Len(s), NEW j \in 0..Len(x)
  PROVE  SubSeq(s \o x, a + 1, Len(s) + j) = SubSeq(s, a + 1, Len(s)) \o SubSeq(x, 1, j)
<1>0. PICK L, k, b \in Nat : L = Len(s) /\ a + k = L /\ L + j = b
  <2>1. Len(s) \in Nat /\ Len(s) - a \in Nat /\ Len(s) + j \in Nat /\ a + (Len(s) - a) = Len(s)
    OBVIOUS
  <2> QED BY <2>1
<1>1. /\ SubSeq(s \o x, a + 1, b) \in Seq(S) /\ Len(SubSeq(s \o x, a + 1, b)) = k + j
  BY <1>0
<1>2. \A i \in 1..k+j : SubSeq(s \o x, a + 1, b)[i] = IF i <= k THEN s[a+i] ELSE x[i-k]
  BY <1>0
<1>3. /\ SubSeq(s, a + 1, L) \in Seq(S) /\ Len(SubSeq(s, a + 1, L)) = k
      /\ \A i \in 1..k : SubSeq(s, a + 1, L)[i] = s[a+i]
  BY <1>0
<1>4. /\ SubSeq(x, 1, j) \in Seq(S) /\ Len(SubSeq(x, 1, j)) = j
      /\ \A i \in 1..j : SubSeq(x, 1, j)[i] = x[i]
  BY <1>0
<1>5. PICK f, g \in Seq(S) : f = SubSeq(s, a + 1, L) /\ g = SubSeq(x, 1, j)
  BY <1>3, <1>4
<1>6. /\ f \o g \in Seq(S) /\ Len(f \o g) = k + j
      /\ \A i \in 1..k+j : (f \o g)[i] = IF i <= k THEN f[i] ELSE g[i-k]
  <2>1. Len(f) = k /\ Len(g) = j
    BY <1>3, <1>4, <1>5
  <2>2. f \o g \in Seq(S)
    OBVIOUS
  <2>3. Len(f \o g) = k + j
    BY <2>1, ConcatProperties
  <2>4. \A i \in 1..k+j : (f \o g)[i] = IF i <= k THEN f[i] ELSE g[i-k]
    <3>1. \A i \in 1..Len(f) + Len(g) : (f \o g)[i] = IF i <= Len(f) THEN f[i] ELSE g[i-Len(f)]
      BY ConcatProperties
    <3> QED BY <2>1, <3>1
  <2> QED BY <2>2, <2>3, <2>4
<1>7. PICK d, e \in Seq(S) : d = SubSeq(s \o x, a + 1, b) /\ e = f \o g
  BY <1>1, <1>6
<1>8. k + j \in Nat /\ Len(e) = k + j /\ Len(d) = k + j
  BY <1>1, <1>6, <1>7
<1>9. ASSUME NEW i \in 1..k+j PROVE d[i] = e[i]
  <2>1. (i <= k => i \in 1..k) /\ (~(i <= k) => i - k \in 1..j)
    OBVIOUS
  <2>2. (i <= k => f[i] = s[a+i]) /\ (~(i <= k) => g[i-k] = x[i-k])
    BY <1>3, <1>4, <1>5, <2>1
  <2> QED BY <1>2, <1>6, <1>7, <2>2
<1>10. d = e
  BY ONLY <1>8, <1>9, d \in Seq(S), e \in Seq(S)
<1> QED BY <1>0, <1>5, <1>7, <1>10

(* The part of s \o x between a and b is that of s and that of x. *)
LEMMA SliceJoin ==
  ASSUME NEW S, NEW s \in Seq(S), NEW x \in Seq(S), NEW a \in Nat, NEW b \in Nat, a <= b
  PROVE  SubSeq(s, a + 1, IF b < Len(s) THEN b ELSE Len(s))
           \o SubSeq(x, IF a > Len(s) THEN a - Len(s) + 1 ELSE 1,
                        IF b < Len(s) + Len(x) THEN b - Len(s) ELSE Len(x))
         = SubSeq(s \o x, a + 1, IF b < Len(s) + Len(x) THEN b ELSE Len(s) + Len(x))
<1> PICK L, M \in Nat : L = Len(s) /\ M = L + Len(x)
  OBVIOUS
<1>0. SUFFICES SubSeq(s, a + 1, IF b < L THEN b ELSE L)
                 \o SubSeq(x, IF a > L THEN a - L + 1 ELSE 1, IF b < M THEN b - L ELSE Len(x))
               = SubSeq(s \o x, a + 1, IF b < M THEN b ELSE M)
  OBVIOUS
<1>1. CASE b <= L
  <2>1. PICK u \in Seq(S) : u = SubSeq(s, a + 1, b)
    <3>1. SubSeq(s, a + 1, b) \in Seq(S)
      BY <1>1
    <3> QED BY <3>1
  <2>2. (IF b < L THEN b ELSE L) = b
    BY <1>1
  <2>3. SubSeq(x, IF a > L THEN a - L + 1 ELSE 1, IF b < M THEN b - L ELSE Len(x)) = <<>>
    <3>1. CASE b < M
      <4>1. CASE a > L
        BY <1>1, <4>1
      <4>2. CASE ~(a > L)
        <5>1. b - L \in Int /\ b - L < 1
          BY <1>1
        <5>2. SubSeq(x, 1, b - L) = <<>>
          BY <5>1, SubSeqEmpty
        <5> QED BY <3>1, <4>2, <5>2
      <4> QED BY <4>1, <4>2
    <3>2. CASE ~(b < M)
      <4>1. Len(x) = 0 /\ ~(a > L)
        BY <1>1, <3>2
      <4> QED BY <3>2, <4>1
    <3> QED BY <3>1, <3>2
  <2>4. (IF b < M THEN b ELSE M) = b
    BY <1>1
  <2>5. SubSeq(s \o x, a + 1, b) = u
    BY <1>1, <2>1, SliceInside
  <2>6. u \o <<>> = u
    OBVIOUS
  <2> QED BY <2>1, <2>2, <2>3, <2>4, <2>5, <2>6
<1>2. CASE b > L /\ a >= L
  <2>1. PICK c \in Nat : c = (IF b < M THEN b ELSE M) /\ c <= M /\ c - L = (IF b < M THEN b - L ELSE Len(x))
    <3>1. CASE b < M
      BY <3>1
    <3>2. CASE ~(b < M)
      BY <3>2
    <3> QED BY <3>1, <3>2
  <2>2. SubSeq(s, a + 1, IF b < L THEN b ELSE L) = <<>>
    BY <1>2
  <2>3. (IF a > L THEN a - L + 1 ELSE 1) = a - L + 1
    BY <1>2
  <2>4. SubSeq(s \o x, a + 1, c) = SubSeq(x, a - L + 1, c - L)
    BY <1>2, <2>1, SliceInside
  <2>5. SubSeq(x, a - L + 1, c - L) \in Seq(S)
    BY <1>2, <2>1
  <2>6. <<>> \o SubSeq(x, a - L + 1, c - L) = SubSeq(x, a - L + 1, c - L)
    BY <2>5
  <2> QED BY <2>1, <2>2, <2>3, <2>4, <2>6
<1>3. CASE b > L /\ a < L
  <2>1. PICK c \in Nat : c = (IF b < M THEN b ELSE M) /\ c <= M /\ c >= L
                         /\ c - L = (IF b < M THEN b - L ELSE Len(x))
    <3>1. CASE b < M
      BY <1>3, <3>1
    <3>2. CASE ~(b < M)
      <4>1. M \in Nat /\ M <= M /\ M >= L /\ M - L = Len(x)
        BY <1>3, <3>2
      <4> QED BY <3>2, <4>1
    <3> QED BY <3>1, <3>2
  <2>2. (IF b < L THEN b ELSE L) = L /\ (IF a > L THEN a - L + 1 ELSE 1) = 1
    BY <1>3
  <2>3. PICK k, j \in Nat : a + k = L /\ L + j = c /\ j = c - L /\ j <= Len(x)
    <3>1. L - a \in Nat /\ c - L \in Nat /\ a + (L - a) = L /\ L + (c - L) = c /\ c - L <= Len(x)
      BY <1>3, <2>1
    <3> QED BY <3>1
  <2>4. SubSeq(s \o x, a + 1, c) = SubSeq(s, a + 1, L) \o SubSeq(x, 1, j)
    <3>1. a \in 0..Len(s) /\ j \in 0..Len(x)
      BY <2>3
    <3>2. SubSeq(s \o x, a + 1, Len(s) + j) = SubSeq(s, a + 1, Len(s)) \o SubSeq(x, 1, j)
      BY <3>1, SliceAcross
    <3> QED BY <2>3, <3>2
  <2> QED BY <2>1, <2>2, <2>3, <2>4
<1>4. b <= L \/ (b > L /\ a >= L) \/ (b > L /\ a < L)
  OBVIOUS
<1> QED BY <1>1, <1>2, <1>3, <1>4

=============================================================================
