----------------------------- MODULE TunnelProofs -----------------------------
(* Theorems about a tunnel, for any lengths of header and datagram, any      *)
(* number of pieces, and any way in which the client cuts its stream: what   *)
(* the target is given is what the client sent, a dead session holds         *)
(* nothing, and nobody who is paused has been forgotten.                     *)
EXTENDS Tunnel, TLAPS, SequenceTheorems

(* The pieces after the first k, up to n. *)
Pieces(k, n) == [i \in 1..(n - k) |-> i + k]

(***************************************************************************)
(* Sequences of pieces.                                                    *)
(***************************************************************************)

LEMMA PiecesSeq ==
  ASSUME NEW k \in Nat, NEW n \in Nat, k <= n
  PROVE  /\ Pieces(k, n) \in Seq(Nat) /\ Len(Pieces(k, n)) = n - k
         /\ \A i \in 1..(n - k) : Pieces(k, n)[i] = i + k
<1>1. n - k \in Nat
  OBVIOUS
<1> QED BY <1>1 DEF Pieces

(* One more piece. *)
LEMMA NextPiece ==
  ASSUME NEW k \in Nat, NEW n \in Nat, k <= n, NEW m \in Nat, m = n + 1,
         NEW s \in Seq(Nat), s = Pieces(k, n)
  PROVE  Append(s, m) = Pieces(k, m)
<1>1. Len(s) = n - k /\ \A i \in 1..(n - k) : s[i] = i + k
  BY PiecesSeq
<1>2. /\ Append(s, m) \in Seq(Nat) /\ Len(Append(s, m)) = m - k
      /\ \A i \in 1..(n - k) : Append(s, m)[i] = i + k
      /\ Append(s, m)[m - k] = m
  <2>1. /\ Append(s, m) \in Seq(Nat) /\ Len(Append(s, m)) = Len(s) + 1
        /\ \A i \in 1..Len(s) : Append(s, m)[i] = s[i]
        /\ Append(s, m)[Len(s) + 1] = m
    BY AppendProperties
  <2>2. Len(s) + 1 = m - k
    BY <1>1
  <2> QED BY <1>1, <2>1, <2>2
<1>3. /\ Pieces(k, m) \in Seq(Nat) /\ Len(Pieces(k, m)) = m - k
      /\ \A i \in 1..(m - k) : Pieces(k, m)[i] = i + k
  <2>1. k <= m
    OBVIOUS
  <2> QED BY <2>1, PiecesSeq
<1>4. ASSUME NEW i \in 1..(m - k) PROVE Append(s, m)[i] = Pieces(k, m)[i]
  <2>1. i \in 1..(n - k) \/ i = m - k
    OBVIOUS
  <2>2. Pieces(k, m)[i] = i + k /\ (m - k) + k = m
    BY <1>3
  <2> QED BY <1>2, <2>1, <2>2
<1> HIDE DEF Pieces
<1> QED BY <1>2, <1>3, <1>4, SeqEqual

LEMMA JoinsAssociate ==
  ASSUME NEW s \in Seq(Nat), NEW t \in Seq(Nat), NEW u \in Seq(Nat)
  PROVE  s \o (t \o u) = (s \o t) \o u
<1>1. /\ s \o t \in Seq(Nat) /\ Len(s \o t) = Len(s) + Len(t)
      /\ t \o u \in Seq(Nat) /\ Len(t \o u) = Len(t) + Len(u)
      /\ \A i \in 1..(Len(s) + Len(t)) :
           (s \o t)[i] = IF i <= Len(s) THEN s[i] ELSE t[i - Len(s)]
      /\ \A i \in 1..(Len(t) + Len(u)) :
           (t \o u)[i] = IF i <= Len(t) THEN t[i] ELSE u[i - Len(t)]
  BY ConcatProperties
<1>2. /\ (s \o t) \o u \in Seq(Nat)
      /\ Len((s \o t) \o u) = Len(s) + Len(t) + Len(u)
      /\ \A i \in 1..(Len(s) + Len(t) + Len(u)) :
           ((s \o t) \o u)[i] = IF i <= Len(s) + Len(t) THEN (s \o t)[i]
                                ELSE u[i - (Len(s) + Len(t))]
  BY <1>1, ConcatProperties
<1>3. /\ s \o (t \o u) \in Seq(Nat)
      /\ Len(s \o (t \o u)) = Len(s) + Len(t) + Len(u)
      /\ \A i \in 1..(Len(s) + Len(t) + Len(u)) :
           (s \o (t \o u))[i] = IF i <= Len(s) THEN s[i] ELSE (t \o u)[i - Len(s)]
  BY <1>1, ConcatProperties
<1>4. \A i \in 1..(Len(s) + Len(t) + Len(u)) : ((s \o t) \o u)[i] = (s \o (t \o u))[i]
  BY <1>1, <1>2, <1>3
<1> QED BY <1>2, <1>3, <1>4, SeqEqual

LEMMA AppendLast ==
  ASSUME NEW v \in Seq(Nat), NEW h \in Seq(Nat), NEW m \in Nat
  PROVE  v \o Append(h, m) = Append(v \o h, m)
<1>1. PICK u \in Seq(Nat) : u = <<m>>
  <2>1. <<m>> \in Seq(Nat)
    OBVIOUS
  <2> QED BY <2>1
<1>2. Append(h, m) = h \o u
  BY <1>1, AppendIsConcat
<1>3. PICK all \in Seq(Nat) : all = v \o h
  BY ConcatProperties
<1>4. Append(all, m) = all \o u
  BY <1>1, AppendIsConcat
<1>5. v \o (h \o u) = (v \o h) \o u
  BY JoinsAssociate
<1> QED BY <1>2, <1>3, <1>4, <1>5

(* What is left of the pieces when the header is cut off. *)
LEMMA AfterHeader ==
  ASSUME NEW k \in Nat, NEW n \in Nat, k <= n, NEW s \in Seq(Nat), s = Pieces(0, n)
  PROVE  SubSeq(s, k + 1, Len(s)) = Pieces(k, n)
<1>1. Len(s) = n /\ \A i \in 1..n : s[i] = i
  <2>1. 0 \in Nat /\ 0 <= n /\ n - 0 = n
    OBVIOUS
  <2>2. Len(s) = n - 0 /\ \A i \in 1..(n - 0) : s[i] = i + 0
    BY <2>1, PiecesSeq
  <2>3. \A i \in 1..n : i + 0 = i
    OBVIOUS
  <2> QED BY <2>1, <2>2, <2>3
<1> DEFINE t == SubSeq(s, k + 1, n)
<1>2. \A i \in (k + 1)..n : s[i] \in Nat
  BY <1>1
<1>3. t \in Seq(Nat) /\ Len(t) = n - k /\ \A i \in 1..(n - k) : t[i] = i + k
  <2>1. /\ t \in Seq(Nat) /\ Len(t) = IF k + 1 <= n THEN n - (k + 1) + 1 ELSE 0
        /\ \A i \in 1..(n - (k + 1) + 1) : t[i] = s[(k + 1) + i - 1]
    BY <1>2, SubSeqProperties
  <2>2. n - (k + 1) + 1 = n - k
    OBVIOUS
  <2>3. Len(t) = n - k
    BY <2>1
  <2>4. \A i \in 1..(n - k) : t[i] = i + k
    BY <1>1, <2>1, <2>2
  <2> QED BY <2>1, <2>3, <2>4
<1>4. /\ Pieces(k, n) \in Seq(Nat) /\ Len(Pieces(k, n)) = n - k
      /\ \A i \in 1..(n - k) : Pieces(k, n)[i] = i + k
  BY PiecesSeq
<1> HIDE DEF Pieces, t
<1>5. t = Pieces(k, n)
  BY <1>3, <1>4, SeqEqual
<1> QED BY <1>1, <1>5 DEF t

(* The whole datagrams of a queue are a prefix of it. *)
LEMMA WholeDatagrams ==
  ASSUME NEW len \in Nat, NEW d \in Nat \ {0}
  PROVE  (len \div d) * d \in 0..len
<1>1. len \div d \in Nat
  OBVIOUS
<1>2. (len \div d) * d <= len
  BY <1>1
<1>3. (len \div d) * d \in Nat
  BY <1>1
<1> QED BY <1>2, <1>3

LEMMA CutAndJoin ==
  ASSUME NEW S, NEW q \in Seq(S), NEW n \in 0..Len(q)
  PROVE  /\ SubSeq(q, 1, n) \in Seq(S) /\ SubSeq(q, n + 1, Len(q)) \in Seq(S)
         /\ SubSeq(q, 1, n) \o SubSeq(q, n + 1, Len(q)) = q
<1>1. Len(q) \in Nat /\ \A i \in 1..Len(q) : q[i] \in S
  BY ElementOfSeq, LenProperties
<1>2. 1 \in 1..(Len(q) + 1) /\ n \in (1 - 1)..Len(q) /\ Len(q) \in n..Len(q)
  BY <1>1
<1>3. SubSeq(q, 1, n) \o SubSeq(q, n + 1, Len(q)) = SubSeq(q, 1, Len(q))
  BY <1>2, ConcatAdjacentSubSeq
<1>4. (\A i \in 1..n : q[i] \in S) /\ (\A i \in (n + 1)..Len(q) : q[i] \in S)
  BY <1>1
<1>5. SubSeq(q, 1, n) \in Seq(S) /\ SubSeq(q, n + 1, Len(q)) \in Seq(S)
  BY <1>1, <1>4, SubSeqProperties
<1> QED BY <1>3, <1>5, SubSeqFull

(***************************************************************************)
(* Inductive.  UplinkInOrder does not say that a relay that writes past     *)
(* pending has nothing there, that a message begins with nothing held once  *)
(* the header is past, or that the header is past at all; NoLostWakeup does *)
(* not say which socket owes the 'drain' of a client that is read.          *)
(***************************************************************************)

BeforeHeader ==
  conn = "none" =>
    /\ relay = "none" /\ record = "none" /\ target = "none"
    /\ pending = <<>> /\ wrote = <<>>

AfterTheHeader ==
  conn # "none" =>
    /\ conn = "active" /\ HeaderPieces <= sent
    /\ \/ relay = "TCP" /\ target \in {"connecting", "open"}
       \/ relay = "UDP" /\ target = "open"
    /\ ~open => held = <<>>
    /\ relay = "TCP" /\ target = "open" => pending = <<>>

Waits ==
  /\ owed => relay = "TCP" /\ target = "open"
  /\ stopped => owed
  /\ ~flowing => paused /\ full

Skipped == IF conn = "none" THEN 0 ELSE HeaderPieces

InOrder == (wrote \o pending) \o held = Pieces(Skipped, sent)

Live == BeforeHeader /\ AfterTheHeader /\ Waits

TunnelInv ==
  /\ DeadIsReaped
  /\ ~dead => Live /\ InOrder

(* What the client has sent and nobody has read. *)
Message == Append(held, sent + 1)

LEMMA PiecesAreNat == TypeOK => /\ sent \in Nat /\ held \in Seq(Nat)
                                /\ pending \in Seq(Nat) /\ wrote \in Seq(Nat)
<1> SUFFICES ASSUME TypeOK PROVE /\ sent \in Nat /\ held \in Seq(Nat)
                                 /\ pending \in Seq(Nat) /\ wrote \in Seq(Nat)
  OBVIOUS
<1>1. ASSUME NEW s \in Seq(1..MaxPieces) PROVE s \in Seq(Nat)
  <2>1. Len(s) \in Nat /\ s = [i \in 1..Len(s) |-> s[i]]
    OBVIOUS
  <2>2. \A i \in 1..Len(s) : s[i] \in 1..MaxPieces
    BY ElementOfSeq
  <2>3. 1..MaxPieces \subseteq Nat
    BY TunnelAssumption
  <2> QED BY <2>1, <2>2, <2>3
<1>2. /\ held \in Seq(1..MaxPieces) /\ pending \in Seq(1..MaxPieces)
      /\ wrote \in Seq(1..MaxPieces) /\ sent \in 0..MaxPieces
  BY DEF TypeOK
<1> QED BY <1>1, <1>2

LEMMA SeveralEmpty == (<<>> \o <<>>) \o <<>> = Pieces(0, 0)
<1>1. <<>> \in Seq(Nat) /\ Len(<<>>) = 0 /\ <<>> \o <<>> = <<>>
  BY EmptySeq, ConcatEmptySeq
<1>2. Pieces(0, 0) \in Seq(Nat) /\ Len(Pieces(0, 0)) = 0
  <2>1. 0 \in Nat /\ 0 <= 0 /\ 0 - 0 = 0
    OBVIOUS
  <2> QED BY <2>1, PiecesSeq
<1> HIDE DEF Pieces
<1> QED BY <1>1, <1>2, SeqEqual

LEMMA InitTunnel == Init => TypeOK /\ TunnelInv
<1> SUFFICES ASSUME Init PROVE TypeOK /\ TunnelInv
  OBVIOUS
<1>1. TypeOK
  <2>1. <<>> \in Seq(1..MaxPieces)
    BY EmptySeq
  <2>2. sent \in 0..MaxPieces /\ rx \in 0..MaxReplies
    BY TunnelAssumption DEF Init
  <2> QED BY <2>1, <2>2 DEF Init, TypeOK
<1>2. DeadIsReaped /\ Live
  BY DEF Init, DeadIsReaped, Live, BeforeHeader, AfterTheHeader, Waits
<1>3. InOrder
  BY SeveralEmpty DEF Init, InOrder, Skipped
<1> QED BY <1>1, <1>2, <1>3 DEF TunnelInv

(* The frame that ends a message, whichever way it was cut. *)
LEMMA FinalFrame ==
  ASSUME TypeOK, Live, Frame(TRUE)
  PROVE  /\ ~dead /\ sent < MaxPieces /\ sent' = sent + 1 /\ open' = FALSE
         /\ \/ /\ conn # "none" /\ RelayWrite(Message) /\ held' = <<>> /\ UNCHANGED dead
            \/ /\ conn = "none" /\ Len(Message) < HeaderPieces /\ held' = Message
               /\ UNCHANGED <<dead, relayVars, upVars, downVars>>
            \/ /\ conn = "none" /\ Len(Message) >= HeaderPieces
               /\ \E p \in {"TCP", "UDP"} :
                    StartRelay(p, SubSeq(Message, HeaderPieces + 1, Len(Message)))
               /\ held' = <<>> /\ UNCHANGED dead
            \/ Destroy /\ UNCHANGED <<wrote, stopped, owed, flowing, full, rx>>
<1>1. PICK m \in Nat : m = sent + 1
  BY PiecesAreNat
<1>2. /\ <<>> \o Append(held, m) = Append(held, m)
      /\ held \o <<m>> = Append(held, m)
      /\ Append(held, m) \in Seq(Nat) /\ Len(Append(held, m)) \in Nat
  <2>1. held \in Seq(Nat)
    BY PiecesAreNat
  <2>2. Append(held, m) \in Seq(Nat)
    BY <2>1
  <2>3. held \o <<m>> = Append(held, m)
    BY <2>1, AppendIsConcat
  <2> QED BY <2>2, <2>3, ConcatEmptySeq
<1>3. conn # "none" /\ ~open => <<m>> = Append(held, m) /\ held = <<>>
  BY DEF Live, AfterTheHeader
<1>4. ~dead /\ sent < MaxPieces /\ sent' = sent + 1 /\ open' = FALSE
  BY DEF Frame, Reads
<1>5. IF open THEN OnMessage(Append(held, m), <<>>) ELSE OnMessage(<<m>>, held)
  BY <1>1 DEF Frame, LastFragment
<1>6. HeaderPieces \in Nat
  BY TunnelAssumption
<1>7. CASE conn # "none"
  <2>1. RelayWrite(Append(held, m)) /\ held' = <<>> /\ UNCHANGED dead
    BY <1>3, <1>5, <1>7 DEF OnMessage
  <2> QED BY <1>1, <1>4, <1>7, <2>1 DEF Message
<1>8. CASE conn = "none"
  <2> DEFINE header == Append(held, m)
  <2>1. IF Len(header) < HeaderPieces
        THEN /\ held' = header
             /\ UNCHANGED <<dead, relayVars, upVars, downVars>>
        ELSE \/ /\ \E p \in {"TCP", "UDP"} :
                     StartRelay(p, SubSeq(header, HeaderPieces + 1, Len(header)))
                /\ held' = <<>>
                /\ UNCHANGED dead
             \/ Destroy /\ UNCHANGED <<wrote, stopped, owed, flowing, full, rx>>
    BY <1>2, <1>5, <1>8 DEF OnMessage
  <2> QED BY <1>1, <1>2, <1>4, <1>6, <1>8, <2>1 DEF Message
<1> QED BY <1>7, <1>8

LEMMA MessageSeq ==
  ASSUME TypeOK, sent < MaxPieces
  PROVE  /\ Message \in Seq(1..MaxPieces) /\ sent + 1 \in 0..MaxPieces
         /\ Message \in Seq(Nat) /\ Len(Message) \in Nat
<1>1. PICK m \in 1..MaxPieces : m = sent + 1 /\ m \in Nat /\ m \in 0..MaxPieces
  <2>1. sent \in 0..MaxPieces /\ MaxPieces \in Nat
    BY TunnelAssumption DEF TypeOK
  <2>2. sent + 1 \in 1..MaxPieces /\ sent + 1 \in Nat /\ sent + 1 \in 0..MaxPieces
    BY <2>1
  <2> QED BY <2>2
<1>2. Append(held, m) \in Seq(1..MaxPieces)
  BY AppendProperties DEF TypeOK
<1>3. Append(held, m) \in Seq(Nat) /\ Len(Append(held, m)) \in Nat
  BY <1>1, PiecesAreNat, AppendProperties, LenProperties
<1> QED BY <1>1, <1>2, <1>3 DEF Message

(* What a UDP relay sends and what it keeps are what it had and was given. *)
LEMMA DatagramsSplit ==
  ASSUME NEW S, pending \in Seq(S), wrote \in Seq(S), NEW s \in Seq(S), SendDatagrams(s)
  PROVE  \E a \in Seq(S), b \in Seq(S) :
           a \o b = pending \o s /\ wrote' = wrote \o a /\ pending' = b
<1>1. PICK q \in Seq(S) : q = pending \o s
  BY ConcatProperties
<1>2. PICK n \in 0..Len(q) : n = (Len(q) \div DatagramPieces) * DatagramPieces
  <2>1. Len(q) \in Nat /\ DatagramPieces \in Nat \ {0}
    BY TunnelAssumption, LenProperties
  <2> QED BY <2>1, WholeDatagrams
<1>3. wrote' = wrote \o SubSeq(q, 1, n) /\ pending' = SubSeq(q, n + 1, Len(q))
  BY <1>1, <1>2 DEF SendDatagrams
<1>4. /\ SubSeq(q, 1, n) \in Seq(S) /\ SubSeq(q, n + 1, Len(q)) \in Seq(S)
      /\ SubSeq(q, 1, n) \o SubSeq(q, n + 1, Len(q)) = q
  BY CutAndJoin
<1> QED BY <1>1, <1>3, <1>4

(* A relay that is given s has written or holds all it had, and then s. *)
LEMMA RelayWriteSeq ==
  ASSUME NEW S, pending \in Seq(S), wrote \in Seq(S), NEW s \in Seq(S), RelayWrite(s)
  PROVE  wrote' \in Seq(S) /\ pending' \in Seq(S)
<1>1. CASE relay = "TCP" /\ target = "connecting"
  BY <1>1, ConcatProperties DEF RelayWrite, HoldOrWrite
<1>2. CASE relay = "TCP" /\ target # "connecting"
  BY <1>2, ConcatProperties DEF RelayWrite, HoldOrWrite, TargetWrite
<1>3. CASE relay # "TCP"
  <2>1. SendDatagrams(s)
    BY <1>3 DEF RelayWrite
  <2>2. PICK a \in Seq(S), b \in Seq(S) : wrote' = wrote \o a /\ pending' = b
    BY <2>1, DatagramsSplit
  <2> QED BY <2>2, ConcatProperties
<1> QED BY <1>1, <1>2, <1>3

LEMMA DatagramsJoin ==
  ASSUME pending \in Seq(Nat), wrote \in Seq(Nat), NEW s \in Seq(Nat), SendDatagrams(s)
  PROVE  wrote' \o pending' = (wrote \o pending) \o s
<1>1. PICK a \in Seq(Nat), b \in Seq(Nat) :
        a \o b = pending \o s /\ wrote' = wrote \o a /\ pending' = b
  BY DatagramsSplit
<1>2. (wrote \o a) \o b = wrote \o (a \o b)
  BY JoinsAssociate
<1>3. (wrote \o pending) \o s = wrote \o (pending \o s)
  BY JoinsAssociate
<1> QED BY <1>1, <1>2, <1>3

LEMMA RelayWriteJoins ==
  ASSUME pending \in Seq(Nat), wrote \in Seq(Nat), NEW s \in Seq(Nat), RelayWrite(s),
         relay = "TCP" /\ target # "connecting" => pending = <<>>
  PROVE  wrote' \o pending' = (wrote \o pending) \o s
<1>1. CASE relay = "TCP" /\ target = "connecting"
  <2>1. wrote' = wrote /\ pending' = pending \o s
    BY <1>1 DEF RelayWrite, HoldOrWrite
  <2>2. wrote \o (pending \o s) = (wrote \o pending) \o s
    BY JoinsAssociate
  <2> QED BY <2>1, <2>2
<1>2. CASE relay = "TCP" /\ target # "connecting"
  <2>1. wrote' = wrote \o s /\ pending' = <<>> /\ pending = <<>>
    BY <1>2 DEF RelayWrite, HoldOrWrite, TargetWrite
  <2>2. wrote \o s \in Seq(Nat)
    BY ConcatProperties
  <2>3. (wrote \o s) \o <<>> = wrote \o s /\ wrote \o <<>> = wrote
    BY <2>2, ConcatEmptySeq
  <2> QED BY <2>1, <2>3
<1>3. CASE relay # "TCP"
  <2>1. SendDatagrams(s)
    BY <1>3 DEF RelayWrite
  <2> QED BY <2>1, DatagramsJoin
<1> QED BY <1>1, <1>2, <1>3

(* The end of the session, whoever ends it. *)
LEMMA DestroyTunnel ==
  ASSUME TypeOK, TunnelInv, ~dead, Destroy, UNCHANGED <<wrote, stopped, owed, flowing, full, rx>>,
         sent' \in 0..MaxPieces, open' \in BOOLEAN
  PROVE  TypeOK' /\ TunnelInv'
<1>1. DeadIsReaped' /\ dead'
  BY DEF TunnelInv, Live, BeforeHeader, AfterTheHeader, TypeOK, Destroy, Close, DeadIsReaped
<1>2. TypeOK'
  <2>1. <<>> \in Seq(1..MaxPieces)
    BY EmptySeq
  <2> QED BY <2>1 DEF TypeOK, Destroy, Close
<1> QED BY <1>1, <1>2 DEF TunnelInv

(* A step that leaves the client's stream where it is. *)
LEMMA SameOrder ==
  InOrder /\ UNCHANGED <<sent, held, wrote, pending, conn>> => InOrder'
BY DEF InOrder, Skipped

LEMMA SkippedSent ==
  ASSUME TypeOK, Live
  PROVE  Skipped \in Nat /\ Skipped <= sent
<1>1. sent \in Nat /\ HeaderPieces \in Nat
  BY TunnelAssumption, PiecesAreNat
<1> QED BY <1>1 DEF Skipped, Live, AfterTheHeader

(* What the client sends next is the next piece of the stream. *)
LEMMA NextInOrder ==
  ASSUME TypeOK, Live, InOrder, NEW m \in Nat, m = sent + 1
  PROVE  /\ (wrote \o pending) \o Message = Pieces(Skipped, m)
         /\ Pieces(Skipped, m) \in Seq(Nat)
<1>1. PICK k \in Nat, n \in Nat : k = Skipped /\ n = sent /\ m = n + 1 /\ k <= n
  <2>1. Skipped \in Nat /\ Skipped <= sent /\ sent \in Nat
    BY SkippedSent, PiecesAreNat
  <2> QED BY <2>1
<1>2. PICK h \in Seq(Nat), v \in Seq(Nat) : h = held /\ v = wrote \o pending
  BY PiecesAreNat, ConcatProperties
<1>3. PICK all \in Seq(Nat) : all = v \o h
  BY ConcatProperties
<1>4. k <= n /\ m = n + 1 /\ all = Pieces(k, n)
  BY <1>1, <1>2, <1>3 DEF InOrder
<1>5. Append(all, m) = Pieces(k, m)
  BY <1>4, NextPiece, Zenon
<1>6. v \o Append(h, m) = Append(v \o h, m)
  BY AppendLast
<1>7. Append(all, m) \in Seq(Nat)
  BY AppendProperties
<1>8. Message = Append(h, m)
  BY <1>2 DEF Message
<1> QED BY <1>1, <1>2, <1>3, <1>5, <1>6, <1>7, <1>8

(* A frame that is only held: a fragment, or a part of the header. *)
LEMMA HoldTunnel ==
  ASSUME TypeOK, TunnelInv, ~dead, sent < MaxPieces, sent' = sent + 1, open' \in BOOLEAN,
         burst' \in BOOLEAN, open' \/ conn = "none",
         held' = Message, UNCHANGED <<dead, relayVars, upVars, downVars>>
  PROVE  TypeOK' /\ TunnelInv'
<1>1. Live /\ InOrder
  BY DEF TunnelInv
<1>2. TypeOK'
  BY MessageSeq DEF TypeOK, relayVars, upVars, downVars
<1>3. Live'
  <2>1. HeaderPieces \in Nat /\ sent \in Nat
    BY TunnelAssumption, PiecesAreNat
  <2> QED BY <1>1, <2>1
      DEF Live, BeforeHeader, AfterTheHeader, Waits, relayVars, upVars, downVars
<1>4. InOrder'
  <2>1. PICK m \in Nat : m = sent + 1
    BY PiecesAreNat
  <2>2. (wrote \o pending) \o Message = Pieces(Skipped, m)
    BY <1>1, <2>1, NextInOrder
  <2>3. UNCHANGED <<conn, wrote, pending>> /\ sent' = m
    BY <2>1 DEF relayVars, upVars
  <2> QED BY <2>2, <2>3 DEF InOrder, Skipped
<1> QED BY <1>2, <1>3, <1>4 DEF TunnelInv, DeadIsReaped

(* A message for the relay. *)
LEMMA RelayTunnel ==
  ASSUME TypeOK, TunnelInv, ~dead, sent < MaxPieces, sent' = sent + 1, open' = FALSE,
         burst' \in BOOLEAN, conn # "none", RelayWrite(Message), held' = <<>>, UNCHANGED dead
  PROVE  TypeOK' /\ TunnelInv'
<1>1. Live /\ InOrder
  BY DEF TunnelInv
<1>2. /\ UNCHANGED <<relay, conn, record, target, flowing, paused, full, rx>>
      /\ stopped' \in BOOLEAN /\ owed' \in BOOLEAN
      /\ owed' /\ ~owed => relay = "TCP" /\ target # "connecting"
      /\ stopped' => stopped \/ owed'
      /\ owed => owed'
  BY DEF RelayWrite, HoldOrWrite, TargetWrite, SendDatagrams, relayVars, downVars, TypeOK
<1>3. TypeOK'
  <2>1. wrote' \in Seq(1..MaxPieces) /\ pending' \in Seq(1..MaxPieces)
    BY MessageSeq, RelayWriteSeq DEF TypeOK
  <2>2. <<>> \in Seq(1..MaxPieces) /\ sent' \in 0..MaxPieces
    BY MessageSeq, EmptySeq
  <2> QED BY <1>2, <2>1, <2>2 DEF TypeOK
<1>4. Live'
  <2>1. HeaderPieces \in Nat /\ sent \in Nat
    BY TunnelAssumption, PiecesAreNat
  <2>2. HeaderPieces <= sent'
    BY <1>1, <2>1 DEF Live, AfterTheHeader
  <2>3. relay = "TCP" /\ target = "open" => pending' = <<>>
    BY <1>1 DEF RelayWrite, HoldOrWrite, Live, AfterTheHeader
  <2> QED BY <1>1, <1>2, <2>2, <2>3 DEF Live, BeforeHeader, AfterTheHeader, Waits
<1>5. InOrder'
  <2>1. PICK m \in Nat : m = sent + 1
    BY PiecesAreNat
  <2>2. /\ (wrote \o pending) \o Message = Pieces(Skipped, m)
        /\ Pieces(Skipped, m) \in Seq(Nat)
    BY <1>1, <2>1, NextInOrder
  <2>3. wrote' \o pending' = (wrote \o pending) \o Message
    <3>1. relay = "TCP" /\ target # "connecting" => pending = <<>>
      BY <1>1 DEF Live, AfterTheHeader
    <3> QED BY <3>1, PiecesAreNat, MessageSeq, RelayWriteJoins
  <2>4. (wrote' \o pending') \o <<>> = Pieces(Skipped, m)
    BY <2>2, <2>3, ConcatEmptySeq
  <2>5. conn' = conn /\ sent' = m
    BY <1>2, <2>1
  <2> QED BY <2>4, <2>5 DEF InOrder, Skipped
<1> QED BY <1>3, <1>4, <1>5 DEF TunnelInv, DeadIsReaped

(* The message that completes the header. *)
LEMMA StartTunnel ==
  ASSUME TypeOK, TunnelInv, ~dead, sent < MaxPieces, sent' = sent + 1, open' = FALSE,
         burst' \in BOOLEAN, conn = "none", Len(Message) >= HeaderPieces,
         NEW p \in {"TCP", "UDP"},
         StartRelay(p, SubSeq(Message, HeaderPieces + 1, Len(Message))),
         held' = <<>>, UNCHANGED dead
  PROVE  TypeOK' /\ TunnelInv'
<1>1. Live /\ InOrder /\ pending = <<>> /\ wrote = <<>> /\ ~owed /\ ~stopped
  BY DEF TunnelInv, Live, BeforeHeader, Waits
<1>2. /\ Message \in Seq(Nat) /\ Len(Message) \in Nat /\ HeaderPieces \in Nat
      /\ Message \in Seq(1..MaxPieces)
  BY MessageSeq, TunnelAssumption
<1>3. PICK rest : rest = SubSeq(Message, HeaderPieces + 1, Len(Message))
  OBVIOUS
<1>4. rest \in Seq(Nat) /\ rest \in Seq(1..MaxPieces)
  <2>1. HeaderPieces \in 0..Len(Message)
    BY <1>2
  <2> QED BY <1>2, <1>3, <2>1, CutAndJoin
<1>5. PICK n \in Nat, m \in Nat : n = sent /\ m = n + 1 /\ sent' = m
  BY PiecesAreNat
<1>6. Message = Pieces(0, m) /\ Len(Message) = m
  <2>1. <<>> \o <<>> = <<>> /\ <<>> \o held = held
    BY PiecesAreNat, EmptySeq, ConcatEmptySeq
  <2>2. held = Pieces(0, n)
    BY <1>1, <1>5, <2>1 DEF InOrder, Skipped
  <2>3. 0 \in Nat /\ 0 <= n /\ 0 <= m /\ m - 0 = m
    BY <1>5
  <2>4. Append(held, m) = Pieces(0, m)
    <3>1. PICK h \in Seq(Nat) : h = held
      BY PiecesAreNat
    <3>2. Append(h, m) = Pieces(0, m)
      <4>1. 0 \in Nat /\ 0 <= n /\ m = n + 1 /\ h = Pieces(0, n)
        BY <1>5, <2>2, <2>3, <3>1
      <4> QED BY <4>1, NextPiece, Zenon
    <3> QED BY <3>1, <3>2
  <2>5. Len(Pieces(0, m)) = m - 0
    BY <2>3, PiecesSeq
  <2> QED BY <1>5, <2>3, <2>4, <2>5 DEF Message
<1>7. HeaderPieces <= m
  BY <1>2, <1>5, <1>6
<1>8. rest = Pieces(HeaderPieces, m)
  BY <1>2, <1>3, <1>5, <1>6, <1>7, AfterHeader
<1>9. StartRelay(p, rest)
  BY <1>3
<1>10. /\ wrote' \in Seq(1..MaxPieces) /\ pending' \in Seq(1..MaxPieces)
       /\ wrote' \o pending' = rest
  <2>1. <<>> \o rest = rest /\ <<>> \o <<>> = <<>>
    BY <1>4, EmptySeq, ConcatEmptySeq
  <2>2. CASE p = "TCP"
    BY <1>1, <1>4, <1>9, <2>1, <2>2 DEF StartRelay, TypeOK
  <2>3. CASE p = "UDP"
    <3>1. SendDatagrams(rest)
      BY <1>9, <2>3 DEF StartRelay
    <3>2. wrote' \o pending' = (wrote \o pending) \o rest
      BY <1>4, <3>1, PiecesAreNat, DatagramsJoin
    <3>3. PICK a \in Seq(1..MaxPieces), b \in Seq(1..MaxPieces) :
            wrote' = wrote \o a /\ pending' = b
      BY <1>4, <3>1, DatagramsSplit DEF TypeOK
    <3>4. wrote \o a \in Seq(1..MaxPieces)
      BY ConcatProperties DEF TypeOK
    <3> QED BY <1>1, <2>1, <3>2, <3>3, <3>4
  <2> QED BY <2>2, <2>3
<1>11. /\ relay' = p /\ conn' = "active" /\ record' = "live"
       /\ target' \in {"connecting", "open"} /\ (p = "UDP" => target' = "open")
       /\ (p = "TCP" => target' = "connecting")
       /\ UNCHANGED <<stopped, owed, flowing, paused, rx>> /\ full' \in {full, TRUE}
  BY <1>9 DEF StartRelay, SendDatagrams
<1>12. TypeOK'
  <2>1. <<>> \in Seq(1..MaxPieces) /\ sent' \in 0..MaxPieces
    BY MessageSeq, EmptySeq
  <2> QED BY <1>10, <1>11, <2>1 DEF TypeOK
<1>13. Live'
  <2>1. BeforeHeader'
    BY <1>11 DEF BeforeHeader
  <2>2. AfterTheHeader'
    BY <1>5, <1>7, <1>11 DEF AfterTheHeader
  <2>3. Waits'
    <3>1. stopped' = stopped /\ owed' = owed /\ flowing' = flowing /\ paused' = paused
      BY <1>11
    <3>2. full => full'
      BY <1>11, Zenon
    <3> QED BY <1>1, <3>1, <3>2, Zenon DEF Live, Waits
  <2> QED BY <2>1, <2>2, <2>3 DEF Live
<1>14. InOrder'
  <2>1. rest \o <<>> = rest
    BY <1>4, ConcatEmptySeq
  <2> QED BY <1>5, <1>8, <1>10, <1>11, <2>1 DEF InOrder, Skipped
<1> QED BY <1>12, <1>13, <1>14 DEF TunnelInv, DeadIsReaped

LEMMA FrameTunnel ==
  ASSUME TypeOK, TunnelInv, NEW fin \in BOOLEAN, Frame(fin)
  PROVE  TypeOK' /\ TunnelInv'
<1>1. ~dead /\ sent < MaxPieces /\ sent' = sent + 1 /\ Live
  BY DEF Frame, Reads, TunnelInv
<1>2. burst' \in BOOLEAN
  <2>1. dead' \in BOOLEAN => (~dead') \in BOOLEAN
    OBVIOUS
  <2> QED BY <2>1 DEF Frame
<1>3. CASE ~fin
  <2>1. /\ open' = TRUE /\ held' = Message
        /\ UNCHANGED <<dead, relayVars, upVars, downVars>>
    BY <1>3 DEF Frame, Message
  <2> QED BY <1>1, <1>2, <2>1, HoldTunnel
<1>4. CASE fin
  <2>1. Frame(TRUE)
    BY <1>4
  <2>2. open' = FALSE
    BY <1>1, <2>1, FinalFrame
  <2>3. CASE conn # "none" /\ RelayWrite(Message) /\ held' = <<>> /\ UNCHANGED dead
    BY <1>1, <1>2, <2>2, <2>3, RelayTunnel
  <2>4. CASE /\ conn = "none" /\ held' = Message
             /\ UNCHANGED <<dead, relayVars, upVars, downVars>>
    BY <1>1, <1>2, <2>2, <2>4, HoldTunnel
  <2>5. CASE /\ conn = "none" /\ Len(Message) >= HeaderPieces
             /\ \E p \in {"TCP", "UDP"} :
                  StartRelay(p, SubSeq(Message, HeaderPieces + 1, Len(Message)))
             /\ held' = <<>> /\ UNCHANGED dead
    BY <1>1, <1>2, <2>2, <2>5, StartTunnel
  <2>6. CASE Destroy /\ UNCHANGED <<wrote, stopped, owed, flowing, full, rx>>
    <3>1. sent' \in 0..MaxPieces
      BY <1>1, MessageSeq
    <3> QED BY <1>1, <2>2, <2>6, <3>1, DestroyTunnel
  <2> QED BY <1>1, <2>1, <2>3, <2>4, <2>5, <2>6, FinalFrame
<1> QED BY <1>3, <1>4

LEMMA PingTunnel == ASSUME TypeOK, TunnelInv, Ping PROVE TypeOK' /\ TunnelInv'
<1> USE DEF Ping, Reads, wsVars, relayVars, upVars
<1>1. ~dead /\ Live /\ InOrder
  BY DEF TunnelInv
<1>2. TypeOK'
  <2>1. full' \in BOOLEAN
    BY DEF TypeOK
  <2> QED BY <2>1 DEF TypeOK
<1>3. Live'
  <2>1. full => full'
    BY Zenon
  <2> QED BY <1>1, <2>1 DEF Live, BeforeHeader, AfterTheHeader, Waits
<1>4. InOrder' /\ ~dead'
  BY <1>1, SameOrder
<1> QED BY <1>2, <1>3, <1>4 DEF TunnelInv, DeadIsReaped

(* What was held while connecting goes out as it was held. *)
LEMMA ConnectedTunnel == ASSUME TypeOK, TunnelInv, Connected PROVE TypeOK' /\ TunnelInv'
<1>1. relay = "TCP" /\ target = "connecting" /\ target' = "open" /\ burst' = FALSE
  BY DEF Connected
<1>2. UNCHANGED <<dead, sent, open, held, relay, conn, record, flowing, paused, full, rx>>
  BY DEF Connected, wsVars, downVars
<1>3. ~dead /\ Live /\ InOrder
  BY <1>1 DEF TunnelInv, DeadIsReaped
<1>4. /\ pending' = <<>> /\ wrote' = wrote \o pending
      /\ stopped' \in BOOLEAN /\ owed' \in BOOLEAN
      /\ (stopped' => stopped \/ owed') /\ (owed => owed')
  <2>1. CASE pending = <<>>
    <3>1. wrote \o <<>> = wrote
      BY PiecesAreNat, ConcatEmptySeq
    <3> QED BY <2>1, <3>1 DEF Connected, Flush, upVars, TypeOK
  <2>2. CASE pending # <<>>
    BY <2>2 DEF Connected, Flush, TargetWrite, TypeOK
  <2> QED BY <2>1, <2>2
<1>5. TypeOK'
  <2>1. wrote \o pending \in Seq(1..MaxPieces) /\ <<>> \in Seq(1..MaxPieces)
    BY ConcatProperties, EmptySeq DEF TypeOK
  <2> QED BY <1>1, <1>2, <1>4, <2>1 DEF TypeOK
<1>6. Live'
  BY <1>1, <1>2, <1>3, <1>4 DEF Live, BeforeHeader, AfterTheHeader, Waits
<1>7. InOrder'
  <2>1. (wrote \o pending) \o <<>> = wrote \o pending
    BY PiecesAreNat, ConcatProperties, ConcatEmptySeq
  <2> QED BY <1>2, <1>3, <1>4, <2>1 DEF InOrder, Skipped
<1> QED BY <1>2, <1>3, <1>5, <1>6, <1>7 DEF TunnelInv, DeadIsReaped

LEMMA TargetDrainTunnel == ASSUME TypeOK, TunnelInv, TargetDrain PROVE TypeOK' /\ TunnelInv'
<1> USE DEF TargetDrain, Resume, wsVars, relayVars, downVars
<1>1. ~dead /\ Live /\ InOrder
  BY DEF TunnelInv, DeadIsReaped
<1>2. TypeOK'
  BY DEF TypeOK
<1>3. Live'
  BY <1>1 DEF Live, BeforeHeader, AfterTheHeader, Waits
<1>4. InOrder' /\ ~dead'
  BY <1>1, SameOrder
<1> QED BY <1>2, <1>3, <1>4 DEF TunnelInv, DeadIsReaped

LEMMA TargetDataTunnel ==
  ASSUME TypeOK, TunnelInv, NEW accepted \in BOOLEAN, TargetData(accepted)
  PROVE  TypeOK' /\ TunnelInv'
<1> USE DEF TargetData, wsVars, relayVars, upVars
<1>1. ~dead /\ Live /\ InOrder
  BY DEF TunnelInv, DeadIsReaped
<1>2. TypeOK'
  <2>1. rx' \in 0..MaxReplies
    BY TunnelAssumption DEF TypeOK
  <2> QED BY <2>1 DEF TypeOK
<1>3. Live'
  <2>1. Waits'
    BY <1>1 DEF Live, Waits, TypeOK
  <2> QED BY <1>1, <2>1 DEF Live, BeforeHeader, AfterTheHeader
<1>4. InOrder' /\ ~dead'
  BY <1>1, SameOrder
<1> QED BY <1>2, <1>3, <1>4 DEF TunnelInv, DeadIsReaped

LEMMA ClientDrainTunnel == ASSUME TypeOK, TunnelInv, ClientDrain PROVE TypeOK' /\ TunnelInv'
<1> USE DEF ClientDrain, ResumeSource, wsVars, relayVars, upVars
<1>1. ~dead /\ Live /\ InOrder
  BY DEF TunnelInv
<1>2. TypeOK'
  BY DEF TypeOK
<1>3. Live'
  <2>1. Waits'
    BY <1>1 DEF Live, Waits, TypeOK
  <2> QED BY <1>1, <2>1 DEF Live, BeforeHeader, AfterTheHeader
<1>4. InOrder' /\ ~dead'
  BY <1>1, SameOrder
<1> QED BY <1>2, <1>3, <1>4 DEF TunnelInv, DeadIsReaped

LEMMA NextTunnel == TypeOK /\ TunnelInv /\ [Next]_vars => TypeOK' /\ TunnelInv'
<1> SUFFICES ASSUME TypeOK, TunnelInv, [Next]_vars PROVE TypeOK' /\ TunnelInv'
  OBVIOUS
<1>1. ASSUME NEW b \in BOOLEAN, Frame(b) PROVE TypeOK' /\ TunnelInv'
  BY <1>1, FrameTunnel
<1>2. ASSUME NEW b \in BOOLEAN, TargetData(b) PROVE TypeOK' /\ TunnelInv'
  BY <1>2, TargetDataTunnel
<1>3. CASE ClientEnds
  <2>1. sent' \in 0..MaxPieces /\ open' \in BOOLEAN
    BY <1>3 DEF ClientEnds, TypeOK
  <2> QED BY <1>3, <2>1, DestroyTunnel DEF ClientEnds
<1>4. CASE TargetEnds
  <2>1. sent' \in 0..MaxPieces /\ open' \in BOOLEAN
    BY <1>4 DEF TargetEnds, TypeOK
  <2> QED BY <1>4, <2>1, DestroyTunnel DEF TargetEnds
<1>5. CASE UNCHANGED vars
  <2>1. InOrder => InOrder'
    BY <1>5, SameOrder DEF vars, wsVars, relayVars, upVars, downVars
  <2>2. TypeOK' /\ DeadIsReaped' /\ (Live => Live') /\ dead' = dead
    BY <1>5 DEF vars, wsVars, relayVars, upVars, downVars, TypeOK, TunnelInv, DeadIsReaped,
                Live, BeforeHeader, AfterTheHeader, Waits
  <2> QED BY <2>1, <2>2 DEF TunnelInv
<1> QED BY <1>1, <1>2, <1>3, <1>4, <1>5, PingTunnel, ConnectedTunnel, TargetDrainTunnel,
           ClientDrainTunnel DEF Next

LEMMA TunnelInvHolds == Spec => [](TypeOK /\ TunnelInv)
BY InitTunnel, NextTunnel, PTL DEF Spec

LEMMA TunnelInvImplies ==
  TypeOK /\ TunnelInv => UplinkInOrder /\ DeadIsReaped /\ NoLostWakeup
<1> SUFFICES ASSUME TypeOK, TunnelInv PROVE UplinkInOrder /\ DeadIsReaped /\ NoLostWakeup
  OBVIOUS
<1>1. UplinkInOrder
  BY DEF TunnelInv, InOrder, Skipped, Pieces, UplinkInOrder
<1>2. NoLostWakeup
  BY DEF TunnelInv, Live, Waits, NoLostWakeup
<1> QED BY <1>1, <1>2 DEF TunnelInv

(* Every variable of a tunnel stays in its range, whatever the client sends. *)
THEOREM TunnelTypeCorrect == Spec => []TypeOK
BY TunnelInvHolds, PTL

(* For any lengths of header and datagram: however the client cuts its       *)
(* stream into frames, fragments and messages, and whenever the target       *)
(* connects, the target is given every piece after the header, in order and  *)
(* once, and what is not written yet is held (onMessage, relay.write).       *)
THEOREM TunnelUplinkOrdered == Spec => []UplinkInOrder
BY TunnelInvHolds, TunnelInvImplies, PTL

(* A session that destroy() has been called on, from whichever side, counts  *)
(* no connection, holds no bytes, and has closed its relay and its target.   *)
THEOREM TunnelDeadReaped == Spec => []DeadIsReaped
BY TunnelInvHolds, TunnelInvImplies, PTL

(* A client or a target that is not read is never forgotten: the socket it   *)
(* waits for is open and owes the 'drain' that resumes it.                   *)
THEOREM TunnelWakeupNotLost == Spec => []NoLostWakeup
BY TunnelInvHolds, TunnelInvImplies, PTL

=============================================================================
