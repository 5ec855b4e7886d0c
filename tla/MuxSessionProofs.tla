--------------------------- MODULE MuxSessionProofs ---------------------------
(* Theorems about MuxSession, for any number of ids, entries and payloads.   *)
EXTENDS MuxSession, FiniteSetTheorems, SequenceTheorems, TLAPS

(***************************************************************************)
(* Type correctness.                                                       *)
(***************************************************************************)

(* A set of entries is finite and has a size. *)
LEMMA EntriesFinite ==
  ASSUME NEW E \in SUBSET Entries
  PROVE  IsFiniteSet(E) /\ Cardinality(E) \in Nat
BY MuxAssumption, FS_Subset, FS_CardinalityType

LEMMA EndStreamsType ==
  ASSUME TypeOK, NEW S, NEW sockets \in [Entries -> {"unused", "connecting",
                                           "open", "failed", "closed"}],
         EndStreams(S, sockets)
  PROVE  /\ tcp' \in [Ids -> Entries \cup {None}]
         /\ udp' \in [Ids -> Entries \cup {None}]
         /\ sock' \in [Entries -> {"unused", "connecting", "open", "failed", "closed"}]
         /\ listening' \in [Entries -> BOOLEAN]
         /\ record' \in [Entries -> {"none", "live", "ended"}]
         /\ stats' \in [active : Int, tcp : Int, udp : Int]
         /\ pending' \in [Entries -> Seq(Nat)]
<1> DEFINE E == Under(S)
           L == {e \in E : record[e] = "live"}
           T == {e \in L : proto[e] = "TCP"}
<1>1. E \in SUBSET Entries /\ L \in SUBSET Entries /\ T \in SUBSET Entries
      /\ (L \ T) \in SUBSET Entries
  BY DEF Under
<1>2. Cardinality(L) \in Nat /\ Cardinality(T) \in Nat /\ Cardinality(L \ T) \in Nat
  BY <1>1, EntriesFinite
<1>3. stats' = [active |-> stats.active - Cardinality(L),
                tcp |-> stats.tcp - Cardinality(T),
                udp |-> stats.udp - Cardinality(L \ T)]
      /\ record' = [e \in Entries |-> IF e \in E THEN "ended" ELSE record[e]]
  BY DEF EndStreams, EndRecords
<1>4. stats' \in [active : Int, tcp : Int, udp : Int]
  <2> HIDE DEF E, L, T
  <2> QED BY <1>2, <1>3 DEF TypeOK
<1>5. <<>> \in Seq(Nat)
  OBVIOUS
<1> QED BY <1>3, <1>4, <1>5 DEF TypeOK, EndStreams, EndSockets, Unregister, ClearPending

LEMMA StartStreamType ==
  ASSUME TypeOK, NEW e \in Entries, NEW id \in Ids, NEW p \in {"TCP", "UDP"},
         StartStream(e, id, p)
  PROVE  /\ key' \in [Entries -> Ids \cup {None}]
         /\ proto' \in [Entries -> {"TCP", "UDP"}]
         /\ sock' \in [Entries -> {"unused", "connecting", "open", "failed", "closed"}]
         /\ listening' \in [Entries -> BOOLEAN]
         /\ record' \in [Entries -> {"none", "live", "ended"}]
         /\ stats' \in [active : Int, tcp : Int, udp : Int]
BY DEF TypeOK, StartStream

LEMMA SendEndType ==
  ASSUME TypeOK, NEW id, NEW viewed \in [Ids -> {"closed", "open", "told"}],
         SendEnd(id, viewed)
  PROVE  full' \in BOOLEAN /\ view' \in [Ids -> {"closed", "open", "told"}]
BY DEF TypeOK, SendEnd, ClientWrite

LEMMA TcpPayloadType ==
  ASSUME TypeOK, NEW e \in Entries, TcpPayload(e)
  PROVE  /\ sent' \in [Entries -> Nat] /\ tx' \in [Entries -> Nat]
         /\ pending' \in [Entries -> Seq(Nat)] /\ wrote' \in [Entries -> Seq(Nat)]
<1>1. sent[e] + 1 \in Nat
  BY DEF TypeOK
<1>2. Append(pending[e], sent[e] + 1) \in Seq(Nat)
      /\ Append(wrote[e], sent[e] + 1) \in Seq(Nat)
  BY <1>1 DEF TypeOK
<1>3. sent' \in [Entries -> Nat] /\ tx' \in [Entries -> Nat]
  BY <1>1 DEF TypeOK, TcpPayload
<1>4. CASE sock[e] = "connecting"
  <2>1. pending' = [pending EXCEPT ![e] = Append(pending[e], sent[e] + 1)] /\ wrote' = wrote
    BY <1>4 DEF TcpPayload
  <2> QED BY <1>2, <1>3, <2>1 DEF TypeOK
<1>5. CASE sock[e] # "connecting"
  <2>1. wrote' = [wrote EXCEPT ![e] = Append(wrote[e], sent[e] + 1)] /\ pending' = pending
    BY <1>5 DEF TcpPayload
  <2> QED BY <1>2, <1>3, <2>1 DEF TypeOK
<1> QED BY <1>4, <1>5

LEMMA UdpPayloadType ==
  ASSUME TypeOK, NEW e \in Entries, UdpPayload(e)
  PROVE  /\ sent' \in [Entries -> Nat] /\ tx' \in [Entries -> Nat]
         /\ pending' \in [Entries -> Seq(Nat)] /\ wrote' \in [Entries -> Seq(Nat)]
BY DEF TypeOK, UdpPayload

LEMMA InitType == Init => TypeOK
<1> SUFFICES ASSUME Init PROVE TypeOK OBVIOUS
<1>1. <<>> \in Seq(Nat) OBVIOUS
<1>2. pending \in [Entries -> Seq(Nat)] /\ wrote \in [Entries -> Seq(Nat)]
  BY <1>1 DEF Init
<1>3. stats \in [active : Int, tcp : Int, udp : Int]
  BY DEF Init
<1>4. /\ dead \in BOOLEAN /\ full \in BOOLEAN /\ paused \subseteq Entries
      /\ tcp \in [Ids -> Entries \cup {None}] /\ udp \in [Ids -> Entries \cup {None}]
      /\ key \in [Entries -> Ids \cup {None}] /\ proto \in [Entries -> {"TCP", "UDP"}]
      /\ kind \in [Ids -> {"none", "TCP", "UDP"}]
      /\ view \in [Ids -> {"closed", "open", "told"}]
  BY DEF Init
<1>5. /\ sock \in [Entries -> {"unused", "connecting", "open", "failed", "closed"}]
      /\ listening \in [Entries -> BOOLEAN] /\ flowing \in [Entries -> BOOLEAN]
      /\ record \in [Entries -> {"none", "live", "ended"}]
      /\ tx \in [Entries -> Nat] /\ rx \in [Entries -> Nat] /\ sent \in [Entries -> Nat]
  BY DEF Init
<1> QED BY <1>2, <1>3, <1>4, <1>5 DEF TypeOK

LEMMA OpeningFrameType ==
  ASSUME TypeOK, NEW id \in Ids, NEW e \in Entries, NEW n \in {0, 1}
  PROVE  /\ NewTcp(id, e, n) => TypeOK'
         /\ NewUdp(id, e, n) => TypeOK'
         /\ KeepOpensUdp(id, e, n) => TypeOK'
<1>1. NewTcp(id, e, n) => TypeOK'
  <2> SUFFICES ASSUME NewTcp(id, e, n) PROVE TypeOK' OBVIOUS
  <2>1. StartStream(e, id, "TCP") BY DEF NewTcp
  <2>2. <<1>> \in Seq(Nat) /\ <<>> \in Seq(Nat) OBVIOUS
  <2>3. (IF n = 1 THEN <<1>> ELSE <<>>) \in Seq(Nat) BY <2>2
  <2>4. pending' \in [Entries -> Seq(Nat)]
    BY <2>3 DEF NewTcp, TypeOK
  <2>5. /\ tcp' \in [Ids -> Entries \cup {None}]
        /\ sent' \in [Entries -> Nat]
        /\ kind' \in [Ids -> {"none", "TCP", "UDP"}]
        /\ view' \in [Ids -> {"closed", "open", "told"}]
    BY DEF NewTcp, TypeOK, Opens
  <2>6. UNCHANGED <<dead, udp, wrote, tx, flowVars>> BY DEF NewTcp
  <2> QED BY <2>1, <2>4, <2>5, <2>6, StartStreamType DEF TypeOK, flowVars
<1>2. NewUdp(id, e, n) => TypeOK'
  <2> SUFFICES ASSUME NewUdp(id, e, n) PROVE TypeOK' OBVIOUS
  <2>1. StartStream(e, id, "UDP") BY DEF NewUdp
  <2>2. /\ udp' \in [Ids -> Entries \cup {None}]
        /\ sent' \in [Entries -> Nat] /\ tx' \in [Entries -> Nat]
        /\ kind' \in [Ids -> {"none", "TCP", "UDP"}]
        /\ view' \in [Ids -> {"closed", "open", "told"}]
    BY DEF NewUdp, TypeOK, Opens
  <2>3. UNCHANGED <<dead, tcp, pending, wrote, flowVars>> BY DEF NewUdp
  <2> QED BY <2>1, <2>2, <2>3, StartStreamType DEF TypeOK, flowVars
<1>3. KeepOpensUdp(id, e, n) => TypeOK'
  <2> SUFFICES ASSUME KeepOpensUdp(id, e, n) PROVE TypeOK' OBVIOUS
  <2>1. StartStream(e, id, "UDP") BY DEF KeepOpensUdp
  <2>2. tcp[id] # None => tcp[id] \in Entries BY DEF TypeOK
  <2>3. /\ sent' \in [Entries -> Nat] /\ tx' \in [Entries -> Nat]
        /\ pending' \in [Entries -> Seq(Nat)] /\ wrote' \in [Entries -> Seq(Nat)]
    <3>1. CASE UNCHANGED uplinkVars BY <3>1 DEF TypeOK, uplinkVars
    <3>2. CASE tcp[id] # None /\ TcpPayload(tcp[id]) BY <3>2, <2>2, TcpPayloadType
    <3>3. CASE UdpPayload(e) BY <3>3, UdpPayloadType
    <3> QED BY <3>1, <3>2, <3>3 DEF KeepOpensUdp
  <2> QED BY <2>1, <2>3, StartStreamType DEF TypeOK, KeepOpensUdp, flowVars, clientVars
<1> QED BY <1>1, <1>2, <1>3

LEMMA FrameType ==
  ASSUME TypeOK, NEW id \in Ids
  PROVE  /\ \A p \in {"TCP", "UDP"} : NewBlocked(id, p) => TypeOK'
         /\ KeepData(id) => TypeOK'
         /\ KeepBlocked(id) => TypeOK'
         /\ End(id) => TypeOK'
<1>1. ASSUME NEW p \in {"TCP", "UDP"}, NewBlocked(id, p) PROVE TypeOK'
  <2>1. [view EXCEPT ![id] = "open"] \in [Ids -> {"closed", "open", "told"}]
    BY DEF TypeOK
  <2>2. full' \in BOOLEAN /\ view' \in [Ids -> {"closed", "open", "told"}]
    BY <1>1, <2>1, SendEndType DEF NewBlocked
  <2> QED BY <1>1, <2>2 DEF TypeOK, NewBlocked, Opens, tableVars, entryVars, uplinkVars
<1>2. KeepData(id) => TypeOK'
  <2> SUFFICES ASSUME KeepData(id) PROVE TypeOK' OBVIOUS
  <2>1. /\ sent' \in [Entries -> Nat] /\ tx' \in [Entries -> Nat]
        /\ pending' \in [Entries -> Seq(Nat)] /\ wrote' \in [Entries -> Seq(Nat)]
    <3>1. CASE tcp[id] # None /\ TcpPayload(tcp[id])
      BY <3>1, TcpPayloadType DEF TypeOK
    <3>2. CASE udp[id] # None /\ UdpPayload(udp[id])
      BY <3>2, UdpPayloadType DEF TypeOK
    <3> QED BY <3>1, <3>2 DEF KeepData, Payload
  <2> QED BY <2>1 DEF TypeOK, KeepData, tableVars, entryVars, flowVars, clientVars
<1>3. KeepBlocked(id) => TypeOK'
  <2> SUFFICES ASSUME KeepBlocked(id) PROVE TypeOK' OBVIOUS
  <2>1. full' \in BOOLEAN /\ view' \in [Ids -> {"closed", "open", "told"}]
    BY SendEndType DEF KeepBlocked, TypeOK
  <2> QED BY <2>1 DEF TypeOK, KeepBlocked, tableVars, entryVars, uplinkVars
<1>4. End(id) => TypeOK'
  <2> SUFFICES ASSUME End(id) PROVE TypeOK' OBVIOUS
  <2>1. EndStreams({id}, sock) BY DEF End
  <2> QED BY <2>1, EndStreamsType DEF TypeOK, End, flowVars
<1> QED BY <1>1, <1>2, <1>3, <1>4

LEMMA SocketEventType ==
  ASSUME TypeOK, NEW e \in Entries
  PROVE  /\ Connected(e) => TypeOK'
         /\ SocketError(e) => TypeOK'
         /\ SocketClose(e) => TypeOK'
         /\ \A accepted \in BOOLEAN : TcpReply(e, accepted) => TypeOK'
         /\ \A accepted \in BOOLEAN : UdpReply(e, accepted) => TypeOK'
<1>1. Connected(e) => TypeOK'
  <2> SUFFICES ASSUME Connected(e) PROVE TypeOK' OBVIOUS
  <2>1. /\ wrote[e] \o pending[e] \in Seq(Nat) /\ <<>> \in Seq(Nat)
        /\ Len(pending[e]) \in Nat
    BY DEF TypeOK
  <2> QED BY <2>1 DEF TypeOK, Connected, Flush, tableVars, flowVars, clientVars
<1>2. SocketError(e) => TypeOK'
  <2> SUFFICES ASSUME SocketError(e) PROVE TypeOK' OBVIOUS
  <2> DEFINE left == [sock EXCEPT ![e] = IF proto[e] = "TCP" THEN "failed" ELSE @]
  <2>1. left \in [Entries -> {"unused", "connecting", "open", "failed", "closed"}]
    BY DEF TypeOK
  <2>2. EndStreams({key[e]}, left) BY DEF SocketError
  <2>3. full' \in BOOLEAN /\ view' \in [Ids -> {"closed", "open", "told"}]
    BY SendEndType DEF SocketError, TypeOK
  <2> HIDE DEF left
  <2> QED BY <2>1, <2>2, <2>3, EndStreamsType DEF TypeOK, SocketError
<1>3. SocketClose(e) => TypeOK'
  <2> SUFFICES ASSUME SocketClose(e) PROVE TypeOK' OBVIOUS
  <2> DEFINE left == [sock EXCEPT ![e] = "closed"]
  <2>1. left \in [Entries -> {"unused", "connecting", "open", "failed", "closed"}]
    BY DEF TypeOK
  <2>2. CASE dead
    BY <2>1, <2>2 DEF TypeOK, SocketClose, tableVars
  <2>3. CASE ~dead
    <3>1. EndStreams({key[e]}, left) BY <2>3 DEF SocketClose
    <3>2. full' \in BOOLEAN /\ view' \in [Ids -> {"closed", "open", "told"}]
      BY <2>3, SendEndType DEF SocketClose, TypeOK
    <3> HIDE DEF left
    <3> QED BY <2>1, <3>1, <3>2, EndStreamsType DEF TypeOK, SocketClose
  <2> QED BY <2>2, <2>3
<1>4. ASSUME NEW accepted \in BOOLEAN, TcpReply(e, accepted) PROVE TypeOK'
  <2>1. rx' \in [Entries -> Nat] /\ full' \in BOOLEAN
    BY <1>4 DEF TypeOK, TcpReply, Receives, ClientWrite
  <2>2. flowing' \in [Entries -> BOOLEAN] /\ paused' \subseteq Entries
    <3>1. UNCHANGED <<flowing, paused>> \/ PauseSource(e) BY <1>4, Zenon DEF TcpReply
    <3>2. flowing \in [Entries -> BOOLEAN] /\ paused \subseteq Entries
      BY Zenon DEF TypeOK
    <3> QED BY <3>1, <3>2 DEF PauseSource
  <2> QED BY <1>4, <2>1, <2>2
          DEF TypeOK, TcpReply, tableVars, entryVars, uplinkVars, clientVars
<1>5. ASSUME NEW accepted \in BOOLEAN, UdpReply(e, accepted) PROVE TypeOK'
  BY <1>5 DEF TypeOK, UdpReply, Receives, ClientWrite, tableVars, entryVars, uplinkVars,
         clientVars
<1> QED BY <1>1, <1>2, <1>3, <1>4, <1>5

LEMMA SessionEventType ==
  ASSUME TypeOK
  PROVE  /\ ClientDrain => TypeOK'
         /\ Destroy => TypeOK'
<1>1. ClientDrain => TypeOK'
  <2> SUFFICES ASSUME ClientDrain PROVE TypeOK' OBVIOUS
  <2>1. flowing' = [e \in Entries |-> e \in paused \/ flowing[e]]
    BY DEF ClientDrain, ResumeSources
  <2>2. \A e \in Entries : (e \in paused \/ flowing[e]) \in BOOLEAN
    BY Zenon
  <2>3. flowing' \in [Entries -> BOOLEAN]
    BY <2>1, <2>2, Zenon
  <2> QED BY <2>3 DEF TypeOK, ClientDrain, ResumeSources, tableVars, entryVars,
                      uplinkVars, clientVars
<1>2. Destroy => TypeOK'
  <2> SUFFICES ASSUME Destroy PROVE TypeOK' OBVIOUS
  <2>1. EndStreams(Ids, sock) BY DEF Destroy
  <2>2. sock \in [Entries -> {"unused", "connecting", "open", "failed", "closed"}]
    BY DEF TypeOK
  <2>3. /\ dead' = TRUE /\ paused' = {} /\ full' = FALSE
        /\ UNCHANGED <<key, proto, wrote, tx, sent, rx, flowing, clientVars>>
    BY DEF Destroy
  <2>4. /\ tcp' \in [Ids -> Entries \cup {None}]
        /\ udp' \in [Ids -> Entries \cup {None}]
        /\ sock' \in [Entries -> {"unused", "connecting", "open", "failed", "closed"}]
        /\ listening' \in [Entries -> BOOLEAN]
        /\ record' \in [Entries -> {"none", "live", "ended"}]
        /\ stats' \in [active : Int, tcp : Int, udp : Int]
        /\ pending' \in [Entries -> Seq(Nat)]
    BY <2>1, <2>2, EndStreamsType
  <2> QED BY <2>3, <2>4 DEF TypeOK, clientVars
<1> QED BY <1>1, <1>2

LEMMA NextType == TypeOK /\ [Next]_vars => TypeOK'
<1> SUFFICES ASSUME TypeOK, [Next]_vars PROVE TypeOK' OBVIOUS
<1>1. CASE UNCHANGED vars
  BY <1>1 DEF TypeOK, vars, tableVars, entryVars, uplinkVars, flowVars, clientVars
<1>2. CASE Next
  <2>1. CASE \E id \in Ids, e \in Entries, n \in {0, 1} :
               NewTcp(id, e, n) \/ NewUdp(id, e, n) \/ KeepOpensUdp(id, e, n)
    BY <2>1, OpeningFrameType
  <2>2. CASE \E id \in Ids : \/ \E p \in {"TCP", "UDP"} : NewBlocked(id, p)
                             \/ KeepData(id) \/ KeepBlocked(id) \/ End(id)
    BY <2>2, FrameType
  <2>3. CASE \E e \in Entries :
               \/ Connected(e) \/ SocketError(e) \/ SocketClose(e)
               \/ \E accepted \in BOOLEAN : TcpReply(e, accepted) \/ UdpReply(e, accepted)
    BY <2>3, SocketEventType
  <2>4. CASE ClientDrain \/ Destroy
    BY <2>4, SessionEventType
  <2> QED BY <1>2, <2>1, <2>2, <2>3, <2>4 DEF Next
<1> QED BY <1>1, <1>2

(* Every behaviour of the multiplexer keeps its variables in their ranges. *)
THEOREM TypeCorrect == Spec => []TypeOK
BY InitType, NextType, PTL DEF Spec

(***************************************************************************)
(* The tables and the entries agree, whatever the client sends.  Inductive: *)
(* TablesMatchEntries says nothing of sockets still dialling, of unused     *)
(* entries and of a dead session, and each of the three is needed to show   *)
(* that the event of one entry cannot break what holds for another.         *)
(***************************************************************************)

TableEntry(e, i, p) ==
  /\ key[e] = i /\ proto[e] = p /\ record[e] = "live"
  /\ sock[e] \in {"connecting", "open"}

Structure ==
  /\ \A i \in Ids : tcp[i] # None => TableEntry(tcp[i], i, "TCP")
  /\ \A i \in Ids : udp[i] # None => TableEntry(udp[i], i, "UDP")
  /\ \A e \in Entries :
       /\ record[e] = "none" <=> key[e] = None
       /\ listening[e] <=> record[e] = "live"
       /\ record[e] = "ended" => sock[e] = "closed"
  /\ dead => \A i \in Ids : tcp[i] = None /\ udp[i] = None

LEMMA StructureImpliesTables == TypeOK /\ Structure => TablesMatchEntries
BY MuxAssumption DEF TypeOK, Structure, TableEntry, TablesMatchEntries, Registered

structureVars == <<dead, tcp, udp, key, proto, sock, listening, record>>

LEMMA StructureStutter == Structure /\ UNCHANGED structureVars => Structure'
BY DEF Structure, TableEntry, structureVars

(* What endStream leaves, entry by entry. *)
LEMMA EndStreamsEffect ==
  ASSUME TypeOK, NEW S, NEW sockets, EndStreams(S, sockets)
  PROVE  /\ \A i \in Ids : /\ tcp'[i] = IF i \in S THEN None ELSE tcp[i]
                           /\ udp'[i] = IF i \in S THEN None ELSE udp[i]
         /\ \A e \in Entries :
              IF e \in Under(S)
              THEN record'[e] = "ended" /\ ~listening'[e] /\ sock'[e] = "closed"
                   /\ pending'[e] = <<>>
              ELSE record'[e] = record[e] /\ (listening'[e] <=> listening[e])
                   /\ sock'[e] = sockets[e] /\ pending'[e] = pending[e]
BY DEF EndStreams, Unregister, EndRecords, EndSockets, ClearPending

(* An entry under one of the ids is the one its own id names, and is live. *)
LEMMA UnderKey ==
  ASSUME TypeOK, Structure, NEW S \in SUBSET Ids, NEW e \in Entries, e \in Under(S)
  PROVE  /\ key[e] \in S /\ record[e] = "live"
         /\ tcp[key[e]] = e \/ udp[key[e]] = e
<1>1. PICK i \in S : tcp[i] = e \/ udp[i] = e
  BY DEF Under
<1>2. i \in Ids /\ e # None
  BY MuxAssumption
<1>3. CASE tcp[i] = e
  <2>1. TableEntry(e, i, "TCP") BY <1>2, <1>3 DEF Structure
  <2> QED BY <1>3, <2>1 DEF TableEntry
<1>4. CASE udp[i] = e
  <2>1. TableEntry(e, i, "UDP") BY <1>2, <1>4 DEF Structure
  <2> QED BY <1>4, <2>1 DEF TableEntry
<1> QED BY <1>1, <1>3, <1>4

LEMMA EndStreamsStructure ==
  ASSUME TypeOK, Structure, TypeOK', NEW S \in SUBSET Ids, NEW sockets,
         EndStreams(S, sockets),
         \A e \in Entries : sockets[e] # sock[e] => listening[e] /\ key[e] \in S,
         key' = key, proto' = proto,
         dead' => S = Ids \/ dead
  PROVE  Structure'
<1>1. ASSUME NEW i \in Ids, tcp'[i] # None PROVE TableEntry(tcp[i], i, "TCP")'
  <2>1. i \notin S /\ tcp'[i] = tcp[i] /\ tcp[i] \in Entries
    <3>1. tcp'[i] = IF i \in S THEN None ELSE tcp[i] BY EndStreamsEffect
    <3> QED BY <1>1, <3>1 DEF TypeOK
  <2>2. TableEntry(tcp[i], i, "TCP")
    BY <1>1, <2>1 DEF Structure
  <2>3. key[tcp[i]] \notin S
    BY <2>1, <2>2 DEF TableEntry
  <2>4. tcp[i] \notin Under(S) /\ sockets[tcp[i]] = sock[tcp[i]]
    BY <2>1, <2>3, UnderKey
  <2> QED BY <2>1, <2>2, <2>3, <2>4, EndStreamsEffect DEF TableEntry
<1>2. ASSUME NEW i \in Ids, udp'[i] # None PROVE TableEntry(udp[i], i, "UDP")'
  <2>1. i \notin S /\ udp'[i] = udp[i] /\ udp[i] \in Entries
    <3>1. udp'[i] = IF i \in S THEN None ELSE udp[i] BY EndStreamsEffect
    <3> QED BY <1>2, <3>1 DEF TypeOK
  <2>2. TableEntry(udp[i], i, "UDP")
    BY <1>2, <2>1 DEF Structure
  <2>3. key[udp[i]] \notin S
    BY <2>1, <2>2 DEF TableEntry
  <2>4. udp[i] \notin Under(S) /\ sockets[udp[i]] = sock[udp[i]]
    BY <2>1, <2>3, UnderKey
  <2> QED BY <2>1, <2>2, <2>3, <2>4, EndStreamsEffect DEF TableEntry
<1>3. ASSUME NEW e \in Entries
      PROVE  /\ record'[e] = "none" <=> key'[e] = None
             /\ listening'[e] <=> record'[e] = "live"
             /\ record'[e] = "ended" => sock'[e] = "closed"
  <2>1. CASE e \in Under(S)
    <3>1. record[e] = "live" /\ key[e] # None
      BY <2>1, UnderKey, MuxAssumption
    <3> QED BY <2>1, <3>1, EndStreamsEffect
  <2>2. CASE e \notin Under(S)
    <3>1. record[e] = "ended" => sockets[e] = sock[e]
      BY DEF Structure
    <3> QED BY <2>2, <3>1, EndStreamsEffect DEF Structure
  <2> QED BY <2>1, <2>2
<1>4. ASSUME dead', NEW i \in Ids PROVE tcp'[i] = None /\ udp'[i] = None
  BY <1>4, EndStreamsEffect DEF Structure
<1> QED BY <1>1, <1>2, <1>3, <1>4 DEF Structure

LEMMA StartStreamStructure ==
  ASSUME TypeOK, Structure, TypeOK', NEW e \in Entries, NEW id \in Ids,
         NEW p \in {"TCP", "UDP"}, StartStream(e, id, p), key[e] = None, ~dead, dead' = dead,
         \/ p = "TCP" /\ tcp' = [tcp EXCEPT ![id] = e] /\ udp' = udp
         \/ p = "UDP" /\ udp' = [udp EXCEPT ![id] = e] /\ tcp' = tcp
  PROVE  Structure'
<1>1. record[e] = "none"
  BY DEF Structure
<1>2. \A x \in Entries : x # e => /\ key'[x] = key[x] /\ proto'[x] = proto[x]
                                  /\ sock'[x] = sock[x] /\ record'[x] = record[x]
                                  /\ listening'[x] = listening[x]
  BY DEF StartStream, TypeOK
<1>3. /\ key'[e] = id /\ proto'[e] = p /\ record'[e] = "live" /\ listening'[e]
      /\ sock'[e] \in {"connecting", "open"}
  BY DEF StartStream, TypeOK
<1>4. ASSUME NEW i \in Ids, tcp'[i] # None PROVE TableEntry(tcp[i], i, "TCP")'
  <2>1. CASE tcp'[i] = e
    <3>1. tcp[i] # e BY <1>1, MuxAssumption DEF Structure, TableEntry
    <3>2. p = "TCP" /\ i = id BY <2>1, <3>1 DEF TypeOK
    <3> QED BY <2>1, <3>2, <1>3 DEF TableEntry
  <2>2. CASE tcp'[i] # e
    <3>1. tcp'[i] = tcp[i] BY <2>2 DEF TypeOK
    <3>2. tcp[i] \in Entries BY <1>4, <3>1 DEF TypeOK
    <3>3. TableEntry(tcp[i], i, "TCP") BY <1>4, <3>1 DEF Structure
    <3> QED BY <2>2, <3>1, <3>2, <3>3, <1>2 DEF TableEntry
  <2> QED BY <2>1, <2>2
<1>5. ASSUME NEW i \in Ids, udp'[i] # None PROVE TableEntry(udp[i], i, "UDP")'
  <2>1. CASE udp'[i] = e
    <3>1. udp[i] # e BY <1>1, MuxAssumption DEF Structure, TableEntry
    <3>2. p = "UDP" /\ i = id BY <2>1, <3>1 DEF TypeOK
    <3> QED BY <2>1, <3>2, <1>3 DEF TableEntry
  <2>2. CASE udp'[i] # e
    <3>1. udp'[i] = udp[i] BY <2>2 DEF TypeOK
    <3>2. udp[i] \in Entries BY <1>5, <3>1 DEF TypeOK
    <3>3. TableEntry(udp[i], i, "UDP") BY <1>5, <3>1 DEF Structure
    <3> QED BY <2>2, <3>1, <3>2, <3>3, <1>2 DEF TableEntry
  <2> QED BY <2>1, <2>2
<1>6. id # None
  BY MuxAssumption
<1> QED BY <1>2, <1>3, <1>4, <1>5, <1>6 DEF Structure

LEMMA InitStructure == Init => Structure
BY MuxAssumption DEF Init, Structure, TableEntry

LEMMA NextStructure == TypeOK /\ Structure /\ [Next]_vars => Structure'
<1> SUFFICES ASSUME TypeOK, Structure, [Next]_vars PROVE Structure' OBVIOUS
<1> USE NextType
<1>1. ASSUME NEW id \in Ids, NEW e \in Entries, NEW n \in {0, 1},
             NewTcp(id, e, n) \/ NewUdp(id, e, n) \/ KeepOpensUdp(id, e, n)
      PROVE Structure'
  <2>1. CASE NewTcp(id, e, n)
    BY <2>1, StartStreamStructure DEF NewTcp, Opens
  <2>2. CASE NewUdp(id, e, n)
    BY <2>2, StartStreamStructure DEF NewUdp, Opens
  <2>3. CASE KeepOpensUdp(id, e, n)
    BY <2>3, StartStreamStructure DEF KeepOpensUdp, Keeps
  <2> QED BY <1>1, <2>1, <2>2, <2>3
<1>2. ASSUME NEW id \in Ids, End(id) PROVE Structure'
  BY <1>2, EndStreamsStructure DEF End, Keeps
<1>3. ASSUME NEW e \in Entries, Connected(e) PROVE Structure'
  <2>1. \A x \in Entries : x # e => sock'[x] = sock[x]
    BY <1>3 DEF Connected, TypeOK
  <2>2. sock[e] = "connecting" /\ sock'[e] = "open"
    BY <1>3 DEF Connected, TypeOK
  <2> QED BY <1>3, <2>1, <2>2 DEF Connected, Structure, TableEntry, tableVars, TypeOK
<1>4. ASSUME NEW e \in Entries, SocketError(e) PROVE Structure'
  <2> DEFINE left == [sock EXCEPT ![e] = IF proto[e] = "TCP" THEN "failed" ELSE @]
  <2>1. key[e] \in Ids /\ listening[e]
    BY <1>4 DEF SocketError, Structure, TypeOK
  <2>2. \A x \in Entries : left[x] # sock[x] => listening[x] /\ key[x] \in {key[e]}
    BY <2>1 DEF TypeOK
  <2>3. EndStreams({key[e]}, left) /\ key' = key /\ proto' = proto /\ dead' = dead
    BY <1>4 DEF SocketError
  <2> HIDE DEF left
  <2> QED BY <2>1, <2>2, <2>3, EndStreamsStructure
<1>5. ASSUME NEW e \in Entries, SocketClose(e) PROVE Structure'
  <2>1. key[e] \in Ids /\ listening[e]
    BY <1>5 DEF SocketClose, Structure, TypeOK
  <2>2. CASE dead
    <3>1. /\ UNCHANGED <<dead, tcp, udp, key, proto, listening, record>>
          /\ sock' = [sock EXCEPT ![e] = "closed"]
      BY <1>5, <2>2 DEF SocketClose, tableVars
    <3>2. \A i \in Ids : tcp'[i] = None /\ udp'[i] = None
      BY <2>2, <3>1 DEF Structure
    <3>3. \A x \in Entries : sock'[x] = IF x = e THEN "closed" ELSE sock[x]
      BY <3>1 DEF TypeOK
    <3>4. \A x \in Entries : /\ record'[x] = "none" <=> key'[x] = None
                             /\ listening'[x] <=> record'[x] = "live"
                             /\ record'[x] = "ended" => sock'[x] = "closed"
      BY <3>1, <3>3 DEF Structure
    <3> QED BY <3>2, <3>4 DEF Structure
  <2>3. CASE ~dead
    <3> DEFINE left == [sock EXCEPT ![e] = "closed"]
    <3>1. \A x \in Entries : left[x] # sock[x] => listening[x] /\ key[x] \in {key[e]}
      BY <2>1 DEF TypeOK
    <3>2. EndStreams({key[e]}, left) /\ key' = key /\ proto' = proto /\ dead' = dead
      BY <1>5, <2>3 DEF SocketClose
    <3> HIDE DEF left
    <3> QED BY <2>1, <3>1, <3>2, EndStreamsStructure
  <2> QED BY <2>2, <2>3
<1>6. CASE Destroy
  BY <1>6, EndStreamsStructure DEF Destroy
<1>7. CASE \/ UNCHANGED vars
           \/ \E id \in Ids : \/ \E p \in {"TCP", "UDP"} : NewBlocked(id, p)
                              \/ KeepData(id) \/ KeepBlocked(id)
           \/ \E e \in Entries, accepted \in BOOLEAN :
                TcpReply(e, accepted) \/ UdpReply(e, accepted)
           \/ ClientDrain
  <2>1. UNCHANGED structureVars
    BY <1>7 DEF vars, NewBlocked, KeepData, KeepBlocked, TcpReply, UdpReply, ClientDrain,
                tableVars, entryVars, structureVars
  <2> QED BY <2>1, StructureStutter
<1> QED BY <1>1, <1>2, <1>3, <1>4, <1>5, <1>6, <1>7 DEF Next

(* For every client: an entry in a table belongs to its id and still counts; *)
(* an ended entry is in no table, silent, and has no socket.                 *)
THEOREM TablesCorrect == Spec => []TablesMatchEntries
<1>1. Init => TypeOK /\ Structure
  BY InitType, InitStructure
<1>2. TypeOK /\ Structure /\ [Next]_vars => (TypeOK /\ Structure)'
  BY NextType, NextStructure
<1> QED BY <1>1, <1>2, StructureImpliesTables, PTL DEF Spec

(* For every client: a dead session registers nothing and writes nothing. *)
THEOREM DeadQuiet == Spec => DeadIsQuiet
<1>1. Init => TypeOK /\ Structure
  BY InitType, InitStructure
<1>2. TypeOK /\ Structure /\ [Next]_vars => (TypeOK /\ Structure)'
  BY NextType, NextStructure
<1>3. TypeOK /\ Structure /\ [Next]_vars
      => [dead => rx' = rx /\ view' = view /\ full' = full /\ tcp' = tcp /\ udp' = udp]_vars
  <2> SUFFICES ASSUME TypeOK, Structure, Next, dead
               PROVE  rx' = rx /\ view' = view /\ full' = full /\ tcp' = tcp /\ udp' = udp
    BY DEF vars
  <2>1. \A i \in Ids : tcp[i] = None /\ udp[i] = None
    BY DEF Structure
  <2>2. ASSUME NEW e \in Entries, Connected(e) \/ SocketError(e) \/ SocketClose(e)
        PROVE  rx' = rx /\ view' = view /\ full' = full /\ tcp' = tcp /\ udp' = udp
    <3>1. CASE Connected(e)
      BY <3>1 DEF Connected, tableVars, flowVars, clientVars
    <3>2. CASE SocketError(e)
      <4>1. Unregister({key[e]}) BY <3>2 DEF SocketError, EndStreams
      <4>2. tcp' = [i \in Ids |-> tcp[i]] /\ udp' = [i \in Ids |-> udp[i]]
        BY <4>1, <2>1 DEF Unregister
      <4>3. tcp' = tcp /\ udp' = udp BY <4>2 DEF TypeOK
      <4>4. UNCHANGED <<view, full>> /\ rx' = rx BY <3>2 DEF SocketError
      <4> QED BY <4>3, <4>4
    <3>3. CASE SocketClose(e)
      BY <3>3 DEF SocketClose, tableVars
    <3> QED BY <2>2, <3>1, <3>2, <3>3
  <2> QED BY <2>2 DEF Next, NewTcp, NewUdp, NewBlocked, Opens, KeepData, KeepOpensUdp,
                      KeepBlocked, End, Keeps, TcpReply, UdpReply, Receives, ClientDrain,
                      Destroy
<1> QED BY <1>1, <1>2, <1>3, PTL DEF Spec, DeadIsQuiet

(* For every client: a substream ends only when the client ended its id, has *)
(* been told, or the session is over.                                        *)
THEOREM NeverSilent == Spec => NoSilentTeardown
<1>1. Init => TypeOK /\ Structure
  BY InitType, InitStructure
<1>2. TypeOK /\ Structure /\ [Next]_vars => (TypeOK /\ Structure)'
  BY NextType, NextStructure
<1>3. TypeOK /\ Structure /\ [Next]_vars
      => [\A e \in Entries : record[e] = "live" /\ record'[e] = "ended"
            => dead' \/ view'[key[e]] # "open"]_vars
  <2> SUFFICES ASSUME TypeOK, Structure, Next, NEW e \in Entries,
                      record[e] = "live", record'[e] = "ended", ~dead'
               PROVE  view'[key[e]] # "open"
    BY DEF vars
  <2>1. ASSUME NEW x \in Entries, SocketError(x) \/ SocketClose(x)
        PROVE  view'[key[e]] # "open"
    <3>1. key[x] \in Ids /\ ~dead
      BY <2>1 DEF SocketError, SocketClose, Structure, TypeOK
    <3>2. PICK sockets : EndStreams({key[x]}, sockets)
      BY <2>1, <3>1 DEF SocketError, SocketClose
    <3>3. key[e] = key[x]
      BY <3>1, <3>2, EndStreamsEffect, UnderKey
    <3>4. SendEnd(key[x], view)
      BY <2>1, <3>1 DEF SocketError, SocketClose
    <3> QED BY <3>1, <3>3, <3>4 DEF SendEnd, TypeOK
  <2>2. ASSUME NEW id \in Ids, End(id) PROVE view'[key[e]] # "open"
    <3>1. EndStreams({id}, sock) /\ view' = [view EXCEPT ![id] = "closed"]
      BY <2>2 DEF End
    <3>2. key[e] = id
      BY <3>1, EndStreamsEffect, UnderKey
    <3> QED BY <3>1, <3>2 DEF TypeOK
  <2>3. ASSUME NEW id \in Ids, NEW x \in Entries, NEW p, StartStream(x, id, p)
        PROVE  FALSE
    BY <2>3 DEF StartStream, TypeOK
  <2>4. ASSUME NEW id \in Ids, NEW x \in Entries, NEW n \in {0, 1},
               NewTcp(id, x, n) \/ NewUdp(id, x, n) \/ KeepOpensUdp(id, x, n)
        PROVE  FALSE
    BY <2>3, <2>4 DEF NewTcp, NewUdp, KeepOpensUdp
  <2>5. ASSUME \/ \E id \in Ids : \/ \E p \in {"TCP", "UDP"} : NewBlocked(id, p)
                                 \/ KeepData(id) \/ KeepBlocked(id)
               \/ \E x \in Entries : Connected(x)
               \/ \E x \in Entries, accepted \in BOOLEAN :
                    TcpReply(x, accepted) \/ UdpReply(x, accepted)
               \/ ClientDrain
        PROVE  FALSE
    <3>1. record' = record
      BY <2>5 DEF NewBlocked, KeepData, KeepBlocked, Connected, TcpReply, UdpReply,
                  ClientDrain, entryVars
    <3> QED BY <3>1
  <2>6. CASE Destroy
    BY <2>6 DEF Destroy
  <2> QED BY <2>1, <2>2, <2>4, <2>5, <2>6 DEF Next
<1> QED BY <1>1, <1>2, <1>3, PTL DEF Spec, NoSilentTeardown

(***************************************************************************)
(* A client that keeps to the protocol can always reach a TCP substream.    *)
(***************************************************************************)

Reachable(e) ==
  ~dead /\ tcp[key[e]] = e /\ view[key[e]] = "open" /\ kind[key[e]] = "TCP"

(* Teardown under an id leaves no live TCP entry with that id. *)
LEMMA EndStreamsReachable ==
  ASSUME TypeOK, Structure, TcpReachable, Orderly, NEW S \in SUBSET Ids, NEW sockets,
         EndStreams(S, sockets), key' = key, proto' = proto,
         NEW e \in Entries, proto'[e] = "TCP", record'[e] = "live"
  PROVE  record[e] = "live" /\ key[e] \in Ids \ S /\ Reachable(e) /\ tcp'[key[e]] = e
<1>1. e \notin Under(S) /\ record[e] = "live"
  BY EndStreamsEffect
<1>2. Reachable(e)
  BY <1>1 DEF TcpReachable, Reachable
<1>3. key[e] \in Ids
  BY <1>1 DEF Structure, TypeOK
<1>4. key[e] \notin S
  BY <1>1, <1>2 DEF Under, Reachable
<1>5. tcp'[key[e]] = tcp[key[e]]
  BY <1>3, <1>4, EndStreamsEffect
<1> QED BY <1>1, <1>2, <1>3, <1>4, <1>5 DEF Reachable

LEMMA NextReachable ==
  TypeOK /\ Structure /\ TcpReachable /\ [Next]_vars => TcpReachable'
<1> SUFFICES ASSUME TypeOK, Structure, TcpReachable, [Next]_vars, Orderly,
                    NEW e \in Entries, proto'[e] = "TCP", record'[e] = "live"
             PROVE  Reachable(e)'
  BY DEF TcpReachable, Reachable
<1>1. proto[e] = "TCP" /\ record[e] = "live" => Reachable(e) /\ key[e] \in Ids
  BY DEF TcpReachable, Reachable, Structure, TypeOK
<1>2. ASSUME NEW id \in Ids, NEW x \in Entries, NEW n \in {0, 1}, NewTcp(id, x, n)
      PROVE  Reachable(e)'
  <2>1. /\ key' = [key EXCEPT ![x] = id] /\ proto' = [proto EXCEPT ![x] = "TCP"]
        /\ record' = [record EXCEPT ![x] = "live"] /\ ~dead' /\ view[id] # "open"
        /\ tcp' = [tcp EXCEPT ![id] = x] /\ view' = [view EXCEPT ![id] = "open"]
        /\ kind' = [kind EXCEPT ![id] = "TCP"]
    BY <1>2 DEF NewTcp, Opens, StartStream
  <2>2. CASE e = x
    BY <2>1, <2>2 DEF Reachable, TypeOK
  <2>3. CASE e # x
    <3>1. Reachable(e) /\ key[e] \in Ids /\ key'[e] = key[e]
      BY <1>1, <2>1, <2>3 DEF TypeOK
    <3>2. key[e] # id
      BY <2>1, <3>1 DEF Reachable
    <3> QED BY <2>1, <3>1, <3>2 DEF Reachable, TypeOK
  <2> QED BY <2>2, <2>3
<1>3. ASSUME NEW id \in Ids, NEW x \in Entries, NEW n \in {0, 1},
             NewUdp(id, x, n) \/ KeepOpensUdp(id, x, n)
      PROVE  Reachable(e)'
  <2>1. /\ key' = [key EXCEPT ![x] = id] /\ proto' = [proto EXCEPT ![x] = "UDP"]
        /\ record' = [record EXCEPT ![x] = "live"] /\ ~dead' /\ tcp' = tcp
    BY <1>3 DEF NewUdp, KeepOpensUdp, Opens, Keeps, StartStream
  <2>2. e # x /\ Reachable(e) /\ key[e] \in Ids /\ key'[e] = key[e]
    BY <1>1, <2>1 DEF TypeOK
  <2>3. CASE NewUdp(id, x, n)
    <3>1. /\ view[id] # "open" /\ view' = [view EXCEPT ![id] = "open"]
          /\ kind' = [kind EXCEPT ![id] = "UDP"]
      BY <2>3 DEF NewUdp, Opens
    <3>2. key[e] # id
      BY <2>2, <3>1 DEF Reachable
    <3> QED BY <2>1, <2>2, <3>1, <3>2 DEF Reachable, TypeOK
  <2>4. CASE KeepOpensUdp(id, x, n)
    <3>1. view' = view /\ kind' = kind
      BY <2>4 DEF KeepOpensUdp, clientVars
    <3> QED BY <2>1, <2>2, <3>1 DEF Reachable
  <2> QED BY <1>3, <2>3, <2>4
<1>4. ASSUME NEW id \in Ids, NEW p \in {"TCP", "UDP"}, NewBlocked(id, p)
      PROVE  Reachable(e)'
  <2>1. /\ view[id] # "open" /\ kind' = [kind EXCEPT ![id] = p] /\ dead' = dead
        /\ tcp' = tcp /\ key' = key /\ record' = record /\ proto' = proto
        /\ \A i \in Ids : i # id => view'[i] = view[i]
    BY <1>4 DEF NewBlocked, Opens, SendEnd, tableVars, entryVars, TypeOK
  <2>2. Reachable(e) /\ key[e] \in Ids /\ key[e] # id
    BY <1>1, <2>1 DEF Reachable
  <2> QED BY <2>1, <2>2 DEF Reachable, TypeOK
<1>5. ASSUME NEW id \in Ids, KeepBlocked(id) PROVE Reachable(e)'
  <2>1. /\ kind[id] = "UDP" /\ kind' = kind /\ dead' = dead
        /\ tcp' = tcp /\ key' = key /\ record' = record /\ proto' = proto
        /\ \A i \in Ids : i # id => view'[i] = view[i]
    BY <1>5 DEF KeepBlocked, SendEnd, tableVars, entryVars, TypeOK
  <2>2. Reachable(e) /\ key[e] \in Ids /\ key[e] # id
    BY <1>1, <2>1 DEF Reachable
  <2> QED BY <2>1, <2>2 DEF Reachable
<1>6. ASSUME NEW id \in Ids, End(id) PROVE Reachable(e)'
  <2>1. /\ EndStreams({id}, sock) /\ view' = [view EXCEPT ![id] = "closed"]
        /\ kind' = kind /\ key' = key /\ proto' = proto /\ dead' = dead
    BY <1>6 DEF End
  <2>2. Reachable(e) /\ key[e] \in Ids \ {id} /\ tcp'[key[e]] = e
    BY <2>1, EndStreamsReachable
  <2> QED BY <2>1, <2>2 DEF Reachable, TypeOK
<1>7. ASSUME NEW x \in Entries, SocketError(x) \/ SocketClose(x)
      PROVE  Reachable(e)'
  <2>1. key[x] \in Ids /\ kind' = kind /\ key' = key /\ proto' = proto /\ dead' = dead
    BY <1>7 DEF SocketError, SocketClose, Structure, TypeOK
  <2>2. CASE dead
    <3>1. \E sockets : EndStreams({key[x]}, sockets) \/ record' = record
      BY <1>7, <2>2 DEF SocketError, SocketClose
    <3>2. record[e] = "live"
      BY <3>1, EndStreamsEffect
    <3> QED BY <1>1, <2>1, <2>2, <3>2 DEF Reachable
  <2>3. CASE ~dead
    <3>1. PICK sockets : EndStreams({key[x]}, sockets)
      BY <1>7, <2>3 DEF SocketError, SocketClose
    <3>2. Reachable(e) /\ key[e] \in Ids \ {key[x]} /\ tcp'[key[e]] = e
      BY <2>1, <3>1, EndStreamsReachable
    <3>3. \A i \in Ids : i # key[x] => view'[i] = view[i]
      BY <1>7, <2>3 DEF SocketError, SocketClose, SendEnd, TypeOK
    <3> QED BY <2>1, <3>2, <3>3 DEF Reachable
  <2> QED BY <2>2, <2>3
<1>8. CASE Destroy
  <2>1. EndStreams(Ids, sock) /\ key' = key /\ proto' = proto
    BY <1>8 DEF Destroy
  <2> QED BY <2>1, EndStreamsReachable
<1>9. CASE \/ UNCHANGED vars
           \/ \E id \in Ids : KeepData(id)
           \/ \E x \in Entries : Connected(x)
           \/ \E x \in Entries, accepted \in BOOLEAN :
                TcpReply(x, accepted) \/ UdpReply(x, accepted)
           \/ ClientDrain
  <2>1. UNCHANGED <<dead, tcp, key, proto, record, kind, view>>
    BY <1>9 DEF vars, KeepData, Connected, TcpReply, UdpReply, ClientDrain, tableVars,
                entryVars, clientVars
  <2> QED BY <1>1, <2>1 DEF Reachable
<1> QED BY <1>2, <1>3, <1>4, <1>5, <1>6, <1>7, <1>8, <1>9 DEF Next

(* Against an orderly client no TCP substream is ever orphaned: it is in the *)
(* table under its id, which the client holds open.                          *)
THEOREM TcpAlwaysReachable == Spec => []TcpReachable
<1>1. Init => TypeOK /\ Structure /\ TcpReachable
  BY InitType, InitStructure DEF Init, TcpReachable
<1>2. TypeOK /\ Structure /\ TcpReachable /\ [Next]_vars => (TypeOK /\ Structure /\ TcpReachable)'
  BY NextType, NextStructure, NextReachable
<1> QED BY <1>1, <1>2, PTL DEF Spec

(***************************************************************************)
(* The totals of the dashboard are the sizes of the sets of live records.   *)
(***************************************************************************)

LEMMA EndStreamsTotals ==
  ASSUME TypeOK, TotalsMatchRecords, NEW S, NEW sockets, EndStreams(S, sockets),
         proto' = proto
  PROVE  TotalsMatchRecords'
<1> DEFINE E == Under(S)
<1>1. E \in SUBSET Entries /\ Live \in SUBSET Entries /\ LiveTcp \in SUBSET Entries
      /\ (Live \ LiveTcp) \in SUBSET Entries
  BY DEF Under, Live, LiveTcp
<1>2. Live' = Live \ E /\ LiveTcp' = LiveTcp \ E
      /\ (Live \ LiveTcp)' = (Live \ LiveTcp) \ E
  BY EndStreamsEffect DEF Live, LiveTcp
<1>3. /\ {e \in E : record[e] = "live"} = Live \cap E
      /\ {e \in {x \in E : record[x] = "live"} : proto[e] = "TCP"} = LiveTcp \cap E
      /\ (Live \cap E) \ (LiveTcp \cap E) = (Live \ LiveTcp) \cap E
  BY <1>1 DEF Live, LiveTcp
<1>4. stats' = [active |-> stats.active - Cardinality(Live \cap E),
                tcp |-> stats.tcp - Cardinality(LiveTcp \cap E),
                udp |-> stats.udp - Cardinality((Live \ LiveTcp) \cap E)]
  BY <1>3 DEF EndStreams, EndRecords
<1>5. /\ Cardinality(Live \ E) = Cardinality(Live) - Cardinality(Live \cap E)
      /\ Cardinality(LiveTcp \ E) = Cardinality(LiveTcp) - Cardinality(LiveTcp \cap E)
      /\ Cardinality((Live \ LiveTcp) \ E)
           = Cardinality(Live \ LiveTcp) - Cardinality((Live \ LiveTcp) \cap E)
  BY <1>1, EntriesFinite, FS_Difference
<1> HIDE DEF E
<1> QED BY <1>2, <1>4, <1>5 DEF TotalsMatchRecords

LEMMA StartStreamTotals ==
  ASSUME TypeOK, TotalsMatchRecords, NEW e \in Entries, NEW id \in Ids,
         NEW p \in {"TCP", "UDP"}, StartStream(e, id, p), record[e] = "none"
  PROVE  TotalsMatchRecords'
<1>1. Live \in SUBSET Entries /\ LiveTcp \in SUBSET Entries
      /\ (Live \ LiveTcp) \in SUBSET Entries
  BY DEF Live, LiveTcp
<1>2. IsFiniteSet(Live) /\ IsFiniteSet(LiveTcp) /\ IsFiniteSet(Live \ LiveTcp)
  BY <1>1, EntriesFinite
<1>3. /\ e \notin Live /\ Live' = Live \cup {e}
      /\ \A x \in Entries : x # e => proto'[x] = proto[x] /\ record'[x] = record[x]
      /\ proto'[e] = p /\ record'[e] = "live"
  BY DEF StartStream, Live, TypeOK
<1>4. /\ stats'.active = stats.active + 1
      /\ stats'.tcp = stats.tcp + (IF p = "TCP" THEN 1 ELSE 0)
      /\ stats'.udp = stats.udp + (IF p = "UDP" THEN 1 ELSE 0)
  BY DEF StartStream
<1>5. /\ Cardinality(Live) = stats.active /\ Cardinality(LiveTcp) = stats.tcp
      /\ Cardinality(Live \ LiveTcp) = stats.udp
      /\ stats.active \in Int /\ stats.tcp \in Int /\ stats.udp \in Int
  BY DEF TotalsMatchRecords, TypeOK
<1>6. Cardinality(Live') = stats'.active
  <2>1. Cardinality(Live \cup {e}) = Cardinality(Live) + 1
    BY <1>2, <1>3, FS_AddElement
  <2>2. Cardinality(Live') = Cardinality(Live \cup {e})
    BY <1>3
  <2> QED BY <1>4, <1>5, <2>1, <2>2
<1>7. CASE p = "TCP"
  <2>1. LiveTcp' = LiveTcp \cup {e} /\ (Live \ LiveTcp)' = Live \ LiveTcp /\ e \notin LiveTcp
    BY <1>1, <1>3, <1>7 DEF Live, LiveTcp
  <2>2. Cardinality(LiveTcp') = stats'.tcp
    <3>1. Cardinality(LiveTcp \cup {e}) = Cardinality(LiveTcp) + 1
      BY <1>2, <2>1, FS_AddElement
    <3>2. Cardinality(LiveTcp') = Cardinality(LiveTcp \cup {e})
      BY <2>1
    <3>3. stats'.tcp = stats.tcp + 1
      BY <1>4, <1>7
    <3> QED BY <1>5, <3>1, <3>2, <3>3
  <2>3. Cardinality((Live \ LiveTcp)') = stats'.udp
    <3>1. Cardinality((Live \ LiveTcp)') = Cardinality(Live \ LiveTcp)
      BY <2>1
    <3>2. stats'.udp = stats.udp
      BY <1>4, <1>5, <1>7
    <3> QED BY <1>5, <3>1, <3>2
  <2> QED BY <1>6, <2>2, <2>3 DEF TotalsMatchRecords
<1>8. CASE p = "UDP"
  <2>1. LiveTcp' = LiveTcp /\ (Live \ LiveTcp)' = (Live \ LiveTcp) \cup {e}
        /\ e \notin Live \ LiveTcp
    BY <1>1, <1>3, <1>8 DEF Live, LiveTcp
  <2>2. Cardinality((Live \ LiveTcp)') = stats'.udp
    <3>1. Cardinality((Live \ LiveTcp) \cup {e}) = Cardinality(Live \ LiveTcp) + 1
      BY <1>2, <2>1, FS_AddElement
    <3>2. Cardinality((Live \ LiveTcp)') = Cardinality((Live \ LiveTcp) \cup {e})
      BY <2>1
    <3>3. stats'.udp = stats.udp + 1
      BY <1>4, <1>8
    <3> QED BY <1>5, <3>1, <3>2, <3>3
  <2>3. Cardinality(LiveTcp') = stats'.tcp
    <3>1. Cardinality(LiveTcp') = Cardinality(LiveTcp)
      BY <2>1
    <3>2. stats'.tcp = stats.tcp
      BY <1>4, <1>5, <1>8
    <3> QED BY <1>5, <3>1, <3>2
  <2> QED BY <1>6, <2>2, <2>3 DEF TotalsMatchRecords
<1> QED BY <1>7, <1>8

LEMMA NextTotals ==
  TypeOK /\ Structure /\ TotalsMatchRecords /\ [Next]_vars => TotalsMatchRecords'
<1> SUFFICES ASSUME TypeOK, Structure, TotalsMatchRecords, [Next]_vars
             PROVE  TotalsMatchRecords'
  OBVIOUS
<1>1. ASSUME UNCHANGED <<proto, record, stats>> PROVE TotalsMatchRecords'
  <2>1. Live' = Live /\ LiveTcp' = LiveTcp
    BY <1>1 DEF Live, LiveTcp
  <2> QED BY <1>1, <2>1 DEF TotalsMatchRecords
<1>2. ASSUME NEW id \in Ids, NEW e \in Entries, NEW n \in {0, 1},
             NewTcp(id, e, n) \/ NewUdp(id, e, n) \/ KeepOpensUdp(id, e, n)
      PROVE  TotalsMatchRecords'
  <2>1. record[e] = "none"
    <3>1. key[e] = None
      BY <1>2 DEF NewTcp, NewUdp, KeepOpensUdp
    <3> QED BY <3>1 DEF Structure
  <2>2. PICK p \in {"TCP", "UDP"} : StartStream(e, id, p)
    BY <1>2 DEF NewTcp, NewUdp, KeepOpensUdp
  <2> QED BY <2>1, <2>2, StartStreamTotals
<1>3. ASSUME \/ \E id \in Ids : End(id)
             \/ \E e \in Entries : SocketError(e) \/ (~dead /\ SocketClose(e))
             \/ Destroy
      PROVE  TotalsMatchRecords'
  <2>1. proto' = proto /\ \E S, sockets : EndStreams(S, sockets)
    BY <1>3 DEF End, SocketError, SocketClose, Destroy
  <2> QED BY <2>1, EndStreamsTotals
<1>4. ASSUME \/ UNCHANGED vars
             \/ \E id \in Ids : \/ \E p \in {"TCP", "UDP"} : NewBlocked(id, p)
                                \/ KeepData(id) \/ KeepBlocked(id)
             \/ \E e \in Entries : Connected(e) \/ (dead /\ SocketClose(e))
             \/ \E e \in Entries, accepted \in BOOLEAN :
                  TcpReply(e, accepted) \/ UdpReply(e, accepted)
             \/ ClientDrain
      PROVE  TotalsMatchRecords'
  <2>1. UNCHANGED <<proto, record, stats>>
    BY <1>4 DEF vars, NewBlocked, KeepData, KeepBlocked, Connected, SocketClose, TcpReply,
                UdpReply, ClientDrain, entryVars
  <2> QED BY <1>1, <2>1
<1> QED BY <1>2, <1>3, <1>4 DEF Next

(* For every client: activeStreams, tcpStreams and udpStreams count exactly  *)
(* the records that have not ended; no teardown is counted twice.            *)
THEOREM TotalsCorrect == Spec => []TotalsMatchRecords
<1>1. Init => TypeOK /\ Structure /\ TotalsMatchRecords
  <2>1. ASSUME Init PROVE TotalsMatchRecords
    <3>1. Live = {} /\ LiveTcp = {} /\ Live \ LiveTcp = {}
      BY <2>1 DEF Init, Live, LiveTcp
    <3>2. Cardinality(Live) = 0 /\ Cardinality(LiveTcp) = 0 /\ Cardinality(Live \ LiveTcp) = 0
      BY <3>1, FS_EmptySet
    <3> QED BY <2>1, <3>2 DEF Init, TotalsMatchRecords
  <2> QED BY <2>1, InitType, InitStructure
<1>2. TypeOK /\ Structure /\ TotalsMatchRecords /\ [Next]_vars
      => (TypeOK /\ Structure /\ TotalsMatchRecords)'
  BY NextType, NextStructure, NextTotals
<1> QED BY <1>1, <1>2, PTL DEF Spec

LEMMA NextWakeup == TypeOK /\ NoLostWakeup /\ [Next]_vars => NoLostWakeup'
<1> SUFFICES ASSUME TypeOK, NoLostWakeup, [Next]_vars PROVE NoLostWakeup' OBVIOUS
<1>1. ASSUME dead' = dead, flowing' = flowing, paused' = paused, full => full'
      PROVE  NoLostWakeup'
  BY <1>1 DEF NoLostWakeup
<1>2. ASSUME NEW e \in Entries, NEW accepted \in BOOLEAN, TcpReply(e, accepted)
      PROVE  NoLostWakeup'
  <2>1. CASE accepted
    BY <1>1, <1>2, <2>1 DEF TcpReply, ClientWrite
  <2>2. CASE ~accepted
    BY <1>2, <2>2 DEF TcpReply, ClientWrite, PauseSource, NoLostWakeup, TypeOK
  <2> QED BY <2>1, <2>2
<1>3. CASE ClientDrain
  <2>1. \A e \in Entries : flowing'[e] = (e \in paused \/ flowing[e])
    BY <1>3 DEF ClientDrain, ResumeSources
  <2>2. ~dead
    BY <1>3 DEF ClientDrain
  <2> QED BY <2>1, <2>2 DEF NoLostWakeup
<1>4. CASE Destroy
  BY <1>4 DEF Destroy, NoLostWakeup
<1>5. ASSUME NEW id \in Ids,
             \/ \E p \in {"TCP", "UDP"} : NewBlocked(id, p)
             \/ KeepData(id) \/ KeepBlocked(id) \/ End(id)
             \/ \E e \in Entries, n \in {0, 1} :
                  NewTcp(id, e, n) \/ NewUdp(id, e, n) \/ KeepOpensUdp(id, e, n)
      PROVE  NoLostWakeup'
  <2>1. dead' = dead /\ flowing' = flowing /\ paused' = paused
    BY <1>5 DEF NewBlocked, KeepData, KeepBlocked, End, NewTcp, NewUdp, KeepOpensUdp,
                flowVars
  <2>2. full' = full \/ \E viewed : SendEnd(id, viewed)
    BY <1>5 DEF NewBlocked, KeepData, KeepBlocked, End, NewTcp, NewUdp, KeepOpensUdp,
                flowVars
  <2>3. full => full'
    BY <2>2 DEF SendEnd, ClientWrite
  <2> QED BY <1>1, <2>1, <2>3
<1>6. ASSUME NEW e \in Entries,
             \/ Connected(e) \/ SocketError(e) \/ SocketClose(e)
             \/ \E accepted \in BOOLEAN : UdpReply(e, accepted)
      PROVE  NoLostWakeup'
  <2>1. dead' = dead /\ flowing' = flowing /\ paused' = paused
    BY <1>6 DEF Connected, SocketError, SocketClose, UdpReply, flowVars
  <2>2. full' = full \/ (\E viewed : SendEnd(key[e], viewed))
        \/ (\E accepted \in BOOLEAN : ClientWrite(accepted))
    BY <1>6 DEF Connected, SocketError, SocketClose, UdpReply, flowVars
  <2>3. full => full'
    BY <2>2 DEF SendEnd, ClientWrite
  <2> QED BY <1>1, <2>1, <2>3
<1>7. CASE UNCHANGED vars
  BY <1>1, <1>7 DEF vars, flowVars
<1> QED BY <1>2, <1>3, <1>4, <1>5, <1>6, <1>7 DEF Next

(* A socket paused for the client is on the list its 'drain' resumes, and    *)
(* the 'drain' is owed.                                                      *)
THEOREM WakeupNeverLost == Spec => []NoLostWakeup
<1>1. Init => TypeOK /\ NoLostWakeup
  BY InitType DEF Init, NoLostWakeup
<1>2. TypeOK /\ NoLostWakeup /\ [Next]_vars => (TypeOK /\ NoLostWakeup)'
  BY NextType, NextWakeup
<1> QED BY <1>1, <1>2, PTL DEF Spec

(***************************************************************************)
(* The order of the uplink, for every client.                              *)
(***************************************************************************)

Numbered(n) == [k \in 1..n |-> k]

LEMMA NumberedSeq ==
  ASSUME NEW n \in Nat
  PROVE  /\ Numbered(n) \in Seq(Nat) /\ Len(Numbered(n)) = n
         /\ \A k \in 1..n : Numbered(n)[k] = k
BY DEF Numbered

LEMMA NumberedEmpty == <<>> \o <<>> = Numbered(0)
<1>1. <<>> \in Seq(Nat) /\ Len(<<>>) = 0
  BY EmptySeq
<1>2. <<>> \o <<>> = <<>>
  BY <1>1, ConcatEmptySeq
<1>3. Numbered(0) \in Seq(Nat) /\ Len(Numbered(0)) = 0
  BY NumberedSeq
<1> QED BY <1>1, <1>2, <1>3, SeqEqual

(* The next payload at the end of a sequence that has the ones before it. *)
LEMMA AppendNumber ==
  ASSUME NEW n \in Nat, NEW s \in Seq(Nat), s = Numbered(n)
  PROVE  s \o <<n + 1>> = Numbered(n + 1)
<1>1. Len(s) = n /\ \A k \in 1..n : s[k] = k
  BY NumberedSeq
<1>2. n + 1 \in Nat /\ <<n + 1>> \in Seq(Nat) /\ Len(<<n + 1>>) = 1 /\ <<n + 1>>[1] = n + 1
  OBVIOUS
<1>3. /\ s \o <<n + 1>> \in Seq(Nat)
      /\ Len(s \o <<n + 1>>) = n + 1
      /\ \A k \in 1..(n + 1) :
           (s \o <<n + 1>>)[k] = IF k <= n THEN s[k] ELSE <<n + 1>>[k - n]
  BY <1>1, <1>2, ConcatProperties
<1>4. \A k \in 1..(n + 1) : (s \o <<n + 1>>)[k] = k
  BY <1>1, <1>2, <1>3
<1>5. /\ Numbered(n + 1) \in Seq(Nat) /\ Len(Numbered(n + 1)) = n + 1
      /\ \A k \in 1..(n + 1) : Numbered(n + 1)[k] = k
  BY <1>2, NumberedSeq
<1> HIDE DEF Numbered
<1> QED BY <1>3, <1>4, <1>5, SeqEqual

(* A payload may be held behind what is held ... *)
LEMMA HeldIsNext ==
  ASSUME NEW n \in Nat, NEW s \in Seq(Nat), NEW t \in Seq(Nat), s \o t = Numbered(n)
  PROVE  s \o Append(t, n + 1) = Numbered(n + 1)
<1>1. n + 1 \in Nat /\ <<n + 1>> \in Seq(Nat)
  OBVIOUS
<1>2. Append(t, n + 1) = t \o <<n + 1>>
  BY <1>1, AppendIsConcat
<1>3. s \o (t \o <<n + 1>>) = (s \o t) \o <<n + 1>>
  <2>1. PICK u \in Seq(Nat) : u = <<n + 1>>
    BY <1>1
  <2>2. /\ s \o t \in Seq(Nat) /\ Len(s \o t) = Len(s) + Len(t)
        /\ t \o u \in Seq(Nat) /\ Len(t \o u) = Len(t) + Len(u)
        /\ \A i \in 1..(Len(s) + Len(t)) :
             (s \o t)[i] = IF i <= Len(s) THEN s[i] ELSE t[i - Len(s)]
        /\ \A i \in 1..(Len(t) + Len(u)) :
             (t \o u)[i] = IF i <= Len(t) THEN t[i] ELSE u[i - Len(t)]
    BY ConcatProperties
  <2>3. /\ (s \o t) \o u \in Seq(Nat)
        /\ Len((s \o t) \o u) = Len(s) + Len(t) + Len(u)
        /\ \A i \in 1..(Len(s) + Len(t) + Len(u)) :
             ((s \o t) \o u)[i] = IF i <= Len(s) + Len(t) THEN (s \o t)[i]
                                  ELSE u[i - (Len(s) + Len(t))]
    BY <2>2, ConcatProperties
  <2>4. /\ s \o (t \o u) \in Seq(Nat)
        /\ Len(s \o (t \o u)) = Len(s) + Len(t) + Len(u)
        /\ \A i \in 1..(Len(s) + Len(t) + Len(u)) :
             (s \o (t \o u))[i] = IF i <= Len(s) THEN s[i] ELSE (t \o u)[i - Len(s)]
    BY <2>2, ConcatProperties
  <2>5. \A i \in 1..(Len(s) + Len(t) + Len(u)) : ((s \o t) \o u)[i] = (s \o (t \o u))[i]
    BY <2>2, <2>3, <2>4
  <2> QED BY <2>1, <2>3, <2>4, <2>5, SeqEqual
<1>4. s \o t \in Seq(Nat)
  BY ConcatProperties
<1> QED BY <1>2, <1>3, <1>4, AppendNumber

(* ... and written at once if nothing is. *)
LEMMA WrittenIsNext ==
  ASSUME NEW n \in Nat, NEW s \in Seq(Nat), s \o <<>> = Numbered(n)
  PROVE  Append(s, n + 1) \o <<>> = Numbered(n + 1)
<1>1. n + 1 \in Nat
  OBVIOUS
<1>2. Append(s, n + 1) \in Seq(Nat)
  BY <1>1
<1>3. Append(s, n + 1) \o <<>> = Append(s, n + 1) /\ s \o <<>> = s
  BY <1>2, ConcatEmptySeq
<1>4. Append(s, n + 1) = s \o <<n + 1>>
  BY <1>1, AppendIsConcat
<1> QED BY <1>3, <1>4, AppendNumber

LEMMA FlushIsNeutral ==
  ASSUME NEW s \in Seq(Nat), NEW t \in Seq(Nat)
  PROVE  (s \o t) \o <<>> = s \o t
BY ConcatProperties, ConcatEmptySeq

(***************************************************************************)
(* Inductive: UplinkInOrder does not say why a payload that is written past *)
(* the queue overtakes nothing (an entry that a frame can reach has a queue *)
(* only while it dials), nor that an unused entry starts from nothing.      *)
(***************************************************************************)

HeldOnlyDialling ==
  \A i \in Ids : tcp[i] # None /\ sock[tcp[i]] # "connecting" => pending[tcp[i]] = <<>>

Fresh == \A e \in Entries : key[e] = None => wrote[e] = <<>> /\ sock[e] = "unused"

InOrder(e) == wrote[e] \o pending[e] = Numbered(sent[e])

UplinkInv ==
  /\ HeldOnlyDialling
  /\ Fresh
  /\ \A e \in Entries : proto[e] = "TCP" /\ record[e] = "live" => InOrder(e)

LEMMA UplinkInvImplies == UplinkInv => UplinkInOrder
BY DEF UplinkInv, InOrder, Numbered, UplinkInOrder

LEMMA InitUplink == Init => UplinkInv
BY DEF Init, UplinkInv, HeldOnlyDialling, Fresh

LEMMA UplinkStutter ==
  UplinkInv /\ UNCHANGED <<tcp, key, proto, sock, record, pending, wrote, sent>> => UplinkInv'
BY DEF UplinkInv, HeldOnlyDialling, Fresh, InOrder

(* Where an entry and its uplink are left alone, it stays in order. *)
LEMMA UntouchedInOrder ==
  ASSUME NEW e \in Entries, wrote'[e] = wrote[e], pending'[e] = pending[e], sent'[e] = sent[e],
         InOrder(e)
  PROVE  InOrder(e)'
BY DEF InOrder

LEMMA TcpPayloadUplink ==
  ASSUME TypeOK, Structure, UplinkInv, NEW id \in Ids, NEW t \in Entries,
         tcp[id] = t, TcpPayload(t)
  PROVE  /\ \A e \in Entries : proto[e] = "TCP" /\ record[e] = "live" => InOrder(e)'
         /\ \A i \in Ids : tcp[i] # None /\ sock[tcp[i]] # "connecting"
              => pending'[tcp[i]] = <<>>
         /\ \A e \in Entries : key[e] = None => wrote'[e] = <<>>
<1>1. key[t] = id /\ proto[t] = "TCP" /\ record[t] = "live"
  BY MuxAssumption DEF Structure, TableEntry
<1>2. sent[t] \in Nat /\ wrote[t] \in Seq(Nat) /\ pending[t] \in Seq(Nat)
  BY <1>1 DEF TypeOK
<1>3. InOrder(t)
  BY <1>1 DEF UplinkInv
<1>4. \A e \in Entries : e # t =>
        wrote'[e] = wrote[e] /\ pending'[e] = pending[e] /\ sent'[e] = sent[e]
  BY <1>1 DEF TcpPayload, TypeOK
<1>5. sent'[t] = sent[t] + 1
  BY <1>1 DEF TcpPayload, TypeOK
<1>6. InOrder(t)'
  <2>1. CASE sock[t] = "connecting"
    <3>1. wrote'[t] = wrote[t] /\ pending'[t] = Append(pending[t], sent[t] + 1)
      BY <1>1, <2>1 DEF TcpPayload, TypeOK
    <3> QED BY <1>2, <1>3, <1>5, <3>1, HeldIsNext DEF InOrder
  <2>2. CASE sock[t] # "connecting"
    <3>1. wrote'[t] = Append(wrote[t], sent[t] + 1) /\ pending'[t] = pending[t]
      BY <1>1, <2>2 DEF TcpPayload, TypeOK
    <3>2. pending[t] = <<>>
      BY <2>2, MuxAssumption DEF UplinkInv, HeldOnlyDialling
    <3> QED BY <1>2, <1>3, <1>5, <3>1, <3>2, WrittenIsNext DEF InOrder
  <2> QED BY <2>1, <2>2
<1>7. \A e \in Entries : proto[e] = "TCP" /\ record[e] = "live" => InOrder(e)'
  <2> SUFFICES ASSUME NEW e \in Entries, proto[e] = "TCP", record[e] = "live" PROVE InOrder(e)'
    OBVIOUS
  <2>1. CASE e = t
    BY <1>6, <2>1
  <2>2. CASE e # t
    <3>1. InOrder(e)
      BY DEF UplinkInv
    <3> QED BY <1>4, <2>2, <3>1, UntouchedInOrder
  <2> QED BY <2>1, <2>2
<1>8. \A i \in Ids : tcp[i] # None /\ sock[tcp[i]] # "connecting" => pending'[tcp[i]] = <<>>
  <2> SUFFICES ASSUME NEW i \in Ids, tcp[i] # None, sock[tcp[i]] # "connecting"
               PROVE  pending'[tcp[i]] = <<>>
    OBVIOUS
  <2>1. tcp[i] \in Entries /\ pending[tcp[i]] = <<>>
    BY DEF TypeOK, UplinkInv, HeldOnlyDialling
  <2>2. CASE tcp[i] = t
    BY <1>1, <2>1, <2>2 DEF TcpPayload
  <2>3. CASE tcp[i] # t
    BY <1>4, <2>1, <2>3
  <2> QED BY <2>2, <2>3
<1>9. \A e \in Entries : key[e] = None => wrote'[e] = <<>>
  <2>1. key[t] # None
    BY <1>1, MuxAssumption
  <2> QED BY <1>4, <2>1 DEF UplinkInv, Fresh
<1> QED BY <1>7, <1>8, <1>9

LEMMA EndStreamsUplink ==
  ASSUME TypeOK, TypeOK', Structure, UplinkInv, NEW S \in SUBSET Ids, NEW sockets,
         EndStreams(S, sockets),
         \A e \in Entries : sockets[e] # sock[e] => listening[e] /\ key[e] \in S,
         key' = key, proto' = proto, wrote' = wrote, sent' = sent
  PROVE  UplinkInv'
<1>1. ASSUME NEW i \in Ids, tcp'[i] # None, sock'[tcp'[i]] # "connecting"
      PROVE  pending'[tcp'[i]] = <<>>
  <2>1. i \notin S /\ tcp'[i] = tcp[i]
    BY <1>1, EndStreamsEffect
  <2>2. PICK x \in Entries : x = tcp[i]
    BY <1>1, <2>1 DEF TypeOK
  <2>3. key[x] = i
    BY <1>1, <2>1, <2>2 DEF Structure, TableEntry
  <2>4. x \notin Under(S) /\ sockets[x] = sock[x]
    BY <2>1, <2>3, UnderKey
  <2>5. sock'[x] = sock[x] /\ pending'[x] = pending[x]
    BY <2>4, EndStreamsEffect
  <2> QED BY <1>1, <2>1, <2>2, <2>5 DEF UplinkInv, HeldOnlyDialling
<1>2. ASSUME NEW e \in Entries, key[e] = None PROVE wrote[e] = <<>> /\ sock'[e] = "unused"
  <2>1. key[e] \notin S
    BY <1>2, MuxAssumption
  <2>2. e \notin Under(S) /\ sockets[e] = sock[e]
    BY <2>1, UnderKey
  <2>3. sock'[e] = sock[e]
    BY <2>2, EndStreamsEffect
  <2> QED BY <1>2, <2>3 DEF UplinkInv, Fresh
<1>3. ASSUME NEW e \in Entries, proto[e] = "TCP", record'[e] = "live" PROVE InOrder(e)'
  <2>1. e \notin Under(S)
    BY <1>3, EndStreamsEffect
  <2>2. record[e] = "live" /\ pending'[e] = pending[e]
    BY <1>3, <2>1, EndStreamsEffect
  <2>3. InOrder(e)
    BY <1>3, <2>2 DEF UplinkInv
  <2> QED BY <2>2, <2>3, UntouchedInOrder
<1> QED BY <1>1, <1>2, <1>3 DEF UplinkInv, HeldOnlyDialling, Fresh

(* New, for an entry of either kind. *)
LEMMA NewUplink ==
  ASSUME TypeOK, TypeOK', Structure, UplinkInv, NEW id \in Ids, NEW e \in Entries,
         NEW n \in {0, 1}
  PROVE  /\ NewTcp(id, e, n) => UplinkInv'
         /\ NewUdp(id, e, n) => UplinkInv'
<1>1. ASSUME NEW p \in {"TCP", "UDP"}, StartStream(e, id, p), key[e] = None
      PROVE  /\ key'[e] = id /\ proto'[e] = p
             /\ \A x \in Entries : x # e => /\ key'[x] = key[x] /\ proto'[x] = proto[x]
                                            /\ sock'[x] = sock[x] /\ record'[x] = record[x]
             /\ \A i \in Ids : tcp[i] # e
             /\ wrote[e] = <<>>
  <2>1. record[e] = "none"
    BY <1>1 DEF Structure
  <2>2. \A i \in Ids : tcp[i] # e
    BY <2>1, MuxAssumption DEF Structure, TableEntry
  <2>3. wrote[e] = <<>>
    BY <1>1 DEF UplinkInv, Fresh
  <2>4. /\ key'[e] = id /\ proto'[e] = p
        /\ \A x \in Entries : x # e => /\ key'[x] = key[x] /\ proto'[x] = proto[x]
                                       /\ sock'[x] = sock[x] /\ record'[x] = record[x]
    BY <1>1 DEF StartStream, TypeOK
  <2> QED BY <2>2, <2>3, <2>4
<1>2. ASSUME NewTcp(id, e, n) PROVE UplinkInv'
  <2>1. /\ StartStream(e, id, "TCP") /\ key[e] = None
        /\ tcp' = [tcp EXCEPT ![id] = e] /\ wrote' = wrote
        /\ sent' = [sent EXCEPT ![e] = n]
        /\ pending' = [pending EXCEPT ![e] = IF n = 1 THEN <<1>> ELSE <<>>]
    BY <1>2 DEF NewTcp
  <2>2. \A x \in Entries : x # e =>
          wrote'[x] = wrote[x] /\ pending'[x] = pending[x] /\ sent'[x] = sent[x]
    BY <2>1 DEF TypeOK
  <2>3. sock'[e] = "connecting"
    BY <2>1 DEF StartStream, TypeOK
  <2>4. InOrder(e)'
    <3>1. wrote'[e] = <<>> /\ sent'[e] = n
      BY <1>1, <2>1 DEF TypeOK
    <3>2. CASE n = 0
      <4>1. pending'[e] = <<>>
        BY <2>1, <3>2 DEF TypeOK
      <4> QED BY <3>1, <3>2, <4>1, NumberedEmpty DEF InOrder
    <3>3. CASE n = 1
      <4>1. pending'[e] = <<1>>
        BY <2>1, <3>3 DEF TypeOK
      <4>2. <<>> \o <<1>> = Numbered(1)
        <5>1. <<>> \in Seq(Nat) /\ <<>> = Numbered(0)
          BY NumberedEmpty, ConcatEmptySeq, EmptySeq
        <5>2. <<>> \o <<0 + 1>> = Numbered(0 + 1)
          BY <5>1, AppendNumber
        <5>3. 0 + 1 = 1
          OBVIOUS
        <5> QED BY <5>2, <5>3
      <4> QED BY <3>1, <3>3, <4>1, <4>2 DEF InOrder
    <3> QED BY <3>2, <3>3
  <2>5. HeldOnlyDialling'
    <3> SUFFICES ASSUME NEW i \in Ids, tcp'[i] # None, sock'[tcp'[i]] # "connecting"
                 PROVE  pending'[tcp'[i]] = <<>>
      BY DEF HeldOnlyDialling
    <3>1. i # id
      BY <2>1, <2>3 DEF TypeOK
    <3>2. tcp'[i] = tcp[i] /\ tcp[i] \in Entries /\ tcp[i] # e
      BY <1>1, <2>1, <3>1 DEF TypeOK
    <3>3. sock'[tcp[i]] = sock[tcp[i]] /\ pending'[tcp[i]] = pending[tcp[i]]
      BY <1>1, <2>1, <2>2, <3>2
    <3> QED BY <3>2, <3>3 DEF UplinkInv, HeldOnlyDialling
  <2>6. Fresh'
    <3> SUFFICES ASSUME NEW x \in Entries, key'[x] = None
                 PROVE  wrote'[x] = <<>> /\ sock'[x] = "unused"
      BY DEF Fresh
    <3>1. x # e
      BY <1>1, <2>1, MuxAssumption
    <3> QED BY <1>1, <2>1, <3>1 DEF UplinkInv, Fresh
  <2>7. ASSUME NEW x \in Entries, proto'[x] = "TCP", record'[x] = "live" PROVE InOrder(x)'
    <3>1. CASE x = e
      BY <2>4, <3>1
    <3>2. CASE x # e
      <4>1. InOrder(x)
        BY <1>1, <2>1, <2>7, <3>2 DEF UplinkInv
      <4> QED BY <2>2, <3>2, <4>1, UntouchedInOrder
    <3> QED BY <3>1, <3>2
  <2> QED BY <2>5, <2>6, <2>7 DEF UplinkInv
<1>3. ASSUME NewUdp(id, e, n) PROVE UplinkInv'
  <2>1. /\ StartStream(e, id, "UDP") /\ key[e] = None
        /\ tcp' = tcp /\ wrote' = wrote /\ pending' = pending
        /\ sent' = [sent EXCEPT ![e] = n]
    BY <1>3 DEF NewUdp
  <2>2. HeldOnlyDialling'
    BY <1>1, <2>1 DEF UplinkInv, HeldOnlyDialling, TypeOK
  <2>3. Fresh'
    BY <1>1, <2>1, MuxAssumption DEF UplinkInv, Fresh
  <2>4. ASSUME NEW x \in Entries, proto'[x] = "TCP", record'[x] = "live" PROVE InOrder(x)'
    <3>1. x # e
      BY <1>1, <2>1, <2>4
    <3>2. InOrder(x)
      BY <1>1, <2>1, <2>4, <3>1 DEF UplinkInv
    <3>3. sent'[x] = sent[x]
      BY <2>1, <3>1 DEF TypeOK
    <3> QED BY <2>1, <3>2, <3>3, UntouchedInOrder
  <2> QED BY <2>2, <2>3, <2>4 DEF UplinkInv
<1> QED BY <1>2, <1>3

(* Keep, with its payload. *)
LEMMA KeepUplink ==
  ASSUME TypeOK, TypeOK', Structure, UplinkInv, NEW id \in Ids
  PROVE  /\ KeepData(id) => UplinkInv'
         /\ \A e \in Entries, n \in {0, 1} : KeepOpensUdp(id, e, n) => UplinkInv'
<1>1. ASSUME KeepData(id) PROVE UplinkInv'
  <2>1. UNCHANGED <<tcp, udp, key, proto, sock, record>>
    BY <1>1 DEF KeepData, tableVars, entryVars
  <2>2. CASE tcp[id] # None /\ TcpPayload(tcp[id])
    <3>1. tcp[id] \in Entries
      BY <2>2 DEF TypeOK
    <3>2. /\ \A e \in Entries : proto[e] = "TCP" /\ record[e] = "live" => InOrder(e)'
          /\ \A i \in Ids : tcp[i] # None /\ sock[tcp[i]] # "connecting"
               => pending'[tcp[i]] = <<>>
          /\ \A e \in Entries : key[e] = None => wrote'[e] = <<>>
      BY <2>2, <3>1, TcpPayloadUplink
    <3> QED BY <2>1, <3>2 DEF UplinkInv, HeldOnlyDialling, Fresh
  <2>3. CASE udp[id] # None /\ UdpPayload(udp[id])
    <3>1. PICK u \in Entries : u = udp[id] /\ proto[u] = "UDP"
      BY <2>3 DEF TypeOK, Structure, TableEntry
    <3>2. \A e \in Entries : e # u => sent'[e] = sent[e]
      BY <2>3, <3>1 DEF UdpPayload, TypeOK
    <3>3. wrote' = wrote /\ pending' = pending
      BY <2>3 DEF UdpPayload
    <3>4. ASSUME NEW e \in Entries, proto[e] = "TCP", record[e] = "live" PROVE InOrder(e)'
      <4>1. e # u /\ InOrder(e)
        BY <3>1, <3>4 DEF UplinkInv
      <4> QED BY <3>2, <3>3, <4>1, UntouchedInOrder
    <3> QED BY <2>1, <3>3, <3>4 DEF UplinkInv, HeldOnlyDialling, Fresh
  <2> QED BY <1>1, <2>2, <2>3 DEF KeepData, Payload
<1>2. ASSUME NEW e \in Entries, NEW n \in {0, 1}, KeepOpensUdp(id, e, n) PROVE UplinkInv'
  <2>1. StartStream(e, id, "UDP") /\ key[e] = None /\ tcp' = tcp
    BY <1>2 DEF KeepOpensUdp
  <2>2. /\ key'[e] = id /\ proto'[e] = "UDP"
        /\ \A x \in Entries : x # e => /\ key'[x] = key[x] /\ proto'[x] = proto[x]
                                       /\ sock'[x] = sock[x] /\ record'[x] = record[x]
    BY <2>1 DEF StartStream, TypeOK
  <2>3. \A i \in Ids : tcp[i] # e
    <3>1. record[e] = "none"
      BY <2>1 DEF Structure
    <3> QED BY <3>1, MuxAssumption DEF Structure, TableEntry
  <2>4. ASSUME /\ \A x \in Entries : proto[x] = "TCP" /\ record[x] = "live" /\ x # e
                                     => InOrder(x)'
               /\ \A i \in Ids : tcp[i] # None /\ sock[tcp[i]] # "connecting"
                    => pending'[tcp[i]] = <<>>
               /\ \A x \in Entries : key[x] = None /\ x # e => wrote'[x] = <<>>
        PROVE  UplinkInv'
    <3>1. HeldOnlyDialling'
      BY <2>1, <2>2, <2>3, <2>4 DEF HeldOnlyDialling, TypeOK
    <3>2. Fresh'
      BY <2>2, <2>4, MuxAssumption DEF Fresh, UplinkInv
    <3>3. ASSUME NEW x \in Entries, proto'[x] = "TCP", record'[x] = "live" PROVE InOrder(x)'
      <4>1. x # e
        BY <2>2, <3>3
      <4> QED BY <2>2, <2>4, <3>3, <4>1
    <3> QED BY <3>1, <3>2, <3>3 DEF UplinkInv
  <2>5. CASE UNCHANGED uplinkVars
    <3>1. pending' = pending /\ wrote' = wrote /\ sent' = sent
      BY <2>5 DEF uplinkVars
    <3>2. \A x \in Entries : proto[x] = "TCP" /\ record[x] = "live" => InOrder(x)'
      BY <3>1, UntouchedInOrder DEF UplinkInv
    <3> QED BY <2>4, <3>1, <3>2 DEF UplinkInv, HeldOnlyDialling, Fresh
  <2>6. CASE tcp[id] # None /\ TcpPayload(tcp[id])
    <3>1. tcp[id] \in Entries
      BY <2>6 DEF TypeOK
    <3> QED BY <2>4, <2>6, <3>1, TcpPayloadUplink
  <2>7. CASE UdpPayload(e)
    <3>1. wrote' = wrote /\ pending' = pending
          /\ \A x \in Entries : x # e => sent'[x] = sent[x]
      BY <2>7 DEF UdpPayload, TypeOK
    <3>2. \A x \in Entries : proto[x] = "TCP" /\ record[x] = "live" /\ x # e => InOrder(x)'
      BY <3>1, UntouchedInOrder DEF UplinkInv
    <3> QED BY <2>4, <3>1, <3>2 DEF UplinkInv, HeldOnlyDialling, Fresh
  <2> QED BY <1>2, <2>5, <2>6, <2>7 DEF KeepOpensUdp
<1> QED BY <1>1, <1>2

LEMMA ConnectedUplink ==
  ASSUME TypeOK, TypeOK', Structure, UplinkInv, NEW e \in Entries, Connected(e)
  PROVE  UplinkInv'
<1>1. /\ sock[e] = "connecting"
      /\ wrote'[e] = wrote[e] \o pending[e] /\ pending'[e] = <<>>
      /\ UNCHANGED <<tcp, udp, key, proto, record, sent>>
  <2>1. /\ wrote' = [wrote EXCEPT ![e] = wrote[e] \o pending[e]]
        /\ pending' = [pending EXCEPT ![e] = <<>>]
    BY DEF Connected, Flush
  <2>2. wrote'[e] = wrote[e] \o pending[e]
    <3> DEFINE all == wrote[e] \o pending[e]
    <3>1. wrote' = [wrote EXCEPT ![e] = all]
      BY <2>1
    <3> HIDE DEF all
    <3>2. wrote'[e] = all
      BY <3>1 DEF TypeOK
    <3> QED BY <3>2 DEF all
  <2>3. pending'[e] = <<>>
    BY <2>1 DEF TypeOK
  <2>4. sock[e] = "connecting" /\ UNCHANGED <<tcp, udp, key, proto, record, sent>>
    BY DEF Connected, tableVars
  <2> QED BY <2>2, <2>3, <2>4
<1>2. \A x \in Entries : x # e =>
        wrote'[x] = wrote[x] /\ pending'[x] = pending[x] /\ sock'[x] = sock[x]
  BY DEF Connected, Flush, TypeOK
<1>3. wrote[e] \in Seq(Nat) /\ pending[e] \in Seq(Nat)
  BY DEF TypeOK
<1>4. InOrder(e) => InOrder(e)'
  BY <1>1, <1>3, FlushIsNeutral DEF InOrder
<1>5. ASSUME NEW x \in Entries, proto'[x] = "TCP", record'[x] = "live" PROVE InOrder(x)'
  <2>1. InOrder(x)
    BY <1>1, <1>5 DEF UplinkInv
  <2>2. CASE x = e
    BY <1>4, <2>1, <2>2
  <2>3. CASE x # e
    BY <1>1, <1>2, <2>1, <2>3, UntouchedInOrder
  <2> QED BY <2>2, <2>3
<1>6. HeldOnlyDialling'
  <2> SUFFICES ASSUME NEW i \in Ids, tcp'[i] # None, sock'[tcp'[i]] # "connecting"
               PROVE  pending'[tcp'[i]] = <<>>
    BY DEF HeldOnlyDialling
  <2>1. PICK x \in Entries : x = tcp[i] /\ x = tcp'[i]
    BY <1>1 DEF TypeOK
  <2>2. CASE x = e
    BY <1>1, <2>1, <2>2
  <2>3. CASE x # e
    BY <1>1, <1>2, <2>1, <2>3 DEF UplinkInv, HeldOnlyDialling
  <2> QED BY <2>2, <2>3
<1>7. Fresh'
  <2>1. key[e] # None
    BY <1>1 DEF UplinkInv, Fresh
  <2> QED BY <1>1, <1>2, <2>1 DEF UplinkInv, Fresh
<1> QED BY <1>5, <1>6, <1>7 DEF UplinkInv

LEMMA NextUplink ==
  TypeOK /\ Structure /\ UplinkInv /\ [Next]_vars => UplinkInv'
<1> SUFFICES ASSUME TypeOK, Structure, UplinkInv, [Next]_vars PROVE UplinkInv'
  OBVIOUS
<1>1. TypeOK'
  BY NextType
<1>2. ASSUME NEW id \in Ids,
             \/ \E e \in Entries, n \in {0, 1} :
                  NewTcp(id, e, n) \/ NewUdp(id, e, n) \/ KeepOpensUdp(id, e, n)
             \/ KeepData(id)
      PROVE  UplinkInv'
  BY <1>1, <1>2, NewUplink, KeepUplink
<1>3. ASSUME NEW id \in Ids, End(id) PROVE UplinkInv'
  BY <1>1, <1>3, EndStreamsUplink DEF End
<1>4. ASSUME NEW e \in Entries, Connected(e) PROVE UplinkInv'
  BY <1>1, <1>4, ConnectedUplink
<1>5. ASSUME NEW e \in Entries, SocketError(e) PROVE UplinkInv'
  <2> DEFINE left == [sock EXCEPT ![e] = IF proto[e] = "TCP" THEN "failed" ELSE @]
  <2>1. key[e] \in Ids /\ listening[e]
    BY <1>5 DEF SocketError, Structure, TypeOK
  <2>2. \A x \in Entries : left[x] # sock[x] => listening[x] /\ key[x] \in {key[e]}
    BY <2>1 DEF TypeOK
  <2>3. EndStreams({key[e]}, left) /\ UNCHANGED <<key, proto, wrote, sent>>
    BY <1>5 DEF SocketError
  <2> HIDE DEF left
  <2> QED BY <1>1, <2>1, <2>2, <2>3, EndStreamsUplink
<1>6. ASSUME NEW e \in Entries, SocketClose(e) PROVE UplinkInv'
  <2>1. key[e] \in Ids /\ listening[e]
    BY <1>6 DEF SocketClose, Structure, TypeOK
  <2>2. CASE dead
    <3>1. /\ UNCHANGED <<tcp, key, proto, record, pending, wrote, sent>>
          /\ \A i \in Ids : tcp[i] = None
          /\ \A x \in Entries : x # e => sock'[x] = sock[x]
      BY <1>6, <2>2 DEF SocketClose, tableVars, TypeOK, Structure
    <3>2. key[e] # None
      BY <2>1, MuxAssumption
    <3>3. \A x \in Entries : proto[x] = "TCP" /\ record[x] = "live" => InOrder(x)'
      BY <3>1, UntouchedInOrder DEF UplinkInv
    <3> QED BY <3>1, <3>2, <3>3 DEF UplinkInv, HeldOnlyDialling, Fresh
  <2>3. CASE ~dead
    <3> DEFINE left == [sock EXCEPT ![e] = "closed"]
    <3>1. \A x \in Entries : left[x] # sock[x] => listening[x] /\ key[x] \in {key[e]}
      BY <2>1 DEF TypeOK
    <3>2. EndStreams({key[e]}, left) /\ UNCHANGED <<key, proto, wrote, sent>>
      BY <1>6, <2>3 DEF SocketClose
    <3> HIDE DEF left
    <3> QED BY <1>1, <2>1, <3>1, <3>2, EndStreamsUplink
  <2> QED BY <2>2, <2>3
<1>7. CASE Destroy
  BY <1>1, <1>7, EndStreamsUplink DEF Destroy
<1>8. ASSUME \/ UNCHANGED vars
             \/ \E id \in Ids : \/ \E p \in {"TCP", "UDP"} : NewBlocked(id, p)
                                \/ KeepBlocked(id)
             \/ \E e \in Entries, accepted \in BOOLEAN :
                  TcpReply(e, accepted) \/ UdpReply(e, accepted)
             \/ ClientDrain
      PROVE  UplinkInv'
  <2>1. UNCHANGED <<tcp, key, proto, sock, record, pending, wrote, sent>>
    BY <1>8 DEF vars, NewBlocked, KeepBlocked, TcpReply, UdpReply, ClientDrain, tableVars,
                entryVars, uplinkVars
  <2> QED BY <2>1, UplinkStutter
<1> QED BY <1>2, <1>3, <1>4, <1>5, <1>6, <1>7, <1>8 DEF Next

(* For every client: the payloads of a live TCP substream, those written and *)
(* those still held together, are the ones the client sent, in order.        *)
THEOREM UplinkIsOrdered == Spec => []UplinkInOrder
<1>1. Init => TypeOK /\ Structure /\ UplinkInv
  BY InitType, InitStructure, InitUplink
<1>2. TypeOK /\ Structure /\ UplinkInv /\ [Next]_vars => (TypeOK /\ Structure /\ UplinkInv)'
  BY NextType, NextStructure, NextUplink
<1> QED BY <1>1, <1>2, UplinkInvImplies, InitUplink, PTL DEF Spec
================================================================================
