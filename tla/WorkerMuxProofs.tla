---------------------------- MODULE WorkerMuxProofs ----------------------------
(* Theorems about the multiplexer of the Worker, for any ids, streams and    *)
(* bounds: an open id is served, one target answers a substream, the first   *)
(* target is written to in order, nothing outlives the session, and once it  *)
(* is closed its tasks end.                                                  *)
EXTENDS WorkerMux, TLAPS

(***************************************************************************)
(* Type correctness.                                                       *)
(***************************************************************************)

StreamFields ==
  [kind : {"tcp", "udp"}, closed : BOOLEAN, dns : BOOLEAN, opening : BOOLEAN,
   initial : BOOLEAN, sawData : BOOLEAN, wroteMore : BOOLEAN, retried : BOOLEAN]

SockStates == {"none", "dialing", "open", "ended", "closed"}
AllSockets == [Streams -> [Dials -> SockStates]]

(* Every variable stays in its range, but for the histories of payloads. *)
RegistryType ==
  /\ closed \in BOOLEAN /\ reading \in BOOLEAN /\ done \in BOOLEAN
  /\ streams \in [Ids -> Streams \cup {None}]
  /\ key \in [Streams -> Ids \cup {None}]
  /\ lookups \in [Ids -> Nat]
  /\ proto \in [Ids -> {"none", "tcp", "udp"}]
  /\ view \in [Ids -> {"closed", "open", "told"}]

TaskType ==
  /\ stream \in [Streams -> StreamFields]
  /\ cur \in [Streams -> Dials \cup {None}]
  /\ sock \in AllSockets
  /\ opener \in [Streams -> {"none", "dial", "write", "retry", "done"}]
  /\ pump \in [Streams -> Dials \cup {None, "retry"}]
  /\ retry \in [Streams -> {"none", "dial", "write"}]
  /\ writing \in [Streams -> Dials \cup {None}]

DataType ==
  /\ held \in [Streams -> Seq(Nat)]
  /\ sent \in [Streams -> Nat]
  /\ wrote \in [Streams -> [Dials -> Seq(Nat)]]
  /\ rx \in [Streams -> [Dials -> Nat]]

WorkerType == RegistryType /\ TaskType /\ DataType

(* What a task may do to the fields of its stream. *)
LEMMA FieldType ==
  ASSUME NEW r \in StreamFields
  PROVE  /\ \A b \in BOOLEAN : [r EXCEPT !.closed = b] \in StreamFields
         /\ \A b \in BOOLEAN : [r EXCEPT !.dns = b] \in StreamFields
         /\ [r EXCEPT !.retried = TRUE] \in StreamFields
         /\ [r EXCEPT !.sawData = TRUE, !.initial = FALSE] \in StreamFields
         /\ [r EXCEPT !.wroteMore = TRUE, !.initial = FALSE] \in StreamFields
BY DEF StreamFields

LEMMA FreshType ==
  /\ Fresh \in StreamFields
  /\ \A b \in BOOLEAN : [Fresh EXCEPT !.opening = b, !.initial = b] \in StreamFields
  /\ \A b \in BOOLEAN : [Fresh EXCEPT !.kind = "udp", !.dns = b] \in StreamFields
  /\ [Fresh EXCEPT !.kind = "udp"] \in StreamFields
BY DEF Fresh, StreamFields

LEMMA InitType == Init => WorkerType
<1> SUFFICES ASSUME Init PROVE WorkerType
  OBVIOUS
<1>1. <<>> \in Seq(Nat)
  OBVIOUS
<1>2. RegistryType
  BY DEF Init, RegistryType
<1>3. TaskType
  BY FreshType DEF Init, TaskType, AllSockets, SockStates
<1>4. DataType
  BY <1>1 DEF Init, DataType
<1> QED BY <1>2, <1>3, <1>4 DEF WorkerType

LEMMA EndType ==
  ASSUME WorkerType, NEW S \in SUBSET Ids, NEW sockets \in AllSockets, EndStreams(S, sockets)
  PROVE  /\ streams' \in [Ids -> Streams \cup {None}]
         /\ stream' \in [Streams -> StreamFields]
         /\ sock' \in AllSockets
<1>1. streams' \in [Ids -> Streams \cup {None}]
  BY DEF EndStreams, WorkerType, RegistryType
<1>2. stream' \in [Streams -> StreamFields]
  <2>1. PICK E : stream' = [s \in Streams |-> [stream[s] EXCEPT !.closed = @ \/ s \in E]]
    BY DEF EndStreams
  <2>2. ASSUME NEW s \in Streams PROVE [stream[s] EXCEPT !.closed = @ \/ s \in E] \in StreamFields
    <3>1. stream[s] \in StreamFields
      BY DEF WorkerType, TaskType
    <3>2. (stream[s].closed \/ s \in E) \in BOOLEAN
      OBVIOUS
    <3> QED BY <3>1, <3>2, FieldType
  <2> QED BY <2>1, <2>2
<1>3. sock' \in AllSockets
  BY DEF EndStreams, AllSockets, SockStates
<1> QED BY <1>1, <1>2, <1>3

LEMMA FailType ==
  ASSUME WorkerType, NEW s \in Streams, key[s] # None, NEW sockets \in AllSockets,
         Fails(s, sockets)
  PROVE  /\ streams' \in [Ids -> Streams \cup {None}]
         /\ stream' \in [Streams -> StreamFields]
         /\ sock' \in AllSockets
         /\ view' \in [Ids -> {"closed", "open", "told"}]
<1>1. {key[s]} \in SUBSET Ids
  BY DEF WorkerType, RegistryType
<1>2. view' \in [Ids -> {"closed", "open", "told"}]
  BY DEF Fails, SendEnd, WorkerType, RegistryType
<1> QED BY <1>1, <1>2, EndType DEF Fails


(***************************************************************************)
(* What a stream without a task looks like, and which tasks exclude each    *)
(* other: openTcp hands over to pumpTcp, and either to retryViaProxy, once. *)
(***************************************************************************)

Untasked(s) ==
  /\ pump[s] = None /\ held[s] = <<>> /\ writing[s] = None /\ cur[s] = None
  /\ sent[s] = 0 /\ wrote[s]["direct"] = <<>> /\ rx[s]["direct"] = 0

Tasks(s) ==
  /\ opener[s] = "none" <=> (key[s] = None \/ stream[s].kind = "udp")
  /\ opener[s] = "none" => Untasked(s)
  /\ opener[s] \in {"none", "dial", "write"}
       => pump[s] = None /\ retry[s] = "none" /\ ~stream[s].retried
  /\ retry[s] # "none" => stream[s].retried /\ pump[s] \in {None, "retry"}
  /\ pump[s] = "direct" => ~stream[s].retried
  /\ pump[s] = "proxy" => stream[s].retried

TaskInv == \A s \in Streams : Tasks(s)

LEMMA InitTasks == Init => TaskInv
BY WorkerMuxAssumption DEF Init, TaskInv, Tasks, Untasked, Fresh, Dials

(* Who has a task has an id. *)
LEMMA Acting ==
  ASSUME WorkerType, TaskInv, NEW s \in Streams,
         \/ opener[s] # "none" \/ pump[s] # None \/ retry[s] # "none" \/ writing[s] # None
  PROVE  key[s] \in Ids /\ key[s] # None /\ {key[s]} \in SUBSET Ids
<1>1. opener[s] # "none"
  BY DEF TaskInv, Tasks, Untasked
<1>2. key[s] # None
  BY <1>1 DEF TaskInv, Tasks
<1> QED BY <1>2 DEF WorkerType, RegistryType

LEMMA RetryType ==
  ASSUME WorkerType, NEW s \in Streams, key[s] # None, NEW sockets \in AllSockets,
         RetryOrFail(s, sockets)
  PROVE  /\ streams' \in [Ids -> Streams \cup {None}]
         /\ stream' \in [Streams -> StreamFields]
         /\ sock' \in AllSockets
         /\ view' \in [Ids -> {"closed", "open", "told"}]
         /\ retry' \in [Streams -> {"none", "dial", "write"}]
<1>1. CASE MayRetry(s)
  <2>1. stream[s] \in StreamFields
    BY DEF WorkerType, TaskType
  <2>2. stream' \in [Streams -> StreamFields]
    BY <1>1, <2>1, FieldType DEF RetryOrFail, WorkerType, TaskType
  <2>3. sock' \in AllSockets
    BY <1>1 DEF RetryOrFail, AllSockets, SockStates, Dials
  <2> QED BY <1>1, <2>2, <2>3 DEF RetryOrFail, WorkerType, TaskType, RegistryType
<1>2. CASE ~MayRetry(s)
  <2>1. Fails(s, sockets) /\ UNCHANGED retry
    BY <1>2 DEF RetryOrFail
  <2> QED BY <2>1, FailType DEF WorkerType, TaskType
<1> QED BY <1>1, <1>2

LEMMA RegistersType ==
  ASSUME WorkerType, NEW id \in Ids, NEW s \in Streams, NEW f \in StreamFields,
         Registers(id, s, f)
  PROVE  /\ key' \in [Streams -> Ids \cup {None}]
         /\ streams' \in [Ids -> Streams \cup {None}]
         /\ stream' \in [Streams -> StreamFields]
BY DEF Registers, WorkerType, RegistryType, TaskType

(* A socket that changes its state. *)
LEMMA SocketType ==
  ASSUME WorkerType, NEW s \in Streams, NEW k \in Dials, NEW v \in SockStates
  PROVE  [sock EXCEPT ![s][k] = v] \in AllSockets
BY DEF WorkerType, TaskType, AllSockets

LEMMA WriteType ==
  ASSUME WorkerType, NEW s \in Streams, NEW k \in Dials, NEW n \in Nat, Write(s, k, n)
  PROVE  wrote' \in [Streams -> [Dials -> Seq(Nat)]]
<1>1. wrote[s] \in [Dials -> Seq(Nat)] /\ wrote[s][k] \in Seq(Nat)
  BY DEF WorkerType, DataType
<1>2. PICK q \in Seq(Nat) : q = Append(wrote[s][k], n)
  <2>1. Append(wrote[s][k], n) \in Seq(Nat)
    BY <1>1
  <2> QED BY <2>1
<1>3. wrote' = [wrote EXCEPT ![s] = [wrote[s] EXCEPT ![k] = q]]
  BY <1>2 DEF Write
<1> QED BY <1>1, <1>3 DEF WorkerType, DataType

LEMMA NewType ==
  ASSUME WorkerType, NEW id \in Ids, NEW s \in Streams, NEW n \in {0, 1},
         NewTcp(id, s, n) \/ NewUdp(id, s, n)
  PROVE  WorkerType'
<1>1. CASE NewTcp(id, s, n)
  <2>1. PICK f \in StreamFields : Registers(id, s, f)
    BY <1>1, FreshType DEF NewTcp
  <2>2. "direct" \in Dials /\ "dialing" \in SockStates
    BY DEF Dials, SockStates
  <2>3. sock' \in AllSockets
    BY <1>1, <2>2, SocketType DEF NewTcp
  <2>4. RegistryType'
    BY <1>1, <2>1, RegistersType
       DEF NewTcp, Opens, sessionVars, WorkerType, RegistryType
  <2>5. TaskType'
    BY <1>1, <2>1, <2>3, RegistersType DEF NewTcp, WorkerType, TaskType
  <2>6. DataType'
    BY <1>1 DEF NewTcp, WorkerType, DataType
  <2> QED BY <2>4, <2>5, <2>6 DEF WorkerType
<1>2. CASE NewUdp(id, s, n)
  <2>1. PICK f \in StreamFields : Registers(id, s, f)
    BY <1>2, FreshType DEF NewUdp
  <2>2. RegistryType'
    BY <1>2, <2>1, RegistersType
       DEF NewUdp, Opens, Looks, sessionVars, WorkerType, RegistryType
  <2>3. TaskType'
    BY <1>2, <2>1, RegistersType DEF NewUdp, socketVars, WorkerType, TaskType
  <2>4. DataType'
    BY <1>2 DEF NewUdp, dataVars, WorkerType, DataType
  <2> QED BY <2>2, <2>3, <2>4 DEF WorkerType
<1> QED BY <1>1, <1>2

LEMMA RefusedType ==
  ASSUME WorkerType, NEW id \in Ids, NEW p \in {"tcp", "udp"}, NewRefused(id, p)
  PROVE  WorkerType'
<1>1. view' \in [Ids -> {"closed", "open", "told"}]
  BY DEF NewRefused, SendEnd, WorkerType, RegistryType
<1> QED
  BY <1>1 DEF NewRefused, Opens, sessionVars, socketVars, taskVars, dataVars,
     WorkerType, RegistryType, TaskType, DataType

LEMMA KeepType ==
  ASSUME WorkerType, NEW id \in Ids, KeepTcp(id)
  PROVE  WorkerType'
<1>1. PICK s \in Streams :
        /\ stream' = [stream EXCEPT ![s].wroteMore = TRUE, ![s].initial = FALSE]
        /\ sent' = [sent EXCEPT ![s] = @ + 1]
        /\ held' = [held EXCEPT ![s] = Append(@, sent[s] + 1)]
  BY DEF KeepTcp, Chain
<1>2. stream[s] \in StreamFields
  BY DEF WorkerType, TaskType
<1>3. stream' \in [Streams -> StreamFields]
  BY <1>1, <1>2, FieldType DEF WorkerType, TaskType
<1>4. held' \in [Streams -> Seq(Nat)] /\ sent' \in [Streams -> Nat]
  BY <1>1 DEF WorkerType, DataType
<1> QED
  BY <1>3, <1>4 DEF KeepTcp, sessionVars, socketVars, clientVars,
     WorkerType, RegistryType, TaskType, DataType


(* The id a stream is registered under is the one its tasks close over. *)
Keyed == \A id \in Ids : streams[id] # None => key[streams[id]] = id

LEMMA DatagramType ==
  ASSUME WorkerType, Keyed, NEW id \in Ids,
         \/ KeepUdp(id) \/ End(id) \/ Lookup(id)
         \/ \E dns \in BOOLEAN : KeepRebinds(id, dns)
         \/ \E dns \in BOOLEAN, s \in Streams : KeepOpensUdp(id, s, dns)
  PROVE  WorkerType'
<1>1. sock \in AllSockets
  BY DEF WorkerType, TaskType
<1>2. CASE KeepUdp(id)
  <2>1. PICK s \in Streams :
          /\ streams[id] = s
          /\ IF stream[s].dns
             THEN Looks(id, 1) /\ UNCHANGED <<streams, stream, sock, view>>
             ELSE Fails(s, sock) /\ UNCHANGED lookups
    BY <1>2 DEF KeepUdp
  <2>2. key[s] # None
    BY <2>1, WorkerMuxAssumption DEF Keyed
  <2>3. /\ streams' \in [Ids -> Streams \cup {None}]
        /\ stream' \in [Streams -> StreamFields]
        /\ sock' \in AllSockets
        /\ view' \in [Ids -> {"closed", "open", "told"}]
    BY <1>1, <2>1, <2>2, FailType DEF WorkerType, RegistryType, TaskType
  <2>4. lookups' \in [Ids -> Nat]
    BY <2>1 DEF Looks, WorkerType, RegistryType
  <2> QED
    BY <1>2, <2>3, <2>4 DEF KeepUdp, sessionVars, dataVars, WorkerType, RegistryType, TaskType,
       DataType
<1>3. CASE End(id)
  <2>1. /\ streams' \in [Ids -> Streams \cup {None}]
        /\ stream' \in [Streams -> StreamFields]
        /\ sock' \in AllSockets
    BY <1>1, <1>3, EndType DEF End
  <2> QED
    BY <1>3, <2>1 DEF End, sessionVars, taskVars, dataVars, WorkerType, RegistryType, TaskType,
       DataType
<1>4. CASE Lookup(id)
  <2>1. lookups' \in [Ids -> Nat]
    BY <1>4 DEF Lookup, LookupSettles, WorkerType, RegistryType
  <2> QED
    BY <1>4, <2>1 DEF Lookup, sessionVars, socketVars, dataVars, clientVars, WorkerType,
       RegistryType, TaskType, DataType
<1>5. ASSUME NEW dns \in BOOLEAN, KeepRebinds(id, dns) PROVE WorkerType'
  <2>1. PICK s \in Streams : stream' = [stream EXCEPT ![s].dns = dns]
    BY <1>5 DEF KeepRebinds
  <2>2. stream[s] \in StreamFields
    BY DEF WorkerType, TaskType
  <2>3. stream' \in [Streams -> StreamFields]
    BY <2>1, <2>2, FieldType DEF WorkerType, TaskType
  <2> QED
    BY <1>5, <2>3 DEF KeepRebinds, sessionVars, socketVars, taskVars, dataVars, clientVars,
       WorkerType, RegistryType, TaskType, DataType
<1>6. ASSUME NEW dns \in BOOLEAN, NEW s \in Streams, KeepOpensUdp(id, s, dns)
      PROVE  WorkerType'
  <2>1. PICK f \in StreamFields : Registers(id, s, f)
    BY <1>6, FreshType DEF KeepOpensUdp
  <2>2. /\ key' \in [Streams -> Ids \cup {None}]
        /\ streams' \in [Ids -> Streams \cup {None}]
        /\ stream' \in [Streams -> StreamFields]
    BY <2>1, RegistersType
  <2> QED
    BY <1>6, <2>2 DEF KeepOpensUdp, sessionVars, socketVars, taskVars, dataVars, clientVars,
       WorkerType, RegistryType, TaskType, DataType
<1> QED BY <1>2, <1>3, <1>4, <1>5, <1>6

LEMMA OpenType ==
  ASSUME WorkerType, TaskInv, NEW s \in Streams,
         Opened(s) \/ DialFails(s) \/ OpeningWritten(s) \/ OpeningFails(s)
  PROVE  WorkerType'
<1>1. "direct" \in Dials /\ {"open", "ended", "closed"} \subseteq SockStates /\ 1 \in Nat
  BY DEF Dials, SockStates
<1>2. sock \in AllSockets /\ key[s] # None
  BY Acting DEF Opened, DialFails, OpeningWritten, OpeningFails, WorkerType, TaskType
<1>3. CASE Opened(s)
  <2>1. sock' \in AllSockets
    BY <1>1, <1>3, SocketType DEF Opened, Discarded
  <2>2. cur' \in [Streams -> Dials \cup {None}] /\ pump' \in [Streams -> Dials \cup {None, "retry"}]
        /\ opener' \in [Streams -> {"none", "dial", "write", "retry", "done"}]
    BY <1>1, <1>3 DEF Opened, StartPump, WorkerType, TaskType
  <2>3. wrote' \in [Streams -> [Dials -> Seq(Nat)]]
    <3>1. CASE Write(s, "direct", 1)
      BY <1>1, <3>1, WriteType
    <3>2. CASE UNCHANGED wrote
      BY <3>2 DEF WorkerType, DataType
    <3> QED BY <1>3, <3>1, <3>2 DEF Opened
  <2> QED
    BY <1>3, <2>1, <2>2, <2>3 DEF Opened, sessionVars, clientVars,
       WorkerType, RegistryType, TaskType, DataType
<1>4. CASE OpeningWritten(s)
  <2>1. /\ pump' \in [Streams -> Dials \cup {None, "retry"}]
        /\ opener' \in [Streams -> {"none", "dial", "write", "retry", "done"}]
    BY <1>1, <1>4 DEF OpeningWritten, StartPump, WorkerType, TaskType
  <2> QED
    BY <1>4, <2>1 DEF OpeningWritten, sessionVars, socketVars, dataVars, clientVars,
       WorkerType, RegistryType, TaskType, DataType
<1>5. ASSUME NEW sockets \in AllSockets, OpenFails(s, sockets) PROVE WorkerType'
  <2>1. RetryOrFail(s, sockets)
    BY <1>5 DEF OpenFails
  <2>2. /\ streams' \in [Ids -> Streams \cup {None}]
        /\ stream' \in [Streams -> StreamFields]
        /\ sock' \in AllSockets
        /\ view' \in [Ids -> {"closed", "open", "told"}]
        /\ retry' \in [Streams -> {"none", "dial", "write"}]
    BY <1>2, <2>1, RetryType
  <2>3. opener' \in [Streams -> {"none", "dial", "write", "retry", "done"}]
    BY <1>5 DEF OpenFails, WorkerType, TaskType
  <2> QED
    BY <1>5, <2>2, <2>3 DEF OpenFails, sessionVars, dataVars,
       WorkerType, RegistryType, TaskType, DataType
<1>6. CASE DialFails(s)
  <2>1. [sock EXCEPT ![s]["direct"] = "ended"] \in AllSockets
    BY <1>1, SocketType
  <2> QED BY <1>5, <1>6, <2>1 DEF DialFails
<1>7. CASE OpeningFails(s)
  BY <1>2, <1>5, <1>7 DEF OpeningFails
<1> QED BY <1>3, <1>4, <1>6, <1>7

LEMMA PumpType ==
  ASSUME WorkerType, TaskInv, NEW s \in Streams,
         TargetSends(s) \/ PumpEnds(s) \/ \E k \in Dials : TargetEnds(s, k)
  PROVE  WorkerType'
<1>1. "ended" \in SockStates /\ sock \in AllSockets
  BY DEF SockStates, WorkerType, TaskType
<1>2. CASE TargetSends(s)
  <2>1. rx' \in [Streams -> [Dials -> Nat]]
    BY <1>2 DEF TargetSends, WorkerType, DataType
  <2>2. stream[s] \in StreamFields
    BY DEF WorkerType, TaskType
  <2>3. stream' \in [Streams -> StreamFields]
    BY <1>2, <2>2, FieldType DEF TargetSends, WorkerType, TaskType
  <2> QED
    BY <1>2, <2>1, <2>3 DEF TargetSends, sessionVars, socketVars, taskVars, clientVars,
       WorkerType, RegistryType, TaskType, DataType
<1>3. CASE PumpEnds(s)
  <2>1. key[s] # None
    BY <1>3, Acting, WorkerMuxAssumption DEF PumpEnds, Dials
  <2>2. pump' \in [Streams -> Dials \cup {None, "retry"}]
    BY <1>3 DEF PumpEnds, WorkerType, TaskType
  <2>3. /\ streams' \in [Ids -> Streams \cup {None}]
        /\ stream' \in [Streams -> StreamFields]
        /\ sock' \in AllSockets
        /\ view' \in [Ids -> {"closed", "open", "told"}]
        /\ retry' \in [Streams -> {"none", "dial", "write"}]
    <3>1. CASE stream[s].closed
      BY <1>3, <3>1 DEF PumpEnds, WorkerType, RegistryType, TaskType
    <3>2. CASE ~stream[s].closed
      BY <1>1, <1>3, <2>1, <3>2, RetryType DEF PumpEnds
    <3> QED BY <3>1, <3>2
  <2> QED
    BY <1>3, <2>2, <2>3 DEF PumpEnds, sessionVars, dataVars,
       WorkerType, RegistryType, TaskType, DataType
<1>4. ASSUME NEW k \in Dials, TargetEnds(s, k) PROVE WorkerType'
  <2>1. sock' \in AllSockets
    BY <1>1, <1>4, SocketType DEF TargetEnds
  <2> QED
    BY <1>4, <2>1 DEF TargetEnds, sessionVars, taskVars, dataVars, clientVars,
       WorkerType, RegistryType, TaskType, DataType
<1> QED BY <1>2, <1>3, <1>4


LEMMA RetryEndsType ==
  ASSUME WorkerType, TaskInv, NEW s \in Streams,
         RetryOpened(s) \/ RetryFails(s) \/ Replayed(s)
  PROVE  WorkerType'
<1>1. "proxy" \in Dials /\ {"open", "ended", "closed"} \subseteq SockStates
  BY DEF Dials, SockStates
<1>2. sock \in AllSockets /\ key[s] # None
  BY Acting DEF RetryOpened, RetryFails, Replayed, WorkerType, TaskType
<1>3. /\ UNCHANGED <<closed, reading, done, key, held, writing, lookups, sent, rx, proto>>
      /\ opener' \in [Streams -> {"none", "dial", "write", "retry", "done"}]
      /\ pump' \in [Streams -> Dials \cup {None, "retry"}]
      /\ retry' \in [Streams -> {"none", "dial", "write"}]
      /\ cur' \in [Streams -> Dials \cup {None}]
  <2>1. CASE Replayed(s)
    BY <1>1, <2>1 DEF Replayed, RetrySucceeds, StartPump, sessionVars, socketVars, dataVars,
       clientVars, WorkerType, TaskType
  <2>2. CASE RetryOpened(s)
    BY <1>1, <2>2 DEF RetryOpened, RetryGivesUp, Swaps, RetrySucceeds, StartPump, sessionVars,
       WorkerType, TaskType
  <2>3. CASE RetryFails(s)
    BY <2>3 DEF RetryFails, RetryGivesUp, sessionVars, WorkerType, TaskType
  <2> QED BY <2>1, <2>2, <2>3
<1>4. ASSUME NEW sockets \in AllSockets, RetryGivesUp(s, sockets) PROVE WorkerType'
  <2>1. /\ streams' \in [Ids -> Streams \cup {None}]
        /\ stream' \in [Streams -> StreamFields]
        /\ sock' \in AllSockets
        /\ view' \in [Ids -> {"closed", "open", "told"}]
    BY <1>2, <1>4, FailType DEF RetryGivesUp
  <2> QED
    BY <1>3, <1>4, <2>1 DEF RetryGivesUp, WorkerType, RegistryType, TaskType, DataType
<1>5. CASE Swaps(s)
  <2>1. sock' \in AllSockets
    BY <1>1, <1>2, <1>5 DEF Swaps, Replaced, AllSockets
  <2>2. wrote' \in [Streams -> [Dials -> Seq(Nat)]]
    <3>1. CASE Write(s, "proxy", 1)
      BY <1>1, <3>1, WriteType
    <3>2. CASE UNCHANGED wrote
      BY <3>2 DEF WorkerType, DataType
    <3> QED BY <1>5, <3>1, <3>2 DEF Swaps
  <2> QED
    BY <1>3, <1>5, <2>1, <2>2 DEF Swaps, WorkerType, RegistryType, TaskType, DataType
<1>6. CASE Replayed(s)
  BY <1>3, <1>6 DEF Replayed, socketVars, dataVars, clientVars,
     WorkerType, RegistryType, TaskType, DataType
<1>7. CASE RetryOpened(s)
  <2>1. Discarded(s, "proxy") \in AllSockets
    BY <1>1, SocketType DEF Discarded
  <2> QED BY <1>4, <1>5, <1>7, <2>1 DEF RetryOpened
<1>8. CASE RetryFails(s)
  <2>1. [sock EXCEPT ![s]["proxy"] = "ended"] \in AllSockets
    BY <1>1, SocketType
  <2> QED BY <1>2, <1>4, <1>8, <2>1 DEF RetryFails
<1> QED BY <1>6, <1>7, <1>8

LEMMA ChainType ==
  ASSUME WorkerType, TaskInv, NEW s \in Streams,
         ChainStep(s) \/ ChainWritten(s) \/ ChainFails(s)
  PROVE  WorkerType'
<1>1. CASE ChainStep(s)
  <2>1. held[s] \in Seq(Nat) /\ held[s] # <<>>
    BY <1>1 DEF ChainStep, WorkerType, DataType
  <2>2. Tail(held[s]) \in Seq(Nat) /\ Head(held[s]) \in Nat
    BY <2>1
  <2>3. held' \in [Streams -> Seq(Nat)]
    BY <1>1, <2>2 DEF ChainStep, WorkerType, DataType
  <2>4. /\ wrote' \in [Streams -> [Dials -> Seq(Nat)]]
        /\ writing' \in [Streams -> Dials \cup {None}]
    <3>1. CASE stream[s].closed \/ cur[s] = None
      BY <1>1, <3>1 DEF ChainStep, WorkerType, TaskType, DataType
    <3>2. CASE ~(stream[s].closed \/ cur[s] = None)
      <4>1. cur[s] \in Dials
        BY <3>2 DEF WorkerType, TaskType
      <4>2. Write(s, cur[s], Head(held[s])) /\ writing' = [writing EXCEPT ![s] = cur[s]]
        BY <1>1, <3>2 DEF ChainStep
      <4>3. wrote' \in [Streams -> [Dials -> Seq(Nat)]]
        BY <2>2, <4>1, <4>2, WriteType
      <4> QED BY <4>1, <4>2, <4>3 DEF WorkerType, TaskType
    <3> QED BY <3>1, <3>2
  <2> QED
    BY <1>1, <2>3, <2>4 DEF ChainStep, sessionVars, socketVars, clientVars,
       WorkerType, RegistryType, TaskType, DataType
<1>2. CASE ChainWritten(s)
  <2>1. writing' \in [Streams -> Dials \cup {None}]
    BY <1>2 DEF ChainWritten, WorkerType, TaskType
  <2> QED
    BY <1>2, <2>1 DEF ChainWritten, sessionVars, socketVars, dataVars, clientVars,
       WorkerType, RegistryType, TaskType, DataType
<1>3. CASE ChainFails(s)
  <2>1. key[s] # None /\ sock \in AllSockets
    BY <1>3, Acting DEF ChainFails, WorkerType, TaskType
  <2>2. /\ streams' \in [Ids -> Streams \cup {None}]
        /\ stream' \in [Streams -> StreamFields]
        /\ sock' \in AllSockets
        /\ view' \in [Ids -> {"closed", "open", "told"}]
    BY <1>3, <2>1, FailType DEF ChainFails
  <2>3. writing' \in [Streams -> Dials \cup {None}]
    BY <1>3 DEF ChainFails, WorkerType, TaskType
  <2> QED
    BY <1>3, <2>2, <2>3 DEF ChainFails, sessionVars, dataVars,
       WorkerType, RegistryType, TaskType, DataType
<1> QED BY <1>1, <1>2, <1>3

LEMMA SessionEndsType ==
  ASSUME WorkerType, Desync \/ ClientCloses \/ Settle \/ UNCHANGED vars
  PROVE  WorkerType'
<1>1. CASE CloseAll /\ reading' \in BOOLEAN
  <2>1. sock \in AllSockets
    BY DEF WorkerType, TaskType
  <2>2. /\ streams' \in [Ids -> Streams \cup {None}]
        /\ stream' \in [Streams -> StreamFields]
        /\ sock' \in AllSockets
    BY <1>1, <2>1, EndType DEF CloseAll
  <2> QED
    BY <1>1, <2>2 DEF CloseAll, taskVars, dataVars, clientVars,
       WorkerType, RegistryType, TaskType, DataType
<1>2. CASE Settle \/ UNCHANGED vars
  BY <1>2 DEF Settle, vars, sessionVars, socketVars, taskVars, dataVars, clientVars,
     WorkerType, RegistryType, TaskType, DataType
<1> QED BY <1>1, <1>2 DEF Desync, ClientCloses, WorkerType, RegistryType

LEMMA NextType == WorkerType /\ TaskInv /\ Keyed /\ [Next]_vars => WorkerType'
BY NewType, RefusedType, KeepType, DatagramType, OpenType, PumpType, RetryEndsType, ChainType,
   SessionEndsType DEF Next


(***************************************************************************)
(* A step is one of a stream's, or it leaves the tasks of every stream      *)
(* alone but for ending a write; either way it may close other streams.     *)
(***************************************************************************)

Untouched(t) ==
  /\ key'[t] = key[t] /\ cur'[t] = cur[t] /\ opener'[t] = opener[t] /\ pump'[t] = pump[t]
  /\ retry'[t] = retry[t] /\ held'[t] = held[t] /\ sent'[t] = sent[t] /\ wrote'[t] = wrote[t]
  /\ rx'[t] = rx[t] /\ writing'[t] \in {writing[t], None}
  /\ stream'[t].kind = stream[t].kind /\ stream'[t].opening = stream[t].opening
  /\ stream'[t].retried = stream[t].retried /\ stream'[t].sawData = stream[t].sawData
  /\ stream[t].closed => stream'[t].closed

StepOfNone ==
  \/ \E id \in Ids :
       \/ \E p \in {"tcp", "udp"} : NewRefused(id, p)
       \/ KeepUdp(id) \/ End(id) \/ Lookup(id) \/ \E dns \in BOOLEAN : KeepRebinds(id, dns)
  \/ \E s \in Streams : ChainWritten(s) \/ ChainFails(s) \/ \E k \in Dials : TargetEnds(s, k)
  \/ Desync \/ ClientCloses \/ Settle \/ UNCHANGED vars

StepOf(s) ==
  \/ \E id \in Ids :
       \/ \E n \in {0, 1} : NewTcp(id, s, n) \/ NewUdp(id, s, n)
       \/ \E dns \in BOOLEAN : KeepOpensUdp(id, s, dns)
       \/ KeepTcp(id) /\ streams[id] = s
  \/ Opened(s) \/ DialFails(s) \/ OpeningWritten(s) \/ OpeningFails(s)
  \/ TargetSends(s) \/ PumpEnds(s) \/ RetryOpened(s) \/ RetryFails(s) \/ Replayed(s)
  \/ ChainStep(s)

LEMMA Steps == [Next]_vars => StepOfNone \/ \E s \in Streams : StepOf(s)
<1>1. ASSUME NEW id \in Ids, KeepTcp(id) PROVE \E s \in Streams : StepOf(s)
  BY <1>1 DEF KeepTcp, StepOf
<1> QED BY <1>1 DEF Next, StepOfNone, StepOf

(* endStream touches no field but closed. *)
LEMMA EndFields ==
  ASSUME WorkerType, NEW S, NEW sockets, EndStreams(S, sockets), NEW t \in Streams
  PROVE  /\ stream'[t].kind = stream[t].kind /\ stream'[t].opening = stream[t].opening
         /\ stream'[t].retried = stream[t].retried /\ stream'[t].sawData = stream[t].sawData
         /\ stream'[t].closed <=> (stream[t].closed \/ \E i \in S : streams[i] = t)
<1>1. PICK E : /\ stream' = [s \in Streams |-> [stream[s] EXCEPT !.closed = @ \/ s \in E]]
               /\ E = {streams[i] : i \in S} \ {None}
  BY DEF EndStreams
<1>2. t \in E <=> \E i \in S : streams[i] = t
  BY <1>1, WorkerMuxAssumption
<1>3. stream[t] \in StreamFields
  BY DEF WorkerType, TaskType
<1> QED BY <1>1, <1>2, <1>3 DEF StreamFields

LEMMA QuietSteps ==
  ASSUME WorkerType, StepOfNone, NEW t \in Streams
  PROVE  Untouched(t)
<1>1. CASE \E id \in Ids, p \in {"tcp", "udp"} : NewRefused(id, p)
  BY <1>1 DEF NewRefused, socketVars, taskVars, dataVars, Untouched
<1>2. ASSUME NEW id \in Ids, KeepUdp(id) PROVE Untouched(t)
  <2>1. /\ UNCHANGED <<key, cur, opener, pump, retry, held, writing, sent, wrote, rx>>
        /\ UNCHANGED stream \/ \E S, sockets : EndStreams(S, sockets)
    BY <1>2 DEF KeepUdp, Fails, dataVars
  <2> QED BY <2>1, EndFields DEF Untouched
<1>3. ASSUME NEW id \in Ids, End(id) PROVE Untouched(t)
  BY <1>3, EndFields DEF End, taskVars, dataVars, Untouched
<1>4. ASSUME NEW id \in Ids, Lookup(id) PROVE Untouched(t)
  BY <1>4 DEF Lookup, socketVars, dataVars, Untouched
<1>5. ASSUME NEW id \in Ids, NEW dns \in BOOLEAN, KeepRebinds(id, dns) PROVE Untouched(t)
  <2>1. stream[t] \in StreamFields
    BY DEF WorkerType, TaskType
  <2> QED
    BY <1>5, <2>1 DEF KeepRebinds, socketVars, taskVars, dataVars, Untouched, WorkerType,
       TaskType, StreamFields
<1>6. ASSUME NEW s \in Streams, ChainWritten(s) PROVE Untouched(t)
  BY <1>6 DEF ChainWritten, socketVars, dataVars, Untouched, WorkerType, TaskType
<1>7. ASSUME NEW s \in Streams, ChainFails(s) PROVE Untouched(t)
  <2>1. /\ UNCHANGED <<key, cur, opener, pump, retry, held, sent, wrote, rx>>
        /\ EndStreams({key[s]}, sock)
        /\ writing' = [writing EXCEPT ![s] = None]
    BY <1>7 DEF ChainFails, Fails, dataVars
  <2>2. writing'[t] \in {writing[t], None}
    BY <2>1 DEF WorkerType, TaskType
  <2> QED BY <2>1, <2>2, EndFields DEF Untouched
<1>8. ASSUME NEW s \in Streams, NEW k \in Dials, TargetEnds(s, k) PROVE Untouched(t)
  BY <1>8 DEF TargetEnds, taskVars, dataVars, Untouched
<1>9. CASE CloseAll
  BY <1>9, EndFields DEF CloseAll, taskVars, dataVars, Untouched
<1>10. CASE Settle \/ UNCHANGED vars
  BY <1>10 DEF Settle, vars, socketVars, taskVars, dataVars, Untouched
<1> QED
  BY <1>1, <1>2, <1>3, <1>4, <1>5, <1>6, <1>7, <1>8, <1>9, <1>10
     DEF StepOfNone, Desync, ClientCloses


(* What RetryOrFail leaves of the fields of a stream. *)
LEMMA RetryFields ==
  ASSUME WorkerType, NEW s \in Streams, NEW sockets, RetryOrFail(s, sockets), NEW t \in Streams
  PROVE  /\ stream'[t].kind = stream[t].kind /\ stream'[t].opening = stream[t].opening
         /\ stream'[t].sawData = stream[t].sawData
         /\ stream[t].closed => stream'[t].closed
         /\ t # s => stream'[t].retried = stream[t].retried /\ retry'[t] = retry[t]
         /\ t = s => /\ stream'[t].retried <=> (stream[t].retried \/ MayRetry(s))
                    /\ retry'[t] = IF MayRetry(s) THEN "dial" ELSE retry[t]
<1>1. stream[t] \in StreamFields
  BY DEF WorkerType, TaskType
<1>2. CASE MayRetry(s)
  <2>1. /\ stream' = [stream EXCEPT ![s].retried = TRUE]
        /\ retry' = [retry EXCEPT ![s] = "dial"]
    BY <1>2 DEF RetryOrFail
  <2>2. CASE t = s
    <3>1. stream'[t] = [stream[t] EXCEPT !.retried = TRUE] /\ retry'[t] = "dial"
      BY <2>1, <2>2 DEF WorkerType, TaskType
    <3> QED BY <1>1, <1>2, <2>2, <3>1 DEF StreamFields
  <2>3. CASE t # s
    BY <2>1, <2>3 DEF WorkerType, TaskType
  <2> QED BY <2>2, <2>3
<1>3. CASE ~MayRetry(s)
  <2>1. EndStreams({key[s]}, sockets) /\ UNCHANGED retry
    BY <1>3 DEF RetryOrFail, Fails
  <2> QED BY <1>1, <1>3, <2>1, EndFields DEF StreamFields
<1> QED BY <1>2, <1>3

LEMMA OthersUntouched ==
  ASSUME WorkerType, NEW s \in Streams, StepOf(s), NEW t \in Streams, t # s
  PROVE  Untouched(t)
<1>1. ASSUME NEW id \in Ids, NEW n \in {0, 1}, NewTcp(id, s, n) PROVE Untouched(t)
  BY <1>1 DEF NewTcp, Registers, Untouched, WorkerType, RegistryType, TaskType, DataType
<1>2. ASSUME NEW id \in Ids, NEW n \in {0, 1}, NewUdp(id, s, n) PROVE Untouched(t)
  BY <1>2 DEF NewUdp, Registers, socketVars, dataVars, Untouched, WorkerType, RegistryType,
     TaskType
<1>3. ASSUME NEW id \in Ids, NEW dns \in BOOLEAN, KeepOpensUdp(id, s, dns) PROVE Untouched(t)
  BY <1>3 DEF KeepOpensUdp, Registers, socketVars, taskVars, dataVars, Untouched, WorkerType,
     RegistryType, TaskType
<1>4. ASSUME NEW id \in Ids, KeepTcp(id), streams[id] = s PROVE Untouched(t)
  BY <1>4 DEF KeepTcp, Chain, socketVars, Untouched, WorkerType, TaskType, DataType
<1>5. CASE Opened(s)
  BY <1>5 DEF Opened, StartPump, Write, Untouched, WorkerType, TaskType, DataType
<1>6. ASSUME NEW sockets, OpenFails(s, sockets) PROVE Untouched(t)
  <2>1. /\ UNCHANGED <<key, cur, pump, held, writing, sent, wrote, rx>>
        /\ opener'[t] = opener[t] /\ RetryOrFail(s, sockets)
    BY <1>6 DEF OpenFails, dataVars, WorkerType, TaskType
  <2> QED BY <2>1, RetryFields DEF Untouched
<1>7. CASE OpeningWritten(s)
  BY <1>7 DEF OpeningWritten, StartPump, socketVars, dataVars, Untouched, WorkerType, TaskType
<1>8. CASE TargetSends(s)
  BY <1>8 DEF TargetSends, socketVars, taskVars, Untouched, WorkerType, TaskType, DataType
<1>9. CASE PumpEnds(s)
  <2>1. /\ UNCHANGED <<key, cur, opener, held, writing, sent, wrote, rx>>
        /\ pump'[t] = pump[t]
        /\ UNCHANGED <<stream, retry>> \/ RetryOrFail(s, sock)
    BY <1>9 DEF PumpEnds, dataVars, WorkerType, TaskType
  <2> QED BY <2>1, RetryFields DEF Untouched
<1>10. ASSUME NEW sockets, RetryGivesUp(s, sockets),
              UNCHANGED <<key, held, writing, sent, rx>>
       PROVE  Untouched(t)
  <2>1. /\ retry'[t] = retry[t] /\ opener'[t] = opener[t] /\ pump'[t] = pump[t]
        /\ UNCHANGED <<cur, wrote>> /\ EndStreams({key[s]}, sockets)
    BY <1>10 DEF RetryGivesUp, Fails, WorkerType, TaskType
  <2> QED BY <1>10, <2>1, EndFields DEF Untouched
<1>11. CASE RetryOpened(s)
  <2>1. UNCHANGED <<key, held, writing, sent, rx>>
    BY <1>11 DEF RetryOpened
  <2>2. CASE Swaps(s)
    BY <2>1, <2>2 DEF Swaps, Replaced, RetrySucceeds, StartPump, Write, Untouched, WorkerType, TaskType,
       DataType
  <2> QED BY <1>10, <1>11, <2>1, <2>2 DEF RetryOpened
<1>12. CASE RetryFails(s)
  BY <1>10, <1>12 DEF RetryFails
<1>13. CASE Replayed(s)
  BY <1>13 DEF Replayed, RetrySucceeds, StartPump, socketVars, dataVars, Untouched, WorkerType,
     TaskType
<1>14. CASE ChainStep(s)
  BY <1>14 DEF ChainStep, Write, socketVars, Untouched, WorkerType, TaskType, DataType
<1> QED
  BY <1>1, <1>2, <1>3, <1>4, <1>5, <1>6, <1>7, <1>8, <1>9, <1>11, <1>12, <1>13, <1>14
     DEF StepOf, DialFails, OpeningFails

LEMMA UntouchedTasks ==
  ASSUME NEW t, Tasks(t), Untouched(t)
  PROVE  Tasks(t)'
BY DEF Tasks, Untasked, Untouched

LEMMA StepTasks ==
  ASSUME WorkerType, TaskInv, Keyed, NEW s \in Streams, StepOf(s)
  PROVE  Tasks(s)'
<1>1. Tasks(s) /\ None \notin {"direct", "proxy", "retry"} /\ stream[s] \in StreamFields
  BY WorkerMuxAssumption DEF TaskInv, WorkerType, TaskType, Dials
<1>2. ASSUME NEW id \in Ids, NEW n \in {0, 1}, NewTcp(id, s, n) PROVE Tasks(s)'
  <2>1. /\ key[s] = None /\ key'[s] = id /\ stream'[s].kind = "tcp" /\ ~stream'[s].retried
        /\ opener'[s] = "dial" /\ pump'[s] = pump[s] /\ retry'[s] = retry[s]
    BY <1>2 DEF NewTcp, Registers, Fresh, WorkerType, RegistryType, TaskType
  <2> QED BY <1>1, <2>1, WorkerMuxAssumption DEF Tasks, Untasked
<1>3. ASSUME NEW id \in Ids, NEW f \in StreamFields, Registers(id, s, f), f.kind = "udp", ~f.retried,
             UNCHANGED <<opener, pump, retry, held, writing, cur, sent, wrote, rx>>
      PROVE  Tasks(s)'
  <2>1. /\ key[s] = None /\ stream'[s].kind = "udp" /\ ~stream'[s].retried
    BY <1>3 DEF Registers, WorkerType, TaskType
  <2> QED BY <1>1, <1>3, <2>1 DEF Tasks, Untasked
<1>4. ASSUME NEW id \in Ids, NEW n \in {0, 1}, NewUdp(id, s, n) PROVE Tasks(s)'
  BY <1>3, <1>4, FreshType DEF NewUdp, socketVars, dataVars, Fresh
<1>5. ASSUME NEW id \in Ids, NEW dns \in BOOLEAN, KeepOpensUdp(id, s, dns) PROVE Tasks(s)'
  BY <1>3, <1>5, FreshType DEF KeepOpensUdp, socketVars, taskVars, dataVars, Fresh
<1>6. ASSUME NEW id \in Ids, KeepTcp(id), streams[id] = s PROVE Tasks(s)'
  <2>1. key[s] = id /\ stream[s].kind = "tcp"
    BY <1>6, WorkerMuxAssumption DEF Keyed, KeepTcp
  <2>2. /\ stream'[s].kind = "tcp" /\ stream'[s].retried = stream[s].retried
        /\ UNCHANGED <<key, opener, pump, retry>>
    BY <1>1, <1>6, <2>1 DEF KeepTcp, WorkerType, TaskType, StreamFields
  <2> QED BY <1>1, <2>1, <2>2, WorkerMuxAssumption DEF Tasks
<1>7. CASE Opened(s)
  <2>1. /\ opener[s] = "dial" /\ opener'[s] \in {"write", "done"}
        /\ pump'[s] = IF opener'[s] = "done" /\ ~Abandoned(s) THEN "direct" ELSE pump[s]
        /\ UNCHANGED <<key, stream, retry>>
    BY <1>7 DEF Opened, StartPump, WorkerType, TaskType
  <2> QED BY <1>1, <2>1 DEF Tasks
<1>8. ASSUME NEW sockets, OpenFails(s, sockets), opener[s] \in {"dial", "write"} PROVE Tasks(s)'
  <2>1. /\ UNCHANGED <<key, pump>> /\ opener'[s] \in {"retry", "done"} /\ RetryOrFail(s, sockets)
    BY <1>8 DEF OpenFails, WorkerType, TaskType
  <2>2. /\ stream'[s].kind = stream[s].kind
        /\ stream'[s].retried <=> (stream[s].retried \/ MayRetry(s))
        /\ retry'[s] = IF MayRetry(s) THEN "dial" ELSE retry[s]
    BY <2>1, RetryFields
  <2> QED BY <1>1, <1>8, <2>1, <2>2 DEF Tasks
<1>9. CASE OpeningWritten(s)
  <2>1. /\ opener[s] = "write" /\ opener'[s] = "done" /\ pump'[s] = "direct"
        /\ UNCHANGED <<key, stream, retry>>
    BY <1>9 DEF OpeningWritten, StartPump, WorkerType, TaskType
  <2> QED BY <1>1, <2>1 DEF Tasks
<1>10. CASE TargetSends(s)
  <2>1. /\ stream'[s].kind = stream[s].kind /\ stream'[s].retried = stream[s].retried
        /\ UNCHANGED <<key, opener, pump, retry>> /\ pump[s] \in Dials
    BY <1>1, <1>10 DEF TargetSends, taskVars, WorkerType, TaskType, StreamFields
  <2> QED BY <1>1, <2>1 DEF Tasks, Untasked, Dials
<1>11. CASE PumpEnds(s)
  <2>1. pump[s] \in Dials /\ retry[s] = "none" /\ opener[s] \notin {"none", "dial", "write"}
    BY <1>1, <1>11 DEF PumpEnds, Tasks, Dials
  <2>2. UNCHANGED <<key, opener>>
    BY <1>11 DEF PumpEnds
  <2>3. CASE stream[s].closed
    <3>1. pump'[s] = None /\ UNCHANGED <<stream, retry>>
      BY <1>11, <2>3 DEF PumpEnds, WorkerType, TaskType
    <3> QED BY <1>1, <2>1, <2>2, <3>1 DEF Tasks
  <2>4. CASE ~stream[s].closed
    <3>1. pump'[s] = (IF MayRetry(s) THEN "retry" ELSE None) /\ RetryOrFail(s, sock)
      BY <1>11, <2>4 DEF PumpEnds, WorkerType, TaskType
    <3>2. /\ stream'[s].kind = stream[s].kind
          /\ stream'[s].retried <=> (stream[s].retried \/ MayRetry(s))
          /\ retry'[s] = IF MayRetry(s) THEN "dial" ELSE retry[s]
      BY <3>1, RetryFields
    <3> QED BY <1>1, <2>1, <2>2, <3>1, <3>2 DEF Tasks
  <2> QED BY <2>3, <2>4
<1>12. ASSUME NEW sockets, RetryGivesUp(s, sockets), retry[s] # "none", UNCHANGED key
       PROVE  Tasks(s)'
  <2>1. /\ retry'[s] = "none" /\ opener'[s] = "done" /\ pump'[s] = None
        /\ EndStreams({key[s]}, sockets)
    BY <1>12 DEF RetryGivesUp, Fails, WorkerType, TaskType
  <2>2. stream'[s].kind = stream[s].kind
    BY <2>1, EndFields
  <2> QED BY <1>1, <1>12, <2>1, <2>2 DEF Tasks
<1>13. ASSUME RetrySucceeds(s), retry[s] # "none", UNCHANGED <<key, stream>> PROVE Tasks(s)'
  <2>1. retry'[s] = "none" /\ opener'[s] = "done" /\ pump'[s] = "proxy"
    BY <1>13 DEF RetrySucceeds, StartPump, WorkerType, TaskType
  <2> QED BY <1>1, <1>13, <2>1 DEF Tasks
<1>14. CASE RetryOpened(s)
  <2>1. retry[s] = "dial" /\ UNCHANGED key
    BY <1>14 DEF RetryOpened
  <2>2. CASE Swaps(s) /\ stream[s].initial
    <3>1. retry'[s] = "write" /\ UNCHANGED <<opener, pump, stream>>
      BY <2>2 DEF Swaps, WorkerType, TaskType
    <3> QED BY <1>1, <2>1, <3>1 DEF Tasks
  <2>3. CASE Swaps(s) /\ ~stream[s].initial
    BY <1>13, <2>1, <2>3 DEF Swaps
  <2> QED BY <1>12, <1>14, <2>1, <2>2, <2>3 DEF RetryOpened
<1>15. CASE RetryFails(s)
  BY <1>12, <1>15 DEF RetryFails
<1>16. CASE Replayed(s)
  BY <1>13, <1>16 DEF Replayed
<1>17. CASE ChainStep(s)
  <2>1. opener[s] = "done" /\ UNCHANGED <<key, stream, opener, pump, retry>>
    BY <1>17 DEF ChainStep
  <2> QED BY <1>1, <2>1 DEF Tasks
<1> QED
  BY <1>2, <1>4, <1>5, <1>6, <1>7, <1>8, <1>9, <1>10, <1>11, <1>14, <1>15, <1>16, <1>17
     DEF StepOf, DialFails, OpeningFails

LEMMA NextTasks == WorkerType /\ TaskInv /\ Keyed /\ [Next]_vars => TaskInv'
<1> SUFFICES ASSUME WorkerType, TaskInv, Keyed, [Next]_vars, NEW t \in Streams PROVE Tasks(t)'
  BY DEF TaskInv
<1>1. Tasks(t)
  BY DEF TaskInv
<1>2. CASE StepOfNone
  BY <1>1, <1>2, QuietSteps, UntouchedTasks
<1>3. ASSUME NEW s \in Streams, StepOf(s) PROVE Tasks(t)'
  <2>1. CASE t = s
    BY <1>3, <2>1, StepTasks
  <2>2. CASE t # s
    BY <1>1, <1>3, <2>2, OthersUntouched, UntouchedTasks
  <2> QED BY <2>1, <2>2
<1> QED BY <1>2, <1>3, Steps


(***************************************************************************)
(* Ids and the streams registered under them.  A closed session has none;   *)
(* an id the client holds open has one; and one it does not hold open has   *)
(* none, or a UDP substream that a late Keep has opened.                    *)
(***************************************************************************)

Named(id) ==
  /\ view[id] # "open" => streams[id] = None \/ stream[streams[id]].kind = "udp"
  /\ closed => streams[id] = None
  /\ view[id] = "open" => closed \/ streams[id] # None

Names == Keyed /\ \A id \in Ids : Named(id)

LEMMA InitNames == Init => Names
BY DEF Init, Names, Keyed, Named

LEMMA EndNames ==
  ASSUME WorkerType, Names, NEW S \in SUBSET Ids, NEW sockets, EndStreams(S, sockets),
         UNCHANGED key, \A id \in Ids \ S : view'[id] = view[id],
         \A id \in S : view'[id] # "open" \/ closed',
         UNCHANGED closed \/ (closed' /\ S = Ids)
  PROVE  Names'
<1>1. \A id \in Ids : streams'[id] = IF id \in S THEN None ELSE streams[id]
  BY DEF EndStreams
<1>2. Keyed'
  BY <1>1 DEF Names, Keyed
<1>3. ASSUME NEW id \in Ids PROVE Named(id)'
  <2>1. CASE id \in S
    BY <1>1, <2>1 DEF Named
  <2>2. CASE id \notin S
    <3>1. streams'[id] = streams[id] /\ view'[id] = view[id] /\ closed' = closed
      BY <1>1, <2>2
    <3>2. streams[id] \in Streams
          => stream'[streams[id]].kind = stream[streams[id]].kind
      BY EndFields
    <3> QED BY <3>1, <3>2 DEF Names, Named, WorkerType, RegistryType
  <2> QED BY <2>1, <2>2
<1> QED BY <1>2, <1>3 DEF Names

LEMMA RegisterNames ==
  ASSUME WorkerType, Names, NEW i \in Ids, NEW s \in Streams, NEW f \in StreamFields,
         Registers(i, s, f), ~closed, UNCHANGED closed,
         \A id \in Ids : id # i => view'[id] = view[id],
         view'[i] = "open" \/ f.kind = "udp"
  PROVE  Names'
<1>1. /\ key[s] = None /\ key' = [key EXCEPT ![s] = i]
      /\ stream' = [stream EXCEPT ![s] = f] /\ streams' = [streams EXCEPT ![i] = s]
  BY DEF Registers
<1>2. \A id \in Ids : streams[id] # s
  BY <1>1, WorkerMuxAssumption DEF Names, Keyed
<1>3. Keyed'
  BY <1>1, <1>2 DEF Names, Keyed, WorkerType, RegistryType
<1>4. ASSUME NEW id \in Ids PROVE Named(id)'
  <2>1. CASE id = i
    BY <1>1, <2>1, WorkerMuxAssumption DEF Named, WorkerType, RegistryType, TaskType
  <2>2. CASE id # i
    BY <1>1, <1>2, <2>2 DEF Names, Named, WorkerType, RegistryType, TaskType
  <2> QED BY <2>1, <2>2
<1> QED BY <1>3, <1>4 DEF Names

LEMMA SameNames ==
  ASSUME WorkerType, Names, UNCHANGED <<streams, key, view, closed>>,
         \A t \in Streams : stream'[t].kind = stream[t].kind
  PROVE  Names'
<1>1. Keyed'
  BY DEF Names, Keyed
<1>2. ASSUME NEW id \in Ids PROVE Named(id)'
  <2>1. streams[id] \in Streams \cup {None}
    BY DEF WorkerType, RegistryType
  <2> QED BY <2>1 DEF Names, Named
<1> QED BY <1>1, <1>2 DEF Names

(* What a task that gives its substream up does to the registry. *)
LEMMA FailNames ==
  ASSUME WorkerType, Names, NEW s \in Streams, key[s] \in Ids, NEW sockets, Fails(s, sockets),
         UNCHANGED <<key, closed>>
  PROVE  Names'
<1>1. {key[s]} \in SUBSET Ids /\ EndStreams({key[s]}, sockets)
  BY DEF Fails
<1>2. \A id \in Ids \ {key[s]} : view'[id] = view[id]
  BY DEF Fails, SendEnd, WorkerType, RegistryType
<1>3. view'[key[s]] # "open" \/ closed
  BY DEF Fails, SendEnd, WorkerType, RegistryType
<1> QED BY <1>1, <1>2, <1>3, EndNames

LEMMA RetryNames ==
  ASSUME WorkerType, Names, NEW s \in Streams, key[s] \in Ids, NEW sockets,
         RetryOrFail(s, sockets), UNCHANGED <<key, closed>>
  PROVE  Names'
<1>1. CASE MayRetry(s)
  <2>1. \A t \in Streams : stream'[t].kind = stream[t].kind
    BY RetryFields
  <2>2. UNCHANGED <<streams, view>>
    BY <1>1 DEF RetryOrFail
  <2> QED BY <2>1, <2>2, SameNames
<1>2. CASE ~MayRetry(s)
  BY <1>2, FailNames DEF RetryOrFail
<1> QED BY <1>1, <1>2

LEMMA FrameNames ==
  ASSUME WorkerType, Names, NEW id \in Ids,
         \/ \E p \in {"tcp", "udp"} : NewRefused(id, p)
         \/ \E s \in Streams, n \in {0, 1} : NewTcp(id, s, n) \/ NewUdp(id, s, n)
         \/ \E dns \in BOOLEAN :
              KeepRebinds(id, dns) \/ \E s \in Streams : KeepOpensUdp(id, s, dns)
         \/ KeepTcp(id) \/ KeepUdp(id) \/ End(id) \/ Lookup(id)
  PROVE  Names'
<1>1. ASSUME NEW p \in {"tcp", "udp"}, NewRefused(id, p) PROVE Names'
  <2>1. /\ view[id] # "open" /\ ~closed
        /\ UNCHANGED <<streams, key, stream, closed>>
    BY <1>1 DEF NewRefused, Opens, sessionVars
  <2>2. view'[id] # "open" /\ \A i \in Ids : i # id => view'[i] = view[i]
    BY <1>1 DEF NewRefused, Opens, SendEnd, WorkerType, RegistryType
  <2>3. ASSUME NEW i \in Ids PROVE Named(i)'
    <3>1. CASE i = id
      BY <2>1, <2>2, <3>1 DEF Names, Named
    <3>2. CASE i # id
      BY <2>1, <2>2, <3>2 DEF Names, Named
    <3> QED BY <3>1, <3>2
  <2> QED BY <2>1, <2>3 DEF Names, Keyed
<1>2. ASSUME NEW s \in Streams, NEW n \in {0, 1}, NewTcp(id, s, n) \/ NewUdp(id, s, n)
      PROVE  Names'
  <2>1. PICK f \in StreamFields : Registers(id, s, f)
    BY <1>2, FreshType DEF NewTcp, NewUdp
  <2>2. ~closed /\ UNCHANGED closed /\ view' = [view EXCEPT ![id] = "open"]
    BY <1>2 DEF NewTcp, NewUdp, Opens, sessionVars
  <2>3. view'[id] = "open" /\ \A i \in Ids : i # id => view'[i] = view[i]
    BY <2>2 DEF WorkerType, RegistryType
  <2> QED BY <2>1, <2>2, <2>3, RegisterNames
<1>3. ASSUME NEW dns \in BOOLEAN, NEW s \in Streams, KeepOpensUdp(id, s, dns) PROVE Names'
  <2>1. PICK f \in StreamFields : Registers(id, s, f) /\ f.kind = "udp"
    BY <1>3, FreshType DEF KeepOpensUdp, Fresh
  <2>2. ~closed /\ UNCHANGED <<closed, view>>
    BY <1>3 DEF KeepOpensUdp, Keeps, sessionVars, clientVars
  <2> QED BY <2>1, <2>2, RegisterNames
<1>4. ASSUME NEW dns \in BOOLEAN, KeepRebinds(id, dns) PROVE Names'
  <2>1. \A t \in Streams : stream'[t].kind = stream[t].kind
    BY <1>4, QuietSteps DEF StepOfNone, Untouched
  <2>2. UNCHANGED <<streams, key, view, closed>>
    BY <1>4 DEF KeepRebinds, sessionVars, clientVars
  <2> QED BY <2>1, <2>2, SameNames
<1>5. CASE KeepTcp(id)
  <2>1. PICK s \in Streams :
          stream' = [stream EXCEPT ![s].wroteMore = TRUE, ![s].initial = FALSE]
    BY <1>5 DEF KeepTcp
  <2>2. \A t \in Streams : stream'[t].kind = stream[t].kind
    BY <2>1 DEF WorkerType, TaskType, StreamFields
  <2>3. UNCHANGED <<streams, key, view, closed>>
    BY <1>5 DEF KeepTcp, sessionVars, clientVars
  <2> QED BY <2>2, <2>3, SameNames
<1>6. CASE KeepUdp(id)
  <2>1. PICK s \in Streams :
          /\ streams[id] = s
          /\ IF stream[s].dns THEN UNCHANGED <<streams, stream, view>> ELSE Fails(s, sock)
    BY <1>6 DEF KeepUdp
  <2>2. key[s] \in Ids /\ UNCHANGED <<key, closed>>
    BY <1>6, <2>1, WorkerMuxAssumption DEF Names, Keyed, KeepUdp, sessionVars
  <2> QED BY <2>1, <2>2, FailNames, SameNames
<1>7. CASE End(id)
  <2>1. /\ EndStreams({id}, sock) /\ {id} \in SUBSET Ids /\ UNCHANGED <<key, closed>>
        /\ view' = [view EXCEPT ![id] = "closed"]
    BY <1>7 DEF End, sessionVars
  <2>2. view'[id] # "open" /\ \A i \in Ids \ {id} : view'[i] = view[i]
    BY <2>1 DEF WorkerType, RegistryType
  <2> QED BY <2>1, <2>2, EndNames
<1>8. CASE Lookup(id)
  BY <1>8, SameNames DEF Lookup, sessionVars, clientVars
<1> QED BY <1>1, <1>2, <1>3, <1>4, <1>5, <1>6, <1>7, <1>8

LEMMA NextNames == WorkerType /\ TaskInv /\ Names /\ [Next]_vars => Names'
<1> SUFFICES ASSUME WorkerType, TaskInv, Names, [Next]_vars PROVE Names'
  OBVIOUS
<1>1. ASSUME NEW s \in Streams, Opened(s) \/ OpeningWritten(s) \/ Replayed(s) \/ ChainStep(s)
      PROVE  Names'
  BY <1>1, SameNames DEF Opened, OpeningWritten, Replayed, ChainStep, sessionVars, clientVars
<1>2. ASSUME NEW s \in Streams, DialFails(s) \/ OpeningFails(s) PROVE Names'
  <2>1. key[s] \in Ids
    BY <1>2, Acting DEF DialFails, OpeningFails
  <2>2. UNCHANGED <<key, closed>> /\ \E sockets : RetryOrFail(s, sockets)
    BY <1>2 DEF DialFails, OpeningFails, OpenFails, sessionVars
  <2> QED BY <2>1, <2>2, RetryNames
<1>3. ASSUME NEW s \in Streams, TargetSends(s) PROVE Names'
  <2>1. \A t \in Streams : stream'[t].kind = stream[t].kind
    BY <1>3 DEF TargetSends, WorkerType, TaskType, StreamFields
  <2> QED BY <1>3, <2>1, SameNames DEF TargetSends, sessionVars, clientVars
<1>4. ASSUME NEW s \in Streams, PumpEnds(s) PROVE Names'
  <2>1. key[s] \in Ids
    BY <1>4, Acting, WorkerMuxAssumption DEF PumpEnds
  <2>2. UNCHANGED <<key, closed>>
        /\ (UNCHANGED <<streams, stream, view>> \/ RetryOrFail(s, sock))
    BY <1>4 DEF PumpEnds, sessionVars
  <2> QED BY <2>1, <2>2, RetryNames, SameNames
<1>5. ASSUME NEW s \in Streams, RetryOpened(s) \/ RetryFails(s) \/ ChainFails(s) PROVE Names'
  <2>1. key[s] \in Ids
    BY <1>5, Acting DEF RetryOpened, RetryFails, ChainFails
  <2>2. UNCHANGED <<key, closed>>
        /\ (UNCHANGED <<streams, stream, view>> \/ \E sockets : Fails(s, sockets))
    BY <1>5 DEF RetryOpened, RetryFails, ChainFails, RetryGivesUp, Swaps, sessionVars
  <2> QED BY <2>1, <2>2, FailNames, SameNames
<1>6. ASSUME NEW s \in Streams, ChainWritten(s) \/ \E k \in Dials : TargetEnds(s, k) PROVE Names'
  BY <1>6, SameNames DEF ChainWritten, TargetEnds, sessionVars, clientVars
<1>7. CASE CloseAll
  <2>1. EndStreams(Ids, sock) /\ UNCHANGED <<key, view>> /\ closed'
    BY <1>7 DEF CloseAll, clientVars
  <2>2. Ids \in SUBSET Ids
    OBVIOUS
  <2> QED BY <2>1, <2>2, EndNames
<1>8. CASE Settle \/ UNCHANGED vars
  BY <1>8, SameNames DEF Settle, vars, sessionVars, clientVars
<1> QED
  BY <1>1, <1>2, <1>3, <1>4, <1>5, <1>6, <1>7, <1>8, FrameNames DEF Next, Desync, ClientCloses


(***************************************************************************)
(* One target answers: a target that has spoken is not replaced, and one    *)
(* that was replaced is not read any more.                                   *)
(***************************************************************************)

Answers(s) ==
  /\ rx[s]["direct"] > 0 => stream[s].sawData /\ ~stream[s].retried
  /\ rx[s]["proxy"] > 0 => stream[s].retried

LEMMA UntouchedAnswers ==
  ASSUME NEW t, Answers(t), Untouched(t)
  PROVE  Answers(t)'
BY DEF Answers, Untouched

(* The fields of a stream that its own dials and writes leave alone. *)
LEMMA StepFields ==
  ASSUME WorkerType, NEW s \in Streams,
         Opened(s) \/ OpeningWritten(s) \/ RetryOpened(s) \/ RetryFails(s) \/ Replayed(s)
           \/ ChainStep(s)
  PROVE  /\ UNCHANGED rx /\ stream'[s].kind = stream[s].kind
         /\ stream'[s].opening = stream[s].opening
         /\ stream'[s].retried = stream[s].retried /\ stream'[s].sawData = stream[s].sawData
         /\ stream[s].closed => stream'[s].closed
<1>1. UNCHANGED rx /\ (UNCHANGED stream \/ \E S, sockets : EndStreams(S, sockets))
  BY DEF Opened, OpeningWritten, RetryOpened, RetryFails, Replayed, ChainStep, RetryGivesUp,
     Swaps, Fails, dataVars
<1> QED BY <1>1, EndFields

LEMMA StepAnswers ==
  ASSUME WorkerType, TaskInv, NEW s \in Streams, Answers(s), StepOf(s)
  PROVE  Answers(s)'
<1>1. /\ Tasks(s) /\ stream[s] \in StreamFields
      /\ rx[s]["direct"] \in Nat /\ rx[s]["proxy"] \in Nat
  BY DEF TaskInv, WorkerType, TaskType, DataType, Dials
<1>2. ASSUME key[s] = None, UNCHANGED rx PROVE Answers(s)'
  BY <1>1, <1>2 DEF Answers, Tasks, Untasked
<1>3. ASSUME NEW id \in Ids,
             \/ \E n \in {0, 1} : NewTcp(id, s, n) \/ NewUdp(id, s, n)
             \/ \E dns \in BOOLEAN : KeepOpensUdp(id, s, dns)
      PROVE  Answers(s)'
  BY <1>2, <1>3 DEF NewTcp, NewUdp, KeepOpensUdp, Registers, dataVars
<1>4. ASSUME NEW id \in Ids, KeepTcp(id) PROVE Answers(s)'
  <2>1. /\ UNCHANGED rx /\ stream'[s].retried = stream[s].retried
        /\ stream'[s].sawData = stream[s].sawData
    BY <1>1, <1>4 DEF KeepTcp, WorkerType, TaskType, StreamFields
  <2> QED BY <2>1 DEF Answers
<1>5. ASSUME NEW sockets, RetryOrFail(s, sockets), UNCHANGED rx PROVE Answers(s)'
  <2>1. /\ stream'[s].sawData = stream[s].sawData
        /\ stream'[s].retried <=> (stream[s].retried \/ MayRetry(s))
    BY <1>5, RetryFields
  <2>2. MayRetry(s) => ~stream[s].sawData
    BY DEF MayRetry
  <2> QED BY <1>5, <2>1, <2>2 DEF Answers
<1>6. ASSUME DialFails(s) \/ OpeningFails(s) \/ PumpEnds(s) PROVE Answers(s)'
  <2>1. UNCHANGED rx /\ (UNCHANGED stream \/ \E sockets : RetryOrFail(s, sockets))
    BY <1>6 DEF DialFails, OpeningFails, OpenFails, PumpEnds, dataVars
  <2> QED BY <1>5, <2>1 DEF Answers
<1>7. CASE TargetSends(s)
  <2>1. PICK k \in Dials : pump[s] = k /\ rx' = [rx EXCEPT ![s][k] = @ + 1]
    BY <1>7 DEF TargetSends
  <2>2. stream'[s].sawData /\ stream'[s].retried = stream[s].retried
    BY <1>1, <1>7 DEF TargetSends, WorkerType, TaskType, StreamFields
  <2>3. CASE k = "direct"
    <3>1. ~stream[s].retried /\ rx'[s]["proxy"] = rx[s]["proxy"]
      BY <1>1, <2>1, <2>3 DEF Tasks, WorkerType, DataType, Dials
    <3> QED BY <2>2, <3>1 DEF Answers
  <2>4. CASE k = "proxy"
    <3>1. stream[s].retried /\ rx'[s]["direct"] = rx[s]["direct"]
      BY <1>1, <2>1, <2>4 DEF Tasks, WorkerType, DataType, Dials
    <3> QED BY <2>2, <3>1 DEF Answers
  <2> QED BY <2>3, <2>4 DEF Dials
<1>8. CASE Opened(s) \/ OpeningWritten(s) \/ RetryOpened(s) \/ RetryFails(s) \/ Replayed(s)
           \/ ChainStep(s)
  BY <1>8, StepFields DEF Answers
<1> QED BY <1>3, <1>4, <1>6, <1>7, <1>8 DEF StepOf

AnswerInv == \A s \in Streams : Answers(s)

LEMMA InitAnswers == Init => AnswerInv
BY DEF Init, AnswerInv, Answers, Dials

LEMMA NextAnswers == WorkerType /\ TaskInv /\ AnswerInv /\ [Next]_vars => AnswerInv'
<1> SUFFICES ASSUME WorkerType, TaskInv, AnswerInv, [Next]_vars, NEW t \in Streams
             PROVE  Answers(t)'
  BY DEF AnswerInv
<1>1. Answers(t)
  BY DEF AnswerInv
<1>2. CASE StepOfNone
  BY <1>1, <1>2, QuietSteps, UntouchedAnswers
<1>3. ASSUME NEW s \in Streams, StepOf(s) PROVE Answers(t)'
  <2>1. CASE t = s
    BY <1>1, <1>3, <2>1, StepAnswers
  <2>2. CASE t # s
    BY <1>1, <1>3, <2>2, OthersUntouched, UntouchedAnswers
  <2> QED BY <2>1, <2>2
<1> QED BY <1>2, <1>3, Steps

LEMMA AnswerInvImplies == WorkerType /\ AnswerInv => OneTargetAnswers
<1> SUFFICES ASSUME WorkerType, AnswerInv, NEW s \in Streams
             PROVE  rx[s]["direct"] = 0 \/ rx[s]["proxy"] = 0
  BY DEF OneTargetAnswers
<1>1. rx[s]["direct"] \in Nat /\ rx[s]["proxy"] \in Nat /\ Answers(s)
  BY DEF WorkerType, DataType, Dials, AnswerInv
<1> QED BY <1>1 DEF Answers

(* One substream of the client gets the bytes of one target: no payload of   *)
(* retryViaProxy's relay follows one of the first target, at whatever await  *)
(* the first one fails.                                                      *)
THEOREM OneTarget == Spec => []OneTargetAnswers
<1>1. Init => WorkerType /\ TaskInv /\ Names /\ AnswerInv
  BY InitType, InitTasks, InitNames, InitAnswers
<1>2. WorkerType /\ TaskInv /\ Names /\ AnswerInv /\ [Next]_vars
      => (WorkerType /\ TaskInv /\ Names /\ AnswerInv)'
  BY NextType, NextTasks, NextNames, NextAnswers DEF Names
<1> QED BY <1>1, <1>2, AnswerInvImplies, PTL DEF Spec


(***************************************************************************)
(* The uplink of the first target: what the chain still holds are the last  *)
(* payloads the client sent, and the target that is written to has got all  *)
(* before them.                                                              *)
(***************************************************************************)

Last(seq, n) ==
  /\ Len(seq) <= n
  /\ \A i \in 1..Len(seq) : seq[i] = (n - Len(seq)) + i

LEMMA LastAppend ==
  ASSUME NEW h \in Seq(Nat), NEW n \in Nat, Last(h, n)
  PROVE  /\ Append(h, n + 1) \in Seq(Nat) /\ Last(Append(h, n + 1), n + 1)
         /\ (n + 1) - Len(Append(h, n + 1)) = n - Len(h)
<1>1. PICK l \in Nat, m \in Nat, u \in Seq(Nat) :
        /\ m = n + 1 /\ u = Append(h, m) /\ l = Len(h) /\ Len(u) = l + 1 /\ u[l + 1] = m
        /\ \A i \in 1..l : u[i] = h[i]
  <2>1. n + 1 \in Nat /\ Len(h) \in Nat
    OBVIOUS
  <2>2. PICK m \in Nat : m = n + 1
    BY <2>1
  <2>3. /\ Append(h, m) \in Seq(Nat) /\ Len(Append(h, m)) = Len(h) + 1
        /\ Append(h, m)[Len(h) + 1] = m
        /\ \A i \in 1..Len(h) : Append(h, m)[i] = h[i]
    OBVIOUS
  <2> QED BY <2>1, <2>2, <2>3
<1>2. ASSUME NEW i \in 1..(l + 1) PROVE u[i] = (m - (l + 1)) + i
  <2>1. CASE i \in 1..l
    BY <1>1, <2>1 DEF Last
  <2>2. CASE i = l + 1
    BY <1>1, <2>2
  <2> QED BY <2>1, <2>2
<1>3. Last(u, m)
  BY <1>1, <1>2 DEF Last
<1> QED BY <1>1, <1>3

LEMMA LastTail ==
  ASSUME NEW h \in Seq(Nat), h # <<>>, NEW n \in Nat, Last(h, n)
  PROVE  /\ Tail(h) \in Seq(Nat) /\ Last(Tail(h), n)
         /\ Head(h) = (n - Len(h)) + 1
         /\ n - Len(Tail(h)) = (n - Len(h)) + 1
<1>1. PICK l \in Nat, u \in Seq(Nat) :
        /\ u = Tail(h) /\ Len(h) = l + 1 /\ Len(u) = l /\ Head(h) = h[1]
        /\ \A i \in 1..l : u[i] = h[i + 1]
  <2>1. /\ Tail(h) \in Seq(Nat) /\ Len(Tail(h)) = Len(h) - 1 /\ Len(h) - 1 \in Nat
        /\ Head(h) = h[1] /\ \A i \in 1..Len(Tail(h)) : Tail(h)[i] = h[i + 1]
    OBVIOUS
  <2>2. Len(h) = (Len(h) - 1) + 1
    OBVIOUS
  <2> QED BY <2>1, <2>2
<1>2. ASSUME NEW i \in 1..l PROVE u[i] = (n - l) + i
  <2>1. i + 1 \in 1..(l + 1) /\ u[i] = h[i + 1]
    BY <1>1
  <2>2. h[i + 1] = (n - (l + 1)) + (i + 1)
    BY <1>1, <2>1 DEF Last
  <2> QED BY <2>1, <2>2
<1>3. Last(u, n)
  <2>1. Len(u) = l /\ l <= n
    BY <1>1 DEF Last
  <2>2. \A i \in 1..Len(u) : u[i] = (n - Len(u)) + i
    BY <1>2, <2>1
  <2> QED BY <2>1, <2>2 DEF Last
<1>4. h[1] = (n - (l + 1)) + 1
  BY <1>1 DEF Last
<1> QED BY <1>1, <1>3, <1>4

LEMMA OrderAppend ==
  ASSUME NEW w \in Seq(Nat), InOrder(w), NEW m \in Nat, m = Len(w) + 1
  PROVE  InOrder(Append(w, m)) /\ Len(Append(w, m)) = m
<1>1. /\ Len(Append(w, m)) = m /\ Append(w, m)[m] = m
      /\ \A i \in 1..Len(w) : Append(w, m)[i] = w[i]
  OBVIOUS
<1>2. \A i \in 1..m : i \in 1..Len(w) \/ i = m
  OBVIOUS
<1> QED BY <1>1, <1>2 DEF InOrder

Uplink(s) ==
  /\ Last(held[s], sent[s])
  /\ opener[s] = "dial" =>
       /\ cur[s] = None /\ wrote[s]["direct"] = <<>>
       /\ sent[s] - Len(held[s]) = IF stream[s].opening THEN 1 ELSE 0
  /\ cur[s] = "direct" /\ ~stream[s].closed
       => Len(wrote[s]["direct"]) = sent[s] - Len(held[s])
  /\ InOrder(wrote[s]["direct"])

LEMMA SameUplink ==
  ASSUME NEW t, Uplink(t), held'[t] = held[t], sent'[t] = sent[t],
         wrote'[t]["direct"] = wrote[t]["direct"], cur'[t] \in {cur[t], "proxy"},
         opener'[t] = "dial" => opener[t] = "dial" /\ cur'[t] = cur[t],
         stream'[t].opening = stream[t].opening, stream[t].closed => stream'[t].closed
  PROVE  Uplink(t)'
BY DEF Uplink, Last, InOrder

LEMMA StepUplink ==
  ASSUME WorkerType, TaskInv, NEW s \in Streams, Uplink(s), StepOf(s)
  PROVE  Uplink(s)'
<1>1. /\ Tasks(s) /\ stream[s] \in StreamFields /\ held[s] \in Seq(Nat) /\ sent[s] \in Nat
      /\ wrote[s]["direct"] \in Seq(Nat) /\ None # "direct"
  BY WorkerMuxAssumption DEF TaskInv, WorkerType, TaskType, DataType, Dials
<1>2. ASSUME NEW id \in Ids, NEW n \in {0, 1}, NewTcp(id, s, n) PROVE Uplink(s)'
  <2>1. /\ key[s] = None /\ held'[s] = held[s] /\ sent'[s] = n /\ cur'[s] = cur[s]
        /\ wrote'[s] = wrote[s] /\ stream'[s].opening = (n = 1)
    BY <1>2 DEF NewTcp, Registers, Fresh, WorkerType, TaskType, DataType
  <2>2. held[s] = <<>> /\ cur[s] = None /\ wrote[s]["direct"] = <<>>
    BY <1>1, <2>1 DEF Tasks, Untasked
  <2>3. Last(<<>>, n) /\ InOrder(<<>>) /\ n - Len(<<>>) = (IF n = 1 THEN 1 ELSE 0)
    BY DEF Last, InOrder
  <2> QED BY <1>1, <2>1, <2>2, <2>3 DEF Uplink, Last, InOrder
<1>3. ASSUME NEW id \in Ids,
             \/ \E n \in {0, 1} : NewUdp(id, s, n)
             \/ \E dns \in BOOLEAN : KeepOpensUdp(id, s, dns)
      PROVE  Uplink(s)'
  <2>1. key[s] = None /\ UNCHANGED <<opener, cur, held, sent, wrote>>
    BY <1>3 DEF NewUdp, KeepOpensUdp, Registers, socketVars, taskVars, dataVars
  <2>2. opener[s] = "none" /\ cur[s] = None
    BY <1>1, <2>1 DEF Tasks, Untasked
  <2> QED BY <1>1, <2>1, <2>2 DEF Uplink, Last, InOrder
<1>4. ASSUME NEW id \in Ids, KeepTcp(id), streams[id] = s PROVE Uplink(s)'
  <2>1. /\ held'[s] = Append(held[s], sent[s] + 1) /\ sent'[s] = sent[s] + 1
        /\ stream'[s].opening = stream[s].opening /\ stream'[s].closed = stream[s].closed
        /\ UNCHANGED <<opener, cur, wrote>>
    BY <1>1, <1>4 DEF KeepTcp, Chain, socketVars, WorkerType, TaskType, DataType, StreamFields
  <2>2. PICK h, n : h = held'[s] /\ n = sent'[s]
    OBVIOUS
  <2>3. Last(h, n) /\ n - Len(h) = sent[s] - Len(held[s])
    BY <1>1, <2>1, <2>2, LastAppend DEF Uplink
  <2> QED BY <2>1, <2>2, <2>3 DEF Uplink, Last, InOrder
<1>5. CASE Opened(s)
  <2>1. /\ UNCHANGED <<held, sent, stream>> /\ opener'[s] # "dial"
        /\ opener[s] = "dial"
    BY <1>5 DEF Opened, StartPump, WorkerType, TaskType
  <2>2. CASE Abandoned(s)
    <3>1. UNCHANGED <<cur, wrote>>
      BY <1>5, <2>2 DEF Opened
    <3> QED BY <1>1, <2>1, <3>1, SameUplink
  <2>3. CASE ~Abandoned(s) /\ ~stream[s].opening
    <3>1. UNCHANGED wrote
      BY <1>5, <2>3 DEF Opened
    <3>2. Len(wrote[s]["direct"]) = 0 /\ sent[s] - Len(held[s]) = 0
      BY <2>1, <2>3 DEF Uplink
    <3> QED BY <2>1, <3>1, <3>2 DEF Uplink, Last, InOrder
  <2>4. CASE ~Abandoned(s) /\ stream[s].opening
    <3>1. wrote'[s]["direct"] = Append(wrote[s]["direct"], 1)
      BY <1>5, <2>4 DEF Opened, Write, WorkerType, DataType, Dials
    <3>2. wrote[s]["direct"] = <<>> /\ sent[s] - Len(held[s]) = 1
      BY <2>1, <2>4 DEF Uplink
    <3>3. PICK w : w = wrote'[s]["direct"]
      OBVIOUS
    <3>4. InOrder(w) /\ Len(w) = 1
      BY <3>1, <3>2, <3>3 DEF InOrder
    <3> QED BY <2>1, <3>2, <3>3, <3>4 DEF Uplink, Last, InOrder
  <2> QED BY <2>2, <2>3, <2>4
<1>6. ASSUME NEW sockets, RetryOrFail(s, sockets), UNCHANGED <<held, sent, wrote, cur>>,
             opener'[s] # "dial" \/ UNCHANGED opener
      PROVE  Uplink(s)'
  BY <1>6, RetryFields, SameUplink
<1>7. CASE DialFails(s) \/ OpeningFails(s) \/ PumpEnds(s)
  <2>1. UNCHANGED <<held, sent, wrote, cur>> /\ (opener'[s] # "dial" \/ UNCHANGED opener)
        /\ (UNCHANGED stream \/ \E sockets : RetryOrFail(s, sockets))
    BY <1>7 DEF DialFails, OpeningFails, OpenFails, PumpEnds, dataVars, WorkerType, TaskType
  <2> QED BY <1>6, <2>1, SameUplink
<1>8. CASE TargetSends(s)
  <2>1. /\ stream'[s].opening = stream[s].opening /\ stream'[s].closed = stream[s].closed
        /\ UNCHANGED <<opener, cur, held, sent, wrote>>
    BY <1>1, <1>8 DEF TargetSends, socketVars, taskVars, WorkerType, TaskType, StreamFields
  <2> QED BY <2>1, SameUplink
<1>9. CASE OpeningWritten(s) \/ RetryOpened(s) \/ RetryFails(s) \/ Replayed(s)
  <2>1. /\ held' = held /\ sent' = sent /\ wrote'[s]["direct"] = wrote[s]["direct"]
        /\ cur'[s] \in {cur[s], "proxy"} /\ opener'[s] \in {opener[s], "done"}
    BY <1>9 DEF OpeningWritten, RetryOpened, RetryFails, Replayed, RetryGivesUp, Swaps,
       RetrySucceeds, StartPump, Write, socketVars, dataVars, WorkerType, TaskType, DataType, Dials
  <2>2. opener[s] # "dial"
    BY <1>1, <1>9 DEF OpeningWritten, RetryOpened, RetryFails, Replayed, Tasks
  <2> QED BY <1>9, <2>1, <2>2, StepFields, SameUplink
<1>10. CASE ChainStep(s)
  <2>1. /\ opener[s] = "done" /\ held[s] # <<>> /\ held'[s] = Tail(held[s])
        /\ UNCHANGED <<opener, cur, sent, stream>>
    BY <1>10 DEF ChainStep, socketVars, WorkerType, DataType
  <2>2. PICK h, n : h = held'[s] /\ n = sent[s]
    OBVIOUS
  <2>3. /\ Last(h, n) /\ Head(held[s]) = (n - Len(held[s])) + 1
        /\ n - Len(h) = (n - Len(held[s])) + 1
    BY <1>1, <2>1, <2>2, LastTail DEF Uplink
  <2>4. CASE stream[s].closed \/ cur[s] # "direct"
    <3>1. wrote'[s]["direct"] = wrote[s]["direct"]
      BY <1>10, <2>4 DEF ChainStep, Write, WorkerType, TaskType, DataType, Dials
    <3> QED BY <2>1, <2>2, <2>3, <2>4, <3>1 DEF Uplink, Last, InOrder
  <2>5. CASE ~stream[s].closed /\ cur[s] = "direct"
    <3>1. PICK w, m : w = wrote[s]["direct"] /\ m = Head(held[s])
      OBVIOUS
    <3>2. wrote'[s]["direct"] = Append(w, m)
      BY <1>1, <1>10, <2>5, <3>1 DEF ChainStep, Write, WorkerType, DataType, Dials
    <3>3. /\ w \in Seq(Nat) /\ InOrder(w) /\ m \in Nat /\ m = Len(w) + 1 /\ m = n - Len(h)
      <4>1. Len(w) = n - Len(held[s])
        BY <2>2, <2>5, <3>1 DEF Uplink
      <4>2. Len(w) \in Nat
        BY <1>1, <3>1
      <4> QED BY <1>1, <2>3, <3>1, <4>1, <4>2 DEF Uplink
    <3>4. InOrder(Append(w, m)) /\ Len(Append(w, m)) = n - Len(h)
      BY <3>3, OrderAppend
    <3>5. PICK v : v = Append(w, m)
      OBVIOUS
    <3> QED BY <2>1, <2>2, <2>3, <3>2, <3>4, <3>5 DEF Uplink, Last, InOrder
  <2> QED BY <2>4, <2>5
<1> QED BY <1>2, <1>3, <1>4, <1>5, <1>7, <1>8, <1>9, <1>10 DEF StepOf

UplinkInv == \A s \in Streams : Uplink(s)

LEMMA InitUplink == Init => UplinkInv
<1>1. Len(<<>>) = 0
  OBVIOUS
<1> QED BY <1>1, WorkerMuxAssumption DEF Init, UplinkInv, Uplink, Last, InOrder, Dials

LEMMA NextUplink == WorkerType /\ TaskInv /\ UplinkInv /\ [Next]_vars => UplinkInv'
<1> SUFFICES ASSUME WorkerType, TaskInv, UplinkInv, [Next]_vars, NEW t \in Streams
             PROVE  Uplink(t)'
  BY DEF UplinkInv
<1>1. Uplink(t)
  BY DEF UplinkInv
<1>2. ASSUME Untouched(t) PROVE Uplink(t)'
  BY <1>1, <1>2, SameUplink DEF Untouched
<1>3. CASE StepOfNone
  BY <1>2, <1>3, QuietSteps
<1>4. ASSUME NEW s \in Streams, StepOf(s) PROVE Uplink(t)'
  <2>1. CASE t = s
    BY <1>1, <1>4, <2>1, StepUplink
  <2>2. CASE t # s
    BY <1>2, <1>4, <2>2, OthersUntouched
  <2> QED BY <2>1, <2>2
<1> QED BY <1>3, <1>4, Steps

(* The first target of a substream gets the client's payloads in the order   *)
(* they were sent and none is left out, across the await of the dial, the    *)
(* opening payload and the chain of writes that onKeep extends.              *)
THEOREM DirectInOrder == Spec => []DirectUplinkInOrder
<1>1. Init => WorkerType /\ TaskInv /\ Names /\ UplinkInv
  BY InitType, InitTasks, InitNames, InitUplink
<1>2. WorkerType /\ TaskInv /\ Names /\ UplinkInv /\ [Next]_vars
      => (WorkerType /\ TaskInv /\ Names /\ UplinkInv)'
  BY NextType, NextTasks, NextNames, NextUplink DEF Names
<1>3. UplinkInv => DirectUplinkInOrder
  BY DEF UplinkInv, Uplink, DirectUplinkInOrder
<1> QED BY <1>1, <1>2, <1>3, PTL DEF Spec


(***************************************************************************)
(* Every stream that is not closed is the one its id names, and has a task  *)
(* that will carry its bytes or end it: otherwise the task that fails would *)
(* end another stream, or none.                                             *)
(***************************************************************************)

Alive(s) == opener[s] # "none" /\ ~stream[s].closed

Serves(s) ==
  opener[s] \in {"dial", "write"} \/ pump[s] \in Dials \/ retry[s] # "none"

Lives(s) == Alive(s) => streams[key[s]] = s /\ Serves(s)
LiveInv == \A s \in Streams : Lives(s)

(* A TCP stream leaves its id only when it is closed. *)
LEMMA StaysNamed ==
  ASSUME WorkerType, Names, [Next]_vars, NEW id \in Ids, NEW t \in Streams,
         streams[id] = t, stream[t].kind = "tcp"
  PROVE  streams'[id] = t \/ stream'[t].closed
<1>1. ASSUME NEW S, NEW sockets, EndStreams(S, sockets)
      PROVE  streams'[id] = t \/ stream'[t].closed
  <2>1. streams'[id] = IF id \in S THEN None ELSE streams[id]
    BY <1>1 DEF EndStreams
  <2>2. id \in S => stream'[t].closed
    BY <1>1, EndFields
  <2> QED BY <2>1, <2>2
<1>2. ASSUME NEW i \in Ids, NEW s \in Streams, NEW f, Registers(i, s, f),
             view[i] # "open" \/ streams[i] = None
      PROVE  streams'[id] = t
  <2>1. i # id
    BY <1>2, WorkerMuxAssumption DEF Names, Named
  <2> QED BY <1>2, <2>1 DEF Registers, WorkerType, RegistryType
<1>3. ASSUME NEW i \in Ids, NEW s \in Streams,
             \/ \E n \in {0, 1} : NewTcp(i, s, n) \/ NewUdp(i, s, n)
             \/ \E dns \in BOOLEAN : KeepOpensUdp(i, s, dns)
      PROVE  streams'[id] = t
  <2>1. (view[i] # "open" \/ streams[i] = None) /\ \E f : Registers(i, s, f)
    BY <1>3 DEF NewTcp, NewUdp, KeepOpensUdp, Opens
  <2> QED BY <1>2, <2>1
<1>4. ASSUME NEW s \in Streams, NEW sockets, RetryOrFail(s, sockets)
      PROVE  streams'[id] = t \/ stream'[t].closed
  BY <1>1, <1>4 DEF RetryOrFail, Fails
<1>5. ASSUME NEW i \in Ids,
             \/ \E p \in {"tcp", "udp"} : NewRefused(i, p)
             \/ KeepTcp(i) \/ KeepUdp(i) \/ End(i) \/ Lookup(i)
             \/ \E dns \in BOOLEAN : KeepRebinds(i, dns)
      PROVE  streams'[id] = t \/ stream'[t].closed
  BY <1>1, <1>5 DEF NewRefused, KeepTcp, KeepUdp, End, Lookup, KeepRebinds, Fails
<1>6. ASSUME NEW s \in Streams,
             \/ Opened(s) \/ DialFails(s) \/ OpeningWritten(s) \/ OpeningFails(s)
             \/ TargetSends(s) \/ PumpEnds(s) \/ \E k \in Dials : TargetEnds(s, k)
      PROVE  streams'[id] = t \/ stream'[t].closed
  BY <1>4, <1>6 DEF Opened, DialFails, OpeningWritten, OpeningFails, OpenFails, TargetSends,
     PumpEnds, TargetEnds
<1>7. ASSUME NEW s \in Streams,
             \/ RetryOpened(s) \/ RetryFails(s) \/ Replayed(s)
             \/ ChainStep(s) \/ ChainWritten(s) \/ ChainFails(s)
      PROVE  streams'[id] = t \/ stream'[t].closed
  BY <1>1, <1>7 DEF RetryOpened, RetryFails, RetryGivesUp, Swaps, Replayed, ChainStep,
     ChainWritten, ChainFails, Fails
<1>8. CASE Desync \/ ClientCloses \/ Settle \/ UNCHANGED vars
  BY <1>1, <1>8 DEF Desync, ClientCloses, CloseAll, Settle, vars
<1> QED BY <1>3, <1>5, <1>6, <1>7, <1>8 DEF Next

(* Whatever a task that gives up ends, it ends its own stream. *)
LEMMA FailEnds ==
  ASSUME WorkerType, TaskInv, NEW s \in Streams, Lives(s), opener[s] # "none", NEW sockets,
         Fails(s, sockets)
  PROVE  stream'[s].closed
<1>1. EndStreams({key[s]}, sockets) /\ key[s] \in Ids
  BY Acting DEF Fails
<1>2. stream[s].closed \/ streams[key[s]] = s
  BY DEF Lives, Alive
<1> QED BY <1>1, <1>2, EndFields

LEMMA StepLives ==
  ASSUME WorkerType, TaskInv, Names, NEW s \in Streams, Lives(s), StepOf(s), [Next]_vars
  PROVE  Lives(s)'
<1> SUFFICES ASSUME opener'[s] # "none", ~stream'[s].closed
             PROVE  streams'[key'[s]] = s /\ Serves(s)'
  BY DEF Lives, Alive
<1>1. Tasks(s) /\ stream[s] \in StreamFields /\ None \notin Dials
  BY WorkerMuxAssumption DEF TaskInv, WorkerType, TaskType
<1>2. ASSUME NEW id \in Ids, NEW n \in {0, 1}, NewTcp(id, s, n)
      PROVE  streams'[key'[s]] = s /\ Serves(s)'
  <2>1. key'[s] = id /\ streams'[id] = s /\ opener'[s] = "dial"
    BY <1>2 DEF NewTcp, Registers, WorkerType, RegistryType, TaskType
  <2> QED BY <2>1 DEF Serves
<1>3. ASSUME NEW id \in Ids,
             \/ \E n \in {0, 1} : NewUdp(id, s, n)
             \/ \E dns \in BOOLEAN : KeepOpensUdp(id, s, dns)
      PROVE  FALSE
  <2>1. key[s] = None /\ opener' = opener
    BY <1>3 DEF NewUdp, KeepOpensUdp, Registers, taskVars
  <2> QED BY <1>1, <2>1 DEF Tasks
<1>4. ASSUME UNCHANGED key, opener[s] # "none", ~stream[s].closed, Serves(s)'
      PROVE  streams'[key'[s]] = s /\ Serves(s)'
  <2>1. streams[key[s]] = s /\ stream[s].kind = "tcp" /\ key[s] \in Ids
    BY <1>1, <1>4, Acting DEF Lives, Alive, Tasks, StreamFields
  <2>2. streams'[key[s]] = s
    BY <2>1, StaysNamed
  <2> QED BY <1>4, <2>2
<1>5. ASSUME NEW id \in Ids, KeepTcp(id), streams[id] = s
      PROVE  streams'[key'[s]] = s /\ Serves(s)'
  <2>1. /\ stream'[s].closed = stream[s].closed
        /\ UNCHANGED <<key, opener, pump, retry>>
    BY <1>1, <1>5 DEF KeepTcp, WorkerType, TaskType, StreamFields
  <2>2. Serves(s)
    BY <2>1 DEF Lives, Alive
  <2> QED BY <1>4, <2>1, <2>2 DEF Serves
<1>6. CASE Opened(s)
  <2>1. opener[s] = "dial" /\ UNCHANGED <<key, stream, retry>>
    BY <1>6 DEF Opened
  <2>2. ~Abandoned(s)
    <3>1. streams[key[s]] = s /\ key[s] \in Ids
      BY <2>1, Acting DEF Lives, Alive
    <3>2. ~closed
      BY <3>1, WorkerMuxAssumption DEF Names, Named
    <3> QED BY <2>1, <3>2 DEF Abandoned
  <2>3. opener'[s] = "write" \/ pump'[s] = "direct"
    BY <1>6, <2>2 DEF Opened, StartPump, WorkerType, TaskType
  <2> QED BY <1>4, <2>1, <2>3 DEF Serves, Dials
<1>7. ASSUME NEW sockets, RetryOrFail(s, sockets), opener[s] # "none", UNCHANGED key
      PROVE  streams'[key'[s]] = s /\ Serves(s)'
  <2>1. MayRetry(s)
    BY <1>7, FailEnds DEF RetryOrFail
  <2>2. retry'[s] = "dial" /\ ~stream[s].closed
    BY <1>7, <2>1, RetryFields DEF MayRetry
  <2> QED BY <1>4, <1>7, <2>2 DEF Serves
<1>8. CASE DialFails(s) \/ OpeningFails(s)
  <2>1. opener[s] # "none" /\ UNCHANGED key /\ \E sockets : RetryOrFail(s, sockets)
    BY <1>8 DEF DialFails, OpeningFails, OpenFails
  <2> QED BY <1>7, <2>1
<1>9. CASE PumpEnds(s)
  <2>1. /\ opener[s] # "none" /\ UNCHANGED key
        /\ (stream[s].closed /\ UNCHANGED stream) \/ RetryOrFail(s, sock)
    BY <1>1, <1>9 DEF PumpEnds, Tasks
  <2> QED BY <1>7, <2>1
<1>10. CASE OpeningWritten(s) \/ Replayed(s)
  <2>1. /\ opener[s] # "none" /\ UNCHANGED <<key, stream>> /\ pump'[s] \in Dials
    BY <1>1, <1>10 DEF OpeningWritten, Replayed, RetrySucceeds, StartPump, Tasks, WorkerType,
       TaskType, Dials
  <2> QED BY <1>4, <2>1 DEF Serves
<1>11. CASE TargetSends(s) \/ ChainStep(s)
  <2>1. /\ UNCHANGED <<key, opener, pump, retry>> /\ stream'[s].closed = stream[s].closed
    BY <1>1, <1>11 DEF TargetSends, ChainStep, taskVars, WorkerType, TaskType, StreamFields
  <2>2. Serves(s)
    BY <2>1 DEF Lives, Alive
  <2> QED BY <1>4, <2>1, <2>2 DEF Serves
<1>12. CASE RetryOpened(s) \/ RetryFails(s)
  <2>1. opener[s] # "none" /\ UNCHANGED key
    BY <1>1, <1>12 DEF RetryOpened, RetryFails, Tasks
  <2>2. Swaps(s)
    <3>1. ~(\E sockets : RetryGivesUp(s, sockets))
      BY <2>1, FailEnds DEF RetryGivesUp
    <3> QED BY <1>12, <3>1 DEF RetryOpened, RetryFails
  <2>3. UNCHANGED stream /\ (retry'[s] = "write" \/ pump'[s] = "proxy")
    BY <2>2 DEF Swaps, RetrySucceeds, StartPump, WorkerType, TaskType
  <2> QED BY <1>4, <2>1, <2>3 DEF Serves, Dials
<1> QED
  BY <1>2, <1>3, <1>5, <1>6, <1>8, <1>9, <1>10, <1>11, <1>12 DEF StepOf

LEMMA InitLives == Init => LiveInv
BY DEF Init, LiveInv, Lives, Alive

LEMMA NextLives == WorkerType /\ TaskInv /\ Names /\ LiveInv /\ [Next]_vars => LiveInv'
<1> SUFFICES ASSUME WorkerType, TaskInv, Names, LiveInv, [Next]_vars, NEW t \in Streams
             PROVE  Lives(t)'
  BY DEF LiveInv
<1>1. Lives(t) /\ Tasks(t) /\ stream[t] \in StreamFields
  BY DEF LiveInv, TaskInv, WorkerType, TaskType
<1>2. ASSUME Untouched(t) PROVE Lives(t)'
  <2>1. CASE Alive(t) /\ ~stream'[t].closed
    <3>1. streams[key[t]] = t /\ stream[t].kind = "tcp" /\ key[t] \in Ids /\ Serves(t)
      BY <1>1, <2>1, Acting DEF Lives, Alive, Tasks, StreamFields
    <3>2. streams'[key[t]] = t
      BY <2>1, <3>1, StaysNamed
    <3> QED BY <1>2, <3>1, <3>2 DEF Lives, Serves, Untouched
  <2>2. CASE ~Alive(t) \/ stream'[t].closed
    BY <1>2, <2>2 DEF Lives, Alive, Untouched
  <2> QED BY <2>1, <2>2
<1>3. CASE StepOfNone
  BY <1>2, <1>3, QuietSteps
<1>4. ASSUME NEW s \in Streams, StepOf(s) PROVE Lives(t)'
  <2>1. CASE t = s
    BY <1>1, <1>4, <2>1, StepLives
  <2>2. CASE t # s
    BY <1>2, <1>4, <2>2, OthersUntouched
  <2> QED BY <2>1, <2>2
<1> QED BY <1>3, <1>4, Steps

(* What is registered is not closed: endStream does both at once. *)
Registered == \A id \in Ids : streams[id] # None => ~stream[streams[id]].closed

LEMMA InitRegistered == Init => Registered
BY DEF Init, Registered

LEMMA NextRegistered ==
  WorkerType /\ WorkerType' /\ TaskInv /\ Names /\ Registered /\ [Next]_vars => Registered'
<1> SUFFICES ASSUME WorkerType, WorkerType', TaskInv, Names, Registered, [Next]_vars,
                    NEW id \in Ids, NEW t \in Streams, streams'[id] = t
             PROVE  ~stream'[t].closed
  BY DEF Registered, WorkerType, RegistryType
<1>1. streams[id] = t => ~stream[t].closed
  BY WorkerMuxAssumption DEF Registered
<1>2. ASSUME NEW S \in SUBSET Ids, NEW sockets, EndStreams(S, sockets) PROVE ~stream'[t].closed
  <2>1. id \notin S /\ streams[id] = t
    BY <1>2, WorkerMuxAssumption DEF EndStreams
  <2>2. \A i \in S : streams[i] # t
    BY <2>1, WorkerMuxAssumption DEF Names, Keyed
  <2> QED BY <1>1, <1>2, <2>1, <2>2, EndFields
<1>3. ASSUME NEW i \in Ids, NEW s \in Streams, NEW f, Registers(i, s, f), ~f.closed
      PROVE  ~stream'[t].closed
  <2>1. /\ key[s] = None /\ stream' = [stream EXCEPT ![s] = f]
        /\ streams' = [streams EXCEPT ![i] = s]
    BY <1>3 DEF Registers
  <2>2. CASE id = i
    BY <1>3, <2>1, <2>2 DEF WorkerType, RegistryType, TaskType
  <2>3. CASE id # i
    <3>1. streams[id] = t
      BY <2>1, <2>3 DEF WorkerType, RegistryType
    <3>2. t # s
      BY <2>1, <3>1, WorkerMuxAssumption DEF Names, Keyed
    <3> QED BY <1>1, <2>1, <3>1, <3>2 DEF WorkerType, TaskType
  <2> QED BY <2>2, <2>3
<1>4. ASSUME UNCHANGED streams, stream'[t].closed = stream[t].closed PROVE ~stream'[t].closed
  BY <1>1, <1>4
<1>5. ASSUME NEW s \in Streams, key[s] \in Ids, NEW sockets, Fails(s, sockets)
      PROVE  ~stream'[t].closed
  <2>1. {key[s]} \in SUBSET Ids
    BY <1>5
  <2> QED BY <1>2, <1>5, <2>1 DEF Fails
<1>6. ASSUME NEW s \in Streams, key[s] \in Ids, NEW sockets, RetryOrFail(s, sockets)
      PROVE  ~stream'[t].closed
  <2>1. CASE MayRetry(s)
    <3>1. stream' = [stream EXCEPT ![s].retried = TRUE] /\ UNCHANGED streams
      BY <1>6, <2>1 DEF RetryOrFail
    <3>2. stream'[t].closed = stream[t].closed
      BY <3>1 DEF WorkerType, TaskType, StreamFields
    <3> QED BY <1>4, <3>1, <3>2
  <2> QED BY <1>5, <1>6, <2>1 DEF RetryOrFail
<1>7. ASSUME NEW i \in Ids, NEW s \in Streams,
             \/ \E n \in {0, 1} : NewTcp(i, s, n) \/ NewUdp(i, s, n)
             \/ \E dns \in BOOLEAN : KeepOpensUdp(i, s, dns)
      PROVE  ~stream'[t].closed
  <2>1. \A b \in BOOLEAN :
          /\ ~[Fresh EXCEPT !.opening = b, !.initial = b].closed
          /\ ~[Fresh EXCEPT !.kind = "udp", !.dns = b].closed
          /\ ~[Fresh EXCEPT !.kind = "udp"].closed
    BY DEF Fresh
  <2>2. ASSUME NEW n \in {0, 1}, NewTcp(i, s, n) PROVE ~stream'[t].closed
    BY <1>3, <2>1, <2>2 DEF NewTcp
  <2>3. ASSUME NEW n \in {0, 1}, NewUdp(i, s, n) PROVE ~stream'[t].closed
    BY <1>3, <2>1, <2>3 DEF NewUdp
  <2>4. ASSUME NEW dns \in BOOLEAN, KeepOpensUdp(i, s, dns) PROVE ~stream'[t].closed
    BY <1>3, <2>1, <2>4 DEF KeepOpensUdp
  <2> QED BY <1>7, <2>2, <2>3, <2>4
<1>8. ASSUME NEW i \in Ids, KeepTcp(i) \/ \E dns \in BOOLEAN : KeepRebinds(i, dns)
      PROVE  ~stream'[t].closed
  <2>1. CASE KeepTcp(i)
    <3>1. PICK s \in Streams :
            stream' = [stream EXCEPT ![s].wroteMore = TRUE, ![s].initial = FALSE]
      BY <2>1 DEF KeepTcp
    <3>2. stream'[t].closed = stream[t].closed
      BY <3>1 DEF WorkerType, TaskType, StreamFields
    <3> QED BY <1>4, <2>1, <3>2 DEF KeepTcp
  <2>2. ASSUME NEW dns \in BOOLEAN, KeepRebinds(i, dns) PROVE ~stream'[t].closed
    <3>1. PICK s \in Streams : stream' = [stream EXCEPT ![s].dns = dns]
      BY <2>2 DEF KeepRebinds
    <3>2. stream'[t].closed = stream[t].closed
      BY <3>1 DEF WorkerType, TaskType, StreamFields
    <3> QED BY <1>4, <2>2, <3>2 DEF KeepRebinds
  <2> QED BY <1>8, <2>1, <2>2
<1>9. ASSUME NEW i \in Ids,
             \/ \E p \in {"tcp", "udp"} : NewRefused(i, p)
             \/ Lookup(i) \/ End(i)
      PROVE  ~stream'[t].closed
  BY <1>2, <1>4, <1>9 DEF NewRefused, Lookup, End
<1>10. ASSUME NEW i \in Ids, KeepUdp(i) PROVE ~stream'[t].closed
  <2>1. PICK s \in Streams :
          /\ streams[i] = s
          /\ UNCHANGED <<streams, stream>> \/ Fails(s, sock)
    BY <1>10 DEF KeepUdp
  <2>2. key[s] = i
    BY <2>1, WorkerMuxAssumption DEF Names, Keyed
  <2> QED BY <1>4, <1>5, <2>1, <2>2
<1>11. ASSUME NEW s \in Streams, DialFails(s) \/ OpeningFails(s) \/ PumpEnds(s)
       PROVE  ~stream'[t].closed
  <2>1. key[s] \in Ids
    BY <1>11, Acting, WorkerMuxAssumption DEF DialFails, OpeningFails, PumpEnds
  <2>2. UNCHANGED <<streams, stream>> \/ \E sockets : RetryOrFail(s, sockets)
    BY <1>11 DEF DialFails, OpeningFails, OpenFails, PumpEnds
  <2> QED BY <1>4, <1>6, <2>1, <2>2
<1>12. ASSUME NEW s \in Streams, RetryOpened(s) \/ RetryFails(s) \/ ChainFails(s)
       PROVE  ~stream'[t].closed
  <2>1. key[s] \in Ids
    BY <1>12, Acting DEF RetryOpened, RetryFails, ChainFails
  <2>2. UNCHANGED <<streams, stream>> \/ \E sockets : Fails(s, sockets)
    BY <1>12 DEF RetryOpened, RetryFails, RetryGivesUp, Swaps, ChainFails
  <2> QED BY <1>4, <1>5, <2>1, <2>2
<1>13. ASSUME NEW s \in Streams, TargetSends(s) PROVE ~stream'[t].closed
  <2>1. stream'[t].closed = stream[t].closed
    BY <1>13 DEF TargetSends, WorkerType, TaskType, StreamFields
  <2> QED BY <1>4, <1>13, <2>1 DEF TargetSends
<1>14. ASSUME NEW s \in Streams,
              \/ Opened(s) \/ OpeningWritten(s) \/ Replayed(s)
              \/ ChainStep(s) \/ ChainWritten(s) \/ \E k \in Dials : TargetEnds(s, k)
       PROVE  ~stream'[t].closed
  BY <1>4, <1>14 DEF Opened, OpeningWritten, Replayed, ChainStep, ChainWritten, TargetEnds
<1>15. CASE Desync \/ ClientCloses
  <2>1. EndStreams(Ids, sock) /\ Ids \in SUBSET Ids
    BY <1>15 DEF Desync, ClientCloses, CloseAll
  <2> QED BY <1>2, <2>1
<1>16. CASE Settle \/ UNCHANGED vars
  BY <1>4, <1>16 DEF Settle, vars
<1> QED
  BY <1>7, <1>8, <1>9, <1>10, <1>11, <1>12, <1>13, <1>14, <1>15, <1>16 DEF Next

LEMMA ServedImplies == WorkerType /\ TaskInv /\ Names /\ LiveInv /\ Registered => OpenIsServed
<1> SUFFICES ASSUME WorkerType, TaskInv, Names, LiveInv, Registered, ~closed, NEW id \in Ids,
                    view[id] = "open"
             PROVE  \E s \in Streams :
                      /\ streams[id] = s /\ key[s] = id
                      /\ stream[s].kind = "tcp" => Serves(s)
  BY DEF OpenIsServed, Serves
<1>1. PICK s \in Streams : streams[id] = s /\ key[s] = id /\ ~stream[s].closed
  BY DEF Names, Named, Keyed, Registered, WorkerType, RegistryType
<1>2. stream[s].kind = "tcp" => opener[s] # "none"
  BY <1>1, WorkerMuxAssumption DEF TaskInv, Tasks
<1>3. stream[s].kind = "tcp" => Serves(s)
  BY <1>1, <1>2 DEF LiveInv, Lives, Alive
<1> QED BY <1>1, <1>3

(* An id the client holds open always has a stream, and a TCP stream a task   *)
(* that will carry its bytes or end it with an End frame: whatever fails, at  *)
(* whatever await, the task ends the substream it serves and not another.     *)
THEOREM OpenServed == Spec => []OpenIsServed
<1>1. Init => WorkerType /\ TaskInv /\ Names /\ LiveInv /\ Registered
  BY InitType, InitTasks, InitNames, InitLives, InitRegistered
<1>2. WorkerType /\ TaskInv /\ Names /\ LiveInv /\ Registered /\ [Next]_vars
      => (WorkerType /\ TaskInv /\ Names /\ LiveInv /\ Registered)'
  BY NextType, NextTasks, NextNames, NextLives, NextRegistered DEF Names
<1> QED BY <1>1, <1>2, ServedImplies, PTL DEF Spec


(***************************************************************************)
(* A socket that is dialled has the task that dials it, and one that is open *)
(* is the one its stream writes to, which endStream closes with the stream. *)
(***************************************************************************)

Sockets(s) ==
  /\ sock[s]["direct"] = "dialing" => opener[s] = "dial"
  /\ sock[s]["proxy"] = "dialing" => retry[s] = "dial"
  /\ \A k \in Dials : sock[s][k] = "open" => cur[s] = k /\ ~stream[s].closed

KeptSockets(t) ==
  \A k \in Dials :
    \/ sock'[t][k] \notin {"dialing", "open"}
    \/ /\ sock'[t][k] = sock[t][k]
       /\ cur[t] = k /\ stream'[t].closed => stream[t].closed

(* Another stream's step may close this one, and its socket with it. *)
StillKept(t) ==
  /\ KeptSockets(t)
  /\ \A k \in Dials : /\ sock[t][k] = "closed" => sock'[t][k] = "closed"
                      /\ cur[t] = k /\ stream'[t].closed => stream[t].closed \/ sock'[t][k] = "closed"

LEMMA SameSockets ==
  ASSUME NEW t, Sockets(t), KeptSockets(t), cur'[t] = cur[t],
         sock'[t]["direct"] = "dialing" => opener'[t] = opener[t],
         sock'[t]["proxy"] = "dialing" => retry'[t] = retry[t]
  PROVE  Sockets(t)'
BY DEF Sockets, KeptSockets, Dials

LEMMA EndSockets ==
  ASSUME WorkerType, NEW S, NEW sockets, EndStreams(S, sockets), NEW t \in Streams,
         NEW k \in Dials
  PROVE  \/ sock'[t][k] = "closed"
         \/ /\ sock'[t][k] = sockets[t][k]
            /\ cur[t] = k /\ stream'[t].closed => stream[t].closed
<1>1. PICK E : /\ stream' = [s \in Streams |-> [stream[s] EXCEPT !.closed = @ \/ s \in E]]
               /\ sock' = [s \in Streams |-> [d \in Dials |->
                             IF s \in E /\ cur[s] = d THEN "closed" ELSE sockets[s][d]]]
  BY DEF EndStreams
<1>2. stream[t] \in StreamFields
  BY DEF WorkerType, TaskType
<1>3. stream'[t].closed <=> (stream[t].closed \/ t \in E)
  BY <1>1, <1>2 DEF StreamFields
<1>4. sock'[t][k] = IF t \in E /\ cur[t] = k THEN "closed" ELSE sockets[t][k]
  BY <1>1
<1> QED BY <1>3, <1>4

LEMMA EndKept ==
  ASSUME WorkerType, NEW S, NEW sockets, EndStreams(S, sockets), NEW t \in Streams,
         sockets[t] = sock[t]
  PROVE  StillKept(t)
BY EndSockets DEF StillKept, KeptSockets

LEMMA QuietKept ==
  ASSUME WorkerType, StepOfNone, NEW t \in Streams
  PROVE  StillKept(t)
<1>1. ASSUME UNCHANGED <<sock, stream>> \/ \E S : EndStreams(S, sock) PROVE StillKept(t)
  BY <1>1, EndKept DEF StillKept, KeptSockets
<1>2. ASSUME NEW id \in Ids,
             \/ \E p \in {"tcp", "udp"} : NewRefused(id, p)
             \/ KeepUdp(id) \/ End(id) \/ Lookup(id)
      PROVE  StillKept(t)
  BY <1>1, <1>2 DEF NewRefused, KeepUdp, End, Lookup, Fails, socketVars
<1>3. ASSUME NEW id \in Ids, NEW dns \in BOOLEAN, KeepRebinds(id, dns) PROVE StillKept(t)
  <2>1. PICK s \in Streams : stream' = [stream EXCEPT ![s].dns = dns]
    BY <1>3 DEF KeepRebinds
  <2>2. stream'[t].closed = stream[t].closed
    BY <2>1 DEF WorkerType, TaskType, StreamFields
  <2> QED BY <1>3, <2>2 DEF KeepRebinds, socketVars, StillKept, KeptSockets
<1>4. ASSUME NEW s \in Streams, ChainWritten(s) \/ ChainFails(s) PROVE StillKept(t)
  BY <1>1, <1>4 DEF ChainWritten, ChainFails, Fails, socketVars
<1>5. ASSUME NEW s \in Streams, NEW k \in Dials, TargetEnds(s, k) PROVE StillKept(t)
  BY <1>5 DEF TargetEnds, StillKept, KeptSockets, WorkerType, TaskType, AllSockets
<1>6. CASE Desync \/ ClientCloses \/ Settle \/ UNCHANGED vars
  BY <1>1, <1>6 DEF Desync, ClientCloses, CloseAll, Settle, vars, socketVars
<1> QED BY <1>2, <1>3, <1>4, <1>5, <1>6 DEF StepOfNone

LEMMA OthersKept ==
  ASSUME WorkerType, NEW s \in Streams, StepOf(s), NEW t \in Streams, t # s
  PROVE  StillKept(t)
<1>1. ASSUME sock'[t] = sock[t], stream'[t].closed = stream[t].closed PROVE StillKept(t)
  BY <1>1 DEF StillKept, KeptSockets
<1>2. ASSUME NEW id \in Ids, NEW n \in {0, 1}, NewTcp(id, s, n) PROVE StillKept(t)
  BY <1>1, <1>2 DEF NewTcp, Registers, WorkerType, TaskType, AllSockets
<1>3. ASSUME NEW id \in Ids,
             \/ \E n \in {0, 1} : NewUdp(id, s, n)
             \/ \E dns \in BOOLEAN : KeepOpensUdp(id, s, dns)
      PROVE  StillKept(t)
  BY <1>1, <1>3 DEF NewUdp, KeepOpensUdp, Registers, socketVars, WorkerType, TaskType
<1>4. ASSUME NEW id \in Ids, KeepTcp(id), streams[id] = s PROVE StillKept(t)
  BY <1>1, <1>4 DEF KeepTcp, socketVars, WorkerType, TaskType
<1>5. ASSUME NEW sockets, sockets[t] = sock[t], Fails(s, sockets) PROVE StillKept(t)
  BY <1>5, EndKept DEF Fails
<1>6. ASSUME NEW sockets \in AllSockets, sockets[t] = sock[t], RetryOrFail(s, sockets)
      PROVE  StillKept(t)
  <2>1. CASE MayRetry(s)
    BY <1>1, <1>6, <2>1 DEF RetryOrFail, WorkerType, TaskType, AllSockets
  <2> QED BY <1>5, <1>6, <2>1 DEF RetryOrFail
<1>7. CASE Opened(s)
  BY <1>1, <1>7 DEF Opened, Discarded, WorkerType, TaskType, AllSockets
<1>8. CASE DialFails(s)
  <2>1. PICK sockets : sockets = [sock EXCEPT ![s]["direct"] = "ended"]
    OBVIOUS
  <2>2. sockets \in AllSockets
    BY <2>1, SocketType DEF Dials, SockStates
  <2>3. sockets[t] = sock[t] /\ RetryOrFail(s, sockets)
    BY <1>8, <2>1 DEF DialFails, OpenFails, WorkerType, TaskType, AllSockets
  <2> QED BY <1>6, <2>2, <2>3
<1>9. CASE OpeningFails(s) \/ PumpEnds(s)
  <2>1. sock \in AllSockets
    BY DEF WorkerType, TaskType
  <2>2. UNCHANGED <<sock, stream>> \/ RetryOrFail(s, sock)
    BY <1>9 DEF OpeningFails, OpenFails, PumpEnds
  <2> QED BY <1>1, <1>6, <2>1, <2>2
<1>10. CASE OpeningWritten(s) \/ Replayed(s) \/ ChainStep(s)
  BY <1>1, <1>10 DEF OpeningWritten, Replayed, ChainStep, socketVars
<1>11. CASE TargetSends(s)
  BY <1>1, <1>11 DEF TargetSends, socketVars, WorkerType, TaskType
<1>12. CASE RetryOpened(s)
  <2>1. CASE Swaps(s)
    BY <1>1, <2>1 DEF Swaps, Replaced, WorkerType, TaskType, AllSockets
  <2>2. CASE RetryGivesUp(s, Discarded(s, "proxy"))
    <3>1. PICK sockets : sockets = Discarded(s, "proxy")
      OBVIOUS
    <3>2. sockets[t] = sock[t] /\ Fails(s, sockets)
      BY <2>2, <3>1 DEF Discarded, RetryGivesUp, WorkerType, TaskType, AllSockets
    <3> QED BY <1>5, <3>2
  <2> QED BY <1>12, <2>1, <2>2 DEF RetryOpened
<1>13. CASE RetryFails(s)
  <2>1. PICK sockets : /\ sockets \in {sock, [sock EXCEPT ![s]["proxy"] = "ended"]}
                       /\ RetryGivesUp(s, sockets)
    BY <1>13 DEF RetryFails
  <2>2. sockets[t] = sock[t] /\ Fails(s, sockets)
    BY <2>1 DEF RetryGivesUp, WorkerType, TaskType, AllSockets
  <2> QED BY <1>5, <2>2
<1> QED
  BY <1>2, <1>3, <1>4, <1>7, <1>8, <1>9, <1>10, <1>11, <1>12, <1>13 DEF StepOf

LEMMA StepSockets ==
  ASSUME WorkerType, TaskInv, NEW s \in Streams, Uplink(s), Sockets(s), StepOf(s)
  PROVE  Sockets(s)'
<1>1. /\ Tasks(s) /\ stream[s] \in StreamFields /\ None \notin Dials
      /\ opener[s] = "none" => cur[s] = None
      /\ opener[s] = "dial" => cur[s] = None
  BY WorkerMuxAssumption DEF TaskInv, WorkerType, TaskType, Uplink, Tasks, Untasked
<1>2. cur[s] = None => \A k \in Dials : sock[s][k] # "open"
  BY <1>1 DEF Sockets
<1>3. ASSUME NEW id \in Ids, NEW n \in {0, 1}, NewTcp(id, s, n) PROVE Sockets(s)'
  <2>1. /\ key[s] = None /\ opener'[s] = "dial" /\ sock'[s]["direct"] = "dialing"
        /\ sock'[s]["proxy"] = sock[s]["proxy"]
    BY <1>3 DEF NewTcp, Registers, WorkerType, TaskType, AllSockets, Dials
  <2>2. sock[s]["proxy"] \notin {"dialing", "open"}
    BY <1>1, <1>2, <2>1 DEF Tasks, Sockets, Dials
  <2> QED BY <2>1, <2>2 DEF Sockets, Dials
<1>4. ASSUME NEW id \in Ids,
             \/ \E n \in {0, 1} : NewUdp(id, s, n)
             \/ \E dns \in BOOLEAN : KeepOpensUdp(id, s, dns)
      PROVE  Sockets(s)'
  <2>1. key[s] = None /\ UNCHANGED <<cur, sock, opener, retry>>
    BY <1>4 DEF NewUdp, KeepOpensUdp, Registers, socketVars, taskVars
  <2>2. \A k \in Dials : sock[s][k] \notin {"dialing", "open"}
    BY <1>1, <1>2, <2>1 DEF Tasks, Sockets, Dials
  <2> QED BY <2>1, <2>2 DEF Sockets, Dials
<1>5. ASSUME UNCHANGED <<sock, cur>>, opener[s] = "dial" => opener'[s] = "dial",
             retry[s] = "dial" => retry'[s] = "dial", stream'[s].closed = stream[s].closed
      PROVE  Sockets(s)'
  BY <1>5 DEF Sockets
<1>6. ASSUME NEW id \in Ids, KeepTcp(id), streams[id] = s PROVE Sockets(s)'
  <2>1. UNCHANGED <<sock, cur, opener, retry>> /\ stream'[s].closed = stream[s].closed
    BY <1>1, <1>6 DEF KeepTcp, socketVars, WorkerType, TaskType, StreamFields
  <2> QED BY <1>5, <2>1
<1>7. CASE Opened(s)
  <2>1. /\ opener[s] = "dial" /\ retry[s] = "none" /\ sock[s]["proxy"] \notin {"dialing", "open"}
    BY <1>1, <1>2, <1>7 DEF Opened, Tasks, Sockets, Dials
  <2>2. /\ sock'[s]["proxy"] = sock[s]["proxy"] /\ UNCHANGED stream
        /\ \/ sock'[s]["direct"] = "closed"
           \/ sock'[s]["direct"] = "open" /\ cur'[s] = "direct" /\ ~stream[s].closed
    BY <1>7 DEF Opened, Discarded, Abandoned, WorkerType, TaskType, AllSockets, Dials
  <2> QED BY <2>1, <2>2 DEF Sockets, Dials
<1>8. ASSUME NEW sockets \in AllSockets, RetryOrFail(s, sockets),
             sockets[s]["direct"] # "dialing", UNCHANGED cur,
             \A k \in Dials : sockets[s][k] \in {sock[s][k], "ended"}
      PROVE  Sockets(s)'
  <2>1. CASE MayRetry(s)
    <3>1. /\ sock'[s]["proxy"] = "dialing" /\ sock'[s]["direct"] = sockets[s]["direct"]
          /\ retry'[s] = "dial" /\ stream'[s].closed = stream[s].closed
      BY <1>1, <1>8, <2>1 DEF RetryOrFail, WorkerType, TaskType, AllSockets, StreamFields, Dials
    <3> QED BY <1>8, <3>1 DEF Sockets, Dials
  <2>2. CASE ~MayRetry(s)
    <3>1. PICK S : EndStreams(S, sockets)
      BY <1>8, <2>2 DEF RetryOrFail, Fails
    <3>2. KeptSockets(s)
      BY <1>8, <3>1, EndSockets DEF KeptSockets
    <3>3. sock'[s]["direct"] # "dialing"
      BY <1>8, <3>1, EndSockets DEF Dials
    <3>4. UNCHANGED retry
      BY <1>8, <2>2 DEF RetryOrFail
    <3> QED BY <1>8, <3>2, <3>3, <3>4, SameSockets
  <2> QED BY <2>1, <2>2
<1>9. CASE DialFails(s)
  <2>1. PICK sockets : sockets = [sock EXCEPT ![s]["direct"] = "ended"]
    OBVIOUS
  <2>2. sockets \in AllSockets
    BY <2>1, SocketType DEF Dials, SockStates
  <2>3. /\ sockets[s]["direct"] = "ended" /\ sockets[s]["proxy"] = sock[s]["proxy"]
        /\ RetryOrFail(s, sockets) /\ UNCHANGED cur
    BY <1>9, <2>1 DEF DialFails, OpenFails, WorkerType, TaskType, AllSockets, Dials
  <2> QED BY <1>8, <2>2, <2>3 DEF Dials
<1>10. CASE OpeningFails(s) \/ PumpEnds(s)
  <2>1. sock \in AllSockets
    BY DEF WorkerType, TaskType
  <2>2. opener[s] # "dial"
    BY <1>1, <1>10 DEF OpeningFails, PumpEnds, Tasks
  <2>3. sock[s]["direct"] # "dialing"
    BY <2>2 DEF Sockets
  <2>4. UNCHANGED cur /\ (UNCHANGED <<sock, stream, opener, retry>> \/ RetryOrFail(s, sock))
    BY <1>10 DEF OpeningFails, OpenFails, PumpEnds
  <2> QED BY <1>5, <1>8, <2>1, <2>3, <2>4
<1>11. CASE TargetSends(s)
  <2>1. UNCHANGED <<sock, cur, opener, retry>> /\ stream'[s].closed = stream[s].closed
    BY <1>1, <1>11 DEF TargetSends, socketVars, taskVars, WorkerType, TaskType, StreamFields
  <2> QED BY <1>5, <2>1
<1>12. CASE OpeningWritten(s) \/ Replayed(s) \/ ChainStep(s)
  <2>1. UNCHANGED <<sock, cur, stream>>
    BY <1>12 DEF OpeningWritten, Replayed, ChainStep, socketVars
  <2>2. opener[s] # "dial" /\ (UNCHANGED retry \/ retry[s] = "write")
    BY <1>1, <1>12 DEF OpeningWritten, Replayed, ChainStep, Tasks
  <2> QED BY <1>5, <2>1, <2>2
<1>13. ASSUME NEW sockets, RetryGivesUp(s, sockets), opener[s] # "dial",
              sockets[s]["proxy"] # "dialing",
              \A k \in Dials : sockets[s][k] \in {sock[s][k], "ended", "closed"}
       PROVE  Sockets(s)'
  <2>1. PICK S : EndStreams(S, sockets)
    BY <1>13 DEF RetryGivesUp, Fails
  <2>2. KeptSockets(s)
    BY <1>13, <2>1, EndSockets DEF KeptSockets
  <2>3. sock[s]["direct"] # "dialing"
    BY <1>13 DEF Sockets
  <2>4. sock'[s]["proxy"] # "dialing" /\ sock'[s]["direct"] # "dialing"
    BY <1>13, <2>1, <2>3, EndSockets DEF Dials
  <2>5. UNCHANGED cur
    BY <1>13 DEF RetryGivesUp
  <2> QED BY <2>2, <2>4, <2>5, SameSockets
<1>14. ASSUME RetryOpened(s) \/ RetryFails(s) PROVE opener[s] # "dial"
  BY <1>1, <1>14 DEF RetryOpened, RetryFails, Tasks
<1>15. CASE RetryOpened(s)
  <2>1. CASE Swaps(s) /\ ~Abandoned(s)
    <3>1. /\ sock'[s]["proxy"] = "open" /\ cur'[s] = "proxy" /\ UNCHANGED stream
          /\ sock'[s]["direct"] = IF cur[s] = "direct" THEN "closed" ELSE sock[s]["direct"]
      BY <2>1 DEF Swaps, Replaced, WorkerType, TaskType, AllSockets, Dials
    <3>2. sock'[s]["direct"] \notin {"dialing", "open"}
      BY <1>14, <1>15, <3>1 DEF Sockets, Dials
    <3> QED BY <2>1, <3>1, <3>2 DEF Sockets, Abandoned, Dials
  <2>2. CASE RetryGivesUp(s, Discarded(s, "proxy"))
    <3>1. PICK sockets : sockets = Discarded(s, "proxy")
      OBVIOUS
    <3>2. sockets[s]["proxy"] = "closed" /\ sockets[s]["direct"] = sock[s]["direct"]
      BY <3>1 DEF Discarded, WorkerType, TaskType, AllSockets, Dials
    <3> QED BY <1>13, <1>14, <1>15, <2>2, <3>1, <3>2 DEF Dials
  <2> QED BY <1>15, <2>1, <2>2 DEF RetryOpened
<1>16. CASE RetryFails(s)
  <2>1. PICK sockets : /\ RetryGivesUp(s, sockets)
                       /\ \/ sockets = [sock EXCEPT ![s]["proxy"] = "ended"]
                          \/ sockets = sock /\ retry[s] = "write"
    BY <1>16 DEF RetryFails
  <2>2. /\ sockets[s]["proxy"] # "dialing"
        /\ \A k \in Dials : sockets[s][k] \in {sock[s][k], "ended", "closed"}
    BY <2>1 DEF Sockets, WorkerType, TaskType, AllSockets, Dials
  <2> QED BY <1>13, <1>14, <1>16, <2>1, <2>2
<1> QED
  BY <1>3, <1>4, <1>6, <1>7, <1>9, <1>10, <1>11, <1>12, <1>15, <1>16 DEF StepOf

SocketInv == \A s \in Streams : Sockets(s)

LEMMA InitSockets == Init => SocketInv
BY DEF Init, SocketInv, Sockets, Dials

LEMMA NextSockets ==
  WorkerType /\ TaskInv /\ UplinkInv /\ SocketInv /\ [Next]_vars => SocketInv'
<1> SUFFICES ASSUME WorkerType, TaskInv, UplinkInv, SocketInv, [Next]_vars, NEW t \in Streams
             PROVE  Sockets(t)'
  BY DEF SocketInv
<1>1. Sockets(t) /\ Uplink(t)
  BY DEF SocketInv, UplinkInv
<1>2. CASE StepOfNone
  BY <1>1, <1>2, QuietSteps, QuietKept, SameSockets DEF Untouched, StillKept
<1>3. ASSUME NEW s \in Streams, StepOf(s) PROVE Sockets(t)'
  <2>1. CASE t = s
    BY <1>1, <1>3, <2>1, StepSockets
  <2>2. CASE t # s
    BY <1>1, <1>3, <2>2, OthersUntouched, OthersKept, SameSockets DEF Untouched, StillKept
  <2> QED BY <2>1, <2>2
<1> QED BY <1>2, <1>3, Steps

(* Once the session has returned no task of it takes another step. *)
QuietInv ==
  /\ ~reading => closed
  /\ done => ~reading /\ \A s \in Streams : ~Busy(s)

LEMMA InitQuiet == Init => QuietInv
BY DEF Init, QuietInv

LEMMA NextQuiet == WorkerType /\ TaskInv /\ QuietInv /\ [Next]_vars => QuietInv'
<1> SUFFICES ASSUME WorkerType, TaskInv, QuietInv, [Next]_vars PROVE QuietInv'
  OBVIOUS
<1>1. CASE ~done /\ ~Settle
  <2>1. done' = done /\ ((reading' = reading /\ closed' = closed) \/ closed')
    BY <1>1 DEF Next, NewTcp, NewUdp, NewRefused, KeepTcp, KeepUdp, End, Lookup, KeepRebinds,
       KeepOpensUdp, Opened, DialFails, OpeningWritten, OpeningFails, OpenFails, TargetSends,
       PumpEnds, TargetEnds, RetryOpened, RetryFails, Replayed, ChainStep, ChainWritten,
       ChainFails, Desync, ClientCloses, CloseAll, sessionVars, vars
  <2> QED BY <1>1, <2>1 DEF QuietInv
<1>2. CASE Settle
  BY <1>2 DEF Settle, QuietInv, Busy, taskVars
<1>3. CASE done /\ ~Settle
  <2>1. closed /\ ~reading /\ \A s \in Streams : ~Busy(s)
    BY <1>3 DEF QuietInv
  <2>2. ASSUME NEW s \in Streams, StepOf(s) PROVE FALSE
    <3>1. ~Busy(s) /\ None \notin Dials
      BY <2>1, WorkerMuxAssumption
    <3> QED
      BY <2>1, <2>2, <3>1 DEF StepOf, NewTcp, NewUdp, Opens, KeepOpensUdp, KeepTcp, Keeps, Busy,
         Opened, DialFails, OpeningWritten, OpeningFails, TargetSends, PumpEnds, RetryOpened,
         RetryFails, Replayed, ChainStep
  <2>3. StepOfNone
    BY <2>2, Steps
  <2>4. \A s \in Streams : ~Busy(s)'
    BY <2>1, <2>3, QuietSteps DEF Untouched, Busy
  <2>5. UNCHANGED <<closed, reading, done>>
    BY <2>1, <2>3, <1>3 DEF StepOfNone, NewRefused, KeepUdp, End, Keeps, Lookup, KeepRebinds,
       ChainWritten, ChainFails, TargetEnds, Desync, ClientCloses, sessionVars, vars
  <2> QED BY <2>1, <2>4, <2>5 DEF QuietInv
<1> QED BY <1>1, <1>2, <1>3

LEMMA QuietImplies ==
  WorkerType /\ TaskInv /\ Names /\ LiveInv /\ SocketInv /\ QuietInv => NothingOutlivesTheSession
<1> SUFFICES ASSUME WorkerType, TaskInv, Names, LiveInv, SocketInv, QuietInv, done,
                    NEW s \in Streams, NEW k \in Dials
             PROVE  sock[s][k] \notin {"dialing", "open"}
  BY DEF NothingOutlivesTheSession
<1>1. closed /\ ~Busy(s) /\ Sockets(s) /\ Tasks(s) /\ Lives(s)
  BY DEF QuietInv, SocketInv, TaskInv, LiveInv
<1>2. sock[s][k] # "dialing"
  BY <1>1 DEF Sockets, Busy, Dials
<1>3. ASSUME sock[s][k] = "open" PROVE FALSE
  <2>1. opener[s] # "none" /\ ~stream[s].closed
    BY <1>1, <1>3, WorkerMuxAssumption DEF Sockets, Tasks, Untasked
  <2>2. streams[key[s]] = s /\ key[s] \in Ids
    BY <1>1, <2>1, Acting DEF Lives, Alive
  <2> QED BY <1>1, <2>2, WorkerMuxAssumption DEF Names, Named
<1> QED BY <1>2, <1>3

(* When the session has returned no socket is left, neither open nor being     *)
(* dialled: a dial that succeeds after its substream ended is given up, a      *)
(* retry closes what it replaces, and whatever else is open is the socket of a *)
(* registered stream, which the end of the session closes.                     *)
THEOREM NothingLeft == Spec => []NothingOutlivesTheSession
<1> DEFINE IInv == /\ WorkerType /\ TaskInv /\ Names /\ LiveInv
                   /\ UplinkInv /\ SocketInv /\ QuietInv
<1>1. Init => IInv
  BY InitType, InitTasks, InitNames, InitLives, InitUplink, InitSockets, InitQuiet
<1>2. IInv /\ [Next]_vars => IInv'
  BY NextType, NextTasks, NextNames, NextLives, NextUplink, NextSockets, NextQuiet DEF Names
<1>3. IInv => NothingOutlivesTheSession
  BY QuietImplies
<1> QED BY <1>1, <1>2, <1>3, PTL DEF Spec

(***************************************************************************)
(* What holds a task once its stream is closed.  Every task works on the    *)
(* stream's own socket, or on one that a retry has replaced, and the stream *)
(* and its socket are closed together.                                      *)
(***************************************************************************)

Shut(s) ==
  /\ stream[s].closed => \A k \in Dials : cur[s] = k => sock[s][k] = "closed"
  /\ \A k \in Dials : writing[s] = k => opener[s] = "done" /\ (cur[s] = k \/ sock[s][k] = "closed")
  /\ \A k \in Dials : pump[s] = k => cur[s] = k
  /\ opener[s] = "write" => cur[s] = "direct"
  /\ retry[s] = "write" => cur[s] = "proxy"
  /\ ~stream[s].retried \/ retry[s] = "dial" => cur[s] # "proxy" /\ writing[s] # "proxy"
  /\ "retry" \in {opener[s], pump[s]} => retry[s] # "none"

ShutInv == \A s \in Streams : Shut(s)

LEMMA InitShut == Init => ShutInv
BY WorkerMuxAssumption DEF Init, ShutInv, Shut, Fresh, Dials

LEMMA OthersShut ==
  ASSUME NEW t, Shut(t), Untouched(t), StillKept(t), None \notin Dials
  PROVE  Shut(t)'
BY DEF Shut, Untouched, StillKept, Dials

(* A task that gives up closes its own stream, or another under its id. *)
LEMMA FailShut ==
  ASSUME WorkerType, NEW s \in Streams, Shut(s), NEW S, NEW sockets, EndStreams(S, sockets),
         \A k \in Dials : k \in {writing[s], cur[s]} => sockets[s][k] = sock[s][k],
         UNCHANGED <<cur, writing>>
  PROVE  /\ stream'[s].closed => \A k \in Dials : cur'[s] = k => sock'[s][k] = "closed"
         /\ \A k \in Dials : writing'[s] = k => cur'[s] = k \/ sock'[s][k] = "closed"
         /\ stream'[s].retried = stream[s].retried
<1>1. ASSUME NEW k \in Dials, writing[s] = k, sock[s][k] = "closed" PROVE sock'[s][k] = "closed"
  BY <1>1, EndSockets
<1>2. ASSUME NEW k \in Dials, cur[s] = k, stream'[s].closed PROVE sock'[s][k] = "closed"
  <2>1. CASE sock'[s][k] = sockets[s][k] /\ stream[s].closed
    BY <1>2, <2>1 DEF Shut
  <2> QED BY <1>2, <2>1, EndSockets
<1> QED BY <1>1, <1>2, EndFields DEF Shut

LEMMA StepShut ==
  ASSUME WorkerType, TaskInv, NEW s \in Streams, Uplink(s), Sockets(s), Shut(s), StepOf(s)
  PROVE  Shut(s)'
<1>1. /\ Tasks(s) /\ stream[s] \in StreamFields /\ None \notin {"direct", "proxy", "retry"}
      /\ opener[s] = "dial" => cur[s] = None
  BY WorkerMuxAssumption DEF TaskInv, WorkerType, TaskType, Uplink, Dials
<1>2. ASSUME NEW id \in Ids, NEW n \in {0, 1}, NewTcp(id, s, n) PROVE Shut(s)'
  <2>1. /\ key[s] = None /\ ~stream'[s].closed /\ opener'[s] = "dial"
        /\ UNCHANGED <<cur, pump, retry, writing>>
    BY <1>2 DEF NewTcp, Registers, Fresh, WorkerType, TaskType
  <2>2. opener[s] = "none" /\ cur[s] = None /\ pump[s] = None /\ writing[s] = None /\ retry[s] = "none"
    BY <1>1, <2>1 DEF Tasks, Untasked
  <2> QED BY <1>1, <2>1, <2>2 DEF Shut, Dials
<1>3. ASSUME NEW id \in Ids,
             \/ \E n \in {0, 1} : NewUdp(id, s, n)
             \/ \E dns \in BOOLEAN : KeepOpensUdp(id, s, dns)
      PROVE  Shut(s)'
  <2>1. key[s] = None /\ UNCHANGED <<cur, sock, opener, pump, retry, writing>>
    BY <1>3 DEF NewUdp, KeepOpensUdp, Registers, socketVars, taskVars
  <2>2. opener[s] = "none" /\ cur[s] = None /\ pump[s] = None /\ writing[s] = None /\ retry[s] = "none"
    BY <1>1, <2>1 DEF Tasks, Untasked
  <2> QED BY <1>1, <2>1, <2>2 DEF Shut, Dials
<1>4. ASSUME UNCHANGED <<sock, cur, opener, pump, retry, writing>>,
             stream'[s].closed = stream[s].closed, stream'[s].retried = stream[s].retried
      PROVE  Shut(s)'
  BY <1>4 DEF Shut
<1>5. ASSUME NEW id \in Ids, KeepTcp(id), streams[id] = s PROVE Shut(s)'
  <2>1. stream'[s].closed = stream[s].closed /\ stream'[s].retried = stream[s].retried
    BY <1>1, <1>5 DEF KeepTcp, WorkerType, TaskType, StreamFields
  <2> QED BY <1>4, <1>5, <2>1 DEF KeepTcp, socketVars
<1>6. CASE TargetSends(s)
  <2>1. stream'[s].closed = stream[s].closed /\ stream'[s].retried = stream[s].retried
    BY <1>1, <1>6 DEF TargetSends, WorkerType, TaskType, StreamFields
  <2> QED BY <1>4, <1>6, <2>1 DEF TargetSends, socketVars, taskVars
<1>7. CASE Opened(s)
  <2>1. /\ opener[s] = "dial" /\ retry[s] = "none" /\ cur[s] = None /\ pump[s] = None
        /\ writing[s] = None /\ ~stream[s].retried /\ UNCHANGED <<stream, retry, writing>>
    BY <1>1, <1>7 DEF Opened, Tasks, Shut, Dials, WorkerType, TaskType
  <2>2. CASE Abandoned(s)
    <3>1. opener'[s] = "done" /\ UNCHANGED <<cur, pump>>
      BY <1>7, <2>2 DEF Opened, WorkerType, TaskType
    <3> QED BY <1>1, <2>1, <3>1 DEF Shut, Dials
  <2>3. CASE ~Abandoned(s)
    <3>1. cur'[s] = "direct" /\ opener'[s] \in {"write", "done"} /\ pump'[s] \in {None, "direct"}
      BY <1>7, <2>1, <2>3 DEF Opened, StartPump, WorkerType, TaskType
    <3> QED BY <1>1, <2>1, <2>3, <3>1 DEF Shut, Dials, Abandoned
  <2> QED BY <2>2, <2>3
<1>8. ASSUME NEW sockets \in AllSockets, RetryOrFail(s, sockets), UNCHANGED <<cur, writing>>,
             retry[s] = "none",
             \A k \in Dials : k \in {writing[s], cur[s]} => sockets[s][k] = sock[s][k],
             MayRetry(s) => opener'[s] \in {opener[s], "retry"} /\ pump'[s] \in {None, "retry"},
             ~MayRetry(s) => opener'[s] \in {opener[s], "done"} /\ pump'[s] = None,
             opener'[s] # "write" /\ opener[s] # "retry",
             opener[s] = "done" => opener'[s] = "done"
      PROVE  Shut(s)'
  <2>1. CASE MayRetry(s)
    <3>1. /\ ~stream[s].closed /\ ~stream[s].retried
          /\ stream'[s].closed = stream[s].closed /\ retry'[s] = "dial"
          /\ sock'[s]["direct"] = sockets[s]["direct"]
      BY <1>1, <1>8, <2>1 DEF RetryOrFail, MayRetry, WorkerType, TaskType, StreamFields, AllSockets, Dials
    <3>2. cur[s] # "proxy" /\ writing[s] # "proxy"
      BY <3>1 DEF Shut
    <3>3. writing[s] = "direct" => cur[s] = "direct" \/ sock'[s]["direct"] = "closed"
      BY <1>8, <3>1 DEF Shut, Dials
    <3> QED BY <1>1, <1>8, <2>1, <3>1, <3>2, <3>3 DEF Shut, Dials
  <2>2. CASE ~MayRetry(s)
    <3>1. EndStreams({key[s]}, sockets) /\ UNCHANGED retry
      BY <1>8, <2>2 DEF RetryOrFail, Fails
    <3>2. /\ stream'[s].closed => \A k \in Dials : cur'[s] = k => sock'[s][k] = "closed"
          /\ \A k \in Dials : writing'[s] = k => cur'[s] = k \/ sock'[s][k] = "closed"
          /\ stream'[s].retried = stream[s].retried
      BY <1>8, <3>1, FailShut
    <3> QED BY <1>1, <1>8, <2>2, <3>1, <3>2 DEF Shut, Dials
  <2> QED BY <2>1, <2>2
<1>9. CASE DialFails(s)
  <2>1. PICK sockets : sockets = [sock EXCEPT ![s]["direct"] = "ended"]
    OBVIOUS
  <2>2. sockets \in AllSockets
    BY <2>1, SocketType DEF Dials, SockStates
  <2>3. /\ sockets[s]["proxy"] = sock[s]["proxy"] /\ opener[s] = "dial"
        /\ RetryOrFail(s, sockets) /\ UNCHANGED <<cur, writing, pump>>
        /\ opener'[s] = IF MayRetry(s) THEN "retry" ELSE "done"
    BY <1>9, <2>1 DEF DialFails, OpenFails, WorkerType, TaskType, AllSockets, Dials
  <2>4. cur[s] = None /\ pump[s] = None /\ retry[s] = "none" /\ writing[s] = None
    BY <1>1, <2>3 DEF Tasks, Shut, Dials, WorkerType, TaskType
  <2>5. \A k \in Dials : k \in {writing[s], cur[s]} => sockets[s][k] = sock[s][k]
    BY <1>1, <2>4 DEF Dials
  <2>6. pump'[s] = None /\ opener'[s] \in {"retry", "done"} /\ opener[s] = "dial"
    BY <2>3, <2>4
  <2> QED BY <1>8, <2>2, <2>3, <2>4, <2>5, <2>6
<1>10. CASE OpeningFails(s)
  <2>1. /\ opener[s] = "write" /\ RetryOrFail(s, sock) /\ UNCHANGED <<cur, writing, pump>>
        /\ opener'[s] = IF MayRetry(s) THEN "retry" ELSE "done"
    BY <1>10 DEF OpeningFails, OpenFails, WorkerType, TaskType
  <2>2. pump[s] = None /\ retry[s] = "none" /\ sock \in AllSockets
    BY <1>1, <2>1 DEF Tasks, WorkerType, TaskType
  <2> QED BY <1>1, <1>8, <2>1, <2>2
<1>11. CASE OpeningWritten(s)
  <2>1. /\ opener[s] = "write" /\ opener'[s] = "done" /\ pump'[s] = "direct"
        /\ UNCHANGED <<stream, cur, sock, retry, writing>>
    BY <1>11 DEF OpeningWritten, StartPump, socketVars, WorkerType, TaskType
  <2> QED BY <1>1, <2>1 DEF Shut, Tasks, Dials
<1>12. CASE PumpEnds(s)
  <2>1. /\ pump[s] \in Dials /\ UNCHANGED <<cur, opener, writing>> /\ retry[s] = "none"
        /\ opener[s] \notin {"none", "dial", "write", "retry"}
    BY <1>1, <1>12 DEF PumpEnds, Tasks, Shut, Dials
  <2>2. CASE stream[s].closed
    <3>1. pump'[s] = None /\ UNCHANGED <<stream, sock, retry>>
      BY <1>12, <2>2 DEF PumpEnds, WorkerType, TaskType
    <3> QED BY <1>1, <2>1, <3>1 DEF Shut, Dials
  <2>3. CASE ~stream[s].closed
    <3>1. RetryOrFail(s, sock) /\ pump'[s] = (IF MayRetry(s) THEN "retry" ELSE None)
      BY <1>12, <2>3 DEF PumpEnds, WorkerType, TaskType
    <3>2. sock \in AllSockets
      BY DEF WorkerType, TaskType
    <3> QED BY <1>1, <1>8, <2>1, <3>1, <3>2
  <2> QED BY <2>2, <2>3
<1>13. ASSUME NEW sockets, RetryGivesUp(s, sockets), UNCHANGED writing, retry[s] # "none",
              \A k \in Dials : k \in {writing[s], cur[s]} => sockets[s][k] = sock[s][k]
       PROVE  Shut(s)'
  <2>1. /\ retry'[s] = "none" /\ opener'[s] = "done" /\ pump'[s] = None /\ UNCHANGED cur
        /\ EndStreams({key[s]}, sockets)
    BY <1>13 DEF RetryGivesUp, Fails, WorkerType, TaskType
  <2>2. /\ stream'[s].closed => \A k \in Dials : cur'[s] = k => sock'[s][k] = "closed"
        /\ \A k \in Dials : writing'[s] = k => cur'[s] = k \/ sock'[s][k] = "closed"
        /\ stream'[s].retried = stream[s].retried
    BY <1>13, <2>1, FailShut
  <2>3. stream[s].retried
    BY <1>1, <1>13 DEF Tasks
  <2> QED BY <1>1, <2>1, <2>2, <2>3 DEF Shut, Dials
<1>14. CASE RetryOpened(s)
  <2>1. retry[s] = "dial" /\ UNCHANGED writing /\ cur[s] # "proxy" /\ writing[s] # "proxy"
    BY <1>14 DEF RetryOpened, Shut
  <2>2. CASE Swaps(s) /\ ~Abandoned(s)
    <3>1. /\ cur'[s] = "proxy" /\ UNCHANGED stream /\ ~stream[s].closed
          /\ sock'[s]["direct"] = IF cur[s] = "direct" THEN "closed" ELSE sock[s]["direct"]
      BY <2>2 DEF Swaps, Replaced, Abandoned, WorkerType, TaskType, AllSockets, Dials
    <3>2. \/ retry'[s] = "write" /\ UNCHANGED <<opener, pump>>
          \/ retry'[s] = "none" /\ opener'[s] = "done" /\ pump'[s] = "proxy"
      BY <2>2 DEF Swaps, RetrySucceeds, StartPump, WorkerType, TaskType
    <3>3. stream[s].retried /\ pump[s] \in {None, "retry"} /\ opener[s] \notin {"none", "dial", "write"}
      BY <1>1, <2>1 DEF Tasks
    <3>4. writing[s] = "direct" => sock'[s]["direct"] = "closed"
      BY <3>1 DEF Shut, Dials
    <3> QED BY <1>1, <2>1, <3>1, <3>2, <3>3, <3>4 DEF Shut, Dials
  <2>3. CASE RetryGivesUp(s, Discarded(s, "proxy"))
    <3>1. PICK sockets : sockets = Discarded(s, "proxy")
      OBVIOUS
    <3>2. sockets[s]["direct"] = sock[s]["direct"]
      BY <3>1 DEF Discarded, WorkerType, TaskType, AllSockets, Dials
    <3> QED BY <1>1, <1>13, <2>1, <2>3, <3>1, <3>2 DEF Dials
  <2> QED BY <1>14, <2>2, <2>3 DEF RetryOpened
<1>15. CASE RetryFails(s)
  <2>1. retry[s] \in {"dial", "write"} /\ UNCHANGED writing
    BY <1>15 DEF RetryFails
  <2>2. PICK sockets : /\ RetryGivesUp(s, sockets)
                       /\ \/ retry[s] = "dial" /\ sockets = [sock EXCEPT ![s]["proxy"] = "ended"]
                          \/ sockets = sock
    BY <1>15 DEF RetryFails
  <2>3. sockets[s]["direct"] = sock[s]["direct"] /\ (retry[s] = "dial" \/ sockets[s] = sock[s])
    BY <2>2 DEF WorkerType, TaskType, AllSockets, Dials
  <2>4. retry[s] = "dial" => cur[s] # "proxy" /\ writing[s] # "proxy"
    BY DEF Shut
  <2> QED BY <1>13, <2>1, <2>2, <2>3, <2>4 DEF Dials
<1>16. CASE Replayed(s)
  <2>1. /\ retry[s] = "write" /\ retry'[s] = "none" /\ opener'[s] = "done" /\ pump'[s] = "proxy"
        /\ UNCHANGED <<stream, cur, sock, writing>>
    BY <1>16 DEF Replayed, RetrySucceeds, StartPump, socketVars, WorkerType, TaskType
  <2> QED BY <1>1, <2>1 DEF Shut, Tasks, Dials
<1>17. CASE ChainStep(s)
  <2>1. /\ opener[s] = "done" /\ writing'[s] \in {writing[s], cur[s]}
        /\ UNCHANGED <<stream, cur, sock, opener, pump, retry>>
    BY <1>17 DEF ChainStep, socketVars, WorkerType, TaskType
  <2> QED BY <2>1 DEF Shut, Dials
<1> QED
  BY <1>2, <1>3, <1>5, <1>6, <1>7, <1>9, <1>10, <1>11, <1>12, <1>14, <1>15, <1>16, <1>17
     DEF StepOf

LEMMA NextShut ==
  WorkerType /\ TaskInv /\ UplinkInv /\ SocketInv /\ ShutInv /\ [Next]_vars => ShutInv'
<1> SUFFICES ASSUME WorkerType, TaskInv, UplinkInv, SocketInv, ShutInv, [Next]_vars, NEW t \in Streams
             PROVE  Shut(t)'
  BY DEF ShutInv
<1>1. Sockets(t) /\ Uplink(t) /\ Shut(t) /\ None \notin Dials
  BY WorkerMuxAssumption DEF SocketInv, UplinkInv, ShutInv
<1>2. CASE StepOfNone
  BY <1>1, <1>2, QuietSteps, QuietKept, OthersShut
<1>3. ASSUME NEW s \in Streams, StepOf(s) PROVE Shut(t)'
  <2>1. CASE t = s
    BY <1>1, <1>3, <2>1, StepShut
  <2>2. CASE t # s
    BY <1>1, <1>3, <2>2, OthersUntouched, OthersKept, OthersShut
  <2> QED BY <2>1, <2>2
<1> QED BY <1>2, <1>3, Steps

(* A closed session has closed every stream that has tasks. *)
LEMMA AllClosed ==
  ASSUME WorkerType, TaskInv, Names, LiveInv, closed, NEW s \in Streams
  PROVE  opener[s] = "none" \/ stream[s].closed
<1> SUFFICES ASSUME Alive(s) PROVE FALSE
  BY DEF Alive, WorkerType, TaskType, StreamFields
<1>1. streams[key[s]] = s /\ key[s] \in Ids
  BY Acting DEF LiveInv, Lives, Alive
<1> QED BY <1>1, WorkerMuxAssumption DEF Names, Named

LEMMA ShutImplies ==
  WorkerType /\ TaskInv /\ Names /\ LiveInv /\ ShutInv => TasksCanEnd
<1> SUFFICES ASSUME WorkerType, TaskInv, Names, LiveInv, ShutInv, closed, NEW s \in Streams
             PROVE  /\ opener[s] = "write" => sock[s]["direct"] = "closed"
                    /\ pump[s] \in Dials => sock[s][pump[s]] = "closed"
                    /\ retry[s] = "write" => sock[s]["proxy"] = "closed"
                    /\ writing[s] # None => sock[s][writing[s]] = "closed"
                    /\ "retry" \in {opener[s], pump[s]} => retry[s] # "none"
  BY DEF TasksCanEnd
<1>1. /\ Shut(s) /\ Tasks(s) /\ None \notin Dials /\ "retry" # None
      /\ writing[s] \in Dials \cup {None}
  BY WorkerMuxAssumption DEF ShutInv, TaskInv, WorkerType, TaskType
<1>2. CASE opener[s] = "none"
  BY <1>1, <1>2 DEF Tasks, Untasked, Dials
<1>3. CASE stream[s].closed
  BY <1>1, <1>3 DEF Shut, Dials
<1> QED BY <1>2, <1>3, AllClosed

(* Once the session is closed no task depends on a target any more: what it    *)
(* reads from or writes to was closed with its stream, or by the retry that    *)
(* replaced it, and who awaits a retry awaits one that runs.  With the fair    *)
(* scheduling of promises this is why settle() returns.                        *)
THEOREM TasksFreed == Spec => []TasksCanEnd
<1> DEFINE IInv == /\ WorkerType /\ TaskInv /\ Names /\ LiveInv
                   /\ UplinkInv /\ SocketInv /\ ShutInv
<1>1. Init => IInv
  BY InitType, InitTasks, InitNames, InitLives, InitUplink, InitSockets, InitShut
<1>2. IInv /\ [Next]_vars => IInv'
  BY NextType, NextTasks, NextNames, NextLives, NextUplink, NextSockets, NextShut DEF Names
<1>3. IInv => TasksCanEnd
  BY ShutImplies
<1> QED BY <1>1, <1>2, <1>3, PTL DEF Spec

(* What a step leaves of the tasks of a stream once the session is closed. *)
EndsOnly(s) ==
  /\ opener'[s] \in {opener[s], "done"}
  /\ pump'[s] \in {pump[s], None} /\ retry'[s] \in {retry[s], "none"}
  /\ writing'[s] \in {writing[s], None}
  /\ held'[s] # held[s] => held[s] # <<>> /\ held'[s] = Tail(held[s])

LEMMA UntouchedEnds == ASSUME NEW t, Untouched(t) PROVE EndsOnly(t)
BY DEF Untouched, EndsOnly

LEMMA StepEnds ==
  ASSUME WorkerType, TaskInv, closed, TasksCanEnd, NEW s \in Streams,
         opener[s] = "none" \/ stream[s].closed, StepOf(s)
  PROVE  EndsOnly(s)
<1>1. Tasks(s) /\ Abandoned(s) /\ ~MayRetry(s) /\ None \notin {"direct", "proxy", "retry"}
  BY WorkerMuxAssumption DEF TaskInv, Abandoned, MayRetry, Dials
<1>2. ASSUME NEW sockets, RetryOrFail(s, sockets) PROVE UNCHANGED retry
  BY <1>1, <1>2 DEF RetryOrFail
<1>3. CASE Opened(s)
  <2>1. opener' = [opener EXCEPT ![s] = "done"] /\ UNCHANGED <<pump, retry, held, writing>>
    BY <1>1, <1>3 DEF Opened
  <2> QED BY <2>1 DEF EndsOnly, WorkerType, TaskType
<1>4. ASSUME NEW sockets, OpenFails(s, sockets) PROVE EndsOnly(s)
  <2>1. /\ opener' = [opener EXCEPT ![s] = "done"]
        /\ UNCHANGED <<pump, retry, held, writing>>
    BY <1>1, <1>2, <1>4 DEF OpenFails
  <2> QED BY <2>1 DEF EndsOnly, WorkerType, TaskType
<1>5. ~OpeningWritten(s) /\ ~Replayed(s) /\ ~TargetSends(s)
  BY DEF TasksCanEnd, OpeningWritten, Replayed, TargetSends
<1>6. CASE PumpEnds(s)
  <2>1. /\ pump' = [pump EXCEPT ![s] = None]
        /\ UNCHANGED <<opener, retry, held, writing>>
    BY <1>1, <1>2, <1>6 DEF PumpEnds
  <2> QED BY <2>1 DEF EndsOnly, WorkerType, TaskType
<1>7. CASE RetryOpened(s) \/ RetryFails(s)
  <2>1. /\ retry' = [retry EXCEPT ![s] = "none"]
        /\ opener' = [opener EXCEPT ![s] = "done"]
        /\ pump' = [pump EXCEPT ![s] = None]
        /\ UNCHANGED <<held, writing>>
    BY <1>1, <1>7 DEF RetryOpened, RetryFails, RetryGivesUp
  <2> QED BY <2>1 DEF EndsOnly, WorkerType, TaskType
<1>8. CASE ChainStep(s)
  <2>1. stream[s].closed /\ held[s] # <<>>
    BY <1>8 DEF ChainStep
  <2>2. /\ held' = [held EXCEPT ![s] = Tail(@)]
        /\ UNCHANGED <<opener, pump, retry, writing>>
    BY <1>8, <2>1 DEF ChainStep
  <2> QED BY <2>1, <2>2 DEF EndsOnly, WorkerType, DataType
<1>9. /\ \A id \in Ids, n \in {0, 1} : ~NewTcp(id, s, n) /\ ~NewUdp(id, s, n)
      /\ \A id \in Ids, dns \in BOOLEAN : ~KeepOpensUdp(id, s, dns)
      /\ \A id \in Ids : ~KeepTcp(id)
  BY DEF NewTcp, NewUdp, Opens, KeepOpensUdp, KeepTcp, Keeps
<1> QED BY <1>3, <1>4, <1>5, <1>6, <1>7, <1>8, <1>9 DEF StepOf, DialFails, OpeningFails

(* Once the session is closed a task ends or stays where it is, whatever dial, *)
(* write or lookup of it resolves late: nothing is dialled, retried or written *)
(* again, no pump starts, and the chain only drops what it held.               *)
THEOREM ClosedOnlyEnds == Spec => TasksOnlyEnd
<1> DEFINE IInv == /\ WorkerType /\ TaskInv /\ Names /\ LiveInv
                   /\ UplinkInv /\ SocketInv /\ ShutInv
<1> DEFINE Ends == closed => \A s \in Streams : EndsOnly(s)
<1>1. Init => IInv
  BY InitType, InitTasks, InitNames, InitLives, InitUplink, InitSockets, InitShut
<1>2. IInv /\ [Next]_vars => IInv'
  BY NextType, NextTasks, NextNames, NextLives, NextUplink, NextSockets, NextShut DEF Names
<1>3. IInv /\ [Next]_vars => [Ends]_vars
  <2> SUFFICES ASSUME IInv, [Next]_vars, closed, NEW t \in Streams PROVE EndsOnly(t)
    OBVIOUS
  <2>1. TasksCanEnd /\ (opener[t] = "none" \/ stream[t].closed)
    BY ShutImplies, AllClosed
  <2>2. CASE StepOfNone
    BY <2>2, QuietSteps, UntouchedEnds
  <2>3. ASSUME NEW s \in Streams, StepOf(s) PROVE EndsOnly(t)
    BY <2>1, <2>3, StepEnds, OthersUntouched, UntouchedEnds
  <2> QED BY <2>2, <2>3, Steps
<1>4. [Ends]_vars => [closed => \A s \in Streams :
         /\ opener'[s] \in {opener[s], "done"}
         /\ pump'[s] \in {pump[s], None} /\ retry'[s] \in {retry[s], "none"}
         /\ writing'[s] \in {writing[s], None}
         /\ held'[s] # held[s] => held[s] # <<>> /\ held'[s] = Tail(held[s])]_vars
  BY DEF EndsOnly
<1> QED BY <1>1, <1>2, <1>3, <1>4, PTL DEF Spec, TasksOnlyEnd

(* Every variable keeps to its range: no step writes a field, a task or a      *)
(* socket that is not there.                                                   *)
THEOREM WorkerTypeCorrect == Spec => []WorkerType
<1>1. Init => WorkerType /\ TaskInv /\ Names
  BY InitType, InitTasks, InitNames
<1>2. WorkerType /\ TaskInv /\ Names /\ [Next]_vars => (WorkerType /\ TaskInv /\ Names)'
  BY NextType, NextTasks, NextNames DEF Names
<1> QED BY <1>1, <1>2, PTL DEF Spec

=============================================================================
