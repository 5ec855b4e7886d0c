------------------------------ MODULE MuxSession ------------------------------
(***************************************************************************)
(* The Mux.Cool multiplexer of the Node server, src/node/mux.js, with the  *)
(* part of Session (src/node/session.js) and of the statistics             *)
(* (src/node/stats.js) that its handlers call.                             *)
(*                                                                         *)
(* One WebSocket carries many substreams, each named by an id the client   *)
(* chooses.  The server keeps two tables, #tcp and #udp, from ids to       *)
(* entries; an entry owns a socket to the target and a statistics record.  *)
(* JavaScript runs each callback to completion, so one action is one       *)
(* callback: a frame of the client dispatched by drain(), an event of a    *)
(* target socket, the client's 'drain', or the end of the session.         *)
(*                                                                         *)
(* An element of Entries is one call of openTcp or openUdp.  The tables    *)
(* are keyed by id, the callbacks close over the entry AND over the id:    *)
(* what happens when the two part is the subject of this module.           *)
(***************************************************************************)
EXTENDS Integers, FiniteSets, Sequences

CONSTANTS
  Ids,         \* substream ids a client uses
  Entries,     \* bound: how many substreams are ever opened
  None,        \* no entry under an id, no id for an unused entry
  MaxData,     \* bound: payloads the client sends to one entry
  MaxReplies,  \* bound: chunks a target sends on one socket
  Orderly      \* the client opens an id only while it holds it closed, sends
               \* Keep and End only on an id it has opened, and names a UDP
               \* target only on an id it opened as UDP

ASSUME MuxAssumption ==
  /\ IsFiniteSet(Entries)
  /\ None \notin Entries /\ None \notin Ids
  /\ MaxData \in Nat /\ MaxReplies \in Nat
  /\ Orderly \in BOOLEAN

VARIABLES
  dead,       \* session.dead; destroy() also closes the mux in the same call
  tcp, udp,   \* #tcp and #udp
  key,        \* the id an entry's callbacks close over
  proto,      \* "TCP" or "UDP"
  sock,       \* the entry's target socket
  listening,  \* its event listeners are attached
  record,     \* its statistics record: "none", "live" or "ended"
  stats,      \* totals.activeStreams, tcpStreams and udpStreams
  pending,    \* entry.pending: payloads held until the socket connects
  wrote,      \* payloads written to the socket, in order
  tx, rx,     \* record.txBytes and rxBytes, in payloads
  flowing,    \* the socket is not paused
  paused,     \* session.#paused
  full,       \* the client socket owes a 'drain': a write returned false
  sent,       \* history: payloads the client addressed to the entry
  kind,       \* history: how the client last opened the id
  view        \* history: "closed" by the client or never opened, "open", or
              \* "told" that it ended: the server has written End

tableVars  == <<tcp, udp>>
entryVars  == <<key, proto, sock, listening, record, stats>>
uplinkVars == <<pending, wrote, tx, sent>>
flowVars   == <<rx, flowing, paused, full>>
clientVars == <<kind, view>>
vars == <<dead, tableVars, entryVars, uplinkVars, flowVars, clientVars>>

Init ==
  /\ dead = FALSE
  /\ tcp = [i \in Ids |-> None]
  /\ udp = [i \in Ids |-> None]
  /\ key = [e \in Entries |-> None]
  /\ proto = [e \in Entries |-> "TCP"]
  /\ sock = [e \in Entries |-> "unused"]
  /\ listening = [e \in Entries |-> FALSE]
  /\ record = [e \in Entries |-> "none"]
  /\ stats = [active |-> 0, tcp |-> 0, udp |-> 0]
  /\ pending = [e \in Entries |-> <<>>]
  /\ wrote = [e \in Entries |-> <<>>]
  /\ tx = [e \in Entries |-> 0]
  /\ rx = [e \in Entries |-> 0]
  /\ flowing = [e \in Entries |-> TRUE]
  /\ paused = {}
  /\ full = FALSE
  /\ sent = [e \in Entries |-> 0]
  /\ kind = [i \in Ids |-> "none"]
  /\ view = [i \in Ids |-> "closed"]

-----------------------------------------------------------------------------
(* What the handlers call. An operator marked "Mutant" is no part of the    *)
(* model: it is a plausible bug in the definition after it, and shows that   *)
(* a property notices.                                                      *)

(* Mutant of Under: a TCP entry is overlooked where there is a UDP one. *)
UnderElseIf(S) ==
  {e \in Entries : \E i \in S : udp[i] = e \/ (udp[i] = None /\ tcp[i] = e)}

(* The entries registered under an id in S. *)
Under(S) == {e \in Entries : \E i \in S : tcp[i] = e \/ udp[i] = e}

(* Mutant of EndRecords: the per-protocol totals are forgotten. *)
EndRecordsTotalOnly(E) ==
  /\ record' = [e \in Entries |-> IF e \in E THEN "ended" ELSE record[e]]
  /\ stats' = [stats EXCEPT !.active = @ - Cardinality({e \in E : record[e] = "live"})]

(* stats.endStream ignores a record that has already ended. *)
EndRecords(E) ==
  LET live == {e \in E : record[e] = "live"}
      tcps == {e \in live : proto[e] = "TCP"}
  IN  /\ record' = [e \in Entries |-> IF e \in E THEN "ended" ELSE record[e]]
      /\ stats' = [active |-> stats.active - Cardinality(live),
                   tcp |-> stats.tcp - Cardinality(tcps),
                   udp |-> stats.udp - Cardinality(live \ tcps)]

Unregister(S) ==
  /\ tcp' = [i \in Ids |-> IF i \in S THEN None ELSE tcp[i]]
  /\ udp' = [i \in Ids |-> IF i \in S THEN None ELSE udp[i]]

(* Mutant of EndSockets: the listeners stay on. *)
EndSocketsAudible(E, sockets) ==
  /\ UNCHANGED listening
  /\ sock' = [e \in Entries |-> IF e \in E THEN "closed" ELSE sockets[e]]

(* removeAllListeners and destroy: only what the event left of the others. *)
EndSockets(E, sockets) ==
  /\ listening' = [e \in Entries |-> e \notin E /\ listening[e]]
  /\ sock' = [e \in Entries |-> IF e \in E THEN "closed" ELSE sockets[e]]

ClearPending(E) ==
  pending' = [e \in Entries |-> IF e \in E THEN <<>> ELSE pending[e]]

(* endStream(id) for every id in S: whatever is registered there is dropped, *)
(* silenced and destroyed.  sockets is what the event itself left of them.   *)
EndStreams(S, sockets) ==
  LET E == Under(S)
  IN  Unregister(S) /\ EndRecords(E) /\ EndSockets(E, sockets) /\ ClearPending(E)

(* stats.startStream and the new entry's socket. *)
StartStream(e, id, p) ==
  /\ key' = [key EXCEPT ![e] = id]
  /\ proto' = [proto EXCEPT ![e] = p]
  /\ sock' = [sock EXCEPT ![e] = IF p = "TCP" THEN "connecting" ELSE "open"]
  /\ listening' = [listening EXCEPT ![e] = TRUE]
  /\ record' = [record EXCEPT ![e] = "live"]
  /\ stats' = [active |-> stats.active + 1,
               tcp |-> stats.tcp + (IF p = "TCP" THEN 1 ELSE 0),
               udp |-> stats.udp + (IF p = "UDP" THEN 1 ELSE 0)]

(* A write to the client may return false: it then owes a 'drain'. *)
ClientWrite(accepted) == full' = (full \/ ~accepted)

(* Mutant of SendEnd: the client is not told. *)
SendNothing(id, viewed) == view' = viewed /\ UNCHANGED full

(* An End frame: the result of the write is ignored. *)
SendEnd(id, viewed) ==
  /\ view' = [viewed EXCEPT ![id] = IF @ = "open" THEN "told" ELSE @]
  /\ \E accepted \in BOOLEAN : ClientWrite(accepted)

(* Mutant of TcpPayload: written whether or not the socket has connected. *)
TcpPayloadAtOnce(e) ==
  /\ sent' = [sent EXCEPT ![e] = @ + 1]
  /\ tx' = [tx EXCEPT ![e] = @ + 1]
  /\ wrote' = [wrote EXCEPT ![e] = Append(@, sent[e] + 1)]
  /\ UNCHANGED pending

(* A payload for a TCP entry: counted, then written or held. *)
TcpPayload(e) ==
  /\ sent' = [sent EXCEPT ![e] = @ + 1]
  /\ tx' = [tx EXCEPT ![e] = @ + 1]
  /\ IF sock[e] = "connecting"
     THEN /\ pending' = [pending EXCEPT ![e] = Append(@, sent[e] + 1)]
          /\ UNCHANGED wrote
     ELSE /\ wrote' = [wrote EXCEPT ![e] = Append(@, sent[e] + 1)]
          /\ UNCHANGED pending

(* A datagram: counted, then resolved and sent (see DnsCache). *)
UdpPayload(e) ==
  /\ sent' = [sent EXCEPT ![e] = @ + 1]
  /\ tx' = [tx EXCEPT ![e] = @ + 1]
  /\ UNCHANGED <<pending, wrote>>

(* The data section of a Keep: the TCP entry under the id is preferred. *)
Payload(id) ==
  \/ tcp[id] # None /\ sent[tcp[id]] < MaxData /\ TcpPayload(tcp[id])
  \/ tcp[id] = None /\ udp[id] # None /\ sent[udp[id]] < MaxData
     /\ UdpPayload(udp[id])

-----------------------------------------------------------------------------
(* Frames of the client, dispatched by drain(). *)

Opens(id, p) ==
  /\ ~dead
  /\ Orderly => view[id] # "open"
  /\ kind' = [kind EXCEPT ![id] = p]

(* An entry already registered under the id is overwritten, not ended. *)
NewTcp(id, e, n) ==
  /\ Opens(id, "TCP")
  /\ key[e] = None
  /\ StartStream(e, id, "TCP")
  /\ tcp' = [tcp EXCEPT ![id] = e]
  /\ sent' = [sent EXCEPT ![e] = n]
  /\ pending' = [pending EXCEPT ![e] = IF n = 1 THEN <<1>> ELSE <<>>]
  /\ view' = [view EXCEPT ![id] = "open"]
  /\ UNCHANGED <<dead, udp, wrote, tx, flowVars>>

NewUdp(id, e, n) ==
  /\ Opens(id, "UDP")
  /\ key[e] = None
  /\ StartStream(e, id, "UDP")
  /\ udp' = [udp EXCEPT ![id] = e]
  /\ sent' = [sent EXCEPT ![e] = n]
  /\ tx' = [tx EXCEPT ![e] = n]
  /\ view' = [view EXCEPT ![id] = "open"]
  /\ UNCHANGED <<dead, tcp, pending, wrote, flowVars>>

(* The target is on the blocklist: refused with End. *)
NewBlocked(id, p) ==
  /\ Opens(id, p)
  /\ SendEnd(id, [view EXCEPT ![id] = "open"])
  /\ UNCHANGED <<dead, tableVars, entryVars, uplinkVars, rx, flowing, paused>>

Keeps(id) == ~dead /\ (Orderly => view[id] # "closed")

KeepData(id) ==
  /\ Keeps(id)
  /\ Payload(id)
  /\ UNCHANGED <<dead, tableVars, entryVars, flowVars, clientVars>>

(* An addressed Keep retargets the UDP entry, or opens one if there is none: *)
(* also under an id whose End is still on its way to the client.             *)
KeepOpensUdp(id, e, n) ==
  /\ Keeps(id)
  /\ Orderly => kind[id] = "UDP"
  /\ udp[id] = None
  /\ key[e] = None
  /\ StartStream(e, id, "UDP")
  /\ udp' = [udp EXCEPT ![id] = e]
  /\ \/ n = 0 /\ UNCHANGED uplinkVars
     \/ n = 1 /\ tcp[id] # None /\ sent[tcp[id]] < MaxData /\ TcpPayload(tcp[id])
     \/ n = 1 /\ tcp[id] = None /\ UdpPayload(e)
  /\ UNCHANGED <<dead, tcp, flowVars, clientVars>>

(* A blocked target in a Keep is refused with End; the substream lives on. *)
KeepBlocked(id) ==
  /\ Keeps(id)
  /\ Orderly => kind[id] = "UDP"
  /\ SendEnd(id, view)
  /\ UNCHANGED <<dead, tableVars, entryVars, uplinkVars, rx, flowing, paused, kind>>

End(id) ==
  /\ Keeps(id)
  /\ EndStreams({id}, sock)
  /\ view' = [view EXCEPT ![id] = "closed"]
  /\ UNCHANGED <<dead, key, proto, wrote, tx, sent, flowVars, kind>>

-----------------------------------------------------------------------------
(* Events of an entry's socket.  An overwritten entry keeps its listeners. *)

(* The payloads held while dialling are counted (those of a Keep for the    *)
(* second time) and written.                                                *)
Flush(e) ==
  /\ wrote' = [wrote EXCEPT ![e] = @ \o pending[e]]
  /\ tx' = [tx EXCEPT ![e] = @ + Len(pending[e])]
  /\ pending' = [pending EXCEPT ![e] = <<>>]

(* The connect callback does not look at dead: an overwritten entry flushes *)
(* into a session that is gone.                                             *)
Connected(e) ==
  /\ sock[e] = "connecting"
  /\ sock' = [sock EXCEPT ![e] = "open"]
  /\ Flush(e)
  /\ UNCHANGED <<dead, tableVars, key, proto, listening, record, stats, sent,
                 flowVars, clientVars>>

(* Mutant of Receives: an overwritten entry speaks for a dead session. *)
ReceivesDead(e) ==
  /\ listening[e] /\ sock[e] = "open" /\ rx[e] < MaxReplies
  /\ rx' = [rx EXCEPT ![e] = @ + 1]

(* Bytes of the target arrive and are counted. *)
Receives(e) ==
  /\ ~dead /\ listening[e] /\ sock[e] = "open" /\ rx[e] < MaxReplies
  /\ rx' = [rx EXCEPT ![e] = @ + 1]

(* Mutant of PauseSource: paused without being registered for the drain. *)
PauseSourceOnly(e) == flowing' = [flowing EXCEPT ![e] = FALSE] /\ UNCHANGED paused

PauseSource(e) ==
  /\ flowing' = [flowing EXCEPT ![e] = FALSE]
  /\ paused' = paused \cup {e}

(* 'data' of a TCP socket: a refused write pauses the socket it came from. *)
TcpReply(e, accepted) ==
  /\ proto[e] = "TCP" /\ flowing[e]
  /\ Receives(e)
  /\ ClientWrite(accepted)
  /\ IF accepted THEN UNCHANGED <<flowing, paused>> ELSE PauseSource(e)
  /\ UNCHANGED <<dead, tableVars, entryVars, uplinkVars, clientVars>>

(* 'message' of a UDP socket: nothing holds it back. *)
UdpReply(e, accepted) ==
  /\ proto[e] = "UDP"
  /\ Receives(e)
  /\ ClientWrite(accepted)
  /\ UNCHANGED <<dead, tableVars, entryVars, uplinkVars, flowing, paused,
                 clientVars>>

(* 'error': End goes out, and whatever the id names NOW is torn down.  A TCP *)
(* socket that is not destroyed by that emits 'close' next.                  *)
SocketError(e) ==
  /\ listening[e] /\ sock[e] \in {"connecting", "open"}
  /\ EndStreams({key[e]},
                [sock EXCEPT ![e] = IF proto[e] = "TCP" THEN "failed" ELSE @])
  /\ IF dead THEN UNCHANGED <<view, full>> ELSE SendEnd(key[e], view)
  /\ UNCHANGED <<dead, key, proto, wrote, tx, sent, rx, flowing, paused, kind>>

(* 'close' of a TCP socket; once the session is dead it does nothing more. *)
SocketClose(e) ==
  /\ proto[e] = "TCP" /\ listening[e] /\ sock[e] \in {"open", "failed"}
  /\ IF dead
     THEN /\ sock' = [sock EXCEPT ![e] = "closed"]
          /\ UNCHANGED <<tableVars, listening, record, stats, pending, view, full>>
     ELSE /\ EndStreams({key[e]}, [sock EXCEPT ![e] = "closed"])
          /\ SendEnd(key[e], view)
  /\ UNCHANGED <<dead, key, proto, wrote, tx, sent, rx, flowing, paused, kind>>

-----------------------------------------------------------------------------
(* Events of the client socket. *)

(* Mutant of ResumeSources: the list is cleared, the sockets stay paused. *)
ForgetSources == paused' = {} /\ UNCHANGED flowing

ResumeSources ==
  /\ flowing' = [e \in Entries |-> e \in paused \/ flowing[e]]
  /\ paused' = {}

ClientDrain ==
  /\ ~dead /\ full
  /\ full' = FALSE
  /\ ResumeSources
  /\ UNCHANGED <<dead, tableVars, entryVars, uplinkVars, rx, clientVars>>

(* session.destroy: the client closed, failed, or sent a WebSocket close. *)
Destroy ==
  /\ ~dead
  /\ dead' = TRUE
  /\ EndStreams(Ids, sock)
  /\ paused' = {}
  /\ full' = FALSE
  /\ UNCHANGED <<key, proto, wrote, tx, sent, rx, flowing, clientVars>>

-----------------------------------------------------------------------------
Next ==
  \/ \E id \in Ids :
       \/ \E e \in Entries, n \in {0, 1} :
            NewTcp(id, e, n) \/ NewUdp(id, e, n) \/ KeepOpensUdp(id, e, n)
       \/ \E p \in {"TCP", "UDP"} : NewBlocked(id, p)
       \/ KeepData(id) \/ KeepBlocked(id) \/ End(id)
  \/ \E e \in Entries :
       \/ Connected(e) \/ SocketError(e) \/ SocketClose(e)
       \/ \E accepted \in BOOLEAN : TcpReply(e, accepted) \/ UdpReply(e, accepted)
  \/ ClientDrain
  \/ Destroy

Spec == Init /\ [][Next]_vars

(* Scheduling: a client that owes a 'drain' drains or is lost, and a dial    *)
(* succeeds or fails (the operating system times it out).                   *)
FairSpec ==
  /\ Spec
  /\ WF_vars(full /\ (ClientDrain \/ Destroy))
  /\ \A e \in Entries :
       WF_vars(sock[e] = "connecting" /\ (Connected(e) \/ SocketError(e)))

-----------------------------------------------------------------------------
(* Properties. *)

Registered(e) == key[e] # None /\ (tcp[key[e]] = e \/ udp[key[e]] = e)
Live == {e \in Entries : record[e] = "live"}
LiveTcp == {e \in Live : proto[e] = "TCP"}

(* Every variable stays in its range. *)
TypeOK ==
  /\ dead \in BOOLEAN
  /\ tcp \in [Ids -> Entries \cup {None}]
  /\ udp \in [Ids -> Entries \cup {None}]
  /\ key \in [Entries -> Ids \cup {None}]
  /\ proto \in [Entries -> {"TCP", "UDP"}]
  /\ sock \in [Entries -> {"unused", "connecting", "open", "failed", "closed"}]
  /\ listening \in [Entries -> BOOLEAN]
  /\ record \in [Entries -> {"none", "live", "ended"}]
  /\ stats \in [active : Int, tcp : Int, udp : Int]
  /\ pending \in [Entries -> Seq(Nat)]
  /\ wrote \in [Entries -> Seq(Nat)]
  /\ tx \in [Entries -> Nat]
  /\ rx \in [Entries -> Nat]
  /\ flowing \in [Entries -> BOOLEAN]
  /\ paused \subseteq Entries
  /\ full \in BOOLEAN
  /\ sent \in [Entries -> Nat]
  /\ kind \in [Ids -> {"none", "TCP", "UDP"}]
  /\ view \in [Ids -> {"closed", "open", "told"}]

(* Whatever a client sends, an entry in a table is one whose callbacks name *)
(* that id, whose record still counts, and whose listeners are attached; an *)
(* entry whose record has ended is in no table, silent, and has no socket,  *)
(* so no late event of it can touch the next substream with its id.         *)
TablesMatchEntries ==
  /\ \A i \in Ids :
       /\ tcp[i] # None => key[tcp[i]] = i /\ proto[tcp[i]] = "TCP"
                             /\ record[tcp[i]] = "live"
       /\ udp[i] # None => key[udp[i]] = i /\ proto[udp[i]] = "UDP"
                             /\ record[udp[i]] = "live"
  /\ \A e \in Entries :
       /\ record[e] = "live" => listening[e]
       /\ record[e] = "ended" =>
            ~Registered(e) /\ ~listening[e] /\ sock[e] = "closed"

(* The dashboard's totals count exactly the records that have not ended,     *)
(* through any mix of repeated, crossed and overwritten teardowns.           *)
TotalsMatchRecords ==
  /\ stats.active = Cardinality(Live)
  /\ stats.tcp = Cardinality(LiveTcp)
  /\ stats.udp = Cardinality(Live \ LiveTcp)

(* A TCP target receives the client's payloads in order, none lost and none *)
(* twice, whether they came with New, before the connection or after it.    *)
UplinkInOrder ==
  \A e \in Entries : proto[e] = "TCP" /\ record[e] = "live" =>
    wrote[e] \o pending[e] = [n \in 1..sent[e] |-> n]

(* A socket held back for a slow client is on the list the client's 'drain' *)
(* resumes, and that 'drain' is still owed: no wake-up is lost.             *)
NoLostWakeup ==
  ~dead => \A e \in Entries : ~flowing[e] => e \in paused /\ full

(* Against a client that keeps to the protocol, a TCP substream is always    *)
(* reachable by its id, and the client holds that id open as TCP: no socket  *)
(* or record is left behind when an id is used again or the session ends.    *)
TcpReachable ==
  Orderly => \A e \in Entries : proto[e] = "TCP" /\ record[e] = "live" =>
    ~dead /\ tcp[key[e]] = e /\ view[key[e]] = "open" /\ kind[key[e]] = "TCP"

(* No substream is torn down behind the client's back: it ended the id, or  *)
(* has been told, or the whole session is over.                             *)
NoSilentTeardown ==
  [][\A e \in Entries : record[e] = "live" /\ record'[e] = "ended"
       => dead' \/ view'[key[e]] # "open"]_vars

(* A dead session writes nothing to the client, and opens nothing. *)
DeadIsQuiet ==
  [][dead => rx' = rx /\ view' = view /\ full' = full /\ tcp' = tcp /\ udp' = udp]_vars

(* A paused socket flows again, unless the session or the substream is over. *)
PausedFlowsAgain ==
  \A e \in Entries : ~flowing[e] ~> flowing[e] \/ dead \/ record[e] = "ended"

(* End is final: the server forwards a target's bytes under an id only while *)
(* the client has not been told that the id ended.                           *)
EndIsFinal ==
  [][Orderly => \A e \in Entries : rx'[e] # rx[e] => view[key[e]] = "open"]_vars
=============================================================================
