-------------------------------- MODULE Tunnel --------------------------------
(***************************************************************************)
(* One tunnel of the Node server after the WebSocket upgrade: the frames    *)
(* and messages of src/node/session.js, and the relay of a session that     *)
(* carries one TCP connection (src/node/relay.js) or one UDP association    *)
(* (src/node/udp.js).  Sessions that carry a Mux are MuxSession.            *)
(*                                                                          *)
(* What the client sends is cut into pieces, numbered from 1; a frame is    *)
(* one piece.  The VLESS header is the first HeaderPieces pieces, a         *)
(* datagram is DatagramPieces pieces.  #message serves two purposes in the  *)
(* code, the fragments of an unfinished message and the messages of an      *)
(* unfinished header: held is both.                                         *)
(***************************************************************************)
EXTENDS Integers, Sequences

CONSTANTS
  HeaderPieces,   \* the pieces the VLESS header takes
  DatagramPieces, \* the pieces a length-prefixed datagram takes
  MaxPieces,      \* bound: pieces the client sends
  MaxReplies      \* bound: chunks the target sends

ASSUME TunnelAssumption ==
  /\ HeaderPieces \in Nat \ {0} /\ DatagramPieces \in Nat \ {0}
  /\ MaxPieces \in Nat /\ MaxReplies \in Nat

VARIABLES
  dead,     \* session.#dead
  sent,     \* pieces the client has sent
  open,     \* a fragmented message is unfinished
  held,     \* #message
  burst,    \* the chunk being read may hold another frame
  relay,    \* #relay: "none", "TCP" or "UDP"
  conn,     \* connInfo: "none", "active" or "closed"
  record,   \* the relay's statistics record: "none", "live" or "ended"
  target,   \* its socket: "none", "connecting", "open" or "closed"
  pending,  \* pendingWrites of a TCP relay, inbound of a UDP relay
  wrote,    \* pieces written to the target
  stopped,  \* the client socket is paused
  owed,     \* the target socket owes a 'drain'
  flowing,  \* the target socket is not paused
  paused,   \* the target socket is in session.#paused
  full,     \* the client socket owes a 'drain'
  rx        \* chunks of the target written to the client

wsVars == <<sent, open, held>>
relayVars == <<relay, conn, record, target>>
upVars == <<pending, wrote, stopped, owed>>
downVars == <<flowing, paused, full, rx>>
vars == <<dead, wsVars, burst, relayVars, upVars, downVars>>

Init ==
  /\ dead = FALSE
  /\ sent = 0 /\ open = FALSE /\ held = <<>>
  /\ burst = FALSE
  /\ relay = "none" /\ conn = "none" /\ record = "none" /\ target = "none"
  /\ pending = <<>> /\ wrote = <<>>
  /\ stopped = FALSE /\ owed = FALSE
  /\ flowing = TRUE /\ paused = FALSE /\ full = FALSE
  /\ rx = 0

-----------------------------------------------------------------------------
(* The end of the session. *)

(* Mutant of Close: the relay is forgotten, its socket stays open. *)
CloseForgets == relay' = "none" /\ UNCHANGED <<record, target>>

(* relay.close(). *)
Close ==
  /\ relay' = "none"
  /\ record' = IF relay = "none" THEN record ELSE "ended"
  /\ target' = IF relay = "none" THEN target ELSE "closed"

Destroy ==
  /\ dead' = TRUE
  /\ Close
  /\ conn' = IF conn = "active" THEN "closed" ELSE conn
  /\ held' = <<>> /\ pending' = <<>>
  /\ paused' = FALSE
  /\ burst' = FALSE

-----------------------------------------------------------------------------
(* Payload for the relay. *)

(* A write to the target may return false: the client is then paused, and   *)
(* the target owes a 'drain'.                                               *)
TargetWrite(s) ==
  /\ wrote' = wrote \o s
  /\ \E accepted \in BOOLEAN :
       /\ owed' = (owed \/ ~accepted)
       /\ stopped' = (stopped \/ ~accepted)

(* Mutant of HoldOrWrite: a connected socket overtakes what is held. *)
HoldNewest(s) ==
  IF target = "connecting"
  THEN pending' = s \o pending /\ UNCHANGED <<wrote, stopped, owed>>
  ELSE UNCHANGED pending /\ TargetWrite(s)

(* relay.write of a TCP relay. *)
HoldOrWrite(s) ==
  IF target = "connecting"
  THEN pending' = pending \o s /\ UNCHANGED <<wrote, stopped, owed>>
  ELSE UNCHANGED pending /\ TargetWrite(s)

(* relay.write of a UDP relay: every datagram that is complete is sent. *)
SendDatagrams(s) ==
  LET q == pending \o s
      n == (Len(q) \div DatagramPieces) * DatagramPieces
  IN  /\ wrote' = wrote \o SubSeq(q, 1, n)
      /\ pending' = SubSeq(q, n + 1, Len(q))
      /\ UNCHANGED <<stopped, owed>>

RelayWrite(s) ==
  /\ IF relay = "TCP" THEN HoldOrWrite(s) ELSE SendDatagrams(s)
  /\ UNCHANGED <<relayVars, downVars>>

(* The header validates: the connection is counted, the relay is built with *)
(* what came after the header, and the client is told.                      *)
StartRelay(p, initial) ==
  /\ relay' = p /\ conn' = "active" /\ record' = "live"
  /\ IF p = "TCP"
     THEN /\ target' = "connecting" /\ pending' = initial
          /\ UNCHANGED <<wrote, stopped, owed>>
     ELSE /\ target' = "open"
          /\ SendDatagrams(initial)
  /\ full' \in {full, TRUE}
  /\ UNCHANGED <<flowing, paused, rx>>

-----------------------------------------------------------------------------
(* Frames of the client.  A paused client is read no further, but the frames *)
(* of the chunk at hand are all handled.                                     *)

Reads == ~dead /\ (~stopped \/ burst)

(* onMessage(message): rest is what #message holds when it is called. *)
OnMessage(message, rest) ==
  LET header == rest \o message
  IN  IF conn # "none"
      THEN /\ RelayWrite(message)
           /\ held' = rest
           /\ UNCHANGED dead
      ELSE IF Len(header) < HeaderPieces
      THEN /\ held' = header
           /\ UNCHANGED <<dead, relayVars, upVars, downVars>>
      ELSE \/ /\ \E p \in {"TCP", "UDP"} :
                   StartRelay(p, SubSeq(header, HeaderPieces + 1, Len(header)))
              /\ held' = <<>>
              /\ UNCHANGED dead
           \/ Destroy /\ UNCHANGED <<wrote, stopped, owed, flowing, full, rx>>

(* Mutant of LastFragment: only the last frame of the message is used. *)
LastFragmentAlone(piece) == OnMessage(<<piece>>, held)

(* The last frame of a fragmented message. *)
LastFragment(piece) == OnMessage(Append(held, piece), <<>>)

Frame(fin) ==
  /\ Reads
  /\ sent < MaxPieces
  /\ sent' = sent + 1
  /\ open' = ~fin
  /\ IF ~fin
     THEN /\ held' = Append(held, sent + 1)
          /\ UNCHANGED <<dead, relayVars, upVars, downVars>>
     ELSE IF open THEN LastFragment(sent + 1) ELSE OnMessage(<<sent + 1>>, held)
  /\ burst' = ~dead'

(* A ping is answered, between the fragments of a message as well; the      *)
(* result of the write is ignored.                                          *)
Ping ==
  /\ Reads
  /\ full' \in {full, TRUE}
  /\ burst' = TRUE
  /\ UNCHANGED <<dead, wsVars, relayVars, upVars, flowing, paused, rx>>

(* A close frame, or the client's socket closing or failing. *)
ClientEnds ==
  /\ ~dead
  /\ Destroy
  /\ UNCHANGED <<sent, open, wrote, stopped, owed, flowing, full, rx>>

-----------------------------------------------------------------------------
(* Events of the target socket. *)

(* What was held while connecting is written in one go. *)
Flush ==
  IF pending = <<>> THEN UNCHANGED upVars
  ELSE pending' = <<>> /\ TargetWrite(pending)

Connected ==
  /\ relay = "TCP" /\ target = "connecting"
  /\ target' = "open"
  /\ Flush
  /\ burst' = FALSE
  /\ UNCHANGED <<dead, wsVars, relay, conn, record, downVars>>

(* Mutant of Resume: the client is resumed only by a relay that is idle. *)
ResumeIdle == stopped' = (stopped /\ rx > 0)

Resume == stopped' = FALSE

TargetDrain ==
  /\ relay = "TCP" /\ owed
  /\ owed' = FALSE
  /\ Resume
  /\ burst' = FALSE
  /\ UNCHANGED <<dead, wsVars, relayVars, pending, wrote, downVars>>

(* 'data' or 'message': only a TCP socket is held back for a slow client. *)
TargetData(accepted) ==
  /\ relay # "none" /\ target = "open" /\ flowing
  /\ rx < MaxReplies
  /\ rx' = rx + 1
  /\ full' = (full \/ ~accepted)
  /\ IF accepted \/ relay = "UDP" THEN UNCHANGED <<flowing, paused>>
     ELSE flowing' = FALSE /\ paused' = TRUE
  /\ burst' = FALSE
  /\ UNCHANGED <<dead, wsVars, relayVars, upVars>>

(* 'close' or 'error' of the target ends the session. *)
TargetEnds ==
  /\ relay # "none" /\ ~dead
  /\ Destroy
  /\ UNCHANGED <<sent, open, wrote, stopped, owed, flowing, full, rx>>

(* Mutant of ResumeSource: the list is cleared, the socket stays paused. *)
ForgetSource == paused' = FALSE /\ UNCHANGED flowing

ResumeSource ==
  /\ paused' = FALSE
  /\ flowing' = (flowing \/ paused)

ClientDrain ==
  /\ ~dead /\ full
  /\ full' = FALSE
  /\ ResumeSource
  /\ burst' = FALSE
  /\ UNCHANGED <<dead, wsVars, relayVars, upVars, rx>>

-----------------------------------------------------------------------------
Next ==
  \/ \E b \in BOOLEAN : Frame(b) \/ TargetData(b)
  \/ Ping \/ ClientEnds
  \/ Connected \/ TargetDrain \/ TargetEnds \/ ClientDrain

Spec == Init /\ [][Next]_vars

(* A dial succeeds or fails; a socket that owes a 'drain' drains, or ends. *)
FairSpec ==
  /\ Spec
  /\ WF_vars(target = "connecting" /\ (Connected \/ TargetEnds))
  /\ WF_vars(owed /\ (TargetDrain \/ TargetEnds))
  /\ WF_vars(full /\ (ClientDrain \/ ClientEnds))

-----------------------------------------------------------------------------
(* Properties. *)

(* Every variable stays in its range. *)
TypeOK ==
  /\ dead \in BOOLEAN /\ open \in BOOLEAN /\ burst \in BOOLEAN
  /\ sent \in 0..MaxPieces
  /\ held \in Seq(1..MaxPieces)
  /\ relay \in {"none", "TCP", "UDP"}
  /\ conn \in {"none", "active", "closed"}
  /\ record \in {"none", "live", "ended"}
  /\ target \in {"none", "connecting", "open", "closed"}
  /\ pending \in Seq(1..MaxPieces) /\ wrote \in Seq(1..MaxPieces)
  /\ stopped \in BOOLEAN /\ owed \in BOOLEAN
  /\ flowing \in BOOLEAN /\ paused \in BOOLEAN /\ full \in BOOLEAN
  /\ rx \in 0..MaxReplies

(* However the client cuts its stream into frames, fragments and messages,  *)
(* and whenever the target connects, the target is given every piece after  *)
(* the header, in order and once; what is not written yet is held.          *)
UplinkInOrder ==
  ~dead =>
    LET skipped == IF conn = "none" THEN 0 ELSE HeaderPieces
    IN  wrote \o pending \o held = [n \in 1..(sent - skipped) |-> n + skipped]

(* A dead session has let go of everything: its connection is no longer     *)
(* counted, its relay is closed, its target's socket and record with it.    *)
DeadIsReaped ==
  dead => /\ conn # "active" /\ relay = "none"
          /\ record # "live" /\ target \in {"none", "closed"}
          /\ held = <<>> /\ pending = <<>> /\ ~paused

(* A client that is not read is waited for: its target is there and owes    *)
(* the 'drain' that resumes it; the same for a target that is not read.     *)
NoLostWakeup ==
  ~dead => /\ stopped => owed /\ relay = "TCP" /\ target = "open"
           /\ ~flowing => paused /\ full

(* Neither direction stops for good while the session lives. *)
BothWaysResume ==
  /\ stopped ~> ~stopped \/ dead
  /\ ~flowing ~> flowing \/ dead

=============================================================================
