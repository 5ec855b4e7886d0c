---------------------------- MODULE WorkerRelay ----------------------------
(***************************************************************************)
(* One WebSocket of the Worker and of Deno that carries one TCP tunnel or  *)
(* one stream of DNS packets: src/src/worker/index.mjs, wsstream.mjs,      *)
(* relay.mjs and dns.mjs, with parseVlessHeader and ByteQueue of           *)
(* src/src/vless.js.  (A Mux.Cool session goes on in WorkerMux.)           *)
(*                                                                         *)
(* The client's bytes are numbered; it cuts them into messages anywhere.   *)
(* A message is an event; what the reader of the stream does with it runs  *)
(* before the next one.  Dials, writes, lookups and the sockets at both    *)
(* ends end when they will, well or not.                                   *)
(*                                                                         *)
(* Parameters: HeaderLen, the bytes parseVlessHeader needs; Framings, the  *)
(* lengths of the DNS packets a client may send, one after the other;      *)
(* MinQuery, the length of the shortest DNS message; Base, of the two      *)
(* digits of a packet's length; MaxBytes, MaxChunk and MaxDown bound the   *)
(* bytes of a TCP client, of a message, and the chunks of a target;        *)
(* MaxBacklog is the limit of the stream (MAX_BACKLOG).                    *)
(***************************************************************************)
EXTENDS Naturals, Sequences, SequencesExt

CONSTANTS HeaderLen, Framings, MinQuery, Base, MaxBytes, MaxChunk, MaxDown, MaxBacklog

ASSUME WorkerRelayAssumption ==
    /\ HeaderLen \in Nat \ {0} /\ MaxBytes \in Nat /\ MaxChunk \in Nat \ {0}
    /\ MaxDown \in Nat /\ MaxBacklog \in Nat /\ MinQuery \in Nat /\ Base \in Nat \ {0}
    /\ Framings \subseteq Seq(0 .. Base * Base - 1)

Targets == {"direct", "relay"}
None == "none"

VARIABLES
    client,     \* what this client asks for: [request, proxy, framing]; proxy: PROXYIP is set
    sent,       \* the bytes it has sent
    ws,         \* readyState: "open", "closing" or "closed"
    stream,     \* the ReadableStream: its state, the chunks queued, the guard's count
    pc,         \* where pump, runTcpRelay or runDnsRelay awaits
    parts,      \* the ByteQueue in use
    opening,    \* the payload that came with the header
    at,         \* the target runTcpRelay dials, writes the opening to, or pumps
    sock,       \* the sockets of the two targets
    current,    \* the one upstreamSink writes to
    pipe,       \* the pipe of the stream to the sink: its state, the bytes being written and to whom
    owed,       \* VLESS_OK_HEADER has not been sent
    sawData,    \* a target has answered
    down,       \* what was sent to the client: [from, header]
    queries,    \* the DNS packets cut from the stream
    asking      \* those whose lookup is in flight

vars == <<client, sent, ws, stream, pc, parts, opening, at, sock, current, pipe, owed, sawData, down, queries, asking>>
upVars   == <<parts, opening>>
sockVars == <<at, sock, current>>
downVars == <<owed, sawData, down>>
dnsVars  == <<queries, asking>>

Bytes(a, b) == [i \in 1 .. (b - a + 1) |-> a + i - 1]
Size(chunks) == Len(FlattenSeq(chunks))

(***************************************************************************)
(* The bytes of a DNS client: two digits of length, the packet, and again. *)
(***************************************************************************)
\* A packet on the wire, whatever is in it, and all that a client sends.
Framed(n) == <<n \div Base, n % Base>> \o [i \in 1 .. n |-> 0]
Wire(framing) == [i \in 1 .. HeaderLen |-> 0] \o FlattenSeq([i \in DOMAIN framing |-> Framed(framing[i])])

Total == IF client.request = "dns" THEN Len(Wire(client.framing)) ELSE MaxBytes
Value(byte) == Wire(client.framing)[byte]

\* The bytes before packet i.
Before(framing, i) == Len(Wire(SubSeq(framing, 1, i - 1)))

\* Packet i, as the client sent it.
Packet(i) == Bytes(Before(client.framing, i) + 3, Before(client.framing, i) + 2 + client.framing[i])

(***************************************************************************)
(* ByteQueue: chunks in order, read and consumed across their boundaries.  *)
(***************************************************************************)
Offset(chunks, p) == Size(SubSeq(chunks, 1, p - 1))
Push(chunks, chunk) == IF chunk = <<>> THEN chunks ELSE Append(chunks, chunk)

\* at: the byte at index i from 0.
At(chunks, i) ==
    LET p == CHOOSE p \in DOMAIN chunks : Offset(chunks, p) <= i /\ i < Offset(chunks, p + 1)
    IN  chunks[p][i - Offset(chunks, p) + 1]

\* slice: a copy of start to stop, less one, taken from each part in turn.
Slice(chunks, start, stop) ==
    FlattenSeq([p \in DOMAIN chunks |->
        SubSeq(chunks[p], IF start > Offset(chunks, p) THEN start - Offset(chunks, p) + 1 ELSE 1,
                          IF stop < Offset(chunks, p + 1) THEN stop - Offset(chunks, p) ELSE Len(chunks[p]))])

\* A bug: only whole parts are consumed.
ConsumeParts(chunks, n) ==
    SubSeq(chunks, 1 + Len(SelectSeq([p \in DOMAIN chunks |-> Offset(chunks, p + 1)], LAMBDA end : end <= n)),
           Len(chunks))

\* consume: the parts that are used up go, the next one is cut.
Consume(chunks, n) ==
    IF n >= Size(chunks) THEN <<>>
    ELSE LET p == CHOOSE p \in DOMAIN chunks : Offset(chunks, p) <= n /\ n < Offset(chunks, p + 1)
         IN  <<SubSeq(chunks[p], n - Offset(chunks, p) + 1, Len(chunks[p]))>>
                \o SubSeq(chunks, p + 1, Len(chunks))

(***************************************************************************)
(* makeWsReadable.                                                         *)
(***************************************************************************)
NoPipe == [state |-> "none", bytes |-> <<>>, to |-> None]

\* A request for early data puts the first bytes in the handshake; they come in one of
\* its headers and are far fewer than MAX_BACKLOG.
Init ==
    /\ client \in [request : {"tcp", "udp", "bad"}, proxy : BOOLEAN, framing : {<<>>}]
                    \cup [request : {"dns"}, proxy : {FALSE}, framing : Framings]
    /\ \E early \in 0 .. MaxChunk :
          /\ early <= Total /\ early <= MaxBacklog
          /\ sent = early
          /\ stream = [state |-> "open", backlog |-> early,
                       queued |-> IF early = 0 THEN <<>> ELSE <<Bytes(1, early)>>]
    /\ ws = "open" /\ pc = "head" /\ parts = <<>> /\ opening = <<>>
    /\ sock = [t \in Targets |-> [life |-> "none", half |-> FALSE, got |-> <<>>]]
    /\ at = "direct" /\ current = None /\ pipe = NoPipe
    /\ owed = TRUE /\ sawData = FALSE /\ down = <<>>
    /\ queries = <<>> /\ asking = {}

\* safeClose.
Closing == IF ws = "open" THEN "closing" ELSE ws

\* Somebody reads the stream and waits for a chunk.
Reads == pc \in {"head", "dns"} \/ (pipe.state = "on" /\ pipe.bytes = <<>>)

\* DNS packets that are complete wait to be cut; drain leaves none.
Complete ==
    /\ pc = "dns" /\ Size(parts) >= 2
    /\ Size(parts) >= 2 + Value(At(parts, 0)) * Base + Value(At(parts, 1))

\* Nothing that a chunk already here sets going is left to do.
Settled == ~Complete /\ ~(Reads /\ stream.queued # <<>>)

\* A bug: the count is reset whenever something is read.
TakenResets == [stream EXCEPT !.queued = Tail(@), !.backlog = 0]

\* The next chunk.  The guard's count is only reset when none is left (pull).
Taken ==
    [stream EXCEPT !.queued = Tail(@),
                   !.backlog = IF Len(stream.queued) = 1 /\ stream.state = "open" THEN 0 ELSE @]

\* A message.  A chunk somebody waits for is handed over at once (pull); another is
\* queued and counted, and over the limit the stream is put in error.
Message ==
    /\ ws # "closed" /\ Settled
    /\ \E n \in 1 .. MaxChunk :
          /\ sent + n <= Total /\ sent' = sent + n
          /\ LET over == stream.backlog + n > MaxBacklog IN
             IF stream.state # "open" THEN UNCHANGED <<stream, ws>>
             ELSE IF over THEN /\ stream' = [stream EXCEPT !.state = "errored", !.queued = <<>>, !.backlog = @ + n]
                               /\ ws' = Closing
             ELSE /\ stream' = [stream EXCEPT !.queued = Append(@, Bytes(sent + 1, sent + n)),
                                              !.backlog = IF Reads THEN 0 ELSE @ + n]
                  /\ UNCHANGED ws
    /\ UNCHANGED <<client, pc, upVars, sockVars, pipe, downVars, dnsVars>>

\* The client closes, or answers a close of ours; or the connection fails.
WsCloses ==
    /\ ws # "closed" /\ ws' = "closed"
    /\ \E state \in {"closed", "errored"} :
          stream' = IF stream.state # "open" THEN stream
                    ELSE [stream EXCEPT !.state = state, !.queued = IF state = "closed" THEN @ ELSE <<>>]
    /\ UNCHANGED <<client, sent, pc, upVars, sockVars, pipe, downVars, dnsVars>>

(***************************************************************************)
(* pump of index.mjs and deno/main.mjs.                                    *)
(***************************************************************************)
\* parseVlessHeader needs HeaderLen bytes and then knows.
Parse(buf) == IF Len(buf) < HeaderLen THEN "need" ELSE client.request

Ends == pc' = "done" /\ ws' = Closing

ReadHead ==
    /\ pc = "head" /\ stream.queued # <<>>
    /\ stream' = Taken
    /\ LET buf  == FlattenSeq(Push(parts, Head(stream.queued)))
           rest == SubSeq(buf, HeaderLen + 1, Len(buf))
       IN
       CASE Parse(buf) = "need" -> parts' = <<buf>> /\ UNCHANGED <<pc, ws, opening, sock>>
         [] Parse(buf) \in {"bad", "udp"} -> parts' = <<>> /\ Ends /\ UNCHANGED <<opening, sock>>
         [] Parse(buf) = "tcp" ->
              /\ parts' = <<>> /\ opening' = rest /\ pc' = "dial"
              /\ sock' = [sock EXCEPT !["direct"].life = "dialling"] /\ UNCHANGED ws
         [] Parse(buf) = "dns" ->
              parts' = Push(<<>>, rest) /\ pc' = "dns" /\ UNCHANGED <<ws, opening, sock>>
    /\ UNCHANGED <<client, sent, at, current, pipe, downVars, dnsVars>>

\* A bug: a stream in error leaves the reader waiting.
HeadEndsOnClose ==
    /\ pc = "head" /\ stream.queued = <<>> /\ stream.state = "closed"
    /\ Ends
    /\ UNCHANGED <<client, sent, stream, upVars, sockVars, pipe, downVars, dnsVars>>

\* The stream is over before the header is.
HeadEnds ==
    /\ pc = "head" /\ stream.queued = <<>> /\ stream.state # "open"
    /\ Ends
    /\ UNCHANGED <<client, sent, stream, upVars, sockVars, pipe, downVars, dnsVars>>

(***************************************************************************)
(* runTcpRelay.                                                            *)
(***************************************************************************)
Life(t) == sock[t].life

\* The end of runTcpRelay but for the pipe of the client's bytes.
Finish == pc' = "await" /\ ws' = Closing

\* A bug: a target that answered and ended is retried too.
MayRetryAfterData == client.proxy /\ ws = "open"

\* The first target could not be dialled, or ended: the relay host, if it said nothing.
MayRetry == ~sawData /\ client.proxy /\ ws = "open"

Retry(socks) ==
    /\ at' = "relay" /\ pc' = "dial"
    /\ sock' = [socks EXCEPT !["relay"].life = "dialling"]
    /\ UNCHANGED ws

\* The task is done with its target, whose socket is now as in socks.
Leaves(socks) ==
    IF at = "direct" /\ MayRetry THEN Retry(socks)
    ELSE Finish /\ sock' = socks /\ UNCHANGED at

\* A bug: the relay host is not given the opening payload.
OpeningForFirst(t) == IF t = "direct" THEN opening ELSE <<>>

\* What openTo writes before anything else.
OpeningFor(t) == opening

\* openTo has returned: the target is the one to write to.  The relay host takes the
\* place of a first target, whose pipe goes on; without one the pipe starts now.
Opened(socks) ==
    /\ current' = at /\ pc' = "pump"
    /\ pipe' = IF current = None THEN [pipe EXCEPT !.state = "on"] ELSE pipe
    /\ sock' = IF current = None THEN socks ELSE [socks EXCEPT ![current].life = "closed"]
    /\ UNCHANGED <<ws, at>>

Dialled ==
    /\ pc = "dial"
    /\ LET socks == [sock EXCEPT ![at].life = "open"] IN
       IF OpeningFor(at) = <<>> THEN Opened(socks)
       ELSE pc' = "write" /\ sock' = socks /\ UNCHANGED <<ws, at, current, pipe>>
    /\ UNCHANGED <<client, sent, stream, upVars, downVars, dnsVars>>

OpeningWritten ==
    /\ pc = "write"
    /\ Opened([sock EXCEPT ![at].got = OpeningFor(at)])
    /\ UNCHANGED <<client, sent, stream, upVars, downVars, dnsVars>>

\* The dial or the opening write fails.
OpenFails ==
    /\ pc \in {"dial", "write"}
    /\ Leaves([sock EXCEPT ![at].life = "broken"])
    /\ UNCHANGED <<client, sent, stream, upVars, current, pipe, downVars, dnsVars>>

\* A message to the client; the header goes with the first.
Send(from) ==
    /\ down' = IF ws = "open" THEN Append(down, [from |-> from, header |-> owed]) ELSE down
    /\ owed' = FALSE

\* pumpDown.
TargetSends ==
    /\ pc = "pump" /\ Life(at) = "open" /\ ws = "open"
    /\ Len(down) < MaxDown
    /\ Send(at) /\ sawData' = TRUE
    /\ UNCHANGED <<client, sent, ws, stream, pc, upVars, sockVars, pipe, dnsVars>>

\* The target ends its half or breaks, or its data finds the WebSocket closed.
PumpEnds ==
    /\ pc = "pump"
    /\ \E life \in (IF Life(at) = "broken" THEN {"broken"} ELSE {"ended", "broken"}) :
          Leaves([sock EXCEPT ![at].life = life])
    /\ UNCHANGED <<client, sent, stream, upVars, current, pipe, downVars, dnsVars>>

\* readable.pipeTo(upstreamSink()): a chunk goes to the writer that is current then.
PipeReads ==
    /\ pipe.state = "on" /\ pipe.bytes = <<>> /\ stream.queued # <<>>
    /\ pipe' = [pipe EXCEPT !.bytes = Head(stream.queued), !.to = current]
    /\ stream' = Taken
    /\ UNCHANGED <<client, sent, ws, pc, upVars, sockVars, downVars, dnsVars>>

PipeWrites ==
    /\ pipe.bytes # <<>> /\ Life(pipe.to) # "broken"
    /\ sock' = [sock EXCEPT ![pipe.to].got = @ \o pipe.bytes]
    /\ pipe' = [pipe EXCEPT !.bytes = <<>>, !.to = None]
    /\ UNCHANGED <<client, sent, ws, stream, pc, upVars, at, current, downVars, dnsVars>>

\* A write that fails cancels the stream, which closes the WebSocket.
PipeFails ==
    /\ pipe.bytes # <<>>
    /\ sock' = [sock EXCEPT ![pipe.to].life = IF @ = "open" THEN "broken" ELSE @]
    /\ pipe' = [NoPipe EXCEPT !.state = "over"]
    /\ stream' = [stream EXCEPT !.state = IF @ = "errored" THEN @ ELSE "cancelled", !.queued = <<>>]
    /\ ws' = Closing
    /\ UNCHANGED <<client, sent, pc, upVars, at, current, downVars, dnsVars>>

\* The stream is over: the writer is closed or aborted.
PipeEnds ==
    /\ pipe.state = "on" /\ pipe.bytes = <<>>
    /\ stream.queued = <<>> /\ stream.state # "open"
    /\ pipe' = [NoPipe EXCEPT !.state = "over"]
    /\ sock' = [sock EXCEPT ![current].half = TRUE]
    /\ UNCHANGED <<client, sent, ws, stream, pc, upVars, at, current, downVars, dnsVars>>

Returns ==
    /\ pc = "await" /\ pipe.state # "on"
    /\ pc' = "done"
    /\ UNCHANGED <<client, sent, ws, stream, upVars, sockVars, pipe, downVars, dnsVars>>

(***************************************************************************)
(* runDnsRelay and dohQuery.                                               *)
(***************************************************************************)
DnsReads ==
    /\ pc = "dns" /\ ~Complete /\ stream.queued # <<>>
    /\ parts' = Push(parts, Head(stream.queued))
    /\ stream' = Taken
    /\ UNCHANGED <<client, sent, ws, pc, opening, sockVars, pipe, downVars, dnsVars>>

\* drain cuts a packet off and asks.
Drain ==
    /\ Complete
    /\ LET len == Value(At(parts, 0)) * Base + Value(At(parts, 1)) IN
       /\ queries' = Append(queries, Slice(parts, 2, 2 + len))
       /\ parts' = Consume(parts, 2 + len)
    /\ asking' = asking \cup {Len(queries) + 1}
    /\ UNCHANGED <<client, sent, ws, stream, pc, opening, sockVars, pipe, downVars>>

\* The cache of the edge or the resolver answers, in any order.
LookupAnswers ==
    \E q \in asking :
       /\ Len(queries[q]) >= MinQuery
       /\ asking' = asking \ {q}
       /\ Send(q)
       /\ UNCHANGED <<client, sent, ws, stream, pc, upVars, sockVars, pipe, sawData, queries>>

\* A query that is too short, or that nothing answers, is dropped.
LookupFails ==
    \E q \in asking :
       /\ asking' = asking \ {q}
       /\ UNCHANGED <<client, sent, ws, stream, pc, upVars, sockVars, pipe, downVars, queries>>

DnsEnds ==
    /\ pc = "dns" /\ ~Complete /\ stream.queued = <<>> /\ stream.state # "open"
    /\ pc' = "settle"
    /\ UNCHANGED <<client, sent, ws, stream, upVars, sockVars, pipe, downVars, dnsVars>>

DnsSettles ==
    /\ pc = "settle" /\ asking = {}
    /\ Ends
    /\ UNCHANGED <<client, sent, stream, upVars, sockVars, pipe, downVars, dnsVars>>

Next ==
    \/ Message \/ WsCloses \/ ReadHead \/ HeadEnds
    \/ Dialled \/ OpeningWritten \/ OpenFails \/ TargetSends \/ PumpEnds
    \/ PipeReads \/ PipeWrites \/ PipeFails \/ PipeEnds \/ Returns
    \/ DnsReads \/ Drain \/ LookupAnswers \/ LookupFails \/ DnsEnds \/ DnsSettles

\* A chunk waits for a target that lives to take it.
Stuck == pipe.bytes # <<>> /\ Life(pipe.to) \notin {"broken", "closed"}

\* Dials and lookups settle, streams flow, and a close that was started is answered.  A
\* read or a write ends when its own socket is broken or closed; a target that lives may
\* be silent, or take nothing, for ever.
Spec ==
    /\ Init /\ [][Next]_vars
    /\ WF_vars(ReadHead) /\ WF_vars(HeadEnds)
    /\ WF_vars(pc = "dial" /\ (Dialled \/ OpenFails))
    /\ WF_vars(Life(at) = "broken" /\ PumpEnds)
    /\ WF_vars(PipeReads) /\ WF_vars(~Stuck /\ (PipeWrites \/ PipeFails))
    /\ WF_vars(PipeEnds) /\ WF_vars(Returns)
    /\ WF_vars(DnsReads) /\ WF_vars(Drain) /\ WF_vars(LookupAnswers \/ LookupFails)
    /\ WF_vars(DnsEnds) /\ WF_vars(DnsSettles)
    /\ WF_vars(ws = "closing" /\ WsCloses)

(***************************************************************************)
(* Properties.                                                             *)
(***************************************************************************)
\* The type of every variable.
TypeOK ==
    /\ client \in [request : {"tcp", "udp", "bad", "dns"}, proxy : BOOLEAN, framing : Seq(Nat)]
    /\ sent \in 0 .. Total
    /\ ws \in {"open", "closing", "closed"}
    /\ stream \in [state : {"open", "closed", "errored", "cancelled"}, backlog : 0 .. MaxBacklog + MaxChunk,
                   queued : Seq(Seq(Nat))]
    /\ pc \in {"head", "dial", "write", "pump", "await", "dns", "settle", "done"}
    /\ parts \in Seq(Seq(Nat)) /\ opening \in Seq(Nat)
    /\ at \in Targets /\ current \in Targets \cup {None}
    /\ sock \in [Targets -> [life : {"none", "dialling", "open", "ended", "broken", "closed"}, half : BOOLEAN,
                             got : Seq(Nat)]]
    /\ pipe \in [state : {"none", "on", "over"}, bytes : Seq(Nat), to : Targets \cup {None}]
    /\ owed \in BOOLEAN /\ sawData \in BOOLEAN
    /\ down \in Seq([from : IF client.request = "tcp" THEN Targets ELSE Nat, header : BOOLEAN])
    /\ queries \in Seq(Seq(Nat)) /\ asking \subseteq DOMAIN queries

\* A client that sends faster than its target takes never has more than MAX_BACKLOG
\* queued: the guard's count is reset now and again, and must never fall below what
\* is there (makeWsReadable).
QueueIsBounded ==
    /\ Size(stream.queued) <= MaxBacklog
    /\ Settled => Size(stream.queued) <= stream.backlog

\* The client's bytes reach a target once and in order, across a retry that swaps
\* the target under the pipe: each target begins with the payload that came with
\* the header, and the rest is what the first one took, then what the relay host
\* took, what is being written, and what is queued (runTcpRelay).
Rest(t) == SubSeq(sock[t].got, Len(opening) + 1, Len(sock[t].got))

UplinkOnce ==
    client.request = "tcp" /\ pc \in {"dial", "write", "pump", "await", "done"} =>
       /\ \A t \in Targets : sock[t].got # <<>> => IsPrefix(opening, sock[t].got)
       /\ stream.state \in {"open", "closed"} =>
             FlattenSeq(<<opening, Rest("direct"), Rest("relay"), pipe.bytes>> \o stream.queued)
                = Bytes(HeaderLen + 1, HeaderLen + Len(opening) + Len(Rest("direct")) + Len(Rest("relay"))
                                         + Len(pipe.bytes) + Size(stream.queued))

\* The header goes out with the first message and no other, the bytes of one tunnel
\* are those of one target, and a query is answered once, whatever retries or
\* overtakes (reply, pumpDown).
RepliesAreOwn ==
    /\ \A i \in DOMAIN down : down[i].header = (i = 1)
    /\ \A i, j \in DOMAIN down : i # j => (down[i].from = down[j].from) = (client.request = "tcp")

\* However the client's bytes are cut into messages, the packets asked for are the
\* ones it sent, in order, and none that has arrived waits (drain, ByteQueue).
PacketsAsSent ==
    /\ \A i \in DOMAIN queries : queries[i] = Packet(i)
    /\ Settled /\ pc = "dns" /\ stream.state = "open" =>
          \A i \in DOMAIN client.framing :
             Before(client.framing, i + 1) <= sent => i \in DOMAIN queries

\* The session waits for a target that lives: it does not take the bytes, or it was told
\* that the client is done and says nothing, or it is a relay host that was swapped in
\* when the pipe was over, or for a write that failed, and is told nothing (relay.mjs:99).
Untold == at = "relay" /\ pipe.state = "over" /\ ~sock["relay"].half

Held ==
    \/ pc = "write"
    \/ Stuck
    \/ pc = "pump" /\ Life(at) = "open" /\ (sock[at].half \/ Untold)

\* Once the client has gone, whatever was awaited then and whatever fails later, the
\* session comes to its end and stays there, or a target that lives holds it.  It never
\* waits for good for its stream, for a lookup, for a target that is dead or replaced,
\* nor for one that the pipe has yet to tell (pump, runTcpRelay, runDnsRelay).
SessionSettles == ws = "closed" ~> [](pc = "done" \/ Held)
=============================================================================
