------------------------------- MODULE WorkerMux -------------------------------
(***************************************************************************)
(* The Mux.Cool multiplexer of the Worker and Deno builds,                 *)
(* src/worker/mux.mjs.  It keeps the promise of src/node/mux.js (module    *)
(* MuxSession) with promises in the place of events: a substream is served *)
(* by tasks, each an async function that stops at its awaits, and frames   *)
(* of the client, End and New of the same id among them, run in between.   *)
(*                                                                         *)
(* The tasks of a substream are openTcp, which dials; pumpTcp, which       *)
(* copies the target's bytes to the client; retryViaProxy, which either of *)
(* them awaits when the target failed or ended in silence; and the chain   *)
(* of writes that onKeep extends.  One action is the code from one await   *)
(* to the next.                                                            *)
(*                                                                         *)
(* The client is orderly, as in MuxSession: it opens an id only while it   *)
(* holds it closed, and sends Keep and End only on an id it has opened.    *)
(***************************************************************************)
EXTENDS Integers, FiniteSets, Sequences, Functions

CONSTANTS
  Ids,         \* substream ids the client uses
  Streams,     \* bound: the stream objects ever created
  None,        \* no stream under an id, no socket of a stream
  MaxData,     \* bound: payloads the client sends over TCP, in all
  MaxReplies,  \* bound: chunks a target sends on one socket
  MaxLookups   \* bound: DNS lookups in flight for one id

Dials == {"direct", "proxy"}    \* the two sockets a stream may come to have

ASSUME WorkerMuxAssumption ==
  /\ IsFiniteSet(Streams)
  /\ None \notin Streams /\ None \notin Ids /\ None \notin Dials \cup {"retry"}
  /\ MaxData \in Nat /\ MaxReplies \in Nat /\ MaxLookups \in Nat

VARIABLES
  closed,     \* session.closed
  reading,    \* runMuxSession still awaits the client's readable
  done,       \* runMuxSession has returned
  streams,    \* session.streams
  key,        \* the id a stream's tasks close over
  stream,     \* the stream object's own fields
  cur,        \* stream.socket, and with it stream.writer
  sock,       \* both sockets: "none", "dialing", "open", "ended" or "closed"
  opener,     \* openTcp: "none", "dial", "write", "retry" or "done"
  pump,       \* pumpTcp: the socket it reads, None, or "retry"
  retry,      \* retryViaProxy: "none", "dial" or "write"
  held,       \* payloads of the chain whose turn has not come
  writing,    \* the socket the chain's write is on, or None
  lookups,    \* dohQuery calls in flight for an id
  sent,       \* history: payloads the client addressed to the stream
  wrote,      \* history: payloads written to each socket, in order
  rx,         \* history: chunks of each socket that went to the client
  proto,      \* history: how the client last opened the id
  view        \* history: the id is "closed" for the client, "open", or "told"

sessionVars == <<closed, reading, done>>
socketVars  == <<cur, sock>>
taskVars    == <<opener, pump, retry, held, writing, lookups>>
dataVars    == <<sent, wrote, rx>>
clientVars  == <<proto, view>>
vars == <<sessionVars, streams, key, stream, socketVars, taskVars, dataVars, clientVars>>

Fresh == [kind |-> "tcp", closed |-> FALSE, dns |-> TRUE, opening |-> FALSE,
          initial |-> FALSE, sawData |-> FALSE, wroteMore |-> FALSE, retried |-> FALSE]

Init ==
  /\ closed = FALSE /\ reading = TRUE /\ done = FALSE
  /\ streams = [i \in Ids |-> None]
  /\ key = [s \in Streams |-> None]
  /\ stream = [s \in Streams |-> Fresh]
  /\ cur = [s \in Streams |-> None]
  /\ sock = [s \in Streams |-> [k \in Dials |-> "none"]]
  /\ opener = [s \in Streams |-> "none"]
  /\ pump = [s \in Streams |-> None]
  /\ retry = [s \in Streams |-> "none"]
  /\ held = [s \in Streams |-> <<>>]
  /\ writing = [s \in Streams |-> None]
  /\ lookups = [i \in Ids |-> 0]
  /\ sent = [s \in Streams |-> 0]
  /\ wrote = [s \in Streams |-> [k \in Dials |-> <<>>]]
  /\ rx = [s \in Streams |-> [k \in Dials |-> 0]]
  /\ proto = [i \in Ids |-> "none"]
  /\ view = [i \in Ids |-> "closed"]

-----------------------------------------------------------------------------
(* What the handlers and the tasks call. An operator marked "Mutant" is no  *)
(* part of the model: it is a plausible bug in the definition after it, and  *)
(* shows that a property notices.                                            *)

SendEnd(id, viewed) ==
  view' = [viewed EXCEPT ![id] = IF @ = "open" /\ ~closed THEN "told" ELSE @]

(* Mutant of EndStreams: what is closed is forgotten, its socket is not. *)
EndStreamsOnly(S, sockets) ==
  LET E == {streams[i] : i \in S} \ {None}
  IN  /\ streams' = [i \in Ids |-> IF i \in S THEN None ELSE streams[i]]
      /\ stream' = [s \in Streams |-> [stream[s] EXCEPT !.closed = @ \/ s \in E]]
      /\ sock' = sockets

(* endStream(id) for every id in S: whatever is registered there is marked  *)
(* and its socket closed.  sockets is what the step itself left of them.    *)
EndStreams(S, sockets) ==
  LET E == {streams[i] : i \in S} \ {None}
  IN  /\ streams' = [i \in Ids |-> IF i \in S THEN None ELSE streams[i]]
      /\ stream' = [s \in Streams |-> [stream[s] EXCEPT !.closed = @ \/ s \in E]]
      /\ sock' = [s \in Streams |-> [k \in Dials |->
                    IF s \in E /\ cur[s] = k THEN "closed" ELSE sockets[s][k]]]

(* Mutant of Fails: the client is not told. *)
FailsQuietly(s, sockets) ==
  UNCHANGED view /\ EndStreams({key[s]}, sockets)

(* sendEnd(id), endStream(id): what the id names NOW is torn down. *)
Fails(s, sockets) ==
  SendEnd(key[s], view) /\ EndStreams({key[s]}, sockets)

(* Mutant of MayRetry: a target that has answered is retried too. *)
MayRetryAfterData(s) ==
  /\ ~stream[s].wroteMore /\ ~stream[s].retried
  /\ ~stream[s].closed /\ ~closed

(* Mutant of MayRetry: a task whose session is over tries the relay too. *)
MayRetryWhenOver(s) == ~stream[s].sawData /\ ~stream[s].wroteMore /\ ~stream[s].retried

(* retryViaProxy, before its first await; a relay host is configured. *)
MayRetry(s) ==
  /\ ~stream[s].sawData /\ ~stream[s].wroteMore /\ ~stream[s].retried
  /\ ~stream[s].closed /\ ~closed

(* The task that calls retryViaProxy awaits it, or gives the substream up. *)
RetryOrFail(s, sockets) ==
  IF MayRetry(s)
  THEN /\ stream' = [stream EXCEPT ![s].retried = TRUE]
       /\ sock' = [sockets EXCEPT ![s]["proxy"] = "dialing"]
       /\ retry' = [retry EXCEPT ![s] = "dial"]
       /\ UNCHANGED <<streams, view>>
  ELSE Fails(s, sockets) /\ UNCHANGED retry

(* Mutant of Abandoned: only the end of the session is looked at. *)
AbandonedBySession(s) == closed

(* A dial that succeeds looks whether anybody still wants it. *)
Abandoned(s) == stream[s].closed \/ closed

(* Mutant of Discarded: the socket nobody wants stays open. *)
DiscardedOpen(s, k) == [sock EXCEPT ![s][k] = "open"]

Discarded(s, k) == [sock EXCEPT ![s][k] = "closed"]

Write(s, k, n) == wrote' = [wrote EXCEPT ![s][k] = Append(@, n)]

-----------------------------------------------------------------------------
(* Frames of the client, dispatched by drain(). *)

Opens(id, p) ==
  /\ reading /\ ~closed
  /\ view[id] # "open"
  /\ proto' = [proto EXCEPT ![id] = p]

(* Stream objects are created one after the other: s is the next. *)
Registers(id, s, fields) ==
  /\ key[s] = None /\ s = CHOOSE t \in Streams : key[t] = None
  /\ key' = [key EXCEPT ![s] = id]
  /\ stream' = [stream EXCEPT ![s] = fields]
  /\ streams' = [streams EXCEPT ![id] = s]

(* The bound on the client: it may send n payloads more. *)
Sends(n) == FoldFunction(+, 0, sent) + n <= MaxData

(* New for a TCP target, with n opening payloads: openTcp starts its dial. *)
NewTcp(id, s, n) ==
  /\ Opens(id, "tcp") /\ Sends(n)
  /\ Registers(id, s, [Fresh EXCEPT !.opening = (n = 1), !.initial = (n = 1)])
  /\ sock' = [sock EXCEPT ![s]["direct"] = "dialing"]
  /\ opener' = [opener EXCEPT ![s] = "dial"]
  /\ sent' = [sent EXCEPT ![s] = n]
  /\ view' = [view EXCEPT ![id] = "open"]
  /\ UNCHANGED <<sessionVars, cur, pump, retry, held, writing, lookups, wrote, rx>>

Looks(id, n) ==
  /\ lookups[id] + n <= MaxLookups
  /\ lookups' = [lookups EXCEPT ![id] = @ + n]

(* New for a DNS server, port 53. *)
NewUdp(id, s, n) ==
  /\ Opens(id, "udp")
  /\ Registers(id, s, [Fresh EXCEPT !.kind = "udp"])
  /\ Looks(id, n)
  /\ view' = [view EXCEPT ![id] = "open"]
  /\ UNCHANGED <<sessionVars, socketVars, opener, pump, retry, held, writing, dataVars>>

(* A short or blocked target, another port of UDP, another network. *)
NewRefused(id, p) ==
  /\ Opens(id, p)
  /\ SendEnd(id, [view EXCEPT ![id] = "open"])
  /\ UNCHANGED <<sessionVars, streams, key, stream, socketVars, taskVars, dataVars>>

Keeps(id) == reading /\ ~closed /\ view[id] # "closed"

(* Mutant of Chain: a payload that finds no socket is dropped at once. *)
ChainIfOpen(s, n) ==
  held' = [held EXCEPT ![s] = IF cur[s] = None THEN @ ELSE Append(@, n)]

(* One more write behind openTcp and the writes before it. *)
Chain(s, n) == held' = [held EXCEPT ![s] = Append(@, n)]

(* A payload for a TCP substream: no retry may start from here on. *)
KeepTcp(id) ==
  /\ Keeps(id)
  /\ \E s \in Streams :
       /\ streams[id] = s /\ stream[s].kind = "tcp" /\ Sends(1)
       /\ stream' = [stream EXCEPT ![s].wroteMore = TRUE, ![s].initial = FALSE]
       /\ sent' = [sent EXCEPT ![s] = @ + 1]
       /\ Chain(s, sent[s] + 1)
  /\ UNCHANGED <<sessionVars, streams, key, socketVars, opener, pump, retry, writing,
                 lookups, wrote, rx, clientVars>>

(* A datagram: looked up, or, for a port that is not 53, refused with End. *)
KeepUdp(id) ==
  /\ Keeps(id)
  /\ \E s \in Streams :
       /\ streams[id] = s /\ stream[s].kind = "udp"
       /\ IF stream[s].dns
          THEN Looks(id, 1) /\ UNCHANGED <<streams, stream, sock, view>>
          ELSE Fails(s, sock) /\ UNCHANGED lookups
  /\ UNCHANGED <<sessionVars, key, cur, opener, pump, retry, held, writing, dataVars, proto>>

(* A Keep without data that names a target: the UDP substream under the id *)
(* is rebound.                                                             *)
KeepRebinds(id, dns) ==
  /\ Keeps(id)
  /\ \E s \in Streams :
       /\ streams[id] = s /\ stream[s].kind = "udp"
       /\ stream' = [stream EXCEPT ![s].dns = dns]
  /\ UNCHANGED <<sessionVars, streams, key, socketVars, taskVars, dataVars, clientVars>>

(* If there is none, also because the End of it is still on its way to the *)
(* client, one is opened.                                                  *)
KeepOpensUdp(id, s, dns) ==
  /\ Keeps(id) /\ proto[id] = "udp" /\ streams[id] = None
  /\ Registers(id, s, [Fresh EXCEPT !.kind = "udp", !.dns = dns])
  /\ UNCHANGED <<sessionVars, socketVars, taskVars, dataVars, clientVars>>

End(id) ==
  /\ Keeps(id)
  /\ EndStreams({id}, sock)
  /\ view' = [view EXCEPT ![id] = "closed"]
  /\ UNCHANGED <<sessionVars, key, cur, taskVars, dataVars, proto>>

-----------------------------------------------------------------------------
(* openTcp *)

(* The pump of a socket starts; whoever awaited it being there is done. *)
StartPump(s, k) ==
  /\ pump' = [pump EXCEPT ![s] = k]
  /\ opener' = [opener EXCEPT ![s] = "done"]

Opened(s) ==
  /\ opener[s] = "dial"
  /\ IF Abandoned(s)
     THEN /\ sock' = Discarded(s, "direct")
          /\ opener' = [opener EXCEPT ![s] = "done"]
          /\ UNCHANGED <<cur, pump, wrote>>
     ELSE /\ sock' = [sock EXCEPT ![s]["direct"] = "open"]
          /\ cur' = [cur EXCEPT ![s] = "direct"]
          /\ IF stream[s].opening
             THEN /\ Write(s, "direct", 1)
                  /\ opener' = [opener EXCEPT ![s] = "write"]
                  /\ UNCHANGED pump
             ELSE StartPump(s, "direct") /\ UNCHANGED wrote
  /\ UNCHANGED <<sessionVars, streams, key, stream, retry, held, writing, lookups,
                 sent, rx, clientVars>>

(* The catch of openTcp, which does not look at stream.closed. *)
OpenFails(s, sockets) ==
  /\ RetryOrFail(s, sockets)
  /\ opener' = [opener EXCEPT ![s] = IF MayRetry(s) THEN "retry" ELSE "done"]
  /\ UNCHANGED <<sessionVars, key, cur, pump, held, writing, lookups, dataVars, proto>>

DialFails(s) ==
  /\ opener[s] = "dial"
  /\ OpenFails(s, [sock EXCEPT ![s]["direct"] = "ended"])

OpeningWritten(s) ==
  /\ opener[s] = "write" /\ sock[s]["direct"] # "closed"
  /\ StartPump(s, "direct")
  /\ UNCHANGED <<sessionVars, streams, key, stream, socketVars, retry, held, writing,
                 lookups, dataVars, clientVars>>

OpeningFails(s) ==
  /\ opener[s] = "write" /\ sock[s]["direct"] # "open"
  /\ OpenFails(s, sock)

-----------------------------------------------------------------------------
(* pumpTcp *)

(* A chunk of the target: no retry now, the opening payload is let go. *)
TargetSends(s) ==
  /\ ~closed
  /\ \E k \in Dials :
       /\ pump[s] = k /\ sock[s][k] = "open" /\ rx[s][k] < MaxReplies
       /\ rx' = [rx EXCEPT ![s][k] = @ + 1]
  /\ stream' = [stream EXCEPT ![s].sawData = TRUE, ![s].initial = FALSE]
  /\ UNCHANGED <<sessionVars, streams, key, socketVars, taskVars, sent, wrote, clientVars>>

(* The target ends or resets a connection. *)
TargetEnds(s, k) ==
  /\ sock[s][k] = "open"
  /\ sock' = [sock EXCEPT ![s][k] = "ended"]
  /\ UNCHANGED <<sessionVars, streams, key, stream, cur, taskVars, dataVars, clientVars>>

(* pipeTo returns: the socket ended or was closed. *)
PumpEnds(s) ==
  /\ \E k \in Dials : pump[s] = k /\ sock[s][k] \in {"ended", "closed"}
  /\ IF stream[s].closed
     THEN /\ pump' = [pump EXCEPT ![s] = None]
          /\ UNCHANGED <<streams, stream, sock, retry, view>>
     ELSE /\ RetryOrFail(s, sock)
          /\ pump' = [pump EXCEPT ![s] = IF MayRetry(s) THEN "retry" ELSE None]
  /\ UNCHANGED <<sessionVars, key, cur, opener, held, writing, lookups, dataVars, proto>>

-----------------------------------------------------------------------------
(* retryViaProxy *)

(* It returns true: its caller has nothing left to do. *)
RetrySucceeds(s) ==
  /\ retry' = [retry EXCEPT ![s] = "none"]
  /\ StartPump(s, "proxy")

(* It returns false: its caller ends the substream, without looking again. *)
RetryGivesUp(s, sockets) ==
  /\ Fails(s, sockets)
  /\ retry' = [retry EXCEPT ![s] = "none"]
  /\ opener' = [opener EXCEPT ![s] = "done"]
  /\ pump' = [pump EXCEPT ![s] = None]
  /\ UNCHANGED <<cur, wrote>>

(* Mutant of Replaced: the socket of the target stays as it is. *)
ReplacedBeside(s) == [sock EXCEPT ![s]["proxy"] = "open"]

(* The relay's socket in the place of the target's, which is closed. *)
Replaced(s) ==
  [sock EXCEPT ![s] = [k \in Dials |->
     IF k = "proxy" THEN "open" ELSE IF cur[s] = k THEN "closed" ELSE @[k]]]

(* The relay is connected and takes the place of the target; the opening *)
(* payload is replayed, if the stream still has it.                      *)
Swaps(s) ==
  /\ sock' = Replaced(s)
  /\ cur' = [cur EXCEPT ![s] = "proxy"]
  /\ IF stream[s].initial
     THEN /\ Write(s, "proxy", 1)
          /\ retry' = [retry EXCEPT ![s] = "write"]
          /\ UNCHANGED <<pump, opener>>
     ELSE RetrySucceeds(s) /\ UNCHANGED wrote
  /\ UNCHANGED <<streams, stream, view>>

RetryOpened(s) ==
  /\ retry[s] = "dial"
  /\ IF Abandoned(s) THEN RetryGivesUp(s, Discarded(s, "proxy")) ELSE Swaps(s)
  /\ UNCHANGED <<sessionVars, key, held, writing, lookups, sent, rx, proto>>

RetryFails(s) ==
  /\ \/ /\ retry[s] = "dial"
        /\ RetryGivesUp(s, [sock EXCEPT ![s]["proxy"] = "ended"])
     \/ /\ retry[s] = "write" /\ sock[s]["proxy"] # "open"
        /\ RetryGivesUp(s, sock)
  /\ UNCHANGED <<sessionVars, key, held, writing, lookups, sent, rx, proto>>

Replayed(s) ==
  /\ retry[s] = "write" /\ sock[s]["proxy"] # "closed"
  /\ RetrySucceeds(s)
  /\ UNCHANGED <<sessionVars, streams, key, stream, socketVars, held, writing, lookups,
                 dataVars, clientVars>>

-----------------------------------------------------------------------------
(* The chain of writes, behind openTcp. *)

ChainStep(s) ==
  /\ opener[s] = "done" /\ writing[s] = None /\ held[s] # <<>>
  /\ held' = [held EXCEPT ![s] = Tail(@)]
  /\ IF stream[s].closed \/ cur[s] = None
     THEN UNCHANGED <<writing, wrote>>
     ELSE /\ Write(s, cur[s], Head(held[s]))
          /\ writing' = [writing EXCEPT ![s] = cur[s]]
  /\ UNCHANGED <<sessionVars, streams, key, stream, socketVars, opener, pump, retry,
                 lookups, sent, rx, clientVars>>

ChainWritten(s) ==
  /\ writing[s] # None /\ sock[s][writing[s]] # "closed"
  /\ writing' = [writing EXCEPT ![s] = None]
  /\ UNCHANGED <<sessionVars, streams, key, stream, socketVars, opener, pump, retry, held,
                 lookups, dataVars, clientVars>>

ChainFails(s) ==
  /\ writing[s] # None /\ sock[s][writing[s]] # "open"
  /\ Fails(s, sock)
  /\ writing' = [writing EXCEPT ![s] = None]
  /\ UNCHANGED <<sessionVars, key, cur, opener, pump, retry, held, lookups, dataVars, proto>>

(* The answer goes out under the id if a stream is registered there; a     *)
(* failure is dropped.                                                     *)
LookupSettles(id) == lookups[id] > 0 /\ lookups' = [lookups EXCEPT ![id] = @ - 1]

Lookup(id) ==
  /\ LookupSettles(id)
  /\ UNCHANGED <<sessionVars, streams, key, stream, socketVars, opener, pump, retry, held,
                 writing, dataVars, clientVars>>

-----------------------------------------------------------------------------
(* The session. *)

CloseAll ==
  /\ closed' = TRUE
  /\ EndStreams(Ids, sock)
  /\ UNCHANGED <<done, key, cur, taskVars, dataVars, clientVars>>

(* An impossible length: the session closes itself, and the client will. *)
Desync == ~closed /\ CloseAll /\ UNCHANGED reading

(* The readable ends, in order or with an error. *)
ClientCloses == reading /\ reading' = FALSE /\ CloseAll

Busy(s) ==
  \/ opener[s] \notin {"none", "done"}
  \/ pump[s] # None \/ retry[s] # "none"
  \/ held[s] # <<>> \/ writing[s] # None

(* settle(): every task has ended. *)
Settle ==
  /\ ~reading /\ ~done
  /\ \A s \in Streams : ~Busy(s)
  /\ \A id \in Ids : lookups[id] = 0
  /\ done' = TRUE
  /\ UNCHANGED <<closed, reading, streams, key, stream, socketVars, taskVars, dataVars,
                 clientVars>>

-----------------------------------------------------------------------------
Next ==
  \/ \E id \in Ids :
       \/ \E s \in Streams, n \in {0, 1} : NewTcp(id, s, n) \/ NewUdp(id, s, n)
       \/ \E p \in {"tcp", "udp"} : NewRefused(id, p)
       \/ KeepTcp(id) \/ KeepUdp(id) \/ End(id) \/ Lookup(id)
       \/ \E dns \in BOOLEAN :
            KeepRebinds(id, dns) \/ \E s \in Streams : KeepOpensUdp(id, s, dns)
  \/ \E s \in Streams :
       \/ Opened(s) \/ DialFails(s) \/ OpeningWritten(s) \/ OpeningFails(s)
       \/ TargetSends(s) \/ PumpEnds(s)
       \/ \E k \in Dials : TargetEnds(s, k)
       \/ RetryOpened(s) \/ RetryFails(s) \/ Replayed(s)
       \/ ChainStep(s) \/ ChainWritten(s) \/ ChainFails(s)
  \/ Desync \/ ClientCloses \/ Settle

Spec == Init /\ [][Next]_vars

(* Scheduling: promises whose outcome is decided run on; a dial and a lookup *)
(* succeed or fail; a write on a socket that was closed fails.  Nothing is   *)
(* assumed of a target: it may be silent, or not read, for ever.             *)
FairSpec ==
  /\ Spec
  /\ \A s \in Streams :
       /\ WF_vars(Opened(s) \/ DialFails(s))
       /\ WF_vars(OpeningFails(s) /\ sock[s]["direct"] = "closed")
       /\ WF_vars(PumpEnds(s))
       /\ WF_vars(retry[s] = "dial" /\ (RetryOpened(s) \/ RetryFails(s)))
       /\ WF_vars(RetryFails(s) /\ sock[s]["proxy"] = "closed")
       /\ WF_vars(ChainStep(s))
       /\ WF_vars(ChainFails(s) /\ sock[s][writing[s]] = "closed")
  /\ \A id \in Ids : WF_vars(Lookup(id))
  /\ WF_vars(Settle)

-----------------------------------------------------------------------------
(* Properties. *)

(* An id the client holds open names a stream, and a TCP stream has a task  *)
(* that will carry its bytes or tell the client that it ended: no failure,  *)
(* at whatever await it strikes, leaves the client waiting for nothing.     *)
OpenIsServed ==
  ~closed => \A id \in Ids : view[id] = "open" =>
    \E s \in Streams :
      /\ streams[id] = s /\ key[s] = id
      /\ stream[s].kind = "tcp" =>
           \/ opener[s] \in {"dial", "write"} \/ pump[s] \in Dials
           \/ retry[s] # "none"

InOrder(seq) == \A n \in 1..Len(seq) : seq[n] = n

(* The first target gets the client's payloads in order and none is skipped, *)
(* whether they came with New, while it was dialled, or after.               *)
DirectUplinkInOrder == \A s \in Streams : InOrder(wrote[s]["direct"])

(* The client never gets bytes of two targets under one substream: a retry   *)
(* starts only where the first target was silent and can no longer speak.    *)
OneTargetAnswers ==
  \A s \in Streams : rx[s]["direct"] = 0 \/ rx[s]["proxy"] = 0

(* When the session has returned it leaves no socket behind: not one that   *)
(* was being dialled when its substream or the session ended, nor one that  *)
(* a retry replaced.                                                        *)
NothingOutlivesTheSession ==
  done => \A s \in Streams, k \in Dials : sock[s][k] \notin {"dialing", "open"}

(* Once the session is closed no task depends on a target: each reads from,  *)
(* or writes to, a socket that was closed under it, also where a retry has   *)
(* swapped the socket, and who awaits a retry awaits one that runs.          *)
TasksCanEnd ==
  closed => \A s \in Streams :
    /\ opener[s] = "write" => sock[s]["direct"] = "closed"
    /\ pump[s] \in Dials => sock[s][pump[s]] = "closed"
    /\ retry[s] = "write" => sock[s]["proxy"] = "closed"
    /\ writing[s] # None => sock[s][writing[s]] = "closed"
    /\ "retry" \in {opener[s], pump[s]} => retry[s] # "none"

(* From then on a task ends or stays where it is: nothing is dialled, retried *)
(* or written again, and no stream comes to life, whatever resolves late.     *)
TasksOnlyEnd ==
  [][closed => \A s \in Streams :
       /\ opener'[s] \in {opener[s], "done"}
       /\ pump'[s] \in {pump[s], None} /\ retry'[s] \in {retry[s], "none"}
       /\ writing'[s] \in {writing[s], None}
       /\ held'[s] # held[s] => held[s] # <<>> /\ held'[s] = Tail(held[s])]_vars

(* A session whose client has gone returns, whatever the targets do: every  *)
(* task it awaits can end.                                                  *)
SessionSettles == ~reading ~> done

(* "It replays only the opening bytes, so anything sent after them would be  *)
(* lost. Record that and let retryViaProxy decline": a relay, too, gets all  *)
(* the client sent, from its first payload on.                               *)
UplinkInOrder ==
  \A s \in Streams, k \in Dials : InOrder(wrote[s][k])
=============================================================================
