# A TLA+ model of better-nodejs-vless-ws

This directory models the tunnel server of the repository (Node, `src/node`), its Worker and Deno builds
(`src/worker`, `src/deno`), and the credential tools with their dashboard (`tools`). Paths in this file are relative
to the root of the repository. Every definition that models code is listed in `PROJECT.json` under `map`, with the
lines it translates.

    tlc -workers 2 -config MuxOrderly.cfg MCMuxSession.tla     # one run
    tlapm TunnelProofs.tla          # and the other modules named ...Proofs, and SeqLemmas: the proofs

## The system

A client opens a WebSocket (the upgrade is hidden behind a decoy page), sends a VLESS header, and from then on the
socket carries one TCP connection, one UDP association, or a Mux of both. Everything runs on one JavaScript thread: a
callback runs to completion, so **one action of a model is one callback**, or the part of an `async` function from one
`await` to the next. What interleaves are callbacks, and what goes wrong is what one of them assumed about another.
The credential tools are a program of their own, run by an operator: they keep the secrets the server is started with
in a handful of files, which a command or the dashboard rewrites; there an action is a key reduced, an effect begun or
ended, or **one system call on one file**, because between two of them the process may be killed.

| Component | State it keeps | Operations | Talks to |
|---|---|---|---|
| `mux.js` MuxSession | tables `#tcp`, `#udp` by substream id, pending bytes, parse queue | New, Keep, End frames; connect, data, error, close of targets; close | Session (write, pause), statistics, address cache |
| `session.js` Session | `#state`, `#dead`, `#inbound`, `#message`, `#relay`, `#paused`, SSE timer, connInfo | data, drain, error, close; HTTP dispatch; invites; destroy | all below |
| `relay.js`, `udp.js` | target socket, bytes held until it connects, datagram queue | write, close; target events | Session, statistics, address cache |
| `dnscache.js` | entries with a lifetime, queues of callbacks | resolve, lookup, resolveAndSend, sweep, clear | resolver |
| `doh.js` | failure count, breaker | resolve4 | HTTPS endpoint, system resolver |
| `tokens.js` | redeemed nonces | mint, verify, claim | Session |
| `certpin.js` | last good pin, probe in flight | get | Session |
| `ratelimit.js` | token buckets | allow | Session |
| `stats.js` | totals, per-user rows, history, records | open/close connection, start/end stream, addTx/addRx | dashboard |
| `server.js`, `appws.js` | TLS sniffing, the listening socket, the drain timer | accept, close | Session |
| `users.js`, `config.js`, `secrets.js` | derived once at boot | lookup | Session |
| `vless.js`, `wsframe.js`, `http.js` | none (ByteQueue keeps chunks) | encode, decode | all |
| `worker/mux.mjs` | streams by id, promises in flight | the Mux protocol on Web Streams | platform sockets |
| `worker/index.mjs`, `wsstream.mjs`, `relay.mjs`, `dns.mjs`, `deno/main.mjs` | the stream of a WebSocket and its backlog, a target or its replacement, lookups in flight | header, tunnel with one retry through the proxy, DNS packets over HTTPS | platform sockets, `worker/mux.mjs` |
| `tools/credstore.mjs`, `credentials.mjs`, `credsecrets.mjs` | store, backup, keyring, ciphertext, env files | init-keys, encrypt, decrypt, import, write, undo, export, nuke | files, git |
| `tools/tui` | reducer state, a queue of actions, a queue of effects | keys, writes, undo, nuke, quick setup, push | the store |

What is hard here, and where each point bites, is the list `hazards` in `PROJECT.json`: callbacks that close over an
id whose entry has changed; back pressure in two directions that must always let go; teardown reached from four sides
in any order; a lookup shared by many callers and crossed by expiry and failure; an `await` in the middle of an HTTP
dispatch; seconds floored at two moments. For each component, correctness means:

* Mux: tables, records and totals agree; no payload lost, doubled or reordered; nobody paused for ever; no substream
  torn down in silence; nothing written after the end.
* Relays: the same for one target, and however the client fragments its messages.
* Address cache and DoH: every caller called back, in order, with an address that is neither stale nor foreign; one
  lookup per burst; an outage that costs little.
* Session and invites: a connection is answered, upgraded or streaming, never two of them; an invite stays burned;
  nothing outlives the connection.
* Worker and Deno: the same promises for streams and tasks; a retry that neither loses nor doubles what the client
  sent; DNS packets that do not depend on how they were cut; memory bounded where the code says so.
* Credential tools: what the dashboard shows is what is on disk; an operation that is interrupted leaves the store as
  it was or as it was to become; a nuke rotates everything or nothing; no screen is left that waits for nothing.

## Modules

| Module | Models | State and actions in the code |
|---|---|---|
| `MuxSession` | `mux.js` with the Session and statistics functions its handlers call | `tcp`, `udp` are `#tcp`, `#udp`; an element of `Entries` is one call of `#openTcp` or `#openUdp`, with its id (`key`), socket, listeners, record, pending bytes. Actions: `NewTcp`, `NewUdp`, `NewBlocked`, `KeepData`, `KeepOpensUdp`, `KeepBlocked`, `End` (frames); `Connected`, `TcpReply`, `UdpReply`, `SocketError`, `SocketClose` (target); `ClientDrain`, `Destroy` |
| `MCMuxSession` | the symmetry of its instances | |
| `MuxSessionProofs` | its theorems | |
| `NameService` | abstract: what a caller of the resolver is promised | |
| `DnsCache` | `dnscache.js`, as operators | `cache`, `pending` are the two Maps; `flying` counts the resolver's open calls. `ResolveHit`, `ResolveJoins`, `ResolveStarts`, `Succeed`, `Fail`, `Sweep`, `Clear` |
| `DohResolver` | `doh.js` behind the cache; the specification of both | `fails`, `openUntil` are the breaker; `doh`, `fallback`, `lost` are the calls in hand. `Resolve`, `DohAnswered`, `DohFailed`, `DohTruncated`, `FallbackReturns` |
| `DohResolverProofs` | its theorems | |
| `Tunnel` | `session.js` after the upgrade, `relay.js`, `udp.js` | `held` is `#message`, `pending` the relay's queue, `stopped`/`owed` one direction of back pressure, `flowing`/`paused`/`full` the other. `Frame`, `Ping`, `ClientEnds`, `Connected`, `TargetDrain`, `TargetData`, `TargetEnds`, `ClientDrain` |
| `TunnelProofs` | its theorems | |
| `Session` | the HTTP phase, `tokens.js` (burn store), `certpin.js` (cache) | `phase` is `#state`, `waiters` the handlers suspended at their `await`, `seen` the burn store, `pin`/`probing` the pin cache. `Accept`, `Answer`, `Mint`, `Upgrade`, `Validate`, `Stream`, `Close`, `Redeem`, `RedeemPinned`, `RedeemAwaits`, `Probed` |
| `SessionProofs` | its theorems | |
| `WorkerMux` | `worker/mux.mjs`: promises in the place of events | `streams` is the Map, an element of `Streams` one stream object with its fields in `stream`; `cur` is its `socket` (and `writer`), `sock` both sockets it may come to have, to the target and to the relay. The tasks are `opener`, `pump`, `retry`, and the chain of writes, `held` and `writing`. Frames: `NewTcp`, `NewUdp`, `NewRefused`, `KeepTcp`, `KeepUdp`, `KeepRebinds`, `KeepOpensUdp`, `End`. openTcp: `Opened`, `DialFails`, `OpeningWritten`, `OpeningFails`. pumpTcp: `TargetSends`, `TargetEnds`, `PumpEnds`. retryViaProxy: `RetryOpened`, `RetryFails`, `Replayed`. Chain: `ChainStep`, `ChainWritten`, `ChainFails`. Session: `Lookup`, `Desync`, `ClientCloses`, `Settle` |
| `WorkerMuxProofs` | its theorems | |
| `WorkerRelay` | `worker/index.mjs`, `deno/main.mjs`, `wsstream.mjs`, `relay.mjs`, `dns.mjs`, with `parseVlessHeader` and ByteQueue of `vless.js` | `stream` is the ReadableStream with its queue and the guard's count, `pc` where the session awaits, `parts` the ByteQueue, `sock` the target and the relay host, `current` the writer of `upstreamSink`, `pipe` the pipeTo. WebSocket: `Message`, `WsCloses`. pump: `ReadHead`, `HeadEnds`. runTcpRelay: `Dialled`, `OpeningWritten`, `OpenFails`, `TargetSends`, `PumpEnds`, `Returns`; pipeTo: `PipeReads`, `PipeWrites`, `PipeFails`, `PipeEnds`. runDnsRelay: `DnsReads`, `Drain`, `LookupAnswers`, `LookupFails`, `DnsEnds`, `DnsSettles` |
| `MCWorkerRelay` | the DNS packets of its instance | |
| `WorkerRelayProofs`, `SeqLemmas` | its theorems; lemmas about sequences that they need | |
| `AtomicStore` | abstract: what the tools promise of the store | |
| `CredStore` | the files and what rewrites them, one system call at a time: `credstore.mjs`, `credsecrets.mjs`, the commands of `credentials.mjs` | `disk` holds the files, `job` the operation under way: its calls left, the snapshot a nuke returns to. `Call`, `CallFails`, `Crash`; commands `InitKeys`, `Encrypt`, `Decrypt`, `Import`; `Repair` by hand |
| `CredTui` | `tui/reducer.mjs` and `tui/app.mjs` on top of it; the specification of both | `mem` is `state.store`, `ui` the rest of the reducer's state that decides something, `inbox` the actions dispatched, `queue` the effects. `Press` (keymap, enrich), one action per case of `reduce`, `RunWrite` to `RunExit` (runEffect), `OperationEnds`, `GitPushed`, `Start` |
| `CredTuiProofs` | the theorems of both | |

An operator whose comment begins with "Mutant" or "A bug" is not part of a model: it is a plausible bug in the
definition that follows it, used to show that a property notices.

### Abstractions

* Payloads are numbered, not spelled. In `Tunnel` a frame carries one piece, the VLESS header takes `HeaderPieces`, a
  datagram `DatagramPieces`: where the cuts fall is free, what the bytes are is not modelled.
* In `MuxSession` a frame is one action. `drain()` returns in the middle of a buffer when a target does not parse;
  that belongs to the byte level (`Wire` in the plan).
* `view` in `MuxSession` is what the server has *written* to the client: frames on their way are not modelled, and
  neither is the time between the client socket's destruction and its 'close'.
* A socket write may return false at any time; whoever owns that socket then owes a 'drain'. The bytes in its buffer
  are not modelled.
* Clocks count ticks, a second is `SecondTicks` of them, so that flooring to seconds is visible.
* In `Session` a rate-limited, forged or expired request is one that is answered at once (`Answer`), as in the code it
  gets the decoy or a page and the connection is closed.
* In `WorkerMux` the client is orderly and `PROXYIP` is set (without it a retry is refused, as after `wroteMore`). A
  Keep that names a target and carries data is two steps, `KeepRebinds` or `KeepOpensUdp`, then `KeepUdp`; nothing the
  code does tells them apart. The WebSocket leaves the open state in the step that ends the session, and a socket
  delivers nothing after its own `close()`. Which socket a retry replaces is the target's, which has ended by then.
* `WorkerMux` assumes that a write in flight fails when its own socket is closed; `WorkerRelay` lets it succeed as well.
* `clear()` of the address cache is offered and tested (dnscache.test.js:148) but called by nothing in the server: the
  server is the case `MaxClears = 0`, and the theorems, which hold for any number, include it.
* In `WorkerRelay` a byte is its position in what the client sends. Only the two digits of a DNS packet's length have
  a value, in base `Base` instead of 256. What a target or a resolver answers is a count of messages; the cache of the
  edge is one way in which a lookup may be answered. Early data comes in a request header, which platforms limit to a
  few kilobytes, and fits the backlog. A session whose header asks for Mux goes on in `WorkerMux`. The
  Streams standard is external: a read that waits is given its chunk at once, `pull` runs when the queue is empty, an
  error drops what is queued and a close does not.
* In `CredStore` a store is a number and only tells whether it is the empty one or another; a change always makes one
  that never was. The four env files are one. An operation's plan is fixed when it starts, because nothing else writes
  the files meanwhile: two processes of the tools at a time are not modelled. A crash is the process killed between
  two system calls; power loss, and pages that were never flushed, are not. A `copyFileSync` that fails removes its
  target (libuv), and a file that does not read back after its rename is torn.
* In `CredTui` what a field's value, a validator or the list of users would decide is free. Left out are messages,
  cursors, the reveal itself, the help page, the git status panel, the certificate probe and the clipboard, none of
  which the rest depends on, and a `--store` in another place. Keys that arrive while effects run wait; they were
  mapped by the screen of their press and are reduced on the screen that follows, so an action may meet a mode it was
  not made for. `exit` unmounts the app but does not stop the loop: effects behind it still run.
* `DohTruncated` is Node's behaviour for a response cut off after its head: the request emits no 'error' then, and the
  response has no listener for its own.

## Runs

| Run | Asks | Bounds |
|---|---|---|
| `mux_orderly` | reachability, order, wakeups and silence after the end, and the liveness, of a client that keeps to the protocol | 1 id, 2 entries (so an id is used again), 3 payloads (New, before and after connect), 2 replies (one refused, one after the drain) |
| `mux_any_client` | tables, totals and teardown under any frame at any time | 2 ids, 3 entries (two under one id, one under the other, and a UDP beside a TCP entry), symmetry |
| `mux_end_is_final` | violation | |
| `dns_over_https` | cache over DoH implements `NameService` | 2 hosts (one that cannot be encoded), 3 callers, a lifetime of one second of two ticks, threshold 2, one `clear()` |
| `doh_breaker` | violation | the default threshold 3, one cool-off |
| `tunnel` | one tunnel from its first frame to its end | 7 pieces: 2 of header and two datagrams and a half; 3 replies |
| `session` | connections, invites, pin cache, and who waits for its probe | 2 connections at a time, taken again without limit, 2 invites, a burn store of 1 (so the second claim sweeps), 7 ticks over 3 seconds, 2 heads per connection |
| `session_heads` | violation | |
| `worker_mux` | tables, tasks and sockets of the Worker's multiplexer, that a session which is over starts nothing and waits for no target, and that it returns | 1 id, 2 stream objects (so the id is used again while the tasks of its first substream run), 2 TCP payloads in all (New and chain), 1 chunk per socket, 1 lookup |
| `worker_retry` | violation | 1 substream, 2 payloads |
| `worker_relay` | the stream and its backlog, a tunnel across its retry, DNS packets, and that a session returns unless a living target holds it | 8 bytes of a TCP client in messages of 1 to 3 (header 2, so opening, pipe and queue all hold some; any of them as early data), a backlog of 3 (so it overflows), 2 chunks from targets; DNS packets of lengths 1 0 2, 2 1 and 3 1 in base 2 (empty, too short, both digits), cut anywhere |
| `creds` | the files and the dashboard over them | 2 stores beside the empty one (so a store, its backup and a third differ), 2 keyrings (so an env file can be stale), 1 failing call or crash at any point, 1 key pressed ahead of its screen beside any reports, of those that change the store, the tab or the process (`Ahead`; a change stands for every edit that writes), a walk over 1 field; every command and every key |

The bounds are the smallest in which each hazard the run is for can happen; every property has a mutant that the run
rejects under the same bounds, so none of them holds because the case is missing. Deadlock is not checked: each of the
systems may come to rest when its connection is over and its bounds are used up. Only `creds` and `dns_over_https` check
a type invariant, which relates variables there; for the other modules that every variable keeps its type is proved and
not checked (`TypeCorrect`, `TunnelTypeCorrect`, `SessionTypeCorrect`, `WorkerTypeCorrect`, `WorkerRelayTypeCorrect`).

`creds` allows one fault because that is what AtomicStore promises to survive. After a second one, on the backup this
time, nothing is left to read; that is true of any backup, and no document says otherwise.

**Fairness.** Nothing is assumed of clients except this: a socket that owes a 'drain' drains or ends; a dial succeeds
or fails (the operating system times it out). Each of the two is fair only while it is owed: no session is assumed to
end, so a liveness property is never satisfied by an end that nothing forces. An HTTPS request ends (`setTimeout`,
doh.js) and the system resolver calls back; the certificate probe ends (`timeoutMs`, certpin.js). In `WorkerMux` dials
and lookups settle, a promise whose outcome is decided runs on, and reads and writes of a socket that was closed fail;
a target may be silent, or not read, for ever, and neither End nor the client's going is assumed. In `WorkerRelay`
dials and lookups settle, streams flow, a close that the server started is answered, and a read or a write ends once
its own socket is broken or closed. Of a target that lives nothing is assumed there either, not even that it ends when
it has been told that the client is done. So `SessionSettles` says which waits the code itself brings to an end, and
names those that only the target can (`Held`); a session of DNS packets, and one whose header is incomplete or
refused, has none of the latter. `CredTui` assumes nothing: its properties are about what is reached. Liveness runs use no
symmetry.

### What the violations show

* `doh_breaker`: the breaker opens when the count of failures *equals* the threshold. After the cool-off the count
  goes on from there, so in a longer outage it never opens again and every lookup costs its own timeout, which is what
  the README and the comment at doh.js:183 say it avoids.
* `mux_end_is_final`: a Keep to a blocked target is answered with End, which is documented as "substream id: ended",
  but the substream stays and its replies are still sent under the id.
* `session_heads`: an invite that waits for the certificate probe leaves its connection in the HTTP phase, and the
  next request head on it is parsed, against http.js:6-7 and session.js:229-230.
* `worker_retry`: `retryViaProxy` is meant to decline once anything was sent after the opening bytes, because it
  replays only those (comment at mux.mjs:282-284). It looks before it dials the relay and not after: a Keep that
  arrives during that dial lets the opening bytes go (`stream.initial = null`) and is then written to the relay first,
  or alone.

### What the models show beside that

`creds` also shows that the files implement `AtomicStore` (`KeepsStore`: `INSTANCE ... WITH`, the abstract
specification as a property): a store half written is read as the one before, from the file or its backup, and so is
every sequence of writes, undos, nukes, commands and one fault among them. While an operation runs the abstract store
is the one it began with; its last call, its failure or its crash is the abstract step.

Met on the way, and either stated by no document or beyond what a property could hold the code to:

* A failed write reports the store it replaced. If a key changed the store on the screen in between, the report puts
  the older store over the newer one, which is on disk. `ShownIsSaved` excludes this case by name (`crossed`); the
  next edit then starts from the older store.
* An undo leaves the ciphertext as it was until the next write (app.mjs:82-88), so a push in between publishes the
  store that was undone, encrypted.
* The ciphertext and the restored files of a nuke are rewritten in place (credsecrets.mjs:141), unlike the store.
* The guard of `makeWsReadable` counts everything since the queue was last empty (wsstream.mjs:54-57), so a long
  upload that always has a chunk waiting is ended after 8 MiB though the queue never holds as much. `QueueIsBounded`
  states the half that the comment promises.

* A session of `WorkerRelay` can outlast its WebSocket, although its targets do all that is asked of them (`Untold` in
  `Held`, the exception `SessionSettles` makes). The first target ends without a word, the relay host is dialled, and
  the client leaves during the dial. The pipe of its bytes ends then, on the writer of the first target, which is still
  `current`. When the dial is done the relay host takes a place (relay.mjs:99) from which nothing is written or closed
  any more, and nobody looks at the WebSocket again before `await pumpDown(next)`: a relay host that waits for its
  client keeps that promise and the connection for ever. It is the same when the write in flight to the first target
  fails after the swap. The comment at main.mjs:90-91 says that WebSocket events keep the promise "alive until the
  socket closes"; it does not say that they end it.

What `WorkerMux` also shows, and no document speaks of: three places give a substream up by id without asking whether
it is still theirs: the catch of openTcp (mux.mjs:193-196), pumpTcp after a retry it awaited (217-219) and the catch
of the chain (292-295). If the client has ended the substream and opened the id again in the meantime, it is the new
substream that is told to end and closed. The model does the same (`Fails` acts on what the id names now);
`OpenIsServed` holds regardless, since the client is told.

## Proofs

Everything below holds for all values of the constants that satisfy the named assumptions (`MuxAssumption`,
`DnsAssumption`, `DohAssumption`, `TunnelAssumption`, `SessionAssumption`, `WorkerMuxAssumption`,
`WorkerRelayAssumption`, `CredStoreAssumption`, `CredTuiAssumption`): sets are finite where they are counted, bounds
are naturals, lengths and lifetimes are not zero, `None` is nothing else. The runs above evaluate these assumptions. A
theorem of the form `[]Inv` is named for what it says; the invariants that the runs check are seldom inductive, and
each section names what was added.

**Multiplexer** (`MuxSessionProofs`). `TablesMatchEntries` says nothing of a socket that is still
dialling, of an entry that was never used or of a session that has ended, and an event of one entry tears down
*whatever its id names*; `Structure` adds these three, and `EndStreamsStructure` shows once, for any set of ids, that
a teardown keeps it. There is a lemma per action or group of actions, and the theorems follow:

| Theorem | Needs beside `TypeOK` |
|---|---|
| `TypeCorrect`: `[]TypeOK` | |
| `TablesCorrect`: `[]TablesMatchEntries` | `Structure` |
| `TcpAlwaysReachable`: `[]TcpReachable` (orderly clients) | `Structure`, itself |
| `TotalsCorrect`: `[]TotalsMatchRecords` | `Structure`, cardinality lemmas for a teardown of any set of entries |
| `WakeupNeverLost`: `[]NoLostWakeup` | itself |
| `UplinkIsOrdered`: `[]UplinkInOrder` | `Structure`, `UplinkInv`: an entry a frame can reach has a queue only while it dials |
| `NeverSilent`: `NoSilentTeardown` | `Structure` |
| `DeadQuiet`: `DeadIsQuiet` | `Structure` |

Only `TcpAlwaysReachable` uses `Orderly`; the others are proved for a client that sends anything.

**Address cache and resolver** (`DohResolverProofs`). `TypeCorrect` carries the equation that ties the two: the
lookups the cache has open are the requests, fallbacks and lost answers of the resolver. `WaitersOwed` is inductive
with it. `Refinement` shows `Spec => Promise!Spec`, step by step: a hit or a queued call is a call of NameService, an
answer is `Resolved` or `Unresolved` because the queue of a host is exactly those who wait for it (`WaitersAreOwed`),
everything else stutters. That a hit is fresh needs `CacheIsSaid`: an entry is the last address of its host, and its
lifetime is counted from the second in which it was learned. `OneFlight` (`SingleFlight`) says that a burst costs one
lookup unless `clear()` crosses it, `CallersInOrder` (`AnsweredInOrder`) that a queue is called back from its head: a
caller is behind another in a queue only if it asked later.

**Tunnel** (`TunnelProofs`). One invariant, `TunnelInv`, serves all four theorems: a dead session holds nothing
(`DeadIsReaped`); a live one is in one of its stages, which say what may be held and queued in it (`BeforeHeader`,
`AfterTheHeader`), whoever waits is owed a wakeup (`Waits`), and what the target was given, what waits for it and what
is held of a message are, joined, the pieces sent (`InOrder`). The lemmas about sequences say that cutting whole
datagrams from a message, and giving the rest back, changes nothing in that join.

| Theorem | States |
|---|---|
| `TunnelTypeCorrect` | `TypeOK` |
| `TunnelUplinkOrdered` | `UplinkInOrder`, for any lengths of header and datagram and any way of cutting the stream |
| `TunnelDeadReaped` | `DeadIsReaped` |
| `TunnelWakeupNotLost` | `NoLostWakeup` |

**Sessions and invites** (`SessionProofs`).

| Theorem | States | Needs beside the types |
|---|---|---|
| `SessionTypeCorrect` | the types of all variables | |
| `InvitesStayBurned` | `InviteStaysBurned` | `BurnInv`: an invite that was granted is in the store with the time of its first grant, or it has expired, so that a sweep forgets only what is refused anyway |
| `BurnStoreBounded` | the burn store keeps its limit; no run checks this, because a claim leaves room for itself in one step | cardinality of what a sweep leaves |
| `AwaitedProbed` | `AwaitedIsProbed`: a handler suspended at the certificate pin waits for a probe that runs, the safety half of `InviteeIsAnswered` | itself |
| `ConnectionsCounted` | `DeadIsReaped`: the dashboard's count of open tunnels is their number, and a dead connection is none of them | cardinality lemmas for the connection that ends |

**Multiplexer of the Worker** (`WorkerMuxProofs`). The tasks of a stream object outlive its registration, so every
invariant is stated per object, and two lemmas carry all of them: a step acts on one object at most (`Steps`), and
leaves the others as they were but for the session's end (`OthersUntouched`). Each invariant then needs only the
object that moves.

| Theorem | States | Needs beside the types |
|---|---|---|
| `WorkerTypeCorrect` | the types of all variables | `TaskInv` (which tasks can run together, and which socket each has), `Keyed` |
| `OneTarget` | `OneTargetAnswers` | `AnswerInv`: once the first target has spoken there is no retry, and what came from the relay came after one |
| `DirectInOrder` | `DirectUplinkInOrder` | `UplinkInv`: what the chain holds are the last payloads sent, and the target it writes to has got all before them |
| `OpenServed` | `OpenIsServed` | `Names` (the Map, and an object's own id, agree), `LiveInv` (a stream that lives has a task that carries it on or ends it), `Registered` |
| `TasksFreed` | `TasksCanEnd`: once the session is closed no task depends on a target | `LiveInv`, `SocketInv`, `ShutInv` (a stream and its socket are closed together; a task works on the stream's socket, or on one that a retry replaced and closed; who awaits a retry awaits one that runs) |
| `ClosedOnlyEnds` | `TasksOnlyEnd`: from then on a task ends or stays, and starts nothing | the same |
| `NothingLeft` | `NothingOutlivesTheSession` | `SocketInv` (a socket that is being dialled has a task that awaits it, and one that is open is the stream's own, which lives), `QuietInv` |

**TCP relay and DNS of the Worker** (`WorkerRelayProofs`, `SeqLemmas`). The client's bytes are numbered, so that order
is a run of consecutive numbers: what each part of the program holds is the run that follows another's.

| Theorem | States | Needs beside the types |
|---|---|---|
| `CutsDoNotMatter` | ByteQueue: `At`, `Slice` and `Consume` see only the bytes, for any two cuts of them into chunks; no run checks it, the models rest on it | lemmas on `FlattenSeq` |
| `QueueBounded` | `QueueIsBounded` | `Guarded`: the guard's count is at least the bytes queued |
| `UplinkSentOnce` | `UplinkOnce` | `Shape` (which sockets and which pipe there are at each await), `HeadInv` (before the header is complete, all that was read is in the ByteQueue), `UplinkInv` |
| `PacketsCutAsSent` | `PacketsAsSent` | `Shape`, `HeadInv`, `DnsInv`, `QueriesInv` |
| `RepliesOwn` | `RepliesAreOwn` | `Shape`, `QueriesInv`, `RepliesInv` |
| `WorkerRelayTypeCorrect` | `TypeOK`, the types of all variables | `Guarded`, `QueriesInv`, `RepliesInv` |

`UplinkInv` has three parts. `Lined`: the payload that came with the header, what each target was given after it, and
the chunk that the pipe is writing follow each other. `QueueFollows`: the queue of the stream goes on where that ends.
`SwapInv`: a target that was given anything was given that payload first, and the bytes after it went to the first
target until the relay host took its place. `DnsInv` says that the
ByteQueue always begins where the last packet ended (`Wire` lays the packets out, `BeforeOffset` finds where each
begins), so the two digits it reads next are a packet's length (`LengthRead`, `FramedIs`), and `AtByte`, `SliceBytes`
and `ConsumeBytes` say that a ByteQueue's chunks behave as the one sequence they add up to, wherever they are cut; from
them follows `CutsDoNotMatter`.

`SeqLemmas` is about `FlattenSeq`, which the community modules define by recursion. That it distributes over
concatenation is shown by induction over lengths, and the induction itself (`Induction`, for a set of numbers in the
place of a predicate) comes from the library's theorem that finite sets are well founded by inclusion.

**Credential tools** (`CredTuiProofs`). Two kinds of reasoning meet in one invariant, `Inv`. For the files, `FilesInv`
says how far the operation under way is: `Saving` has four stages (`Cutting`, `Copying`, `Putting`, `Stored`), each
with the calls that are left and what the store and its backup hold; `Undoing` has three; everything else is `Sparing`
both. What a plan does to a file is `EndsIn`: the file's last call holds the value, or there is none and it holds it
already. A nuke that failed ends, for every file, in what its snapshot holds (`RestoreEnds`). For the dashboard,
`ReductionIs` reduces the thirty branches of the reducer to nine things a reduction does (`Reduced`), and `Tokens`
and `Nukes` count: the confirmation, the effect, the operation and the report of a push or a nuke are one at most,
and the screen that waits for the report stays until it comes, because the keys it takes (`Keyable`) cannot leave it.

| Theorem | States | Needs |
|---|---|---|
| `CredTuiTypeCorrect` | `TypeOK` | `TuiInv`: types, what waits in which phase (`Flow`), which operation belongs to the first effect (`Linked`), and that the keys that wait have stores left |
| `NoScreenHangs` | `NothingHangs`, for any number of faults | `Tokens`, `Nukes`, `Keyable` |
| `NukedTogether` | `NukeAllOrNothing`, for `MaxFaults <= 1` | `FilesInv` |
| `StoreKept` | `KeepsStore`, for `MaxFaults <= 1` | `FilesInv`; what a step does to the store and its backup is one of five things (`Moves`), and each is a step of `AtomicStore` or leaves both files alone |
| `ShownAsSaved` | `ShownIsSaved`, for `MaxFaults <= 1` | `FilesInv`, `Known` (no store anywhere is newer than the last one made), `Followed` |
| `EnvsAsShown` | `FreshIsFresh`, for any number of faults | `Inv`, `Trusted` |

`Followed` is a chain (`Leads`). The effects that wait to save a store each return to what the one before saves, the
first to what is in the file, and the last saves what is on the screen; once one of them has reported, the reports that
wait lead from the screen to the file instead. A report whose chain a key has broken is `Doomed`: it will cross a newer
change, which `crossed` remembers, and for that every store must be newer than those before it, which is `Known`.

`MaxFaults <= 1` is the promise and no convenience: `AtomicStore` has one `Fault`, and a second one may hit the putting
back itself, after which a nuke is neither undone nor complete, and the dashboard, told that it failed, shows the old
store over the new one. The number of stores, keyrings, keys and commands is free, and so
is which keys are pressed ahead.

`FreshIsFresh` compares a word on the screen with two files, and every step in between could part them, so `Trusted`
carries four things along beside `Inv`. `NukeScreen`: a nuke that was asked for is on its own tab, and no key of
another screen waits behind it. `NukeQueue`: behind a full nuke no check of the env files is left to run or to report.
`Tended`: every other operation leaves the keyring, and exports only it (`SteadyCalls`). `Fresh`: whoever claims that
the files are fresh, the envs tab or a report in the inbox, is right. A full nuke, the one operation that changes the
keyring, therefore meets no claim (`FullIsUnseen`), and any other keeps one true, however many of its calls fail: a call
leaves the value of its keyring in its own file, or damages the file. Of a damaged file the property says nothing;
`envFileStatus` calls it stale when it looks (credentials.mjs:366), as it does every text that is not the keyring's.

### Only model-checked

* Liveness (`PausedFlowsAgain`, `EveryoneIsCalledBack`, `BothWaysResume`, `InviteeIsAnswered`, `SessionSettles`): the
  prover handles neither fairness with ENABLED nor leads-to. What each of them rests on is proved: who is paused is owed
  a wakeup (`WakeupNeverLost`, `TunnelWakeupNotLost`), who waits for an address is in a queue that a lookup in flight
  will flush (`WaitersOwed`), who waits for the pin waits for a probe that runs (`AwaitedProbed`), and the tasks of a
  closed session of the Worker's multiplexer depend on no target and start nothing (`TasksFreed`, `ClosedOnlyEnds`).
  That the step which is owed is taken is what the fairness says, and TLC. For `WorkerRelay` no such
  half is stated: `SessionSettles` is about the order in which awaits end, and is left to TLC as a whole.

Every safety invariant and every action property that a passing run checks is stated by a theorem.

## Not modelled, and why

* Payload bytes, and the wire formats: WebSocket frames, the addresses of a VLESS header, and the parser of Mux frames
  inside a buffer. ByteQueue and the framing of DNS packets are in `WorkerRelay`, cut at any byte.
* The rate limiter (`ratelimit.js`): token buckets consulted synchronously from one place; in the models a request
  that it refuses is one that is answered at once.
* Accepting, TLS sniffing and the shutdown on SIGTERM (`server.js`, `appws.js`): a listening socket and one timer.
* The write buffer of a client socket: UDP replies and End frames ignore the result of a write, so it grows without
  bound; no document sets a limit a property could state.
* Traffic counters: `tx` follows the code, which counts a Keep that arrives while its target is being dialled twice
  (mux.js:237 and :266). No document says what the counter means precisely enough to hold it to.
* Restarts of the server: it keeps nothing; the burn store is documented as best effort. Those of the credential tools
  are modelled (`Crash`).
* Two processes of the credential tools on the same files: there is no lock, and none is promised.
* Per-user statistics, traffic history, pages, QR codes, client configuration, certificates, deployment files: text
  and rendering, without state that anything waits for.

## Plan

Done: `MuxSession`, `DnsCache` and `DohResolver` under `NameService`, `Tunnel`, `Session`, `WorkerMux`, `WorkerRelay`,
`CredStore` and `CredTui` under `AtomicStore`; the theorems above.

Models that would still add something: `Shutdown` (SIGTERM, the 25-second cap, connections accepted while closing) and
`Wire` (WebSocket and Mux frames as functions, whose result does not depend on the cuts).
