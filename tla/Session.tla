------------------------------- MODULE Session -------------------------------
(***************************************************************************)
(* The HTTP phase of the connections of the Node server                     *)
(* (src/node/session.js) and what they share: the burn store of redeemed    *)
(* invites (src/node/tokens.js) and the cached certificate pin              *)
(* (src/node/certpin.js).  A connection is upgraded, becomes a stats        *)
(* stream, or is answered and closed; only an invite that asks for a pinned *)
(* configuration is answered in a later event, when the probe returns.      *)
(* What a connection does once its tunnel is open is Tunnel and MuxSession. *)
(*                                                                          *)
(* The clock counts ticks, SecondTicks to a second: an invite expires in    *)
(* whole seconds, the burn store compares ticks.                            *)
(***************************************************************************)
EXTENDS Integers, FiniteSets

CONSTANTS
  Conns,       \* bound: connections at a time
  Nonces,      \* bound: invites ever minted
  None,        \* not minted, not redeemed, no pin
  InviteTtl,   \* config.inviteTtl, in seconds
  Grace,       \* INVITE_GRACE_MS, in ticks
  PinTtl,      \* the pin cache's ttlMs, in ticks
  MaxBurned,   \* the burn store's max
  SecondTicks, \* ticks in a second
  MaxHeads,    \* bound: request heads a client sends on one connection
  MaxTime      \* bound: the last tick

ASSUME SessionAssumption ==
  /\ {InviteTtl, Grace, PinTtl, MaxBurned, SecondTicks} \subseteq Nat \ {0}
  /\ MaxHeads \in Nat /\ MaxTime \in Nat
  /\ None \notin Nat
  /\ IsFiniteSet(Conns) /\ IsFiniteSet(Nonces)

VARIABLES
  now,     \* the clock
  phase,   \* #state: "HTTP", "WS" or "SSE"
  dead,    \* #dead
  heads,   \* history: request heads parsed
  waiters, \* invite handlers suspended at their await
  timer,   \* #sseTimer is set
  conn,    \* connInfo: "none", "active" or "closed"
  active,  \* stats: totals.activeConnections
  exp,     \* the second a minted invite expires
  seen,    \* the burn store: when a nonce was first redeemed
  first,   \* history: when an invite was first granted
  last,    \* history: when it was last granted
  pin,     \* the pin cache: when current was fetched
  probing  \* inFlight is set

socketVars == <<phase, dead, heads, waiters, timer>>
statsVars == <<conn, active>>
burnVars == <<seen, first, last>>
inviteVars == <<exp, burnVars>>
pinVars == <<pin, probing>>
vars == <<now, socketVars, statsVars, inviteVars, pinVars>>

Second == now \div SecondTicks

Init ==
  /\ now = 0
  /\ phase = [c \in Conns |-> "HTTP"]
  /\ dead = [c \in Conns |-> FALSE]
  /\ heads = [c \in Conns |-> 0]
  /\ waiters = [c \in Conns |-> 0]
  /\ timer = [c \in Conns |-> FALSE]
  /\ conn = [c \in Conns |-> "none"]
  /\ active = 0
  /\ exp = [n \in Nonces |-> None]
  /\ seen = [n \in Nonces |-> None]
  /\ first = [n \in Nonces |-> None]
  /\ last = [n \in Nonces |-> None]
  /\ pin = None
  /\ probing = FALSE

-----------------------------------------------------------------------------
(* Mutant of Destroy: the interval of the stats stream runs on. *)
DestroyLeavesTimer(C) ==
  /\ dead' = [c \in Conns |-> c \in C \/ dead[c]]
  /\ UNCHANGED timer
  /\ conn' = [c \in Conns |-> IF c \in C /\ conn[c] = "active" THEN "closed" ELSE conn[c]]
  /\ active' = active - Cardinality({c \in C : conn[c] = "active"})

(* destroy() of every connection in C; it ignores one that is dead. *)
Destroy(C) ==
  /\ dead' = [c \in Conns |-> c \in C \/ dead[c]]
  /\ timer' = [c \in Conns |-> c \notin C /\ timer[c]]
  /\ conn' = [c \in Conns |-> IF c \in C /\ conn[c] = "active" THEN "closed" ELSE conn[c]]
  /\ active' = active - Cardinality({c \in C : conn[c] = "active"})

(* A new connection takes the place of one that is gone. *)
Accept(c) ==
  /\ dead[c] /\ waiters[c] = 0
  /\ dead' = [dead EXCEPT ![c] = FALSE]
  /\ phase' = [phase EXCEPT ![c] = "HTTP"]
  /\ heads' = [heads EXCEPT ![c] = 0]
  /\ conn' = [conn EXCEPT ![c] = "none"]
  /\ UNCHANGED <<now, waiters, timer, active, inviteVars, pinVars>>

(* A head is complete: the dispatch looks only at #state, so it takes one   *)
(* while an invite of the same connection is still awaited.                 *)
Head(c) ==
  /\ ~dead[c] /\ phase[c] = "HTTP"
  /\ heads[c] < MaxHeads
  /\ heads' = [heads EXCEPT ![c] = @ + 1]

(* Answered and closed in the same event: a decoy, an admin page, a redirect, *)
(* the landing page of an invite, a head that does not parse.                 *)
Answer(c) ==
  /\ Head(c)
  /\ Destroy({c})
  /\ UNCHANGED <<now, phase, waiters, inviteVars, pinVars>>

(* The provisioning page mints an invite and is answered.  The connection   *)
(* of the operator is like any other in Answer and is left out.             *)
Mint(n) ==
  /\ exp[n] = None
  /\ exp' = [exp EXCEPT ![n] = Second + InviteTtl]
  /\ UNCHANGED <<now, socketVars, statsVars, burnVars, pinVars>>

Upgrade(c) ==
  /\ Head(c)
  /\ phase' = [phase EXCEPT ![c] = "WS"]
  /\ UNCHANGED <<now, dead, waiters, timer, statsVars, inviteVars, pinVars>>

(* The VLESS header of an upgraded connection validates: it is counted. *)
Validate(c) ==
  /\ ~dead[c] /\ phase[c] = "WS" /\ conn[c] = "none"
  /\ conn' = [conn EXCEPT ![c] = "active"]
  /\ active' = active + 1
  /\ UNCHANGED <<now, socketVars, inviteVars, pinVars>>

Stream(c) ==
  /\ Head(c)
  /\ phase' = [phase EXCEPT ![c] = "SSE"]
  /\ timer' = [timer EXCEPT ![c] = TRUE]
  /\ UNCHANGED <<now, dead, waiters, statsVars, inviteVars, pinVars>>

(* The client goes, a snapshot finds the stream stalled, the head outgrows  *)
(* its limit, or the tunnel ends.                                           *)
Close(c) ==
  /\ ~dead[c]
  /\ Destroy({c})
  /\ UNCHANGED <<now, phase, heads, waiters, inviteVars, pinVars>>

-----------------------------------------------------------------------------
(* The burn store. *)

(* Mutant of Swept: an entry is dropped when its grace is over. *)
SweptAfterGrace == {n \in Nonces : seen[n] # None /\ seen[n] + Grace <= now}

(* The nonces whose invites have expired, to the tick. *)
Swept == {n \in Nonces : seen[n] # None /\ exp[n] * SecondTicks <= now}

Burned(s) == {n \in Nonces : s[n] # None}

(* The map after claim() has made room, if it has to. *)
Room ==
  IF Cardinality(Burned(seen)) < MaxBurned THEN seen
  ELSE [n \in Nonces |-> IF n \in Swept THEN None ELSE seen[n]]

(* What claim(nonce) returns. *)
Granted(n) ==
  IF seen[n] # None THEN now - seen[n] < Grace
  ELSE Cardinality(Burned(Room)) < MaxBurned

(* claim(nonce): only the first grant is entered in the store. *)
Claim(n) ==
  /\ seen' = IF seen[n] # None THEN seen
             ELSE IF Granted(n) THEN [Room EXCEPT ![n] = now] ELSE Room
  /\ first' = IF Granted(n) /\ first[n] = None THEN [first EXCEPT ![n] = now] ELSE first
  /\ last' = IF Granted(n) THEN [last EXCEPT ![n] = now] ELSE last

(* verifyInvite(): minted, and the second of its expiry has not come. *)
Verify(n) == exp[n] # None /\ Second < exp[n]

(* An invite that is refused, or granted without the pin, is answered.      *)
Redeem(c, n) ==
  /\ Head(c)
  /\ Verify(n)
  /\ Claim(n)
  /\ Destroy({c})
  /\ UNCHANGED <<now, phase, waiters, exp, pinVars>>

-----------------------------------------------------------------------------
(* The pin cache. *)

PinIsStale == pin = None \/ now - pin > PinTtl

(* get() of a cached pin resolves before the next event; a stale one starts *)
(* a probe in the background.                                               *)
RedeemPinned(c, n) ==
  /\ pin # None
  /\ Head(c)
  /\ Verify(n)
  /\ Granted(n) /\ Claim(n)
  /\ Destroy({c})
  /\ probing' = (probing \/ PinIsStale)
  /\ UNCHANGED <<now, phase, waiters, exp, pin>>

(* Nothing is cached yet: the handler waits for the probe, its connection   *)
(* stays as it is.                                                          *)
RedeemAwaits(c, n) ==
  /\ pin = None
  /\ Head(c)
  /\ Verify(n)
  /\ Granted(n) /\ Claim(n)
  /\ waiters' = [waiters EXCEPT ![c] = @ + 1]
  /\ probing' = TRUE
  /\ UNCHANGED <<now, phase, dead, timer, statsVars, exp, pin>>

Waiting == {c \in Conns : waiters[c] > 0}

(* Mutant of Wake: only a probe that succeeded wakes its handlers. *)
WakeOnSuccess(ok) ==
  IF ok THEN Destroy(Waiting) /\ waiters' = [c \in Conns |-> 0]
  ELSE UNCHANGED <<dead, timer, statsVars, waiters>>

(* Every handler that waited answers, with the pin or without, and closes   *)
(* its connection.                                                          *)
Wake(ok) == Destroy(Waiting) /\ waiters' = [c \in Conns |-> 0]

Probed(ok) ==
  /\ probing
  /\ probing' = FALSE
  /\ pin' = IF ok THEN now ELSE pin
  /\ Wake(ok)
  /\ UNCHANGED <<now, phase, heads, inviteVars>>

Tick ==
  /\ now < MaxTime
  /\ now' = now + 1
  /\ UNCHANGED <<socketVars, statsVars, inviteVars, pinVars>>

-----------------------------------------------------------------------------
Next ==
  \/ \E c \in Conns :
       \/ Accept(c) \/ Answer(c) \/ Upgrade(c) \/ Validate(c) \/ Stream(c) \/ Close(c)
       \/ \E n \in Nonces : Redeem(c, n) \/ RedeemPinned(c, n) \/ RedeemAwaits(c, n)
  \/ \E n \in Nonces : Mint(n)
  \/ \E ok \in BOOLEAN : Probed(ok)
  \/ Tick

Spec == Init /\ [][Next]_vars

(* The probe has a timeout. *)
FairSpec == Spec /\ WF_vars(\E ok \in BOOLEAN : Probed(ok))

-----------------------------------------------------------------------------
(* Properties. *)

(* The dashboard counts exactly the tunnels that are open, and a connection  *)
(* that has ended is in none of them and has no interval left.               *)
DeadIsReaped ==
  /\ active = Cardinality({c \in Conns : conn[c] = "active"})
  /\ \A c \in Conns : dead[c] => ~timer[c] /\ conn[c] # "active"

(* An invite is granted for its grace after the first time, and never in or *)
(* after the second it expires: what a full store sweeps is nothing that a  *)
(* later request could still redeem.                                         *)
InviteStaysBurned ==
  \A n \in Nonces : last[n] # None =>
    /\ last[n] - first[n] < Grace
    /\ last[n] < exp[n] * SecondTicks

(* Who waits for the probe waits for one that is under way, and only where   *)
(* there is no pin yet: the probe that found them all answers them all.       *)
AwaitedIsProbed == \A c \in Conns : waiters[c] > 0 => probing /\ pin = None

(* An invitee who waits for the probe is answered, whatever it returns. *)
InviteeIsAnswered == \A c \in Conns : waiters[c] > 0 ~> waiters[c] = 0

(* What http.js and session.js say of their parser: only the head of the    *)
(* first request of a connection is ever taken.                             *)
OnlyFirstHead == \A c \in Conns : heads[c] <= 1

=============================================================================
