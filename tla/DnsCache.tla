------------------------------- MODULE DnsCache -------------------------------
(***************************************************************************)
(* The address cache in front of every lookup, src/node/dnscache.js: a Map  *)
(* of resolved hosts with a lifetime, and a Map of the callbacks that wait  *)
(* for a lookup in flight.  The operators are the operations of the cache;  *)
(* DohResolver puts the resolver behind them and states the whole.          *)
(*                                                                          *)
(* The clock counts ticks, and the code counts whole seconds: Ttl is in     *)
(* seconds, SecondTicks ticks each.  The address itself is abstracted to    *)
(* the moment it was learned.                                               *)
(***************************************************************************)
EXTENDS Integers, Sequences, FiniteSets

CONSTANTS
  Hosts,       \* names that need a lookup
  Callers,     \* bound: the calls of resolve
  ViaLookup,   \* the callers that come through lookup(), for a connection;
               \* the others come through resolveAndSend(), for a datagram
  None,        \* no host, no cache entry, no queue
  Ttl,         \* opts.ttl, in seconds
  SecondTicks, \* ticks of the clock in a second
  MaxTime,     \* bound: the last tick
  MaxClears    \* bound: calls of clear()

ASSUME DnsAssumption ==
  /\ None \notin Hosts /\ None \notin Nat /\ ViaLookup \subseteq Callers
  /\ Ttl \in Nat \ {0} /\ SecondTicks \in Nat \ {0}
  /\ MaxTime \in Nat /\ MaxClears \in Nat

VARIABLES
  now,      \* the clock
  cache,    \* Map: when the entry was learned and the second it expires
  pending,  \* Map: the callers queued for a lookup in flight
  flying,   \* resolve4 calls that have not called back, per host
  host,     \* history: the host a caller asked for
  state,    \* "idle", "waiting", or what the caller was called back with
  stamp,    \* when the address it was given was learned
  said,     \* history: when each host was last resolved
  asked,    \* history: the callers in the order they asked
  answered, \* history: the callers in the order they were called back
  clears    \* history: calls of clear()

mapVars == <<cache, pending>>
callerVars == <<host, state, stamp, asked, answered>>
cacheVars == <<now, mapVars, flying, callerVars, said, clears>>

NoQueue == <<>>
NoEntry == [at |-> 0, expires |-> 0]

CacheInit ==
  /\ now = 0
  /\ cache = [h \in Hosts |-> NoEntry]
  /\ pending = [h \in Hosts |-> NoQueue]
  /\ flying = [h \in Hosts |-> 0]
  /\ host = [c \in Callers |-> None]
  /\ state = [c \in Callers |-> "idle"]
  /\ stamp = [c \in Callers |-> 0]
  /\ said = [h \in Hosts |-> None]
  /\ asked = <<>>
  /\ answered = <<>>
  /\ clears = 0

(* seconds() *)
Second == now \div SecondTicks

(* Mutant of Hit: the entry is served in the second it expires. *)
HitInclusive(h) == cache[h] # NoEntry /\ Second <= cache[h].expires

(* An entry is served while its second of expiry has not come. *)
Hit(h) == cache[h] # NoEntry /\ Second < cache[h].expires

-----------------------------------------------------------------------------
(* resolve(host, cb) *)

Asks(c, h) ==
  /\ state[c] = "idle"
  /\ host' = [host EXCEPT ![c] = h]
  /\ asked' = Append(asked, c)

(* A hit calls back before resolve returns. *)
ResolveHit(c, h) ==
  /\ Asks(c, h)
  /\ Hit(h)
  /\ state' = [state EXCEPT ![c] = "resolved"]
  /\ stamp' = [stamp EXCEPT ![c] = cache[h].at]
  /\ answered' = Append(answered, c)
  /\ UNCHANGED <<now, mapVars, flying, said, clears>>

(* Mutant of ResolveJoins: the newest caller is put first. *)
ResolveJoinsFirst(c, h) ==
  /\ Asks(c, h)
  /\ ~Hit(h) /\ pending[h] # NoQueue
  /\ pending' = [pending EXCEPT ![h] = <<c>> \o @]
  /\ state' = [state EXCEPT ![c] = "waiting"]
  /\ UNCHANGED <<now, cache, flying, stamp, answered, said, clears>>

(* A lookup of the host is in flight: the caller joins its queue. *)
ResolveJoins(c, h) ==
  /\ Asks(c, h)
  /\ ~Hit(h) /\ pending[h] # NoQueue
  /\ pending' = [pending EXCEPT ![h] = Append(@, c)]
  /\ state' = [state EXCEPT ![c] = "waiting"]
  /\ UNCHANGED <<now, cache, flying, stamp, answered, said, clears>>

(* Mutant of ResolveStarts: a burst to a cold host starts a lookup each. *)
ResolveStartsAlways(c, h) ==
  /\ Asks(c, h)
  /\ ~Hit(h)
  /\ pending' = [pending EXCEPT ![h] = Append(@, c)]
  /\ state' = [state EXCEPT ![c] = "waiting"]
  /\ flying' = [flying EXCEPT ![h] = @ + 1]
  /\ UNCHANGED <<now, cache, stamp, answered, said, clears>>

(* Nobody waits for the host: the caller queues, and a lookup is started. *)
ResolveStarts(c, h) ==
  /\ Asks(c, h)
  /\ ~Hit(h) /\ pending[h] = NoQueue
  /\ pending' = [pending EXCEPT ![h] = <<c>>]
  /\ state' = [state EXCEPT ![c] = "waiting"]
  /\ flying' = [flying EXCEPT ![h] = @ + 1]
  /\ UNCHANGED <<now, cache, stamp, answered, said, clears>>

-----------------------------------------------------------------------------
(* resolve4 calls back: the queue is taken, then everyone in it is called,   *)
(* in order.  A lookup that clear() has orphaned takes the queue of the next *)
(* one.                                                                      *)

(* Mutant of TakeQueue: the queue is left for the next answer. *)
TakeNothing(h) == UNCHANGED pending /\ answered' = answered \o pending[h]

TakeQueue(h) ==
  /\ pending' = [pending EXCEPT ![h] = NoQueue]
  /\ answered' = answered \o pending[h]

Queued(h) == {pending[h][n] : n \in DOMAIN pending[h]}

Succeed(h) ==
  /\ flying[h] > 0
  /\ flying' = [flying EXCEPT ![h] = @ - 1]
  /\ TakeQueue(h)
  /\ cache' = [cache EXCEPT ![h] = [at |-> now, expires |-> Second + Ttl]]
  /\ said' = [said EXCEPT ![h] = now]
  /\ state' = [c \in Callers |-> IF c \in Queued(h) THEN "resolved" ELSE state[c]]
  /\ stamp' = [c \in Callers |-> IF c \in Queued(h) THEN now ELSE stamp[c]]
  /\ UNCHANGED <<now, host, asked, clears>>

(* No address: lookup() turns to the system resolver, a datagram is dropped. *)
Fail(h) ==
  /\ flying[h] > 0
  /\ flying' = [flying EXCEPT ![h] = @ - 1]
  /\ TakeQueue(h)
  /\ state' = [c \in Callers |->
                 IF c \notin Queued(h) THEN state[c]
                 ELSE IF c \in ViaLookup THEN "system" ELSE "failed"]
  /\ UNCHANGED <<now, cache, host, stamp, asked, said, clears>>

-----------------------------------------------------------------------------
(* The timer that drops expired entries; it may come at any time. *)
Sweep ==
  /\ \E h \in Hosts : cache[h] # NoEntry /\ ~Hit(h)
  /\ cache' = [h \in Hosts |-> IF Hit(h) THEN cache[h] ELSE NoEntry]
  /\ UNCHANGED <<now, pending, flying, callerVars, said, clears>>

(* clear() forgets the callers who wait; what is in flight stays in flight. *)
Clear ==
  /\ clears < MaxClears
  /\ clears' = clears + 1
  /\ cache' = [h \in Hosts |-> NoEntry]
  /\ pending' = [h \in Hosts |-> NoQueue]
  /\ state' = [c \in Callers |-> IF state[c] = "waiting" THEN "dropped" ELSE state[c]]
  /\ UNCHANGED <<now, flying, host, stamp, asked, answered, said>>

Tick ==
  /\ now < MaxTime
  /\ now' = now + 1
  /\ UNCHANGED <<mapVars, flying, callerVars, said, clears>>

-----------------------------------------------------------------------------
(* Properties of the cache. *)

Waiting == {c \in Callers : state[c] = "waiting"}
CalledBack == {answered[n] : n \in DOMAIN answered}
Before(s, c, d) == \E m, n \in DOMAIN s : m < n /\ s[m] = c /\ s[n] = d

(* Every variable stays in its range. *)
CacheTypeOK ==
  /\ now \in 0..MaxTime
  /\ cache \in [Hosts -> [at : Nat, expires : Nat]]
  /\ pending \in [Hosts -> Seq(Callers)]
  /\ flying \in [Hosts -> Nat]
  /\ host \in [Callers -> Hosts \cup {None}]
  /\ state \in [Callers -> {"idle", "waiting", "resolved", "failed", "system", "dropped"}]
  /\ stamp \in [Callers -> Nat]
  /\ said \in [Hosts -> Nat \cup {None}]
  /\ asked \in Seq(Callers)
  /\ answered \in Seq(Callers)
  /\ clears \in 0..MaxClears

(* Whoever waits is in the queue of its host, and a lookup of that host is  *)
(* still in flight: no queue outlives the last lookup that could flush it,  *)
(* even when clear() has crossed it, and nobody is in two queues.           *)
WaitersAreOwed ==
  /\ \A h \in Hosts :
       /\ Queued(h) = {c \in Waiting : host[c] = h}
       /\ pending[h] # NoQueue => flying[h] > 0

(* A burst of calls for a cold host costs one lookup: a second one is in     *)
(* flight only when clear() has forgotten the first.                         *)
SingleFlight == \A h \in Hosts : flying[h] <= 1 + clears

(* Callers of one host are called back in the order they asked, across      *)
(* misses, hits and expiries: no datagram overtakes an earlier one.  Nobody *)
(* is called back twice, and those that clear() dropped are never.          *)
AnsweredInOrder ==
  /\ \A m, n \in DOMAIN answered : answered[m] = answered[n] => m = n
  /\ \A c \in CalledBack : state[c] # "dropped"
  /\ \A c, d \in Callers :
       Before(asked, c, d) /\ host[c] = host[d] /\ d \in CalledBack
         => state[c] = "dropped" \/ Before(answered, c, d)
=============================================================================
