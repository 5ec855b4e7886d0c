----------------------------- MODULE DohResolver -----------------------------
(***************************************************************************)
(* The DNS-over-HTTPS resolver, src/node/doh.js, behind the address cache:  *)
(* what server.js wires up when DOH_URL is set.  A lookup tries the         *)
(* endpoint and falls back to the system resolver; after Threshold failures *)
(* in a row a breaker sends lookups straight to the fallback for CoolOff.   *)
(***************************************************************************)
EXTENDS DnsCache

CONSTANTS
  Unencodable, \* hosts encodeQuery refuses: a label longer than 63
  Threshold,   \* opts.failureThreshold
  CoolOff      \* opts.coolOffMs, in ticks

ASSUME DohAssumption ==
  /\ Unencodable \subseteq Hosts
  /\ Threshold \in Nat \ {0} /\ CoolOff \in Nat \ {0}

VARIABLES
  doh,       \* requests to the endpoint in flight, per host
  fallback,  \* lookups of the system resolver in flight, per host
  lost,      \* requests that will never call back, per host
  fails,     \* consecutiveFailures
  openUntil  \* the tick the breaker closes

breakerVars == <<fails, openUntil>>
dohVars == <<doh, fallback, lost, breakerVars>>
vars == <<cacheVars, dohVars>>

Init ==
  /\ CacheInit
  /\ doh = [h \in Hosts |-> 0]
  /\ fallback = [h \in Hosts |-> 0]
  /\ lost = [h \in Hosts |-> 0]
  /\ fails = 0
  /\ openUntil = 0

Open == now < openUntil

-----------------------------------------------------------------------------
(* resolve4(host, cb): one request to the endpoint, or straight to the      *)
(* fallback.                                                                *)
Resolve4(h) ==
  /\ IF Open \/ h \in Unencodable
     THEN fallback' = [fallback EXCEPT ![h] = @ + 1] /\ UNCHANGED doh
     ELSE doh' = [doh EXCEPT ![h] = @ + 1] /\ UNCHANGED fallback
  /\ UNCHANGED <<lost, breakerVars>>

Resolve(c, h) ==
  \/ ResolveHit(c, h) /\ UNCHANGED dohVars
  \/ ResolveJoins(c, h) /\ UNCHANGED dohVars
  \/ ResolveStarts(c, h) /\ Resolve4(h)

(* An answer with an A record closes the count, not an open breaker. *)
DohAnswered(h) ==
  /\ doh[h] > 0
  /\ doh' = [doh EXCEPT ![h] = @ - 1]
  /\ fails' = 0
  /\ Succeed(h)
  /\ UNCHANGED <<fallback, lost, openUntil>>

(* The breaker opens when the count comes to Threshold, and at no later one. *)
NoteFailure ==
  /\ fails' = fails + 1
  /\ openUntil' = IF fails + 1 = Threshold THEN now + CoolOff ELSE openUntil

(* Mutant of FallBack: the failure is reported to nobody. *)
FallBackNever(h) == UNCHANGED fallback

FallBack(h) == fallback' = [fallback EXCEPT ![h] = @ + 1]

(* An error of the request, a timeout, a status other than 200, a message   *)
(* that does not decode, an rcode or no A record at all.                    *)
DohFailed(h) ==
  /\ doh[h] > 0
  /\ doh' = [doh EXCEPT ![h] = @ - 1]
  /\ NoteFailure
  /\ FallBack(h)
  /\ UNCHANGED <<cacheVars, lost>>

(* The connection ends inside the body of the response: the response has no *)
(* listener for that, and finish() is never called.                         *)
DohTruncated(h) ==
  /\ doh[h] > 0
  /\ doh' = [doh EXCEPT ![h] = @ - 1]
  /\ lost' = [lost EXCEPT ![h] = @ + 1]
  /\ UNCHANGED <<cacheVars, fallback, breakerVars>>

(* The system resolver calls back. *)
FallbackReturns(h) ==
  /\ fallback[h] > 0
  /\ fallback' = [fallback EXCEPT ![h] = @ - 1]
  /\ Succeed(h) \/ Fail(h)
  /\ UNCHANGED <<doh, lost, breakerVars>>

Next ==
  \/ \E h \in Hosts :
       \/ \E c \in Callers : Resolve(c, h)
       \/ DohAnswered(h) \/ DohFailed(h) \/ DohTruncated(h)
       \/ FallbackReturns(h)
  \/ Sweep /\ UNCHANGED dohVars
  \/ Clear /\ UNCHANGED dohVars
  \/ Tick /\ UNCHANGED dohVars

Spec == Init /\ [][Next]_vars

(* A request has a timeout, and the system resolver always calls back. *)
FairSpec ==
  /\ Spec
  /\ \A h \in Hosts :
       /\ WF_vars(DohAnswered(h) \/ DohFailed(h) \/ DohTruncated(h))
       /\ WF_vars(FallbackReturns(h))

-----------------------------------------------------------------------------
(* Properties. *)

Promise == INSTANCE NameService

(* Every variable stays in its range, and the lookups the cache waits for   *)
(* are the ones the resolver has in hand.                                   *)
TypeOK ==
  /\ CacheTypeOK
  /\ doh \in [Hosts -> Nat] /\ fallback \in [Hosts -> Nat] /\ lost \in [Hosts -> Nat]
  /\ fails \in Nat /\ openUntil \in Nat
  /\ \A h \in Hosts : flying[h] = doh[h] + fallback[h] + lost[h]

(* The cache and the resolver behind it keep the promise of NameService. *)
KeepsPromise == Promise!Spec

(* Whatever the endpoint does, a caller is called back in the end, with an  *)
(* address or an error, unless a response for its host was cut off.         *)
EveryoneIsCalledBack ==
  \A c \in Callers :
    state[c] = "waiting" ~> state[c] # "waiting" \/ lost[host[c]] > 0

(* After Threshold consecutive failures the breaker stops calling out, so   *)
(* that an outage does not cost a timeout per lookup.                       *)
OutageStopsCallingOut ==
  [][fails' > fails /\ fails' >= Threshold => now' < openUntil']_vars
=============================================================================
