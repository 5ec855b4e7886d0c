--------------------------- MODULE DohResolverProofs ---------------------------
(* Theorems about the address cache over the DoH resolver, for any hosts,    *)
(* callers and bounds: whoever waits is owed an answer, and the two together *)
(* implement NameService.                                                    *)
EXTENDS DohResolver, TLAPS

(***************************************************************************)
(* Queues as sets.                                                         *)
(***************************************************************************)

LEMMA AppendElements ==
  ASSUME NEW s \in Seq(Callers), NEW c \in Callers
  PROVE  /\ Append(s, c) \in Seq(Callers) /\ Append(s, c) # <<>>
         /\ {Append(s, c)[n] : n \in DOMAIN Append(s, c)} = {s[n] : n \in DOMAIN s} \cup {c}
<1> DEFINE t == Append(s, c)
<1>1. /\ t \in Seq(Callers) /\ Len(t) = Len(s) + 1 /\ Len(s) \in Nat
      /\ DOMAIN s = 1..Len(s) /\ DOMAIN t = 1..(Len(s) + 1)
      /\ \A n \in 1..Len(s) : t[n] = s[n]
      /\ t[Len(s) + 1] = c
  OBVIOUS
<1> HIDE DEF t
<1>2. {t[n] : n \in DOMAIN t} = {s[n] : n \in DOMAIN s} \cup {c}
  <2>1. 1..(Len(s) + 1) = (1..Len(s)) \cup {Len(s) + 1}
    BY <1>1
  <2> QED BY <1>1, <2>1
<1>3. t # <<>>
  BY <1>1
<1> QED BY <1>1, <1>2, <1>3 DEF t

LEMMA NewQueue ==
  ASSUME NEW c \in Callers
  PROVE  /\ <<c>> \in Seq(Callers) /\ <<c>> # <<>>
         /\ {<<c>>[n] : n \in DOMAIN <<c>>} = {c}
OBVIOUS

LEMMA NoElements == {<<>>[n] : n \in DOMAIN <<>>} = {}
OBVIOUS

(***************************************************************************)
(* Type correctness.                                                       *)
(***************************************************************************)

LEMMA InitType == Init => TypeOK
<1> SUFFICES ASSUME Init PROVE TypeOK
  OBVIOUS
<1>1. <<>> \in Seq(Callers)
  OBVIOUS
<1>2. CacheTypeOK
  BY <1>1, DnsAssumption DEF Init, CacheInit, CacheTypeOK, NoQueue, NoEntry
<1> QED BY <1>2 DEF TypeOK, Init, CacheInit

LEMMA ResolveType ==
  ASSUME TypeOK, NEW c \in Callers, NEW h \in Hosts, Resolve(c, h)
  PROVE  TypeOK'
<1>1. Asks(c, h) => host' \in [Callers -> Hosts \cup {None}] /\ asked' \in Seq(Callers)
  BY DEF Asks, TypeOK, CacheTypeOK
<1>2. CASE ResolveHit(c, h) /\ UNCHANGED dohVars
  <2>1. answered' \in Seq(Callers) /\ stamp' \in [Callers -> Nat]
    BY <1>2 DEF ResolveHit, TypeOK, CacheTypeOK
  <2> QED BY <1>1, <1>2, <2>1
          DEF ResolveHit, TypeOK, CacheTypeOK, mapVars, dohVars, breakerVars
<1>3. CASE ResolveJoins(c, h) /\ UNCHANGED dohVars
  <2>1. Append(pending[h], c) \in Seq(Callers)
    BY AppendElements DEF TypeOK, CacheTypeOK
  <2>2. pending' \in [Hosts -> Seq(Callers)]
    BY <1>3, <2>1 DEF ResolveJoins, TypeOK, CacheTypeOK
  <2> QED BY <1>1, <1>3, <2>2 DEF ResolveJoins, TypeOK, CacheTypeOK, dohVars, breakerVars
<1>4. CASE ResolveStarts(c, h) /\ Resolve4(h)
  <2>1. pending' \in [Hosts -> Seq(Callers)]
    BY <1>4, NewQueue DEF ResolveStarts, TypeOK, CacheTypeOK
  <2>2. /\ flying' \in [Hosts -> Nat] /\ flying'[h] = flying[h] + 1
        /\ \A g \in Hosts : g # h => flying'[g] = flying[g]
    BY <1>4 DEF ResolveStarts, TypeOK, CacheTypeOK
  <2>3. /\ doh' \in [Hosts -> Nat] /\ fallback' \in [Hosts -> Nat]
        /\ doh'[h] + fallback'[h] = doh[h] + fallback[h] + 1
        /\ \A g \in Hosts : g # h => doh'[g] = doh[g] /\ fallback'[g] = fallback[g]
    BY <1>4 DEF Resolve4, TypeOK
  <2>4. \A g \in Hosts : flying'[g] = doh'[g] + fallback'[g] + lost[g]
    <3> SUFFICES ASSUME NEW g \in Hosts PROVE flying'[g] = doh'[g] + fallback'[g] + lost[g]
      OBVIOUS
    <3>1. /\ flying[g] = doh[g] + fallback[g] + lost[g]
          /\ doh[g] \in Nat /\ fallback[g] \in Nat /\ lost[g] \in Nat
          /\ doh'[g] \in Nat /\ fallback'[g] \in Nat
      BY <2>3 DEF TypeOK
    <3>2. CASE g = h
      BY <2>2, <2>3, <3>1, <3>2
    <3>3. CASE g # h
      BY <2>2, <2>3, <3>1, <3>3
    <3> QED BY <3>2, <3>3
  <2>5. CacheTypeOK'
    BY <1>1, <1>4, <2>1, <2>2 DEF ResolveStarts, TypeOK, CacheTypeOK
  <2> QED BY <1>4, <2>3, <2>4, <2>5 DEF Resolve4, TypeOK, breakerVars
<1> QED BY <1>2, <1>3, <1>4 DEF Resolve

(* Callbacks of the resolver take the queue of their host. *)
LEMMA TakeQueueType ==
  ASSUME TypeOK, NEW h \in Hosts, TakeQueue(h)
  PROVE  pending' \in [Hosts -> Seq(Callers)] /\ answered' \in Seq(Callers)
<1>1. <<>> \in Seq(Callers)
  OBVIOUS
<1>2. answered \in Seq(Callers) /\ pending[h] \in Seq(Callers)
  BY DEF TypeOK, CacheTypeOK
<1>3. answered \o pending[h] \in Seq(Callers)
  BY <1>2
<1>4. pending' = [pending EXCEPT ![h] = <<>>] /\ answered' = answered \o pending[h]
  BY DEF TakeQueue, NoQueue
<1> QED BY <1>1, <1>3, <1>4 DEF TypeOK, CacheTypeOK

LEMMA AnswerType ==
  ASSUME TypeOK, NEW h \in Hosts, Succeed(h) \/ Fail(h)
  PROVE  /\ CacheTypeOK'
         /\ flying'[h] = flying[h] - 1
         /\ \A g \in Hosts : g # h => flying'[g] = flying[g]
<1>1. flying' = [flying EXCEPT ![h] = @ - 1] /\ flying[h] > 0 /\ TakeQueue(h)
  BY DEF Succeed, Fail
<1>2. /\ flying' \in [Hosts -> Nat] /\ flying'[h] = flying[h] - 1
      /\ \A g \in Hosts : g # h => flying'[g] = flying[g]
  BY <1>1 DEF TypeOK, CacheTypeOK
<1>3. pending' \in [Hosts -> Seq(Callers)] /\ answered' \in Seq(Callers)
  BY <1>1, TakeQueueType
<1>4. now \in Nat /\ Second \in Nat /\ Second + Ttl \in Nat
  <2>1. now \in Nat /\ SecondTicks \in Nat \ {0} /\ Ttl \in Nat
    BY DnsAssumption DEF TypeOK, CacheTypeOK
  <2>2. now \div SecondTicks \in Nat
    BY <2>1, SMT
  <2> QED BY <2>1, <2>2 DEF Second
<1>5. CASE Succeed(h)
  <2>1. /\ state' \in [Callers -> {"idle", "waiting", "resolved", "failed", "system", "dropped"}]
        /\ stamp' \in [Callers -> Nat]
    BY <1>4, <1>5 DEF Succeed, TypeOK, CacheTypeOK
  <2>2. cache' \in [Hosts -> [at : Nat, expires : Nat]] /\ said' \in [Hosts -> Nat \cup {None}]
    BY <1>4, <1>5 DEF Succeed, TypeOK, CacheTypeOK
  <2> QED BY <1>2, <1>3, <1>5, <2>1, <2>2 DEF Succeed, TypeOK, CacheTypeOK
<1>6. CASE Fail(h)
  <2>1. state' \in [Callers -> {"idle", "waiting", "resolved", "failed", "system", "dropped"}]
    BY <1>6 DEF Fail, TypeOK, CacheTypeOK
  <2> QED BY <1>2, <1>3, <1>6, <2>1 DEF Fail, TypeOK, CacheTypeOK
<1> QED BY <1>2, <1>5, <1>6

LEMMA ResolverStepType ==
  ASSUME TypeOK, NEW h \in Hosts,
         DohAnswered(h) \/ DohFailed(h) \/ DohTruncated(h) \/ FallbackReturns(h)
  PROVE  TypeOK'
<1>1. \A g \in Hosts : /\ flying[g] = doh[g] + fallback[g] + lost[g]
                       /\ doh[g] \in Nat /\ fallback[g] \in Nat /\ lost[g] \in Nat
  BY DEF TypeOK
<1>2. CASE DohAnswered(h)
  <2>1. Succeed(h) /\ doh' = [doh EXCEPT ![h] = @ - 1] /\ doh[h] > 0
        /\ UNCHANGED <<fallback, lost, openUntil>> /\ fails' = 0
    BY <1>2 DEF DohAnswered
  <2>2. /\ doh' \in [Hosts -> Nat] /\ doh'[h] = doh[h] - 1
        /\ \A g \in Hosts : g # h => doh'[g] = doh[g]
    BY <2>1 DEF TypeOK
  <2>3. \A g \in Hosts : flying'[g] = doh'[g] + fallback'[g] + lost'[g]
    BY <1>1, <2>1, <2>2, AnswerType
  <2> QED BY <2>1, <2>2, <2>3, AnswerType DEF TypeOK
<1>3. CASE FallbackReturns(h)
  <2>1. (Succeed(h) \/ Fail(h)) /\ fallback' = [fallback EXCEPT ![h] = @ - 1]
        /\ fallback[h] > 0 /\ UNCHANGED <<doh, lost, fails, openUntil>>
    BY <1>3 DEF FallbackReturns, breakerVars
  <2>2. /\ fallback' \in [Hosts -> Nat] /\ fallback'[h] = fallback[h] - 1
        /\ \A g \in Hosts : g # h => fallback'[g] = fallback[g]
    BY <2>1 DEF TypeOK
  <2>3. \A g \in Hosts : flying'[g] = doh'[g] + fallback'[g] + lost'[g]
    BY <1>1, <2>1, <2>2, AnswerType
  <2> QED BY <2>1, <2>2, <2>3, AnswerType DEF TypeOK
<1>4. UNCHANGED cacheVars => CacheTypeOK' /\ flying' = flying
  BY DEF TypeOK, CacheTypeOK, cacheVars, mapVars, callerVars
<1>5. CASE DohFailed(h)
  <2>1. /\ UNCHANGED <<cacheVars, lost>> /\ doh[h] > 0
        /\ doh' = [doh EXCEPT ![h] = @ - 1] /\ fallback' = [fallback EXCEPT ![h] = @ + 1]
    BY <1>5 DEF DohFailed, FallBack
  <2>2. /\ doh' \in [Hosts -> Nat] /\ fallback' \in [Hosts -> Nat]
        /\ doh'[h] = doh[h] - 1 /\ fallback'[h] = fallback[h] + 1
        /\ \A g \in Hosts : g # h => doh'[g] = doh[g] /\ fallback'[g] = fallback[g]
    BY <2>1 DEF TypeOK
  <2>3. fails' \in Nat /\ openUntil' \in Nat
    BY <1>5, DohAssumption DEF DohFailed, NoteFailure, TypeOK, CacheTypeOK
  <2>4. ASSUME NEW g \in Hosts PROVE flying'[g] = doh'[g] + fallback'[g] + lost'[g]
    <3>1. flying'[g] = flying[g] /\ lost'[g] = lost[g]
      BY <1>4, <2>1
    <3>2. CASE g = h
      <4>1. /\ flying[h] = doh[h] + fallback[h] + lost[h]
            /\ doh[h] \in Nat /\ fallback[h] \in Nat /\ lost[h] \in Nat
        BY <1>1
      <4>2. flying'[h] = doh'[h] + fallback'[h] + lost'[h]
        BY <2>2, <3>1, <3>2, <4>1
      <4> QED BY <3>2, <4>2
    <3>3. CASE g # h
      BY <1>1, <2>2, <3>1, <3>3
    <3> QED BY <3>2, <3>3
  <2> QED BY <1>4, <2>1, <2>2, <2>3, <2>4 DEF TypeOK
<1>6. CASE DohTruncated(h)
  <2>1. /\ UNCHANGED <<cacheVars, fallback, fails, openUntil>> /\ doh[h] > 0
        /\ doh' = [doh EXCEPT ![h] = @ - 1] /\ lost' = [lost EXCEPT ![h] = @ + 1]
    BY <1>6 DEF DohTruncated, breakerVars
  <2>2. /\ doh' \in [Hosts -> Nat] /\ lost' \in [Hosts -> Nat]
        /\ doh'[h] = doh[h] - 1 /\ lost'[h] = lost[h] + 1
        /\ \A g \in Hosts : g # h => doh'[g] = doh[g] /\ lost'[g] = lost[g]
    BY <2>1 DEF TypeOK
  <2>3. ASSUME NEW g \in Hosts PROVE flying'[g] = doh'[g] + fallback'[g] + lost'[g]
    <3>1. flying'[g] = flying[g] /\ fallback'[g] = fallback[g]
      BY <1>4, <2>1
    <3>2. CASE g = h
      <4>1. /\ flying[h] = doh[h] + fallback[h] + lost[h]
            /\ doh[h] \in Nat /\ fallback[h] \in Nat /\ lost[h] \in Nat
        BY <1>1
      <4>2. flying'[h] = doh'[h] + fallback'[h] + lost'[h]
        BY <2>2, <3>1, <3>2, <4>1
      <4> QED BY <3>2, <4>2
    <3>3. CASE g # h
      BY <1>1, <2>2, <3>1, <3>3
    <3> QED BY <3>2, <3>3
  <2> QED BY <1>4, <2>1, <2>2, <2>3 DEF TypeOK
<1> QED BY <1>2, <1>3, <1>5, <1>6

LEMMA CacheStepType ==
  ASSUME TypeOK, UNCHANGED dohVars, Sweep \/ Clear \/ Tick
  PROVE  TypeOK'
<1>1. flying' = flying
  BY DEF Sweep, Clear, Tick
<1>2. NoEntry \in [at : Nat, expires : Nat] /\ NoQueue \in Seq(Callers)
  BY DEF NoEntry, NoQueue
<1>3. CASE Sweep
  <2>1. cache' \in [Hosts -> [at : Nat, expires : Nat]]
    BY <1>2, <1>3 DEF Sweep, TypeOK, CacheTypeOK
  <2> QED BY <1>1, <1>3, <2>1 DEF Sweep, TypeOK, CacheTypeOK, callerVars, dohVars, breakerVars
<1>4. CASE Clear
  <2>1. /\ cache' \in [Hosts -> [at : Nat, expires : Nat]]
        /\ pending' \in [Hosts -> Seq(Callers)]
        /\ clears' \in 0..MaxClears
    BY <1>2, <1>4, DnsAssumption DEF Clear, TypeOK, CacheTypeOK
  <2>2. state' \in [Callers -> {"idle", "waiting", "resolved", "failed", "system", "dropped"}]
    BY <1>4 DEF Clear, TypeOK, CacheTypeOK
  <2> QED BY <1>1, <1>4, <2>1, <2>2 DEF Clear, TypeOK, CacheTypeOK, dohVars, breakerVars
<1>5. CASE Tick
  <2>1. now' \in 0..MaxTime
    BY <1>5, DnsAssumption DEF Tick, TypeOK, CacheTypeOK
  <2> QED BY <1>5, <2>1 DEF Tick, TypeOK, CacheTypeOK, mapVars, callerVars, dohVars, breakerVars
<1> QED BY <1>3, <1>4, <1>5

LEMMA NextType == TypeOK /\ [Next]_vars => TypeOK'
<1> SUFFICES ASSUME TypeOK, [Next]_vars PROVE TypeOK'
  OBVIOUS
<1>1. CASE UNCHANGED vars
  BY <1>1 DEF TypeOK, CacheTypeOK, vars, cacheVars, mapVars, callerVars, dohVars, breakerVars
<1>2. ASSUME NEW h \in Hosts, NEW c \in Callers, Resolve(c, h) PROVE TypeOK'
  BY <1>2, ResolveType
<1>3. ASSUME NEW h \in Hosts,
             DohAnswered(h) \/ DohFailed(h) \/ DohTruncated(h) \/ FallbackReturns(h)
      PROVE  TypeOK'
  BY <1>3, ResolverStepType
<1>4. CASE (Sweep \/ Clear \/ Tick) /\ UNCHANGED dohVars
  BY <1>4, CacheStepType
<1> QED BY <1>1, <1>2, <1>3, <1>4 DEF Next

(* The variables stay in their ranges, and every lookup the cache waits for *)
(* is a request, a fallback or a truncated answer of the resolver.          *)
THEOREM TypeCorrect == Spec => []TypeOK
BY InitType, NextType, PTL DEF Spec

(***************************************************************************)
(* Whoever waits is owed an answer.                                        *)
(***************************************************************************)

LEMMA InitOwed == Init => WaitersAreOwed
BY NoElements DEF Init, CacheInit, WaitersAreOwed, Queued, Waiting, NoQueue

LEMMA ResolveOwed ==
  ASSUME TypeOK, WaitersAreOwed, NEW c \in Callers, NEW h \in Hosts, Resolve(c, h)
  PROVE  WaitersAreOwed'
<1>1. /\ state[c] = "idle" /\ host' = [host EXCEPT ![c] = h]
      /\ \A g \in Hosts : Queued(g) = {x \in Waiting : host[x] = g}
      /\ \A g \in Hosts : pending[g] # NoQueue => flying[g] > 0
  BY DEF Resolve, ResolveHit, ResolveJoins, ResolveStarts, Asks, WaitersAreOwed
<1>2. /\ host'[c] = h /\ c \notin Waiting
      /\ \A x \in Callers : x # c => host'[x] = host[x]
  BY <1>1 DEF TypeOK, CacheTypeOK, Waiting
<1>3. CASE ResolveHit(c, h)
  <2>1. UNCHANGED <<pending, flying>> /\ state' = [state EXCEPT ![c] = "resolved"]
    BY <1>3 DEF ResolveHit, mapVars
  <2>2. Waiting' = Waiting
    BY <1>1, <2>1 DEF Waiting, TypeOK, CacheTypeOK
  <2>3. \A g \in Hosts : {x \in Waiting : host'[x] = g} = {x \in Waiting : host[x] = g}
    BY <1>2 DEF Waiting
  <2> QED BY <1>1, <2>1, <2>2, <2>3 DEF WaitersAreOwed, Queued
<1>4. CASE ResolveJoins(c, h) \/ ResolveStarts(c, h)
  <2>1. /\ state' = [state EXCEPT ![c] = "waiting"]
        /\ \A g \in Hosts : g # h => pending'[g] = pending[g]
    BY <1>4 DEF ResolveJoins, ResolveStarts, TypeOK, CacheTypeOK
  <2>2. Waiting' = Waiting \cup {c}
    BY <2>1 DEF Waiting, TypeOK, CacheTypeOK
  <2>3. \A g \in Hosts : {x \in Waiting' : host'[x] = g}
          = IF g = h THEN {x \in Waiting : host[x] = g} \cup {c}
            ELSE {x \in Waiting : host[x] = g}
    BY <1>2, <2>2 DEF Waiting
  <2>4. {pending'[h][n] : n \in DOMAIN pending'[h]} = Queued(h) \cup {c}
    <3>1. pending[h] \in Seq(Callers)
      BY DEF TypeOK, CacheTypeOK
    <3>2. CASE ResolveJoins(c, h)
      <4>1. pending'[h] = Append(pending[h], c)
        BY <3>2 DEF ResolveJoins, TypeOK, CacheTypeOK
      <4> QED BY <3>1, <4>1, AppendElements DEF Queued
    <3>3. CASE ResolveStarts(c, h)
      <4>1. pending'[h] = <<c>> /\ pending[h] = <<>>
        BY <3>3 DEF ResolveStarts, TypeOK, CacheTypeOK, NoQueue
      <4> QED BY <4>1, NewQueue, NoElements DEF Queued
    <3> QED BY <1>4, <3>2, <3>3
  <2>5. ASSUME NEW g \in Hosts
        PROVE  {pending'[g][n] : n \in DOMAIN pending'[g]} = {x \in Waiting' : host'[x] = g}
    <3>1. Queued(g) = {x \in Waiting : host[x] = g}
      BY <1>1
    <3>2. CASE g = h
      BY <2>3, <2>4, <3>1, <3>2
    <3>3. CASE g # h
      <4>1. {pending'[g][n] : n \in DOMAIN pending'[g]} = Queued(g)
        BY <2>1, <3>3 DEF Queued
      <4> QED BY <2>3, <3>1, <3>3, <4>1
    <3> QED BY <3>2, <3>3
  <2>6. \A g \in Hosts : pending'[g] # NoQueue => flying'[g] > 0
    <3>1. CASE ResolveJoins(c, h)
      BY <1>1, <2>1, <3>1 DEF ResolveJoins
    <3>2. CASE ResolveStarts(c, h)
      <4>1. /\ flying[h] \in Nat /\ flying'[h] = flying[h] + 1
            /\ \A g \in Hosts : g # h => flying'[g] = flying[g]
        BY <3>2 DEF ResolveStarts, TypeOK, CacheTypeOK
      <4>2. flying'[h] > 0
        BY <4>1
      <4> QED BY <1>1, <2>1, <4>1, <4>2
    <3> QED BY <1>4, <3>1, <3>2
  <2> QED BY <2>5, <2>6 DEF WaitersAreOwed, Queued
<1> QED BY <1>3, <1>4 DEF Resolve

LEMMA AnswerOwed ==
  ASSUME TypeOK, WaitersAreOwed, NEW h \in Hosts, Succeed(h) \/ Fail(h)
  PROVE  WaitersAreOwed'
<1>1. /\ \A g \in Hosts : Queued(g) = {x \in Waiting : host[x] = g}
      /\ \A g \in Hosts : pending[g] # NoQueue => flying[g] > 0
  BY DEF WaitersAreOwed
<1>2. /\ host' = host /\ pending' = [pending EXCEPT ![h] = NoQueue]
      /\ flying' = [flying EXCEPT ![h] = @ - 1]
  BY DEF Succeed, Fail, TakeQueue
<1>3. Waiting' = Waiting \ Queued(h)
  BY DEF Succeed, Fail, Waiting, TypeOK, CacheTypeOK
<1>4. pending'[h] = <<>>
      /\ \A g \in Hosts : g # h => pending'[g] = pending[g] /\ flying'[g] = flying[g]
  BY <1>2 DEF TypeOK, CacheTypeOK, NoQueue
<1>5. \A g \in Hosts : {x \in Waiting' : host'[x] = g}
                         = IF g = h THEN {} ELSE {x \in Waiting : host[x] = g}
  BY <1>1, <1>2, <1>3
<1>6. \A g \in Hosts : {pending'[g][n] : n \in DOMAIN pending'[g]}
                         = {x \in Waiting' : host'[x] = g}
  BY <1>1, <1>4, <1>5, NoElements DEF Queued
<1>7. \A g \in Hosts : pending'[g] # NoQueue => flying'[g] > 0
  BY <1>1, <1>4 DEF NoQueue
<1> QED BY <1>6, <1>7 DEF WaitersAreOwed, Queued

LEMMA NextOwed == TypeOK /\ WaitersAreOwed /\ [Next]_vars => WaitersAreOwed'
<1> SUFFICES ASSUME TypeOK, WaitersAreOwed, [Next]_vars PROVE WaitersAreOwed'
  OBVIOUS
<1>1. ASSUME UNCHANGED <<pending, flying, state, host>> PROVE WaitersAreOwed'
  BY <1>1 DEF WaitersAreOwed, Queued, Waiting
<1>2. ASSUME NEW h \in Hosts, NEW c \in Callers, Resolve(c, h) PROVE WaitersAreOwed'
  BY <1>2, ResolveOwed
<1>3. ASSUME NEW h \in Hosts, DohAnswered(h) \/ FallbackReturns(h) PROVE WaitersAreOwed'
  BY <1>3, AnswerOwed DEF DohAnswered, FallbackReturns
<1>4. ASSUME \/ UNCHANGED vars
             \/ \E h \in Hosts : DohFailed(h) \/ DohTruncated(h)
             \/ Sweep \/ Tick
      PROVE  WaitersAreOwed'
  BY <1>1, <1>4 DEF vars, cacheVars, mapVars, callerVars, DohFailed, DohTruncated, Sweep, Tick
<1>5. CASE Clear
  <2>1. Waiting' = {} /\ \A g \in Hosts : pending'[g] = <<>>
    BY <1>5 DEF Clear, Waiting, NoQueue, TypeOK, CacheTypeOK
  <2> QED BY <2>1, NoElements DEF WaitersAreOwed, Queued, NoQueue
<1> QED BY <1>2, <1>3, <1>4, <1>5 DEF Next

(* A caller that waits is in the queue of its host and of no other, and a    *)
(* lookup that will flush the queue is in flight, also after clear().        *)
THEOREM WaitersOwed == Spec => []WaitersAreOwed
<1>1. Init => TypeOK /\ WaitersAreOwed
  BY InitType, InitOwed
<1>2. TypeOK /\ WaitersAreOwed /\ [Next]_vars => (TypeOK /\ WaitersAreOwed)'
  BY NextType, NextOwed
<1> QED BY <1>1, <1>2, PTL DEF Spec

(***************************************************************************)
(* The cache over the resolver implements NameService.  That an answer from *)
(* the cache is fresh rests on what an entry is: the last address of its    *)
(* host, with a lifetime counted from the second it was learned.            *)
(***************************************************************************)

CacheIsSaid ==
  \A h \in Hosts : cache[h] # NoEntry =>
    cache[h].at = said[h] /\ cache[h].expires = (cache[h].at \div SecondTicks) + Ttl

LEMMA InitSaid == Init => CacheIsSaid
BY DEF Init, CacheInit, CacheIsSaid

LEMMA SucceedEffect ==
  ASSUME TypeOK, NEW h \in Hosts, Succeed(h)
  PROVE  /\ cache'[h] = [at |-> now, expires |-> Second + Ttl] /\ said'[h] = now
         /\ \A g \in Hosts : g # h => cache'[g] = cache[g] /\ said'[g] = said[g]
BY DEF Succeed, TypeOK, CacheTypeOK

LEMMA NextSaid == TypeOK /\ CacheIsSaid /\ [Next]_vars => CacheIsSaid'
<1> SUFFICES ASSUME TypeOK, CacheIsSaid, [Next]_vars PROVE CacheIsSaid'
  OBVIOUS
<1>1. ASSUME UNCHANGED <<cache, said>> PROVE CacheIsSaid'
  BY <1>1 DEF CacheIsSaid
<1>2. ASSUME NEW h \in Hosts, Succeed(h) PROVE CacheIsSaid'
  <2>1. cache'[h].at = said'[h] /\ cache'[h].expires = (cache'[h].at \div SecondTicks) + Ttl
    BY <1>2, SucceedEffect DEF Second
  <2> QED BY <1>2, <2>1, SucceedEffect DEF CacheIsSaid
<1>3. ASSUME NEW h \in Hosts, Fail(h) PROVE CacheIsSaid'
  BY <1>1, <1>3 DEF Fail
<1>4. ASSUME NEW h \in Hosts, NEW c \in Callers, Resolve(c, h) PROVE CacheIsSaid'
  BY <1>1, <1>4 DEF Resolve, ResolveHit, ResolveJoins, ResolveStarts, mapVars
<1>5. ASSUME \/ UNCHANGED vars \/ Tick
             \/ \E h \in Hosts : DohFailed(h) \/ DohTruncated(h)
      PROVE  CacheIsSaid'
  BY <1>1, <1>5 DEF vars, cacheVars, mapVars, DohFailed, DohTruncated, Tick
<1>6. CASE Sweep \/ Clear
  <2>1. said' = said /\ \A h \in Hosts : cache'[h] \in {cache[h], NoEntry}
    BY <1>6 DEF Sweep, Clear
  <2> QED BY <2>1 DEF CacheIsSaid
<1> QED BY <1>2, <1>3, <1>4, <1>5, <1>6 DEF Next, DohAnswered, FallbackReturns

(* What is served from the cache is the last address, younger than Ttl. *)
LEMMA HitIsFresh ==
  ASSUME TypeOK, CacheIsSaid, NEW h \in Hosts, Hit(h)
  PROVE  /\ said[h] # None /\ said[h] = cache[h].at
         /\ Promise!Seconds(now) - Promise!Seconds(said[h]) < Ttl
<1>1. /\ cache[h].at = said[h] /\ cache[h].at \in Nat
      /\ cache[h].expires = (cache[h].at \div SecondTicks) + Ttl
      /\ now \div SecondTicks < cache[h].expires
  BY DEF Hit, CacheIsSaid, TypeOK, CacheTypeOK, Second
<1>2. now \in Nat /\ SecondTicks \in Nat \ {0} /\ Ttl \in Nat
  BY DnsAssumption DEF TypeOK, CacheTypeOK
<1>3. now \div SecondTicks \in Int /\ cache[h].at \div SecondTicks \in Int
  BY <1>1, <1>2
<1>4. (now \div SecondTicks) - (cache[h].at \div SecondTicks) < Ttl
  BY <1>1, <1>2, <1>3
<1> QED BY <1>1, <1>4, DnsAssumption DEF Promise!Seconds

LEMMA InitRefines == Init => Promise!Init
BY DEF Init, CacheInit, Promise!Init

LEMMA ResolveRefines ==
  ASSUME TypeOK, CacheIsSaid, NEW c \in Callers, NEW h \in Hosts, Resolve(c, h)
  PROVE  Promise!Wait(c, h) \/ Promise!ReplyAtOnce(c, h)
<1>1. state[c] = "idle" /\ host' = [host EXCEPT ![c] = h] /\ now' = now /\ said' = said
  BY DEF Resolve, ResolveHit, ResolveJoins, ResolveStarts, Asks
<1>2. CASE ResolveHit(c, h)
  <2>1. /\ said[h] # None /\ said[h] = cache[h].at
        /\ Promise!Seconds(now) - Promise!Seconds(said[h]) < Ttl
    BY <1>2, HitIsFresh DEF ResolveHit
  <2>2. /\ state' = [x \in Callers |-> IF x \in {c} THEN "resolved" ELSE state[x]]
        /\ stamp' = [x \in Callers |-> IF x \in {c} THEN said[h] ELSE stamp[x]]
    BY <1>2, <2>1 DEF ResolveHit, TypeOK, CacheTypeOK
  <2>3. Promise!Reply({c}, h)
    BY <1>1, <2>1, <2>2 DEF Promise!Reply
  <2> QED BY <1>1, <2>3 DEF Promise!ReplyAtOnce
<1>3. CASE ResolveJoins(c, h) \/ ResolveStarts(c, h)
  BY <1>1, <1>3 DEF ResolveJoins, ResolveStarts, Promise!Wait
<1> QED BY <1>2, <1>3 DEF Resolve

LEMMA AnswerRefines ==
  ASSUME TypeOK, WaitersAreOwed, NEW h \in Hosts
  PROVE  /\ Succeed(h) => Promise!Resolved(h)
         /\ Fail(h) => Promise!Unresolved(h)
<1>1. Queued(h) = Promise!Waiting(h)
  BY DEF WaitersAreOwed, Waiting, Promise!Waiting
<1>2. ASSUME Succeed(h) PROVE Promise!Resolved(h)
  <2>1. said'[h] = now /\ said' = [said EXCEPT ![h] = now] /\ now' = now /\ host' = host
    BY <1>2, SucceedEffect DEF Succeed
  <2>2. said'[h] # None /\ Promise!Seconds(now) - Promise!Seconds(said'[h]) < Ttl
    <3>1. now \in Nat /\ SecondTicks \in Nat \ {0} /\ Ttl \in Nat \ {0}
      BY DnsAssumption DEF TypeOK, CacheTypeOK
    <3>2. now \div SecondTicks \in Int
      BY <3>1
    <3>3. (now \div SecondTicks) - (now \div SecondTicks) < Ttl
      BY <3>1, <3>2
    <3> QED BY <2>1, <3>1, <3>3, DnsAssumption DEF Promise!Seconds
  <2>3. Promise!Reply(Promise!Waiting(h), h)
    BY <1>1, <1>2, <2>1, <2>2 DEF Succeed, Promise!Reply
  <2> QED BY <2>1, <2>3 DEF Promise!Resolved
<1>3. ASSUME Fail(h) PROVE Promise!Unresolved(h)
  <2>1. UNCHANGED <<now, host, stamp, said>>
    BY <1>3 DEF Fail
  <2>2. \A c \in Callers : IF c \in Promise!Waiting(h) THEN state'[c] \in {"failed", "system"}
                                                     ELSE state'[c] = state[c]
    BY <1>1, <1>3 DEF Fail
  <2> QED BY <2>1, <2>2 DEF Promise!Unresolved
<1> QED BY <1>2, <1>3

LEMMA NextRefines ==
  TypeOK /\ WaitersAreOwed /\ CacheIsSaid /\ [Next]_vars => [Promise!Next]_Promise!vars
<1> SUFFICES ASSUME TypeOK, WaitersAreOwed, CacheIsSaid, [Next]_vars
             PROVE  [Promise!Next]_Promise!vars
  OBVIOUS
<1>1. ASSUME NEW h \in Hosts, NEW c \in Callers, Resolve(c, h) PROVE Promise!Next
  BY <1>1, ResolveRefines DEF Promise!Next
<1>2. ASSUME NEW h \in Hosts, DohAnswered(h) \/ FallbackReturns(h) PROVE Promise!Next
  BY <1>2, AnswerRefines DEF DohAnswered, FallbackReturns, Promise!Next
<1>3. ASSUME UNCHANGED vars \/ Sweep \/ \E h \in Hosts : DohFailed(h) \/ DohTruncated(h)
      PROVE  UNCHANGED Promise!vars
  BY <1>3 DEF vars, cacheVars, callerVars, Sweep, DohFailed, DohTruncated, Promise!vars
<1>4. CASE Clear
  BY <1>4 DEF Clear, Promise!Next, Promise!Forget
<1>5. CASE Tick
  BY <1>5 DEF Tick, callerVars, Promise!Next, Promise!Tick
<1> QED BY <1>1, <1>2, <1>3, <1>4, <1>5 DEF Next

(* Every behaviour of the cache over the resolver is one NameService allows: *)
(* an address that is given is the last one learned and younger than Ttl,    *)
(* and those who wait for a host are called back together.                   *)
THEOREM Refinement == Spec => KeepsPromise
<1>1. Init => TypeOK /\ WaitersAreOwed /\ CacheIsSaid
  BY InitType, InitOwed, InitSaid
<1>2. TypeOK /\ WaitersAreOwed /\ CacheIsSaid /\ [Next]_vars
      => (TypeOK /\ WaitersAreOwed /\ CacheIsSaid)'
  BY NextType, NextOwed, NextSaid
<1> QED BY <1>1, <1>2, InitRefines, NextRefines, PTL DEF Spec, KeepsPromise, Promise!Spec

(***************************************************************************)
(* One lookup for a burst.  Inductive: SingleFlight does not say that the    *)
(* lookups of a host nobody waits for are the ones that clear() orphaned.    *)
(***************************************************************************)

Owed(h) == IF pending[h] = NoQueue THEN 0 ELSE 1

Flights == \A h \in Hosts : flying[h] <= clears + Owed(h)

LEMMA FlightsImply == TypeOK /\ Flights => SingleFlight
<1> SUFFICES ASSUME TypeOK, Flights, NEW h \in Hosts PROVE flying[h] <= 1 + clears
  BY DEF SingleFlight
<1>1. flying[h] \in Nat /\ clears \in Nat /\ Owed(h) \in {0, 1}
  BY DnsAssumption DEF TypeOK, CacheTypeOK, Owed
<1> QED BY <1>1 DEF Flights

LEMMA NextFlights == TypeOK /\ Flights /\ [Next]_vars => Flights'
<1> SUFFICES ASSUME TypeOK, Flights, [Next]_vars, NEW g \in Hosts
             PROVE  flying'[g] <= clears' + Owed(g)'
  BY DEF Flights
<1>1. /\ flying[g] \in Nat /\ clears \in Nat /\ Owed(g) \in {0, 1}
      /\ flying[g] <= clears + Owed(g)
  BY DnsAssumption DEF TypeOK, CacheTypeOK, Owed, Flights
<1>2. ASSUME UNCHANGED <<pending, flying, clears>> PROVE flying'[g] <= clears' + Owed(g)'
  BY <1>1, <1>2 DEF Owed
<1>3. ASSUME NEW h \in Hosts, NEW c \in Callers, Resolve(c, h)
      PROVE  flying'[g] <= clears' + Owed(g)'
  <2>1. CASE ResolveHit(c, h)
    BY <1>2, <2>1 DEF ResolveHit, mapVars
  <2>2. CASE ResolveJoins(c, h)
    <3>1. clears' = clears /\ flying' = flying
      BY <2>2 DEF ResolveJoins
    <3>2. Owed(g)' = Owed(g)
      <4>1. CASE g = h
        <5>1. pending[h] # NoQueue /\ pending'[h] # NoQueue
          BY <2>2, AppendElements DEF ResolveJoins, TypeOK, CacheTypeOK, NoQueue
        <5> QED BY <4>1, <5>1 DEF Owed
      <4>2. CASE g # h
        BY <2>2, <4>2 DEF ResolveJoins, TypeOK, CacheTypeOK, Owed
      <4> QED BY <4>1, <4>2
    <3> QED BY <1>1, <3>1, <3>2
  <2>3. CASE ResolveStarts(c, h)
    <3>1. clears' = clears
      BY <2>3 DEF ResolveStarts
    <3>2. CASE g = h
      <4>1. pending[h] = NoQueue /\ pending'[h] # NoQueue /\ flying'[h] = flying[h] + 1
        BY <2>3, NewQueue DEF ResolveStarts, TypeOK, CacheTypeOK, NoQueue
      <4>2. Owed(g) = 0 /\ Owed(g)' = 1
        BY <3>2, <4>1 DEF Owed
      <4> QED BY <1>1, <3>1, <3>2, <4>1, <4>2
    <3>3. CASE g # h
      <4>1. flying'[g] = flying[g] /\ Owed(g)' = Owed(g)
        BY <2>3, <3>3 DEF ResolveStarts, TypeOK, CacheTypeOK, Owed
      <4> QED BY <1>1, <3>1, <4>1
    <3> QED BY <3>2, <3>3
  <2> QED BY <1>3, <2>1, <2>2, <2>3 DEF Resolve
<1>4. ASSUME NEW h \in Hosts, Succeed(h) \/ Fail(h) PROVE flying'[g] <= clears' + Owed(g)'
  <2>1. clears' = clears /\ pending' = [pending EXCEPT ![h] = NoQueue]
    BY <1>4 DEF Succeed, Fail, TakeQueue
  <2>2. CASE g = h
    <3>1. flying'[g] = flying[g] - 1
      BY <1>4, <2>2, AnswerType
    <3>2. Owed(g)' = 0
      BY <2>1, <2>2 DEF Owed, TypeOK, CacheTypeOK
    <3> QED BY <1>1, <2>1, <3>1, <3>2
  <2>3. CASE g # h
    <3>1. flying'[g] = flying[g]
      BY <1>4, <2>3, AnswerType
    <3>2. Owed(g)' = Owed(g)
      BY <2>1, <2>3 DEF Owed, TypeOK, CacheTypeOK
    <3> QED BY <1>1, <2>1, <3>1, <3>2
  <2> QED BY <2>2, <2>3
<1>5. CASE Clear
  <2>1. clears' = clears + 1 /\ flying' = flying /\ Owed(g)' = 0
    BY <1>5 DEF Clear, Owed
  <2> QED BY <1>1, <2>1
<1>6. ASSUME \/ UNCHANGED vars \/ Sweep \/ Tick
             \/ \E h \in Hosts : DohFailed(h) \/ DohTruncated(h)
      PROVE  flying'[g] <= clears' + Owed(g)'
  BY <1>2, <1>6 DEF vars, cacheVars, mapVars, Sweep, Tick, DohFailed, DohTruncated
<1> QED BY <1>3, <1>4, <1>5, <1>6 DEF Next, DohAnswered, FallbackReturns

(* A burst of calls for a cold host costs one lookup: two lookups of a host  *)
(* are in flight only when clear() has forgotten one of them.                *)
THEOREM OneFlight == Spec => []SingleFlight
<1>1. Init => Flights
  <2> SUFFICES ASSUME Init, NEW h \in Hosts PROVE flying[h] <= clears + Owed(h)
    BY DEF Flights
  <2> QED BY DEF Init, CacheInit, Owed
<1> QED BY <1>1, InitType, NextType, NextFlights, FlightsImply, PTL DEF Spec

(***************************************************************************)
(* The order of the callbacks.                                             *)
(***************************************************************************)

Elements(s) == {s[n] : n \in DOMAIN s}
Once(s) == \A m, n \in DOMAIN s : s[m] = s[n] => m = n

LEMMA AppendOrder ==
  ASSUME NEW s \in Seq(Callers), NEW c \in Callers
  PROVE  /\ \A x, y \in Callers : Before(s, x, y) => Before(Append(s, c), x, y)
         /\ \A x, y \in Callers : Before(Append(s, c), x, y)
              => Before(s, x, y) \/ (y = c /\ x \in Elements(s))
         /\ \A x \in Elements(s) : Before(Append(s, c), x, c)
         /\ Once(s) /\ c \notin Elements(s) => Once(Append(s, c))
<1>1. PICK l \in Nat, t \in Seq(Callers) :
        /\ t = Append(s, c) /\ l = Len(s) /\ DOMAIN s = 1..l /\ DOMAIN t = 1..(l + 1)
        /\ \A n \in 1..l : t[n] = s[n]
        /\ t[l + 1] = c
  <2> DEFINE u == Append(s, c)
  <2>1. /\ u \in Seq(Callers) /\ Len(s) \in Nat
        /\ DOMAIN s = 1..Len(s) /\ DOMAIN u = 1..(Len(s) + 1)
        /\ \A n \in 1..Len(s) : u[n] = s[n]
        /\ u[Len(s) + 1] = c
    OBVIOUS
  <2> HIDE DEF u
  <2> QED BY <2>1 DEF u
<1>2. ASSUME NEW x \in Callers, NEW y \in Callers, Before(s, x, y) PROVE Before(t, x, y)
  <2>1. PICK m \in 1..l, n \in 1..l : m < n /\ s[m] = x /\ s[n] = y
    BY <1>1, <1>2 DEF Before
  <2>2. m \in 1..(l + 1) /\ n \in 1..(l + 1)
    BY <2>1
  <2> QED BY <1>1, <2>1, <2>2 DEF Before
<1>3. ASSUME NEW x \in Callers, NEW y \in Callers, Before(t, x, y)
      PROVE  Before(s, x, y) \/ (y = c /\ x \in Elements(s))
  <2>1. PICK m \in 1..(l + 1), n \in 1..(l + 1) : m < n /\ t[m] = x /\ t[n] = y
    BY <1>1, <1>3 DEF Before
  <2>2. m \in 1..l /\ s[m] = x
    BY <1>1, <2>1
  <2>3. CASE n \in 1..l
    BY <1>1, <2>1, <2>2, <2>3 DEF Before
  <2>4. CASE n = l + 1
    BY <1>1, <2>1, <2>2, <2>4 DEF Elements
  <2> QED BY <2>3, <2>4
<1>4. ASSUME NEW x \in Elements(s) PROVE Before(t, x, c)
  <2>1. PICK m \in 1..l : s[m] = x
    BY <1>1 DEF Elements
  <2>2. m \in 1..(l + 1) /\ l + 1 \in 1..(l + 1) /\ m < l + 1
    OBVIOUS
  <2> QED BY <1>1, <2>1, <2>2 DEF Before
<1>5. ASSUME Once(s), c \notin Elements(s), NEW m \in 1..(l + 1), NEW n \in 1..(l + 1),
             t[m] = t[n]
      PROVE  m = n
  <2>1. \A k \in 1..l : s[k] # c
    BY <1>1, <1>5 DEF Elements
  <2>2. CASE m \in 1..l /\ n \in 1..l
    BY <1>1, <1>5, <2>2 DEF Once
  <2>3. CASE m = l + 1 /\ n \in 1..l
    BY <1>1, <1>5, <2>1, <2>3
  <2>4. CASE m \in 1..l /\ n = l + 1
    BY <1>1, <1>5, <2>1, <2>4
  <2>5. CASE m = l + 1 /\ n = l + 1
    BY <2>5
  <2> QED BY <2>2, <2>3, <2>4, <2>5
<1>6. Once(s) /\ c \notin Elements(s) => Once(t)
  BY <1>1, <1>5 DEF Once
<1> QED BY <1>1, <1>2, <1>3, <1>4, <1>6

LEMMA ConcatOrder ==
  ASSUME NEW s \in Seq(Callers), NEW t \in Seq(Callers)
  PROVE  /\ Elements(s \o t) = Elements(s) \cup Elements(t)
         /\ \A x, y \in Callers : Before(s, x, y) \/ Before(t, x, y) => Before(s \o t, x, y)
         /\ \A x \in Elements(s), y \in Elements(t) : Before(s \o t, x, y)
         /\ Once(s) /\ Once(t) /\ Elements(s) \cap Elements(t) = {} => Once(s \o t)
<1>1. PICK l \in Nat, k \in Nat, u \in Seq(Callers) :
        /\ u = s \o t /\ DOMAIN s = 1..l /\ DOMAIN t = 1..k /\ DOMAIN u = 1..(l + k)
        /\ \A n \in 1..l : u[n] = s[n]
        /\ \A n \in 1..k : u[l + n] = t[n]
  <2> DEFINE v == s \o t
  <2>1. /\ Len(s) \in Nat /\ Len(t) \in Nat /\ DOMAIN s = 1..Len(s) /\ DOMAIN t = 1..Len(t)
        /\ v \in Seq(Callers) /\ DOMAIN v = 1..(Len(s) + Len(t))
        /\ \A n \in 1..(Len(s) + Len(t)) : v[n] = IF n <= Len(s) THEN s[n] ELSE t[n - Len(s)]
    OBVIOUS
  <2> HIDE DEF v
  <2>2. \A n \in 1..Len(s) : v[n] = s[n]
    BY <2>1
  <2>3. ASSUME NEW n \in 1..Len(t) PROVE v[Len(s) + n] = t[n]
    <3>1. Len(s) + n \in 1..(Len(s) + Len(t)) /\ ~(Len(s) + n <= Len(s))
          /\ (Len(s) + n) - Len(s) = n
      BY <2>1
    <3> QED BY <2>1, <3>1
  <2> QED BY <2>1, <2>2, <2>3 DEF v
<1>2. \A n \in 1..(l + k) : n \in 1..l \/ (n - l \in 1..k /\ n = l + (n - l))
  OBVIOUS
<1>3. (\A n \in 1..l : n \in 1..(l + k)) /\ (\A n \in 1..k : l + n \in 1..(l + k))
  OBVIOUS
<1>4. Elements(u) = Elements(s) \cup Elements(t)
  <2>1. ASSUME NEW x \in Elements(u) PROVE x \in Elements(s) \cup Elements(t)
    <3>1. PICK n \in 1..(l + k) : u[n] = x
      BY <1>1 DEF Elements
    <3>2. CASE n \in 1..l
      BY <1>1, <3>1, <3>2 DEF Elements
    <3>3. CASE n - l \in 1..k /\ n = l + (n - l)
      BY <1>1, <3>1, <3>3 DEF Elements
    <3> QED BY <1>2, <3>2, <3>3
  <2>2. Elements(s) \subseteq Elements(u)
    BY <1>1, <1>3 DEF Elements
  <2>3. ASSUME NEW x \in Elements(t) PROVE x \in Elements(u)
    <3>1. PICK n \in 1..k : t[n] = x
      BY <1>1 DEF Elements
    <3>2. u[l + n] = x /\ l + n \in DOMAIN u
      BY <1>1, <1>3, <3>1
    <3> QED BY <3>2 DEF Elements
  <2> QED BY <2>1, <2>2, <2>3
<1>5. ASSUME NEW x \in Callers, NEW y \in Callers, Before(s, x, y) PROVE Before(u, x, y)
  <2>1. PICK m \in 1..l, n \in 1..l : m < n /\ s[m] = x /\ s[n] = y
    BY <1>1, <1>5 DEF Before
  <2> QED BY <1>1, <1>3, <2>1 DEF Before
<1>6. ASSUME NEW x \in Callers, NEW y \in Callers, Before(t, x, y) PROVE Before(u, x, y)
  <2>1. PICK m \in 1..k, n \in 1..k : m < n /\ t[m] = x /\ t[n] = y
    BY <1>1, <1>6 DEF Before
  <2>2. l + m \in DOMAIN u /\ l + n \in DOMAIN u /\ l + m < l + n
    BY <1>1, <2>1
  <2>3. u[l + m] = x /\ u[l + n] = y
    BY <1>1, <2>1
  <2> QED BY <2>2, <2>3 DEF Before
<1>7. ASSUME NEW x \in Elements(s), NEW y \in Elements(t) PROVE Before(u, x, y)
  <2>1. PICK m \in 1..l, n \in 1..k : s[m] = x /\ t[n] = y
    BY <1>1 DEF Elements
  <2>2. m \in DOMAIN u /\ l + n \in DOMAIN u /\ m < l + n
    BY <1>1, <2>1
  <2>3. u[m] = x /\ u[l + n] = y
    BY <1>1, <2>1
  <2> QED BY <2>2, <2>3 DEF Before
<1>8. ASSUME Once(s), Once(t), Elements(s) \cap Elements(t) = {},
             NEW m \in 1..(l + k), NEW n \in 1..(l + k), u[m] = u[n]
      PROVE  m = n
  <2>1. \A i \in 1..l, j \in 1..k : s[i] # t[j]
    BY <1>1, <1>8 DEF Elements
  <2>2. CASE m \in 1..l /\ n \in 1..l
    BY <1>1, <1>8, <2>2 DEF Once
  <2>3. CASE m \in 1..l /\ n - l \in 1..k /\ n = l + (n - l)
    BY <1>1, <1>8, <2>1, <2>3
  <2>4. CASE n \in 1..l /\ m - l \in 1..k /\ m = l + (m - l)
    BY <1>1, <1>8, <2>1, <2>4
  <2>5. CASE m - l \in 1..k /\ m = l + (m - l) /\ n - l \in 1..k /\ n = l + (n - l)
    <3>1. t[m - l] = t[n - l]
      BY <1>1, <1>8, <2>5
    <3>2. m - l = n - l
      BY <1>1, <1>8, <2>5, <3>1 DEF Once
    <3> QED BY <2>5, <3>2
  <2> QED BY <1>2, <2>2, <2>3, <2>4, <2>5
<1>9. Once(s) /\ Once(t) /\ Elements(s) \cap Elements(t) = {} => Once(u)
  BY <1>1, <1>8 DEF Once
<1> QED BY <1>1, <1>4, <1>5, <1>6, <1>7, <1>9

LEMMA NothingBefore ==
  Once(<<>>) /\ Elements(<<>>) = {} /\ \A x, y : ~Before(<<>>, x, y)
BY DEF Once, Elements, Before

LEMMA OneCaller ==
  ASSUME NEW c \in Callers
  PROVE  Once(<<c>>)
BY DEF Once

(***************************************************************************)
(* Inductive: AnsweredInOrder does not say that the queues keep the order in *)
(* which their callers asked, nor that nobody is served from the cache while *)
(* somebody waits for the same host, which is how a hit could overtake.      *)
(***************************************************************************)

Histories ==
  /\ Elements(asked) = {c \in Callers : state[c] # "idle"}
  /\ CalledBack = {c \in Callers : state[c] \in {"resolved", "failed", "system"}}
  /\ Once(answered)

InAskedOrder(s) ==
  /\ Once(s)
  /\ \A c, d \in Elements(s) : Before(asked, c, d) => Before(s, c, d)

QueueOrder == \A h \in Hosts : InAskedOrder(pending[h])

NoHitWhileWaiting == \A h \in Hosts : pending[h] # NoQueue => ~Hit(h)

AnswerOrder ==
  \A c, d \in Callers :
    Before(asked, c, d) /\ host[c] = host[d] /\ d \in CalledBack
      => state[c] = "dropped" \/ Before(answered, c, d)

OrderInv == Histories /\ QueueOrder /\ NoHitWhileWaiting /\ AnswerOrder

LEMMA OrderInvImplies == OrderInv => AnsweredInOrder
BY DEF OrderInv, Histories, Once, CalledBack, AnswerOrder, AnsweredInOrder

LEMMA InitOrder == Init => OrderInv
<1> SUFFICES ASSUME Init PROVE OrderInv
  OBVIOUS
<1>1. asked = <<>> /\ answered = <<>> /\ \A c \in Callers : state[c] = "idle"
  BY DEF Init, CacheInit
<1>2. CalledBack = {}
  BY <1>1, NothingBefore DEF Elements, CalledBack
<1>3. Histories /\ AnswerOrder
  BY <1>1, <1>2, NothingBefore DEF Histories, AnswerOrder
<1>4. QueueOrder /\ NoHitWhileWaiting
  BY NothingBefore
     DEF Init, CacheInit, QueueOrder, InAskedOrder, NoHitWhileWaiting, NoQueue
<1> QED BY <1>3, <1>4 DEF OrderInv

(* Nobody in a queue of another host waits, and nobody who waits is missing. *)
LEMMA InQueue ==
  ASSUME WaitersAreOwed, NEW h \in Hosts
  PROVE  Elements(pending[h]) = {c \in Waiting : host[c] = h}
BY DEF WaitersAreOwed, Queued, Elements

LEMMA BeforeElements ==
  ASSUME NEW s, NEW x, NEW y, Before(s, x, y)
  PROVE  x \in Elements(s) /\ y \in Elements(s)
BY DEF Before, Elements

(* A caller that asks joins its queue behind those who asked before it. *)
LEMMA JoinInOrder ==
  ASSUME NEW q \in Seq(Callers), NEW c \in Callers, NEW a,
         Once(q), c \notin Elements(q),
         \A x, y \in Elements(q) : Before(a, x, y) => Before(q, x, y),
         \A y \in Callers : ~Before(a, c, y)
  PROVE  /\ Once(Append(q, c))
         /\ \A x, y \in Elements(Append(q, c)) :
              Before(a, x, y) => Before(Append(q, c), x, y)
<1>1. Elements(Append(q, c)) = Elements(q) \cup {c} /\ Elements(q) \subseteq Callers
  BY AppendElements DEF Elements
<1>2. Once(Append(q, c))
  BY AppendOrder
<1>3. ASSUME NEW x \in Elements(q) \cup {c}, NEW y \in Elements(q) \cup {c}, Before(a, x, y)
      PROVE  Before(Append(q, c), x, y)
  <2>1. x \in Callers /\ y \in Callers /\ x \in Elements(q)
    BY <1>1, <1>3
  <2>2. CASE y = c
    BY <2>1, <2>2, AppendOrder
  <2>3. CASE y \in Elements(q)
    BY <1>3, <2>1, <2>3, AppendOrder
  <2> QED BY <2>2, <2>3
<1> QED BY <1>1, <1>2, <1>3

(* A caller that asks comes after all who have. *)
LEMMA AskOrder ==
  ASSUME TypeOK, Histories, NEW c \in Callers, NEW h \in Hosts, Asks(c, h)
  PROVE  /\ c \notin Elements(asked) /\ c \notin CalledBack /\ c \notin Waiting
         /\ Elements(asked') = Elements(asked) \cup {c}
         /\ host'[c] = h /\ \A x \in Callers : x # c => host'[x] = host[x]
         /\ \A x, y \in Callers : Before(asked', x, y)
              => /\ x # c
                 /\ (y # c /\ Before(asked, x, y)) \/ (y = c /\ x \in Elements(asked))
<1>1. state[c] = "idle" /\ asked' = Append(asked, c) /\ host' = [host EXCEPT ![c] = h]
  BY DEF Asks
<1>2. asked \in Seq(Callers)
  BY DEF TypeOK, CacheTypeOK
<1>3. c \notin Elements(asked) /\ c \notin CalledBack /\ c \notin Waiting
  BY <1>1 DEF Histories, Waiting
<1>4. Elements(asked') = Elements(asked) \cup {c}
  BY <1>1, <1>2, AppendElements DEF Elements
<1>5. \A x, y \in Callers : Before(asked', x, y)
        => Before(asked, x, y) \/ (y = c /\ x \in Elements(asked))
  BY <1>1, <1>2, AppendOrder
<1>6. \A x, y \in Callers : Before(asked, x, y) => x # c /\ y # c
  BY <1>3, BeforeElements
<1>7. host'[c] = h /\ \A x \in Callers : x # c => host'[x] = host[x]
  BY <1>1 DEF TypeOK, CacheTypeOK
<1> QED BY <1>3, <1>4, <1>5, <1>6, <1>7

LEMMA HitOrder ==
  ASSUME TypeOK, WaitersAreOwed, OrderInv, NEW c \in Callers, NEW h \in Hosts, ResolveHit(c, h)
  PROVE  OrderInv'
<1>1. /\ Asks(c, h) /\ Hit(h) /\ answered' = Append(answered, c)
      /\ state' = [state EXCEPT ![c] = "resolved"]
      /\ UNCHANGED <<now, cache, pending>>
  BY DEF ResolveHit, mapVars
<1>2. /\ Histories /\ QueueOrder /\ NoHitWhileWaiting /\ AnswerOrder
      /\ answered \in Seq(Callers) /\ Elements(answered) = CalledBack
  BY DEF OrderInv, TypeOK, CacheTypeOK, Elements, CalledBack
<1>3. /\ c \notin Elements(asked) /\ c \notin CalledBack /\ c \notin Waiting
      /\ Elements(asked') = Elements(asked) \cup {c}
      /\ host'[c] = h /\ \A x \in Callers : x # c => host'[x] = host[x]
      /\ \A x, y \in Callers : Before(asked', x, y)
           => /\ x # c
              /\ (y # c /\ Before(asked, x, y)) \/ (y = c /\ x \in Elements(asked))
  BY <1>1, <1>2, AskOrder
<1>4. /\ state'[c] = "resolved" /\ \A x \in Callers : x # c => state'[x] = state[x]
      /\ Waiting' = Waiting
  BY <1>1, <1>3 DEF TypeOK, CacheTypeOK, Waiting
<1>5. CalledBack' = CalledBack \cup {c}
  BY <1>1, <1>2, AppendElements DEF CalledBack
<1>6. Histories'
  <2>1. Once(answered')
    BY <1>1, <1>2, <1>3, AppendOrder DEF Histories
  <2>2. Elements(asked') = {x \in Callers : state'[x] # "idle"}
    BY <1>2, <1>3, <1>4 DEF Histories
  <2>3. CalledBack' = {x \in Callers : state'[x] \in {"resolved", "failed", "system"}}
    BY <1>2, <1>4, <1>5 DEF Histories
  <2> QED BY <2>1, <2>2, <2>3 DEF Histories, Once, Elements
<1>7. QueueOrder'
  <2> SUFFICES ASSUME NEW g \in Hosts PROVE InAskedOrder(pending[g])'
    BY DEF QueueOrder
  <2>1. InAskedOrder(pending[g]) /\ pending'[g] = pending[g]
    BY <1>1, <1>2 DEF QueueOrder
  <2>2. Elements(pending[g]) \subseteq Callers /\ c \notin Elements(pending[g])
    BY <1>3, InQueue DEF Waiting
  <2>3. \A x, y \in Elements(pending[g]) : Before(asked', x, y) => Before(asked, x, y)
    BY <1>3, <2>2
  <2> QED BY <2>1, <2>3 DEF InAskedOrder, Once, Elements, Before
<1>8. NoHitWhileWaiting'
  BY <1>1, <1>2 DEF NoHitWhileWaiting, Hit, Second
<1>9. AnswerOrder'
  <2> SUFFICES ASSUME NEW x \in Callers, NEW y \in Callers, Before(asked', x, y),
                      host'[x] = host'[y], y \in CalledBack'
               PROVE  state'[x] = "dropped" \/ Before(answered', x, y)
    BY DEF AnswerOrder, Before
  <2>1. x # c /\ host'[x] = host[x] /\ state'[x] = state[x]
    BY <1>3, <1>4
  <2>2. CASE y # c
    <3>1. state[x] = "dropped" \/ Before(answered, x, y)
      BY <1>2, <1>3, <1>5, <2>1, <2>2 DEF AnswerOrder
    <3> QED BY <1>1, <1>2, <2>1, <3>1, AppendOrder
  <2>3. CASE y = c
    <3>1. x \in Elements(asked) /\ host[x] = h
      BY <1>3, <2>1, <2>3
    <3>2. x \notin Waiting
      <4>1. pending[h] = NoQueue
        BY <1>1, <1>2 DEF NoHitWhileWaiting
      <4>2. Elements(pending[h]) = {}
        BY <4>1, NothingBefore DEF NoQueue
      <4> QED BY <3>1, <4>2, InQueue
    <3>3. state[x] = "dropped" \/ x \in Elements(answered)
      BY <1>2, <3>1, <3>2 DEF Histories, Waiting, TypeOK, CacheTypeOK
    <3> QED BY <1>1, <1>2, <2>1, <2>3, <3>3, AppendOrder
  <2> QED BY <2>2, <2>3
<1> QED BY <1>6, <1>7, <1>8, <1>9 DEF OrderInv

LEMMA WaitOrder ==
  ASSUME TypeOK, WaitersAreOwed, OrderInv, NEW c \in Callers, NEW h \in Hosts,
         ResolveJoins(c, h) \/ ResolveStarts(c, h)
  PROVE  OrderInv'
<1>1. /\ Asks(c, h) /\ ~Hit(h) /\ state' = [state EXCEPT ![c] = "waiting"]
      /\ UNCHANGED <<now, cache, answered>>
      /\ \A g \in Hosts : g # h => pending'[g] = pending[g]
  BY DEF ResolveJoins, ResolveStarts, TypeOK, CacheTypeOK
<1>2. /\ Histories /\ QueueOrder /\ NoHitWhileWaiting /\ AnswerOrder
      /\ pending[h] \in Seq(Callers) /\ CalledBack' = CalledBack
  BY <1>1 DEF OrderInv, TypeOK, CacheTypeOK, CalledBack
<1>3. /\ c \notin Elements(asked) /\ c \notin CalledBack /\ c \notin Waiting
      /\ Elements(asked') = Elements(asked) \cup {c}
      /\ host'[c] = h /\ \A x \in Callers : x # c => host'[x] = host[x]
      /\ \A x, y \in Callers : Before(asked', x, y)
           => /\ x # c
              /\ (y # c /\ Before(asked, x, y)) \/ (y = c /\ x \in Elements(asked))
  BY <1>1, <1>2, AskOrder
<1>4. /\ state'[c] = "waiting" /\ \A x \in Callers : x # c => state'[x] = state[x]
      /\ Waiting' = Waiting \cup {c}
  BY <1>1 DEF TypeOK, CacheTypeOK, Waiting
<1>5. pending'[h] = Append(pending[h], c)
  <2>1. CASE ResolveJoins(c, h)
    BY <2>1 DEF ResolveJoins, TypeOK, CacheTypeOK
  <2>2. CASE ResolveStarts(c, h)
    <3>1. pending'[h] = <<c>> /\ pending[h] = <<>>
      BY <2>2 DEF ResolveStarts, TypeOK, CacheTypeOK, NoQueue
    <3>2. Append(<<>>, c) = <<c>>
      OBVIOUS
    <3> QED BY <3>1, <3>2
  <2> QED BY <2>1, <2>2
<1>6. c \notin Elements(pending[h])
  BY <1>3, InQueue
<1>7. Histories'
  <2>1. Elements(asked') = {x \in Callers : state'[x] # "idle"}
    BY <1>2, <1>3, <1>4 DEF Histories
  <2>2. CalledBack' = {x \in Callers : state'[x] \in {"resolved", "failed", "system"}}
    BY <1>2, <1>3, <1>4 DEF Histories
  <2> QED BY <1>1, <1>2, <2>1, <2>2 DEF Histories, Once, Elements
<1>8. QueueOrder'
  <2> SUFFICES ASSUME NEW g \in Hosts PROVE InAskedOrder(pending[g])'
    BY DEF QueueOrder
  <2>1. InAskedOrder(pending[g])
    BY <1>2 DEF QueueOrder
  <2>2. Elements(pending[g]) \subseteq Callers /\ c \notin Elements(pending[g])
    BY <1>3, InQueue DEF Waiting
  <2>3. \A x, y \in Elements(pending[g]) : Before(asked', x, y) => Before(pending[g], x, y)
    BY <1>3, <2>1, <2>2 DEF InAskedOrder
  <2>4. CASE g # h
    BY <1>1, <2>1, <2>3, <2>4 DEF InAskedOrder, Once, Elements, Before
  <2>5. CASE g = h
    <3>1. /\ pending[h] \in Seq(Callers) /\ c \notin Elements(pending[h]) /\ Once(pending[h])
          /\ \A x, y \in Elements(pending[h]) : Before(asked', x, y) => Before(pending[h], x, y)
          /\ \A y \in Callers : ~Before(asked', c, y)
      BY <1>2, <1>3, <2>1, <2>2, <2>3, <2>5 DEF InAskedOrder
    <3>2. /\ Once(pending'[h])
          /\ \A x, y \in Elements(pending'[h]) : Before(asked', x, y) => Before(pending'[h], x, y)
      <4>1. PICK q, a : q = pending[h] /\ a = asked'
        OBVIOUS
      <4>2. /\ q \in Seq(Callers) /\ c \notin Elements(q) /\ Once(q)
            /\ \A x, y \in Elements(q) : Before(a, x, y) => Before(q, x, y)
            /\ \A y \in Callers : ~Before(a, c, y)
        BY <3>1, <4>1
      <4>3. /\ Once(Append(q, c))
            /\ \A x, y \in Elements(Append(q, c)) : Before(a, x, y) => Before(Append(q, c), x, y)
        BY <4>2, JoinInOrder
      <4> QED BY <1>5, <4>1, <4>3
    <3> QED BY <2>5, <3>2 DEF InAskedOrder, Once, Elements, Before
  <2> QED BY <2>4, <2>5
<1>9. NoHitWhileWaiting'
  <2>1. \A g \in Hosts : Hit(g)' <=> Hit(g)
    BY <1>1 DEF Hit, Second
  <2> QED BY <1>1, <1>2, <2>1 DEF NoHitWhileWaiting
<1>10. AnswerOrder'
  <2> SUFFICES ASSUME NEW x \in Callers, NEW y \in Callers, Before(asked', x, y),
                      host'[x] = host'[y], y \in CalledBack'
               PROVE  state'[x] = "dropped" \/ Before(answered', x, y)
    BY DEF AnswerOrder, Before
  <2>1. y # c /\ x # c /\ host'[x] = host[x] /\ host'[y] = host[y] /\ Before(asked, x, y)
    BY <1>2, <1>3
  <2>2. state[x] = "dropped" \/ Before(answered, x, y)
    BY <1>2, <2>1 DEF AnswerOrder
  <2> QED BY <1>1, <1>4, <2>1, <2>2
<1> QED BY <1>7, <1>8, <1>9, <1>10 DEF OrderInv

(* The queue of a host is called back behind all who have been. *)
LEMMA FlushOrder ==
  ASSUME TypeOK, WaitersAreOwed, OrderInv, NEW h \in Hosts, TakeQueue(h),
         UNCHANGED <<now, host, asked>>,
         \A g \in Hosts : g # h => cache'[g] = cache[g],
         \A c \in Queued(h) : state'[c] \in {"resolved", "failed", "system"},
         \A c \in Callers : c \notin Queued(h) => state'[c] = state[c]
  PROVE  OrderInv'
<1>1. /\ Histories /\ QueueOrder /\ NoHitWhileWaiting /\ AnswerOrder
      /\ answered \in Seq(Callers) /\ pending[h] \in Seq(Callers)
      /\ Elements(answered) = CalledBack /\ InAskedOrder(pending[h])
  BY DEF OrderInv, TypeOK, CacheTypeOK, Elements, CalledBack, QueueOrder
<1>2. /\ answered' = answered \o pending[h] /\ pending'[h] = <<>>
      /\ \A g \in Hosts : g # h => pending'[g] = pending[g]
  BY DEF TakeQueue, TypeOK, CacheTypeOK, NoQueue
<1>3. /\ Queued(h) = Elements(pending[h])
      /\ Elements(pending[h]) = {c \in Waiting : host[c] = h}
  BY InQueue DEF Queued, Elements
<1>4. Elements(answered) \cap Elements(pending[h]) = {}
  BY <1>1, <1>3 DEF Histories, Waiting
<1>5. CalledBack' = CalledBack \cup Elements(pending[h])
  <2>1. Elements(answered') = Elements(answered) \cup Elements(pending[h])
    BY <1>1, <1>2, ConcatOrder
  <2> QED BY <1>1, <2>1 DEF CalledBack, Elements
<1>6. Histories'
  <2>1. Once(answered')
    BY <1>1, <1>2, <1>4, ConcatOrder DEF Histories, InAskedOrder
  <2>2. Elements(asked) = {c \in Callers : state'[c] # "idle"}
    BY <1>1, <1>3 DEF Histories, Waiting
  <2>3. CalledBack' = {c \in Callers : state'[c] \in {"resolved", "failed", "system"}}
    BY <1>1, <1>3, <1>5 DEF Histories, Waiting
  <2> QED BY <2>1, <2>2, <2>3 DEF Histories, Once, Elements
<1>7. QueueOrder'
  <2> SUFFICES ASSUME NEW g \in Hosts PROVE InAskedOrder(pending[g])'
    BY DEF QueueOrder
  <2>1. CASE g = h
    BY <1>2, <2>1, NothingBefore DEF InAskedOrder, Once, Elements, Before
  <2>2. CASE g # h
    <3>1. InAskedOrder(pending[g]) /\ pending'[g] = pending[g] /\ asked' = asked
      BY <1>1, <1>2, <2>2 DEF QueueOrder
    <3> QED BY <3>1 DEF InAskedOrder, Once, Elements, Before
  <2> QED BY <2>1, <2>2
<1>8. NoHitWhileWaiting'
  <2> SUFFICES ASSUME NEW g \in Hosts, pending'[g] # <<>> PROVE ~Hit(g)'
    BY DEF NoHitWhileWaiting, NoQueue
  <2>1. g # h /\ ~Hit(g)
    BY <1>1, <1>2 DEF NoHitWhileWaiting, NoQueue
  <2> QED BY <2>1 DEF Hit, Second
<1>9. AnswerOrder'
  <2> SUFFICES ASSUME NEW x \in Callers, NEW y \in Callers, Before(asked, x, y),
                      host[x] = host[y], y \in CalledBack'
               PROVE  state'[x] = "dropped" \/ Before(answered', x, y)
    BY DEF AnswerOrder, Before
  <2>1. CASE y \in CalledBack
    <3>1. state[x] = "dropped" \/ Before(answered, x, y)
      BY <1>1, <2>1 DEF AnswerOrder
    <3>2. CASE state[x] = "dropped"
      BY <1>3, <3>2 DEF Waiting
    <3>3. CASE Before(answered, x, y)
      BY <1>1, <1>2, <3>3, ConcatOrder
    <3> QED BY <3>1, <3>2, <3>3
  <2>2. CASE y \in Elements(pending[h])
    <3>1. host[x] = h /\ x \in Elements(asked)
      BY <1>3, <2>2, BeforeElements
    <3>2. state[x] = "dropped" \/ x \in Elements(answered) \/ x \in Elements(pending[h])
      BY <1>1, <1>3, <3>1 DEF Histories, Waiting, TypeOK, CacheTypeOK
    <3>3. CASE state[x] = "dropped"
      BY <1>3, <3>3 DEF Waiting
    <3>4. CASE x \in Elements(answered)
      BY <1>1, <1>2, <2>2, <3>4, ConcatOrder
    <3>5. CASE x \in Elements(pending[h])
      <4>1. Before(pending[h], x, y)
        BY <1>1, <2>2, <3>5 DEF InAskedOrder
      <4> QED BY <1>1, <1>2, <4>1, ConcatOrder
    <3> QED BY <3>2, <3>3, <3>4, <3>5
  <2> QED BY <1>5, <2>1, <2>2
<1> QED BY <1>6, <1>7, <1>8, <1>9 DEF OrderInv

LEMMA SucceedOrder ==
  ASSUME TypeOK, WaitersAreOwed, OrderInv, NEW h \in Hosts, Succeed(h)
  PROVE  OrderInv'
<1>1. TakeQueue(h) /\ UNCHANGED <<now, host, asked>>
  BY DEF Succeed
<1>2. \A g \in Hosts : g # h => cache'[g] = cache[g]
  BY DEF Succeed, TypeOK, CacheTypeOK
<1>3. Queued(h) \subseteq Callers
  BY DEF Queued, TypeOK, CacheTypeOK
<1>4. /\ \A c \in Queued(h) : state'[c] \in {"resolved", "failed", "system"}
      /\ \A c \in Callers : c \notin Queued(h) => state'[c] = state[c]
  BY <1>3 DEF Succeed
<1> QED BY <1>1, <1>2, <1>4, FlushOrder

LEMMA FailOrder ==
  ASSUME TypeOK, WaitersAreOwed, OrderInv, NEW h \in Hosts, Fail(h)
  PROVE  OrderInv'
<1>1. TakeQueue(h) /\ UNCHANGED <<now, host, asked, cache>>
  BY DEF Fail
<1>2. Queued(h) \subseteq Callers
  BY DEF Queued, TypeOK, CacheTypeOK
<1>3. /\ \A c \in Queued(h) : state'[c] \in {"resolved", "failed", "system"}
      /\ \A c \in Callers : c \notin Queued(h) => state'[c] = state[c]
  BY <1>2 DEF Fail
<1> QED BY <1>1, <1>3, FlushOrder

(* A second that is over does not come back. *)
LEMMA SecondGrows ==
  ASSUME NEW d \in Nat \ {0}, NEW t \in Nat
  PROVE  t \div d <= (t + 1) \div d
<1>1. PICK q \in Nat, r \in Nat, p \in Nat, s \in Nat :
        /\ q = t \div d /\ t = d * q + r /\ r < d
        /\ p = (t + 1) \div d /\ t + 1 = d * p + s /\ s < d
  <2>1. t \div d \in Nat /\ (t % d) \in Nat /\ (t % d) < d /\ t = d * (t \div d) + (t % d)
    OBVIOUS
  <2>2. PICK u \in Nat : u = t + 1
    OBVIOUS
  <2>3. u \div d \in Nat /\ (u % d) \in Nat /\ (u % d) < d /\ u = d * (u \div d) + (u % d)
    OBVIOUS
  <2> QED BY <2>1, <2>2, <2>3
<1>2. ASSUME p < q PROVE FALSE
  <2>1. PICK k \in Nat : q = p + 1 + k
    <3>1. q - p - 1 \in Nat /\ q = p + 1 + (q - p - 1)
      BY <1>2
    <3> QED BY <3>1
  <2>2. d * q = d * p + d + d * k /\ d * k \in Nat
    BY <2>1
  <2>3. d * p \in Nat /\ d * q \in Nat
    OBVIOUS
  <2> QED BY <1>1, <2>2, <2>3
<1> QED BY <1>1, <1>2

LEMMA TimeOrder ==
  ASSUME TypeOK, OrderInv, Sweep \/ Tick
  PROVE  OrderInv'
<1>1. UNCHANGED <<pending, callerVars>>
  BY DEF Sweep, Tick, mapVars
<1>2. ASSUME NEW g \in Hosts, Hit(g)' PROVE Hit(g)
  <2>1. CASE Sweep
    BY <1>2, <2>1 DEF Sweep, Hit, Second
  <2>2. CASE Tick
    <3>1. /\ now \in Nat /\ now' = now + 1 /\ cache' = cache /\ cache[g].expires \in Nat
          /\ SecondTicks \in Nat \ {0}
      BY <2>2, DnsAssumption DEF Tick, mapVars, TypeOK, CacheTypeOK
    <3>2. PICK s \in Nat, t \in Nat : s = now \div SecondTicks /\ t = now' \div SecondTicks
      BY <3>1
    <3>3. s <= t
      BY <3>1, <3>2, SecondGrows
    <3>4. cache[g] # NoEntry /\ t < cache[g].expires
      BY <1>2, <3>1, <3>2 DEF Hit, Second, NoEntry
    <3> QED BY <3>1, <3>2, <3>3, <3>4 DEF Hit, Second
  <2> QED BY <2>1, <2>2
<1>3. NoHitWhileWaiting'
  BY <1>1, <1>2 DEF NoHitWhileWaiting, OrderInv
<1> QED
  BY <1>1, <1>3 DEF OrderInv, callerVars, Histories, QueueOrder, InAskedOrder, AnswerOrder,
     CalledBack, Once, Elements, Before

LEMMA ClearOrder ==
  ASSUME TypeOK, WaitersAreOwed, OrderInv, Clear
  PROVE  OrderInv'
<1>1. /\ Histories /\ AnswerOrder /\ UNCHANGED <<host, asked, answered>>
      /\ \A h \in Hosts : pending'[h] = <<>>
      /\ \A c \in Callers :
           state'[c] = IF state[c] = "waiting" THEN "dropped" ELSE state[c]
  BY DEF OrderInv, Clear, NoQueue
<1>2. Histories'
  <2>1. Elements(asked) = {c \in Callers : state'[c] # "idle"}
    BY <1>1 DEF Histories
  <2>2. CalledBack = {c \in Callers : state'[c] \in {"resolved", "failed", "system"}}
    BY <1>1 DEF Histories
  <2> QED BY <1>1, <2>1, <2>2 DEF Histories, CalledBack, Once, Elements
<1>3. QueueOrder'
  BY <1>1, NothingBefore DEF QueueOrder, InAskedOrder, Once, Elements, Before
<1>4. NoHitWhileWaiting'
  BY <1>1 DEF NoHitWhileWaiting, NoQueue
<1>5. AnswerOrder'
  BY <1>1 DEF AnswerOrder, CalledBack, Before
<1> QED BY <1>2, <1>3, <1>4, <1>5 DEF OrderInv

LEMMA StutterOrder ==
  ASSUME OrderInv, UNCHANGED cacheVars
  PROVE  OrderInv'
BY DEF OrderInv, cacheVars, callerVars, mapVars, Histories, QueueOrder, InAskedOrder,
   AnswerOrder, NoHitWhileWaiting, Hit, Second, CalledBack, Once, Elements, Before

LEMMA NextOrder == TypeOK /\ WaitersAreOwed /\ OrderInv /\ [Next]_vars => OrderInv'
<1> SUFFICES ASSUME TypeOK, WaitersAreOwed, OrderInv, [Next]_vars PROVE OrderInv'
  OBVIOUS
<1>1. ASSUME NEW h \in Hosts, NEW c \in Callers, Resolve(c, h) PROVE OrderInv'
  BY <1>1, HitOrder, WaitOrder DEF Resolve
<1>2. ASSUME NEW h \in Hosts, DohAnswered(h) PROVE OrderInv'
  BY <1>2, SucceedOrder DEF DohAnswered
<1>3. ASSUME NEW h \in Hosts, DohFailed(h) \/ DohTruncated(h) PROVE OrderInv'
  BY <1>3, StutterOrder DEF DohFailed, DohTruncated
<1>4. ASSUME NEW h \in Hosts, FallbackReturns(h) PROVE OrderInv'
  BY <1>4, SucceedOrder, FailOrder DEF FallbackReturns
<1>5. CASE Sweep \/ Tick
  BY <1>5, TimeOrder
<1>6. CASE Clear
  BY <1>6, ClearOrder
<1>7. CASE UNCHANGED vars
  BY <1>7, StutterOrder DEF vars
<1> QED BY <1>1, <1>2, <1>3, <1>4, <1>5, <1>6, <1>7 DEF Next

(* Callers of one host are called back in the order they asked, nobody       *)
(* twice and nobody that clear() dropped, for any interleaving of lookups,   *)
(* hits, expiries, late answers and clear() in dnscache.js.                  *)
THEOREM CallersInOrder == Spec => []AnsweredInOrder
<1>1. Init => TypeOK /\ WaitersAreOwed /\ OrderInv
  BY InitType, InitOwed, InitOrder
<1>2. TypeOK /\ WaitersAreOwed /\ OrderInv /\ [Next]_vars
      => (TypeOK /\ WaitersAreOwed /\ OrderInv)'
  BY NextType, NextOwed, NextOrder
<1> QED BY <1>1, <1>2, OrderInvImplies, PTL DEF Spec

=============================================================================
