----------------------------- MODULE NameService -----------------------------
(***************************************************************************)
(* What the resolver of the Node server promises to a caller: DnsCache over *)
(* DohResolver implements it.  A caller asks once, for one host, and is     *)
(* called back once.  The address it is given is the one the host resolved  *)
(* to most recently, learned less than Ttl seconds ago; callers waiting for *)
(* one host are called back together.                                       *)
(***************************************************************************)
EXTENDS Integers

CONSTANTS Hosts, Callers, None, Ttl, SecondTicks

VARIABLES
  now,    \* the clock, in ticks
  host,   \* the host a caller asked for
  state,  \* "idle", "waiting" or what the caller was called back with
  stamp,  \* when the address it was given was learned
  said    \* when each host was last resolved

vars == <<now, host, state, stamp, said>>

Seconds(t) == t \div SecondTicks

Init ==
  /\ now = 0
  /\ host = [c \in Callers |-> None]
  /\ state = [c \in Callers |-> "idle"]
  /\ stamp = [c \in Callers |-> 0]
  /\ said = [h \in Hosts |-> None]

Tick == now' = now + 1 /\ UNCHANGED <<host, state, stamp, said>>

(* The callers in C are given the address of host h. *)
Reply(C, h) ==
  /\ said'[h] # None /\ Seconds(now) - Seconds(said'[h]) < Ttl
  /\ state' = [c \in Callers |-> IF c \in C THEN "resolved" ELSE state[c]]
  /\ stamp' = [c \in Callers |-> IF c \in C THEN said'[h] ELSE stamp[c]]

Waiting(h) == {c \in Callers : state[c] = "waiting" /\ host[c] = h}

Wait(c, h) ==
  /\ state[c] = "idle"
  /\ host' = [host EXCEPT ![c] = h]
  /\ state' = [state EXCEPT ![c] = "waiting"]
  /\ UNCHANGED <<now, stamp, said>>

ReplyAtOnce(c, h) ==
  /\ state[c] = "idle"
  /\ host' = [host EXCEPT ![c] = h]
  /\ UNCHANGED <<now, said>>
  /\ Reply({c}, h)

(* A host is resolved: whoever waits for it hears of it. *)
Resolved(h) ==
  /\ said' = [said EXCEPT ![h] = now]
  /\ Reply(Waiting(h), h)
  /\ UNCHANGED <<now, host>>

(* Nobody waiting for h is left behind: a datagram is dropped, a connection *)
(* asks the system resolver.                                                *)
Unresolved(h) ==
  /\ \A c \in Callers : IF c \in Waiting(h) THEN state'[c] \in {"failed", "system"}
                                           ELSE state'[c] = state[c]
  /\ UNCHANGED <<now, host, stamp, said>>

(* clear(): everyone who waits is forgotten, and never called back. *)
Forget ==
  /\ state' = [c \in Callers |-> IF state[c] = "waiting" THEN "dropped" ELSE state[c]]
  /\ UNCHANGED <<now, host, stamp, said>>

Next ==
  \/ Tick \/ Forget
  \/ \E h \in Hosts : \/ Resolved(h) \/ Unresolved(h)
                      \/ \E c \in Callers : Wait(c, h) \/ ReplyAtOnce(c, h)

Spec == Init /\ [][Next]_vars
=============================================================================
