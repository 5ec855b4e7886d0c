----------------------------- MODULE SessionProofs -----------------------------
(* Theorems about the HTTP phase, for any number of connections and invites, *)
(* any lifetimes and any size of the burn store: an invite that was granted  *)
(* is not granted again once its grace is over, the store keeps its bound,   *)
(* and the count of open tunnels is right.                                   *)
EXTENDS Session, FiniteSetTheorems, TLAPS

(***************************************************************************)
(* Type correctness.                                                       *)
(***************************************************************************)

Instant == Nat \cup {None}

ClockType == now \in Nat

ConnType ==
  /\ phase \in [Conns -> {"HTTP", "WS", "SSE"}]
  /\ dead \in [Conns -> BOOLEAN]
  /\ timer \in [Conns -> BOOLEAN]
  /\ heads \in [Conns -> Nat]
  /\ waiters \in [Conns -> Nat]
  /\ conn \in [Conns -> {"none", "active", "closed"}]
  /\ active \in Int

InviteType ==
  /\ exp \in [Nonces -> Instant]
  /\ seen \in [Nonces -> Instant]
  /\ first \in [Nonces -> Instant]
  /\ last \in [Nonces -> Instant]

PinType == pin \in Instant /\ probing \in BOOLEAN

SessionType == ClockType /\ ConnType /\ InviteType /\ PinType

LEMMA InitSessionType == Init => SessionType
<1> SUFFICES ASSUME Init PROVE SessionType
  OBVIOUS
<1>1. ClockType /\ PinType
  BY DEF Init, ClockType, PinType, Instant
<1>2. ConnType
  BY DEF Init, ConnType
<1>3. InviteType
  BY DEF Init, InviteType, Instant
<1> QED BY <1>1, <1>2, <1>3 DEF SessionType

LEMMA ConnsFinite ==
  ASSUME NEW C \in SUBSET Conns
  PROVE  IsFiniteSet(C) /\ Cardinality(C) \in Nat
BY SessionAssumption, FS_Subset, FS_CardinalityType

LEMMA DestroyType ==
  ASSUME ConnType, NEW C \in SUBSET Conns, Destroy(C)
  PROVE  /\ dead' \in [Conns -> BOOLEAN] /\ timer' \in [Conns -> BOOLEAN]
         /\ conn' \in [Conns -> {"none", "active", "closed"}] /\ active' \in Int
<1>1. dead' \in [Conns -> BOOLEAN] /\ timer' \in [Conns -> BOOLEAN]
  <2>1. \A c \in Conns : (c \in C \/ dead[c]) \in BOOLEAN /\ (c \notin C /\ timer[c]) \in BOOLEAN
    BY Zenon
  <2>2. /\ dead' = [c \in Conns |-> c \in C \/ dead[c]]
        /\ timer' = [c \in Conns |-> c \notin C /\ timer[c]]
    BY DEF Destroy
  <2> QED BY <2>1, <2>2, Zenon
<1>2. conn' \in [Conns -> {"none", "active", "closed"}]
  BY DEF Destroy, ConnType
<1>3. active' \in Int
  <2>1. PICK n \in Nat : n = Cardinality({c \in C : conn[c] = "active"})
    <3>1. {c \in C : conn[c] = "active"} \in SUBSET Conns
      OBVIOUS
    <3> QED BY <3>1, ConnsFinite
  <2>2. active' = active - n
    BY <2>1 DEF Destroy
  <2> QED BY <2>2 DEF ConnType
<1> QED BY <1>1, <1>2, <1>3

LEMMA RoomType ==
  ASSUME InviteType
  PROVE  Room \in [Nonces -> Instant] /\ \A n \in Nonces : Room[n] # None => Room[n] = seen[n]
BY DEF InviteType, Room, Instant

LEMMA ClaimType ==
  ASSUME ClockType, InviteType, NEW n \in Nonces, Claim(n)
  PROVE  /\ seen' \in [Nonces -> Instant] /\ first' \in [Nonces -> Instant]
         /\ last' \in [Nonces -> Instant]
<1>1. Room \in [Nonces -> Instant] /\ now \in Instant
  BY RoomType DEF ClockType, Instant
<1> QED BY <1>1 DEF Claim, InviteType

LEMMA NextSessionType == SessionType /\ [Next]_vars => SessionType'
<1> SUFFICES ASSUME SessionType, [Next]_vars PROVE SessionType'
  OBVIOUS
<1> USE DEF SessionType
<1>1. ASSUME NEW c \in Conns, Accept(c) PROVE SessionType'
  BY <1>1 DEF Accept, ClockType, ConnType, InviteType, PinType, inviteVars, burnVars, pinVars
<1>2. ASSUME NEW c \in Conns, Head(c) PROVE heads' \in [Conns -> Nat]
  BY <1>2 DEF Head, ConnType
<1>3. ASSUME NEW c \in Conns, Answer(c) \/ Close(c) PROVE SessionType'
  <2>1. Destroy({c}) /\ UNCHANGED <<now, phase, waiters, inviteVars, pinVars>>
    BY <1>3 DEF Answer, Close
  <2>2. heads' \in [Conns -> Nat]
    BY <1>2, <1>3 DEF Answer, Close, ConnType
  <2> QED BY <2>1, <2>2, DestroyType
          DEF ClockType, ConnType, InviteType, PinType, inviteVars, burnVars, pinVars
<1>4. ASSUME NEW c \in Conns, Upgrade(c) \/ Stream(c) \/ Validate(c) PROVE SessionType'
  <2>1. heads' \in [Conns -> Nat]
    BY <1>2, <1>4 DEF Upgrade, Stream, Validate, ConnType, socketVars
  <2>2. ConnType'
    <3>1. CASE Upgrade(c)
      BY <2>1, <3>1 DEF Upgrade, ConnType, statsVars
    <3>2. CASE Stream(c)
      BY <2>1, <3>2 DEF Stream, ConnType, statsVars
    <3>3. CASE Validate(c)
      BY <2>1, <3>3 DEF Validate, ConnType, socketVars
    <3> QED BY <1>4, <3>1, <3>2, <3>3
  <2> QED BY <1>4, <2>2 DEF Upgrade, Stream, Validate, ClockType, InviteType, PinType,
                            inviteVars, burnVars, pinVars
<1>5. ASSUME NEW c \in Conns, NEW n \in Nonces, Redeem(c, n) \/ RedeemPinned(c, n)
      PROVE  SessionType'
  <2>1. Head(c) /\ Claim(n) /\ Destroy({c}) /\ UNCHANGED <<now, phase, waiters, exp>>
    BY <1>5 DEF Redeem, RedeemPinned
  <2>2. ConnType'
    BY <1>2, <2>1, DestroyType DEF ConnType
  <2>3. InviteType'
    BY <2>1, ClaimType DEF InviteType
  <2>4. PinType'
    BY <1>5 DEF Redeem, RedeemPinned, PinType, pinVars
  <2> QED BY <2>1, <2>2, <2>3, <2>4 DEF ClockType
<1>6. ASSUME NEW c \in Conns, NEW n \in Nonces, RedeemAwaits(c, n) PROVE SessionType'
  <2>1. ConnType'
    BY <1>2, <1>6 DEF RedeemAwaits, ConnType, statsVars
  <2>2. InviteType'
    BY <1>6, ClaimType DEF RedeemAwaits, InviteType
  <2> QED BY <1>6, <2>1, <2>2 DEF RedeemAwaits, ClockType, PinType
<1>7. ASSUME NEW n \in Nonces, Mint(n) PROVE SessionType'
  <2>1. Second + InviteTtl \in Nat
    BY SessionAssumption DEF Second, ClockType
  <2> QED BY <1>7, <2>1 DEF Mint, ClockType, ConnType, InviteType, PinType, Instant,
                            socketVars, statsVars, burnVars, pinVars
<1>8. ASSUME NEW ok \in BOOLEAN, Probed(ok) PROVE SessionType'
  <2>1. Destroy(Waiting) /\ Waiting \in SUBSET Conns /\ waiters' = [c \in Conns |-> 0]
    BY <1>8 DEF Probed, Wake, Waiting
  <2>2. ConnType'
    BY <1>8, <2>1, DestroyType DEF Probed, ConnType
  <2> QED BY <1>8, <2>2 DEF Probed, ClockType, InviteType, PinType, Instant, inviteVars, burnVars
<1>9. CASE Tick
  BY <1>9 DEF Tick, ClockType, ConnType, InviteType, PinType,
              socketVars, statsVars, inviteVars, burnVars, pinVars
<1>10. CASE UNCHANGED vars
  BY <1>10 DEF vars, ClockType, ConnType, InviteType, PinType,
               socketVars, statsVars, inviteVars, burnVars, pinVars
<1> QED BY <1>1, <1>3, <1>4, <1>5, <1>6, <1>7, <1>8, <1>9, <1>10 DEF Next

(* A connection, its #state and its invites keep their ranges. *)
THEOREM SessionTypeCorrect == Spec => []SessionType
BY InitSessionType, NextSessionType, PTL DEF Spec

(***************************************************************************)
(* The burn store.  Inductive: InviteStaysBurned does not say that what the *)
(* store holds of an invite is its first grant, nor that an invite that was *)
(* granted and is no longer in the store has expired, which is why a sweep  *)
(* forgets nothing.                                                         *)
(***************************************************************************)

Expired(n) == exp[n] # None /\ exp[n] * SecondTicks <= now

BurnedOnce(n) ==
  /\ seen[n] # None => first[n] = seen[n]
  /\ first[n] # None => exp[n] # None /\ (seen[n] # None \/ Expired(n))
  /\ last[n] # None => /\ first[n] # None
                       /\ last[n] - first[n] < Grace
                       /\ last[n] < exp[n] * SecondTicks

BurnInv == \A n \in Nonces : BurnedOnce(n)

LEMMA BurnInvImplies == BurnInv => InviteStaysBurned
BY DEF BurnInv, BurnedOnce, InviteStaysBurned

LEMMA InitBurn == Init => BurnInv
BY DEF Init, BurnInv, BurnedOnce

(* An invite that verifies has not come to the tick of its expiry. *)
LEMMA SecondBefore ==
  ASSUME NEW t \in Nat, NEW d \in Nat \ {0}, NEW e \in Nat, t \div d < e
  PROVE  t < e * d
<1>1. PICK q \in Nat, r \in Nat : t = d * q + r /\ r < d /\ q = t \div d
  <2>1. t \div d \in Nat /\ t % d \in Nat /\ t % d < d /\ t = d * (t \div d) + (t % d)
    OBVIOUS
  <2> QED BY <2>1
<1>2. q + 1 <= e
  BY <1>1
<1>3. (q + 1) * d <= e * d
  BY <1>2
<1>4. (q + 1) * d = d * q + d
  OBVIOUS
<1> QED BY <1>1, <1>3, <1>4

LEMMA VerifiedNotExpired ==
  ASSUME SessionType, NEW n \in Nonces, Verify(n)
  PROVE  /\ exp[n] # None /\ exp[n] \in Nat /\ exp[n] * SecondTicks \in Nat
         /\ now < exp[n] * SecondTicks
<1>1. PICK e \in Nat, d \in Nat \ {0} : e = exp[n] /\ d = SecondTicks
  BY SessionAssumption DEF SessionType, InviteType, Instant, Verify
<1>2. now \in Nat /\ now \div d < e
  BY <1>1 DEF SessionType, ClockType, Verify, Second
<1>3. now < e * d /\ e * d \in Nat
  BY <1>2, SecondBefore
<1> QED BY <1>1, <1>3 DEF Verify

(* claim(): the invite is new, or was first granted less than a grace ago. *)
LEMMA ClaimBurn ==
  ASSUME SessionType, BurnInv, NEW n \in Nonces, Verify(n), Claim(n), exp' = exp, now' = now
  PROVE  BurnInv'
<1>1. /\ now \in Nat /\ exp[n] # None /\ exp[n] \in Nat /\ exp[n] * SecondTicks \in Nat
      /\ now < exp[n] * SecondTicks /\ ~Expired(n)
  BY VerifiedNotExpired DEF SessionType, ClockType, Expired
<1>2. now # None /\ Grace \in Nat \ {0} /\ now - now = 0
  BY <1>1, SessionAssumption
<1>3. ASSUME NEW m \in Nonces, m # n PROVE BurnedOnce(m)'
  <2>1. first'[m] = first[m] /\ last'[m] = last[m]
    BY <1>3 DEF Claim, SessionType, InviteType
  <2>2. seen'[m] = seen[m] \/ (seen'[m] = None /\ Expired(m))
    <3>1. Room[m] = seen[m] \/ (Room[m] = None /\ m \in Swept)
      BY DEF Room
    <3>2. seen'[m] = seen[m] \/ seen'[m] = Room[m]
      BY <1>3, RoomType DEF Claim, SessionType
    <3>3. m \in Swept => seen[m] # None /\ exp[m] * SecondTicks <= now
      BY DEF Swept
    <3>4. seen[m] # None => exp[m] # None
      BY DEF BurnInv, BurnedOnce
    <3> QED BY <3>1, <3>2, <3>3, <3>4 DEF Expired
  <2>3. BurnedOnce(m)
    BY DEF BurnInv
  <2>4. Expired(m) <=> Expired(m)'
    BY DEF Expired
  <2> QED BY <2>1, <2>2, <2>3, <2>4 DEF BurnedOnce
<1>4. BurnedOnce(n)'
  <2>1. BurnedOnce(n)
    BY DEF BurnInv
  <2>2. CASE seen[n] # None
    <3>1. seen'[n] = seen[n] /\ first[n] = seen[n] /\ first'[n] = first[n]
      BY <2>1, <2>2 DEF Claim, BurnedOnce
    <3>2. last'[n] = last[n] \/ (last'[n] = now /\ now - first[n] < Grace)
      BY <2>2, <3>1 DEF Claim, Granted, SessionType, InviteType
    <3> QED BY <1>1, <2>1, <2>2, <3>1, <3>2 DEF BurnedOnce
  <2>3. CASE seen[n] = None
    <3>1. first[n] = None /\ last[n] = None
      BY <1>1, <2>1, <2>3 DEF BurnedOnce
    <3>2. CASE Granted(n)
      <4>1. seen'[n] = now
        BY <2>3, <3>2, RoomType DEF Claim, SessionType
      <4>2. first'[n] = now /\ last'[n] = now
        BY <3>1, <3>2 DEF Claim, SessionType, InviteType
      <4> QED BY <1>1, <1>2, <4>1, <4>2 DEF BurnedOnce
    <3>3. CASE ~Granted(n)
      <4>1. seen'[n] = None
        <5>1. seen'[n] = Room[n]
          BY <2>3, <3>3 DEF Claim
        <5> QED BY <2>3, <5>1, RoomType DEF SessionType
      <4>2. first'[n] = None /\ last'[n] = None
        BY <3>1, <3>3 DEF Claim
      <4> QED BY <4>1, <4>2 DEF BurnedOnce
    <3> QED BY <3>2, <3>3
  <2> QED BY <2>2, <2>3
<1> QED BY <1>3, <1>4 DEF BurnInv

LEMMA NextBurn == SessionType /\ BurnInv /\ [Next]_vars => BurnInv'
<1> SUFFICES ASSUME SessionType, BurnInv, [Next]_vars PROVE BurnInv'
  OBVIOUS
<1>1. ASSUME inviteVars' = inviteVars, now' \in {now, now + 1} PROVE BurnInv'
  <2>1. \A n \in Nonces : Expired(n) => Expired(n)'
    <3> SUFFICES ASSUME NEW n \in Nonces, Expired(n) PROVE Expired(n)'
      OBVIOUS
    <3>1. PICK x \in Nat : x = exp[n] * SecondTicks
      BY SessionAssumption DEF SessionType, InviteType, Instant, Expired
    <3> QED BY <1>1, <3>1 DEF Expired, SessionType, ClockType, inviteVars
  <2> QED BY <1>1, <2>1 DEF BurnInv, BurnedOnce, inviteVars, burnVars
<1>2. ASSUME NEW c \in Conns, NEW n \in Nonces,
             Redeem(c, n) \/ RedeemPinned(c, n) \/ RedeemAwaits(c, n)
      PROVE  BurnInv'
  <2>1. Verify(n) /\ Claim(n) /\ exp' = exp /\ now' = now
    BY <1>2 DEF Redeem, RedeemPinned, RedeemAwaits
  <2> QED BY <2>1, ClaimBurn
<1>3. ASSUME NEW n \in Nonces, Mint(n) PROVE BurnInv'
  <2>1. \A m \in Nonces : m # n => exp'[m] = exp[m]
    BY <1>3 DEF Mint, SessionType, InviteType
  <2>2. first[n] = None /\ last[n] = None /\ seen[n] = None
    BY <1>3 DEF Mint, BurnInv, BurnedOnce
  <2>3. UNCHANGED <<now, seen, first, last>>
    BY <1>3 DEF Mint, burnVars
  <2> QED BY <2>1, <2>2, <2>3 DEF BurnInv, BurnedOnce, Expired
<1>4. ASSUME \/ \E c \in Conns : \/ Accept(c) \/ Answer(c) \/ Upgrade(c) \/ Validate(c)
                                 \/ Stream(c) \/ Close(c)
             \/ \E ok \in BOOLEAN : Probed(ok)
             \/ Tick \/ UNCHANGED vars
      PROVE  BurnInv'
  <2>1. inviteVars' = inviteVars /\ now' \in {now, now + 1}
    BY <1>4 DEF Accept, Answer, Upgrade, Validate, Stream, Close, Probed, Tick, vars
  <2> QED BY <1>1, <2>1
<1> QED BY <1>2, <1>3, <1>4 DEF Next

(* For any number of invites and connections, any lifetime and grace, and a *)
(* store of any size: an invite is granted for its grace after the first     *)
(* time (claim), never in or after the second it expires (verifyInvite), and *)
(* what a full store sweeps could not be redeemed again.                     *)
THEOREM InvitesStayBurned == Spec => []InviteStaysBurned
<1>1. Init => SessionType /\ BurnInv
  BY InitSessionType, InitBurn
<1>2. SessionType /\ BurnInv /\ [Next]_vars => SessionType' /\ BurnInv'
  BY NextSessionType, NextBurn
<1> QED BY <1>1, <1>2, BurnInvImplies, PTL DEF Spec

(***************************************************************************)
(* The size of the burn store.                                             *)
(***************************************************************************)

StoreBounded == Cardinality(Burned(seen)) <= MaxBurned

LEMMA NoncesFinite ==
  ASSUME NEW N \in SUBSET Nonces
  PROVE  IsFiniteSet(N) /\ Cardinality(N) \in Nat
BY SessionAssumption, FS_Subset, FS_CardinalityType

LEMMA ClaimBounded ==
  ASSUME SessionType, StoreBounded, NEW n \in Nonces, Claim(n)
  PROVE  StoreBounded'
<1>1. MaxBurned \in Nat /\ None \notin Nat /\ now \in Nat
  BY SessionAssumption DEF SessionType, ClockType
<1>2. Burned(seen) \in SUBSET Nonces /\ Burned(Room) \in SUBSET Nonces
  BY DEF Burned
<1>3. /\ IsFiniteSet(Burned(seen)) /\ IsFiniteSet(Burned(Room))
      /\ Cardinality(Burned(seen)) \in Nat /\ Cardinality(Burned(Room)) \in Nat
  BY <1>2, NoncesFinite
<1>4. Cardinality(Burned(Room)) <= MaxBurned
  <2>1. Burned(Room) \subseteq Burned(seen)
    BY RoomType DEF Burned, SessionType
  <2>2. Cardinality(Burned(Room)) <= Cardinality(Burned(seen))
    BY <1>3, <2>1, FS_Subset
  <2> QED BY <1>1, <1>3, <2>2 DEF StoreBounded
<1>5. CASE seen[n] # None
  <2>1. seen' = seen
    BY <1>5 DEF Claim
  <2> QED BY <2>1 DEF StoreBounded
<1>6. CASE seen[n] = None /\ ~Granted(n)
  <2>1. seen' = Room
    BY <1>6 DEF Claim
  <2> QED BY <1>4, <2>1 DEF StoreBounded
<1>7. CASE seen[n] = None /\ Granted(n)
  <2>1. seen' = [Room EXCEPT ![n] = now] /\ Cardinality(Burned(Room)) < MaxBurned
    BY <1>7 DEF Claim, Granted
  <2>2. n \notin Burned(Room)
    BY <1>7, RoomType DEF Burned, SessionType
  <2>3. Burned(seen') = Burned(Room) \cup {n}
    BY <1>1, <2>1, RoomType DEF Burned, SessionType
  <2>4. Cardinality(Burned(Room) \cup {n}) = Cardinality(Burned(Room)) + 1
    BY <1>3, <2>2, FS_AddElement
  <2>5. Cardinality(Burned(seen')) <= MaxBurned
    <3>1. PICK k \in Nat : k = Cardinality(Burned(Room)) /\ k < MaxBurned
      BY <1>3, <2>1
    <3>2. Cardinality(Burned(seen')) = k + 1
      BY <2>3, <2>4, <3>1
    <3> QED BY <1>1, <3>1, <3>2
  <2> QED BY <2>5 DEF StoreBounded, Burned
<1> QED BY <1>5, <1>6, <1>7

LEMMA NextBounded == SessionType /\ StoreBounded /\ [Next]_vars => StoreBounded'
<1> SUFFICES ASSUME SessionType, StoreBounded, [Next]_vars PROVE StoreBounded'
  OBVIOUS
<1>1. ASSUME NEW c \in Conns, NEW n \in Nonces,
             Redeem(c, n) \/ RedeemPinned(c, n) \/ RedeemAwaits(c, n)
      PROVE  StoreBounded'
  <2>1. Claim(n)
    BY <1>1 DEF Redeem, RedeemPinned, RedeemAwaits
  <2> QED BY <2>1, ClaimBounded
<1>2. ASSUME \/ \E c \in Conns : \/ Accept(c) \/ Answer(c) \/ Upgrade(c) \/ Validate(c)
                                 \/ Stream(c) \/ Close(c)
             \/ \E n \in Nonces : Mint(n)
             \/ \E ok \in BOOLEAN : Probed(ok)
             \/ Tick \/ UNCHANGED vars
      PROVE  StoreBounded'
  <2>1. seen' = seen
    BY <1>2 DEF Accept, Answer, Upgrade, Validate, Stream, Close, Mint, Probed, Tick, vars,
                inviteVars, burnVars
  <2> QED BY <2>1 DEF StoreBounded
<1> QED BY <1>1, <1>2 DEF Next

(* The burn store never holds more entries than its max, whatever is        *)
(* redeemed and whenever: a claim that finds no room after its sweep is      *)
(* refused and enters nothing.                                               *)
THEOREM BurnStoreBounded == Spec => []StoreBounded
<1>1. Init => StoreBounded
  <2> SUFFICES ASSUME Init PROVE StoreBounded
    OBVIOUS
  <2>1. Burned(seen) = {}
    BY DEF Init, Burned
  <2>2. Cardinality(Burned(seen)) = 0
    BY <2>1, FS_EmptySet
  <2> QED BY <2>2, SessionAssumption DEF StoreBounded
<1> QED BY <1>1, InitSessionType, NextSessionType, NextBounded, PTL DEF Spec

(***************************************************************************)
(* The count of the dashboard.                                             *)
(***************************************************************************)

Active == {c \in Conns : conn[c] = "active"}

LEMMA DestroyCount ==
  ASSUME SessionType, DeadIsReaped, NEW C \in SUBSET Conns, Destroy(C)
  PROVE  DeadIsReaped'
<1>1. /\ Active \in SUBSET Conns
      /\ active = Cardinality(Active) /\ \A c \in Conns : dead[c] => ~timer[c] /\ conn[c] # "active"
  BY DEF DeadIsReaped, Active
<1>2. /\ Active' = Active \ C
      /\ {c \in C : conn[c] = "active"} = Active \cap C
  BY DEF Destroy, Active, SessionType, ConnType
<1>3. Cardinality(Active \ C) = Cardinality(Active) - Cardinality(Active \cap C)
  BY <1>1, ConnsFinite, FS_Difference
<1>4. active' = Cardinality(Active')
  BY <1>1, <1>2, <1>3 DEF Destroy
<1>5. ASSUME NEW c \in Conns, dead'[c] PROVE ~timer'[c] /\ conn'[c] # "active"
  <2>1. /\ dead' = [x \in Conns |-> x \in C \/ dead[x]]
        /\ timer' = [x \in Conns |-> x \notin C /\ timer[x]]
        /\ conn' = [x \in Conns |-> IF x \in C /\ conn[x] = "active" THEN "closed" ELSE conn[x]]
    BY DEF Destroy
  <2>2. c \in C \/ dead[c]
    BY <1>5, <2>1
  <2>3. ~timer'[c]
    BY <1>1, <2>1, <2>2
  <2>4. conn'[c] # "active"
    BY <1>1, <2>1, <2>2
  <2> QED BY <2>3, <2>4
<1> QED BY <1>4, <1>5 DEF DeadIsReaped, Active

LEMMA NextCount == SessionType /\ DeadIsReaped /\ [Next]_vars => DeadIsReaped'
<1> SUFFICES ASSUME SessionType, DeadIsReaped, [Next]_vars PROVE DeadIsReaped'
  OBVIOUS
<1>1. /\ active = Cardinality(Active) /\ Active \in SUBSET Conns
      /\ \A c \in Conns : dead[c] => ~timer[c] /\ conn[c] # "active"
  BY DEF DeadIsReaped, Active
<1>2. ASSUME UNCHANGED <<dead, timer, statsVars>> PROVE DeadIsReaped'
  BY <1>2 DEF DeadIsReaped, statsVars
<1>3. ASSUME NEW c \in Conns, Accept(c) PROVE DeadIsReaped'
  <2>1. conn[c] # "active" /\ ~timer[c]
    BY <1>1, <1>3 DEF Accept
  <2>2. conn' = [conn EXCEPT ![c] = "none"] /\ active' = active /\ timer' = timer
        /\ dead' = [dead EXCEPT ![c] = FALSE]
    BY <1>3 DEF Accept
  <2>3. Active' = Active
    BY <2>1, <2>2 DEF Active, SessionType, ConnType
  <2>4. \A d \in Conns : dead'[d] => dead[d] /\ conn'[d] \in {conn[d], "none"}
    BY <2>2 DEF SessionType, ConnType
  <2> QED BY <1>1, <2>2, <2>3, <2>4 DEF DeadIsReaped, Active
<1>4. ASSUME NEW c \in Conns, Validate(c) PROVE DeadIsReaped'
  <2>1. /\ ~dead[c] /\ conn[c] = "none" /\ conn' = [conn EXCEPT ![c] = "active"]
        /\ active' = active + 1 /\ dead' = dead /\ timer' = timer
    BY <1>4 DEF Validate, socketVars
  <2>2. Active' = Active \cup {c} /\ c \notin Active
    BY <2>1 DEF Active, SessionType, ConnType
  <2>3. Cardinality(Active \cup {c}) = Cardinality(Active) + 1
    BY <1>1, <2>2, ConnsFinite, FS_AddElement
  <2>4. active' = Cardinality(Active')
    BY <1>1, <2>1, <2>2, <2>3
  <2>5. \A d \in Conns : dead[d] => conn'[d] = conn[d]
    BY <2>1 DEF SessionType, ConnType
  <2> QED BY <1>1, <2>1, <2>4, <2>5 DEF DeadIsReaped, Active
<1>5. ASSUME NEW c \in Conns, Stream(c) PROVE DeadIsReaped'
  <2>1. ~dead[c] /\ timer' = [timer EXCEPT ![c] = TRUE] /\ dead' = dead /\ UNCHANGED statsVars
    BY <1>5 DEF Stream, Head
  <2>2. \A d \in Conns : dead[d] => timer'[d] = timer[d]
    BY <2>1, Zenon DEF SessionType, ConnType
  <2> QED BY <1>1, <2>1, <2>2 DEF DeadIsReaped, statsVars
<1>6. ASSUME \/ \E c \in Conns : \/ Answer(c) \/ Close(c)
                                 \/ \E n \in Nonces : Redeem(c, n) \/ RedeemPinned(c, n)
             \/ \E ok \in BOOLEAN : Probed(ok)
      PROVE  DeadIsReaped'
  <2>1. \E C \in SUBSET Conns : Destroy(C)
    <3>1. Waiting \in SUBSET Conns /\ \A c \in Conns : {c} \in SUBSET Conns
      BY DEF Waiting
    <3> QED BY <1>6, <3>1 DEF Answer, Close, Redeem, RedeemPinned, Probed, Wake
  <2> QED BY <2>1, DestroyCount
<1>7. ASSUME \/ \E c \in Conns : Upgrade(c) \/ \E n \in Nonces : RedeemAwaits(c, n)
             \/ \E n \in Nonces : Mint(n)
             \/ Tick \/ UNCHANGED vars
      PROVE  DeadIsReaped'
  <2>1. UNCHANGED <<dead, timer, statsVars>>
    BY <1>7 DEF Upgrade, RedeemAwaits, Mint, Tick, vars, socketVars
  <2> QED BY <1>2, <2>1
<1> QED BY <1>3, <1>4, <1>5, <1>6, <1>7 DEF Next

(* For any number of connections: activeConnections counts exactly the       *)
(* tunnels that are open, none twice, and a connection that has ended, by    *)
(* whichever event and however often destroy() is called, is in no count and *)
(* has no interval left.                                                     *)
THEOREM ConnectionsCounted == Spec => []DeadIsReaped
<1>1. Init => DeadIsReaped
  <2> SUFFICES ASSUME Init PROVE DeadIsReaped
    OBVIOUS
  <2>1. {c \in Conns : conn[c] = "active"} = {}
    BY DEF Init
  <2>2. Cardinality({c \in Conns : conn[c] = "active"}) = 0
    BY <2>1, FS_EmptySet
  <2> QED BY <2>2 DEF Init, DeadIsReaped
<1> QED BY <1>1, InitSessionType, NextSessionType, NextCount, PTL DEF Spec

(***************************************************************************)
(* The pin cache.  The property is inductive with the types.               *)
(***************************************************************************)

LEMMA NextAwaited == SessionType /\ AwaitedIsProbed /\ [Next]_vars => AwaitedIsProbed'
<1> SUFFICES ASSUME SessionType, AwaitedIsProbed, [Next]_vars, NEW c \in Conns, waiters'[c] > 0
             PROVE  probing' /\ pin' = None
  BY DEF AwaitedIsProbed
<1>1. ASSUME waiters' = waiters, UNCHANGED pinVars PROVE probing' /\ pin' = None
  BY <1>1 DEF AwaitedIsProbed, pinVars
<1>2. ASSUME NEW d \in Conns, Accept(d) \/ Answer(d) \/ Upgrade(d) \/ Validate(d) \/ Stream(d) \/ Close(d)
      PROVE  probing' /\ pin' = None
  BY <1>1, <1>2 DEF Accept, Answer, Upgrade, Validate, Stream, Close, socketVars
<1>3. ASSUME NEW d \in Conns, NEW n \in Nonces, Redeem(d, n) PROVE probing' /\ pin' = None
  BY <1>1, <1>3 DEF Redeem
<1>4. ASSUME NEW d \in Conns, NEW n \in Nonces, RedeemPinned(d, n) PROVE probing' /\ pin' = None
  BY <1>4 DEF RedeemPinned, AwaitedIsProbed
<1>5. ASSUME NEW d \in Conns, NEW n \in Nonces, RedeemAwaits(d, n) PROVE probing' /\ pin' = None
  BY <1>5 DEF RedeemAwaits
<1>6. ASSUME NEW n \in Nonces, Mint(n) PROVE probing' /\ pin' = None
  BY <1>1, <1>6 DEF Mint, socketVars
<1>7. ASSUME NEW ok \in BOOLEAN, Probed(ok) PROVE FALSE
  <2>1. waiters'[c] = 0
    BY <1>7 DEF Probed, Wake
  <2> QED BY <2>1
<1>8. CASE Tick \/ UNCHANGED vars
  BY <1>1, <1>8 DEF Tick, vars, socketVars
<1> QED BY <1>2, <1>3, <1>4, <1>5, <1>6, <1>7, <1>8 DEF Next

(* Who waits for the pin waits for a probe that is under way: the handlers    *)
(* that joined it are woken by it, well or not, and none joins one that has   *)
(* ended (createPinCache, serveInvite).                                       *)
THEOREM AwaitedProbed == Spec => []AwaitedIsProbed
<1>1. Init => SessionType /\ AwaitedIsProbed
  BY InitSessionType DEF Init, AwaitedIsProbed
<1>2. SessionType /\ AwaitedIsProbed /\ [Next]_vars => (SessionType /\ AwaitedIsProbed)'
  BY NextSessionType, NextAwaited
<1> QED BY <1>1, <1>2, PTL DEF Spec

=============================================================================
