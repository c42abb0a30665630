----------------------- MODULE CallsAndCommands_proofs -----------------------
(* What the bot sends and what it is told.  The limits of the gateway hold and  *)
(* nothing is sent through a closed one, for any number of callers, lanes,      *)
(* slots, attempts and any providers.  What the administrators confirm reaches  *)
(* the policy as it was meant, for any number of operators, records, status     *)
(* changes, previews, crashes and instants.                                     *)
EXTENDS GatewayCalls, PolicyIntake, FiniteSetTheorems, WellFoundedInduction, TLAPS

(* Permits and admissions are those of the calls under way.                     *)
InLane(l) == {c \in Callers : LaneOf[c] = l /\ call[c].at \in Waiting \ {"lane"}}
InSlot == {c \in Callers : call[c].at \in {"post", "backoff"}}
PermitsOK ==
    /\ active = {c \in Callers : call[c].at \in Waiting}
    /\ total = Cardinality(InSlot) /\ total <= Total
    /\ \A l \in DOMAIN Lanes : lanes[l] = Cardinality(InLane(l)) /\ lanes[l] <= Lanes[l]
    /\ Cardinality(active \ Business) <= Total + MaxPending

(* The gateway is closed once, and the way there tells what is open: clients    *)
(* until the calls have ended or were cancelled, no call without a gateway.     *)
ServiceOK ==
    /\ closer = "none" <=> gateway # "closed"
    /\ accepting => closer \in {"none", "gate", "done"}
    /\ ~accepting => closer \in {"drain", "join", "clients", "done", "abandoned"}
    /\ gateway = "built" \/ closer \in {"gate", "drain"} => clients = Available
    /\ closer = "done" /\ ~accepting => clients = {}
    /\ \A c \in Callers : call[c].at \in {"holding"} \union Waiting =>
        gateway = "built" \/ closer = "gate" \/ ~accepting
    /\ closer \in {"clients", "done"} => active = {}
    /\ closer \in {"join", "abandoned"} => \A c \in active : call[c].stop = "cancel"
    /\ \A c \in Callers : call[c].at \in Waiting => call[c].provider \in Available
    /\ \A c \in Callers : call[c].at = "backoff" => call[c].tries < MaxAttempts
    /\ \A c \in Callers : call[c].stop # "no" => call[c].at \in Waiting

IInv == TypeOK /\ PermitsOK /\ ServiceOK
-----------------------------------------------------------------------------
(* Counting.                                                                    *)

Slots(place) == IF place \in {"post", "backoff"} THEN 1 ELSE 0
LanesOf(place) == IF place \in Waiting \ {"lane"} THEN 1 ELSE 0

\* A set that one element enters or leaves.
LEMMA OneMoves ==
    ASSUME NEW S, IsFiniteSet(S), NEW c, NEW T, T \ {c} = S \ {c}
    PROVE  /\ Cardinality(S) \in Nat /\ Cardinality(T) \in Nat
           /\ (c \in S <=> c \in T) => Cardinality(T) = Cardinality(S)
           /\ c \notin S /\ c \in T => Cardinality(T) = Cardinality(S) + 1
           /\ c \in S /\ c \notin T => Cardinality(T) = Cardinality(S) - 1
<1>1. Cardinality(S) \in Nat
    BY FS_CardinalityType
<1>2. CASE c \in S <=> c \in T
    <2>1. S = T
        BY <1>2
    <2> QED  BY <1>1, <1>2, <2>1
<1>3. CASE c \notin S /\ c \in T
    <2>1. T = S \union {c}
        BY <1>3
    <2>2. Cardinality(T) = Cardinality(S) + 1
        BY <1>3, <2>1, FS_AddElement
    <2> QED  BY <1>1, <1>3, <2>2
<1>4. CASE c \in S /\ c \notin T
    <2>1. T = S \ {c}
        BY <1>4
    <2>2. Cardinality(T) = Cardinality(S) - 1 /\ IsFiniteSet(T)
        BY <1>4, <2>1, FS_RemoveElement
    <2>3. Cardinality(T) \in Nat
        BY <2>2, FS_CardinalityType
    <2> QED  BY <1>1, <1>4, <2>2, <2>3
<1> QED  BY <1>2, <1>3, <1>4

LEMMA Finite ==
    ASSUME NEW S \in SUBSET Callers
    PROVE  IsFiniteSet(S)
BY FS_Subset, CallersAssumption

\* A call that goes to r: it takes and gives back permits as it goes, is admitted once and
\* stays cancelled.
Moves(c, r) ==
    /\ call' = [call EXCEPT ![c] = r]
    /\ active' = IF r.at \in Waiting THEN active \union {c} ELSE active \ {c}
    /\ total' = total + Slots(r.at) - Slots(call[c].at) /\ total' <= Total
    /\ lanes' = [lanes EXCEPT ![LaneOf[c]] = @ + LanesOf(r.at) - LanesOf(call[c].at)]
    /\ lanes'[LaneOf[c]] <= Lanes[LaneOf[c]]
    /\ r.at \in Waiting =>
        /\ r.provider \in Available
        /\ \/ call[c].at \in Waiting /\ (call[c].stop = "cancel" => r.stop = "cancel")
           \/ /\ call[c].at = "holding" /\ accepting
              /\ c \in Business \/ Cardinality(active) < Total + MaxPending
    /\ r.at # "holding" /\ (r.at = "backoff" => r.tries < MaxAttempts)
    /\ r.stop # "no" => r.at \in Waiting
    /\ UNCHANGED <<accepting, clients, gateway, closer, economy>>

LEMMA PermitsMove ==
    ASSUME TypeOK, PermitsOK, NEW c \in Callers, NEW r, Moves(c, r)
    PROVE  PermitsOK' /\ total' \in Nat /\ lanes' \in [DOMAIN Lanes -> Nat] /\ active' \subseteq Callers
<1> USE DEF TypeOK, PermitsOK, Moves
<1>1. call' = [d \in Callers |-> IF d = c THEN r ELSE call[d]]
    OBVIOUS
<1>2. active' = {d \in Callers : call'[d].at \in Waiting}
    BY <1>1
<1>3. total' = Cardinality(InSlot') /\ total' \in Nat
    <2>1. InSlot' \ {c} = InSlot \ {c}
        BY <1>1 DEF InSlot
    <2>2. (c \in InSlot <=> Slots(call[c].at) = 1) /\ (c \in InSlot' <=> Slots(r.at) = 1)
          /\ Slots(call[c].at) \in {0, 1} /\ Slots(r.at) \in {0, 1}
        BY <1>1 DEF InSlot, Slots
    <2>3. IsFiniteSet(InSlot)
        BY Finite DEF InSlot
    <2> HIDE DEF TypeOK, PermitsOK
    <2>4. total = Cardinality(InSlot)
        BY DEF PermitsOK
    <2> QED  BY <2>1, <2>2, <2>3, <2>4, OneMoves
<1>4. ASSUME NEW l \in DOMAIN Lanes
      PROVE  lanes'[l] = Cardinality(InLane(l)') /\ lanes'[l] \in Nat /\ lanes'[l] <= Lanes[l]
    <2>1. InLane(l)' \ {c} = InLane(l) \ {c}
        BY <1>1 DEF InLane
    <2>2. (c \in InLane(l) <=> LaneOf[c] = l /\ LanesOf(call[c].at) = 1)
          /\ (c \in InLane(l)' <=> LaneOf[c] = l /\ LanesOf(r.at) = 1)
          /\ LanesOf(call[c].at) \in {0, 1} /\ LanesOf(r.at) \in {0, 1}
        BY <1>1 DEF InLane, LanesOf
    <2>3. IsFiniteSet(InLane(l))
        BY Finite DEF InLane
    <2>4. /\ LaneOf[c] = l => lanes'[l] = lanes[l] + LanesOf(r.at) - LanesOf(call[c].at)
          /\ LaneOf[c] # l => lanes'[l] = lanes[l]
          /\ lanes[l] = Cardinality(InLane(l)) /\ lanes[l] <= Lanes[l]
        OBVIOUS
    <2> HIDE DEF TypeOK, PermitsOK
    <2> QED  BY <2>1, <2>2, <2>3, <2>4, OneMoves
<1>5. Cardinality(active' \ Business) <= Total + MaxPending
    <2>1. IsFiniteSet(active) /\ IsFiniteSet(active \ Business)
        BY Finite
    <2>2. Cardinality(active) \in Nat /\ Cardinality(active \ Business) \in Nat
          /\ Cardinality(active \ Business) <= Cardinality(active)
        BY <2>1, FS_CardinalityType, FS_Subset
    <2>3. CASE r.at \in Waiting /\ c \notin Business /\ c \notin active
        <3>1. active' \ Business = (active \ Business) \union {c}
            BY <2>3
        <3>2. Cardinality(active' \ Business) = Cardinality(active \ Business) + 1
            BY <2>1, <2>3, <3>1, FS_AddElement
        <3> QED  BY <2>2, <2>3, <3>2, BoundsAssumption
    <2>4. CASE ~(r.at \in Waiting /\ c \notin Business /\ c \notin active)
        <3>1. active' \ Business \in SUBSET (active \ Business)
            BY <2>4
        <3>2. Cardinality(active' \ Business) \in Nat
              /\ Cardinality(active' \ Business) <= Cardinality(active \ Business)
            BY <2>1, <3>1, FS_Subset, FS_CardinalityType
        <3> QED  BY <2>2, <3>2, BoundsAssumption
    <2> QED  BY <2>3, <2>4
<1>6. PermitsOK'
    BY <1>2, <1>3, <1>4, <1>5
<1>7. lanes' \in [DOMAIN Lanes -> Nat]
    BY <1>4
<1> QED  BY <1>2, <1>3, <1>6, <1>7

\* Calls that stay where they are keep what they have.
LEMMA PermitsStay ==
    ASSUME PermitsOK, UNCHANGED <<active, lanes, total>>,
           \A c \in Callers : call'[c].at = call[c].at
    PROVE  PermitsOK'
<1>1. InSlot' = InSlot /\ \A l \in DOMAIN Lanes : InLane(l)' = InLane(l)
    BY DEF InSlot, InLane
<1> QED  BY <1>1 DEF PermitsOK

\* The permits of a lane after a move.
LEMMA LaneMoves ==
    ASSUME TypeOK, PermitsOK, NEW c \in Callers, NEW old \in {0, 1}, NEW new \in {0, 1},
           lanes' = [lanes EXCEPT ![LaneOf[c]] = @ + (new - old)],
           new <= old \/ lanes[LaneOf[c]] < Lanes[LaneOf[c]]
    PROVE  /\ lanes' = [lanes EXCEPT ![LaneOf[c]] = @ + new - old]
           /\ lanes'[LaneOf[c]] <= Lanes[LaneOf[c]]
<1>1. /\ lanes \in [DOMAIN Lanes -> Nat] /\ LaneOf[c] \in DOMAIN Lanes
      /\ lanes[LaneOf[c]] \in Nat /\ Lanes[LaneOf[c]] \in Nat /\ lanes[LaneOf[c]] <= Lanes[LaneOf[c]]
    BY CallersAssumption DEF TypeOK, PermitsOK
<1>2. lanes[LaneOf[c]] + (new - old) = lanes[LaneOf[c]] + new - old
    BY <1>1
<1>3. lanes' = [lanes EXCEPT ![LaneOf[c]] = @ + new - old]
    BY <1>2
<1>4. lanes'[LaneOf[c]] = lanes[LaneOf[c]] + new - old
    BY <1>1, <1>3
<1>5. lanes[LaneOf[c]] + new - old <= Lanes[LaneOf[c]]
    BY <1>1
<1> QED  BY <1>3, <1>4, <1>5

\* A move that takes no permit and gives none back.
LEMMA SamePermits ==
    ASSUME TypeOK, PermitsOK, NEW c \in Callers, NEW r, UNCHANGED <<total, lanes>>,
           Slots(r.at) = Slots(call[c].at), LanesOf(r.at) = LanesOf(call[c].at)
    PROVE  /\ total' = total + Slots(r.at) - Slots(call[c].at) /\ total' <= Total
           /\ lanes' = [lanes EXCEPT ![LaneOf[c]] = @ + LanesOf(r.at) - LanesOf(call[c].at)]
           /\ lanes'[LaneOf[c]] <= Lanes[LaneOf[c]]
<1>1. /\ Slots(r.at) \in {0, 1} /\ Slots(call[c].at) \in {0, 1}
      /\ LanesOf(r.at) \in {0, 1} /\ LanesOf(call[c].at) \in {0, 1}
    BY DEF Slots, LanesOf
<1>2. /\ total \in Nat /\ total <= Total /\ lanes \in [DOMAIN Lanes -> Nat]
      /\ LaneOf[c] \in DOMAIN Lanes /\ lanes[LaneOf[c]] <= Lanes[LaneOf[c]]
    BY CallersAssumption DEF TypeOK, PermitsOK
<1>3. total' = total + Slots(r.at) - Slots(call[c].at) /\ total' <= Total
    BY <1>1, <1>2
<1>4. lanes[LaneOf[c]] = lanes[LaneOf[c]] + LanesOf(r.at) - LanesOf(call[c].at)
    BY <1>1, <1>2
<1>5. lanes' = [lanes EXCEPT ![LaneOf[c]] = @ + LanesOf(r.at) - LanesOf(call[c].at)]
    BY <1>2, <1>4
<1> QED  BY <1>2, <1>3, <1>5

LEMMA MovesKeep ==
    ASSUME IInv, NEW c \in Callers, NEW r \in Calls, Moves(c, r)
    PROVE  IInv'
<1>1. TypeOK /\ PermitsOK /\ ServiceOK
    BY DEF IInv
<1>2. PermitsOK' /\ total' \in Nat /\ lanes' \in [DOMAIN Lanes -> Nat] /\ active' \subseteq Callers
    BY <1>1, PermitsMove
<1>3. call' \in [Callers -> Calls] /\ call' = [d \in Callers |-> IF d = c THEN r ELSE call[d]]
    BY <1>1 DEF Moves, TypeOK
<1>4. TypeOK'
    BY <1>1, <1>2, <1>3 DEF TypeOK, Moves
<1>5. /\ UNCHANGED <<accepting, clients, gateway, closer>>
      /\ \A d \in active' : d \in active \/ (d = c /\ r.at \in Waiting)
      /\ r.at # "holding" /\ (r.at = "backoff" => r.tries < MaxAttempts)
      /\ r.stop # "no" => r.at \in Waiting
    BY DEF Moves
<1>6. r.at \in Waiting =>
        /\ r.provider \in Available
        /\ call[c].at \in {"holding"} \union Waiting
        /\ call[c].at \in Waiting => c \in active /\ (call[c].stop = "cancel" => r.stop = "cancel")
        /\ call[c].at \notin Waiting => accepting /\ call[c].at = "holding"
    <2>1. c \in active <=> call[c].at \in Waiting
        BY <1>1 DEF PermitsOK
    <2>2. r.at \in Waiting =>
            /\ r.provider \in Available
            /\ \/ call[c].at \in Waiting /\ (call[c].stop = "cancel" => r.stop = "cancel")
               \/ call[c].at = "holding" /\ accepting
        BY DEF Moves
    <2> QED  BY <2>1, <2>2 DEF Waiting
<1>7. ServiceOK'
    <2>1. \A d \in active' : 
            (call'[d] = call[d] /\ d \in active) \/ (d = c /\ call'[d] = r /\ r.at \in Waiting)
        BY <1>1, <1>2, <1>3, <1>5 DEF PermitsOK
    <2>2. closer' \in {"clients", "done"} => active' = {}
        <3> SUFFICES ASSUME closer \in {"clients", "done"}, NEW d \in active'
                     PROVE  FALSE
            BY <1>5
        <3>1. active = {} /\ gateway = "closed" /\ closer # "gate"
            BY <1>1 DEF ServiceOK, TypeOK
        <3>2. d = c /\ r.at \in Waiting
            BY <2>1, <3>1
        <3>3. c \notin active
            BY <3>1
        <3>4. call[c].at \notin Waiting
            BY <1>6, <3>2, <3>3
        <3>5. accepting
            BY <1>6, <3>2, <3>4
        <3>6. call[c].at = "holding"
            BY <1>6, <3>2, <3>4
        <3> QED  BY <1>1, <3>1, <3>5, <3>6 DEF ServiceOK
    <2>3. closer' \in {"join", "abandoned"} => \A d \in active' : call'[d].stop = "cancel"
        <3> SUFFICES ASSUME closer \in {"join", "abandoned"}, NEW d \in active'
                     PROVE  call'[d].stop = "cancel"
            BY <1>5
        <3>1. ~accepting /\ \A e \in active : call[e].stop = "cancel"
            BY <1>1 DEF ServiceOK
        <3> QED  BY <1>6, <2>1, <3>1
    <2>4. \A d \in Callers : call'[d].at \in {"holding"} \union Waiting =>
                gateway' = "built" \/ closer' = "gate" \/ ~accepting'
        BY <1>1, <1>3, <1>5, <1>6 DEF ServiceOK
    <2>5. \A d \in Callers : call'[d].at \in Waiting => call'[d].provider \in Available
        BY <1>1, <1>3, <1>6 DEF ServiceOK
    <2>6. \A d \in Callers : call'[d].at = "backoff" => call'[d].tries < MaxAttempts
        BY <1>1, <1>3, <1>5 DEF ServiceOK
    <2>7. \A d \in Callers : call'[d].stop # "no" => call'[d].at \in Waiting
        BY <1>1, <1>3, <1>5 DEF ServiceOK
    <2> QED  BY <1>1, <1>5, <2>2, <2>3, <2>4, <2>5, <2>6, <2>7 DEF ServiceOK
<1> QED  BY <1>2, <1>4, <1>7 DEF IInv

-----------------------------------------------------------------------------
(* The steps of a call.                                                         *)

\* A call that is out and gets the gateway or does not: the only step of a call before it is
\* admitted.
LEMMA GetGatewayStep ==
    ASSUME IInv, NEW c \in Callers, GetGateway(c)
    PROVE  IInv'
<1>1. TypeOK /\ PermitsOK /\ ServiceOK
    BY DEF IInv
<1>2. PICK r \in Calls :
        /\ call' = [call EXCEPT ![c] = r] /\ r.at \in {"holding", "failed"}
        /\ r.at = "holding" => gateway' = "built"
        /\ r.stop = "no"
    <2>1. [Idle EXCEPT !.at = "failed"] \in Calls /\ [call[c] EXCEPT !.at = "holding"] \in Calls
          /\ [Idle EXCEPT !.at = "failed"].at = "failed"
          /\ [call[c] EXCEPT !.at = "holding"].at = "holding"
          /\ [Idle EXCEPT !.at = "failed"].stop = "no" /\ [call[c] EXCEPT !.at = "holding"].stop = "no"
        <3>1. call[c] \in Calls /\ call[c].stop = "no"
            BY <1>1 DEF TypeOK, ServiceOK, GetGateway, Waiting
        <3> QED  BY <3>1, BoundsAssumption DEF Calls, Idle, Over
    <2>2. CASE Quits(c)
        BY <2>1, <2>2 DEF Quits
    <2>3. CASE Place(c, "holding") /\ gateway' = "built"
        BY <2>1, <2>3 DEF Place
    <2> QED  BY <2>2, <2>3 DEF GetGateway, Built
<1>3. /\ call' = [d \in Callers |-> IF d = c THEN r ELSE call[d]]
      /\ \A d \in Callers : call'[d].at = call[d].at \/ call'[d].at \in {"holding", "failed"}
      /\ call[c].at \notin Waiting
    BY <1>1, <1>2 DEF TypeOK, GetGateway, Waiting
<1>4. /\ UNCHANGED <<active, lanes, total, accepting, closer, economy>>
      /\ \/ UNCHANGED <<gateway, clients>>
         \/ gateway = "unbuilt" /\ gateway' = "built" /\ clients' = Available
         \/ gateway = "unbuilt" /\ gateway' = "cleaning" /\ clients' \subseteq Available
    BY DEF GetGateway, Built, BuildFails
<1>5. TypeOK'
    BY <1>1, <1>3, <1>4 DEF TypeOK
<1>6. PermitsOK'
    <2>1. active' = {d \in Callers : call'[d].at \in Waiting}
        BY <1>1, <1>2, <1>3, <1>4 DEF PermitsOK, Waiting
    <2>2. InSlot' = InSlot /\ \A l \in DOMAIN Lanes : InLane(l)' = InLane(l)
        BY <1>2, <1>3 DEF InSlot, InLane, Waiting
    <2> QED  BY <1>1, <1>4, <2>1, <2>2 DEF PermitsOK
<1>7. ServiceOK'
    <2>1. \A d \in Callers : call'[d].at \in Waiting => call'[d] = call[d]
        BY <1>2, <1>3 DEF Waiting
    <2>2. \A d \in active' : call'[d] = call[d]
        BY <1>1, <1>3, <1>4 DEF PermitsOK
    <2>3. \A d \in Callers : call'[d].at \in {"holding"} \union Waiting =>
                gateway' = "built" \/ closer' = "gate" \/ ~accepting'
        BY <1>1, <1>2, <1>3, <1>4 DEF ServiceOK, Waiting
    <2>4. closer' = "none" <=> gateway' # "closed"
        BY <1>1, <1>4 DEF ServiceOK
    <2>5. gateway' = "built" \/ closer' \in {"gate", "drain"} => clients' = Available
        BY <1>1, <1>4 DEF ServiceOK
    <2>6. closer' = "done" /\ ~accepting' => clients' = {}
        BY <1>1, <1>4 DEF ServiceOK
    <2>7. \A d \in Callers : call'[d].at = "backoff" => call'[d].tries < MaxAttempts
        BY <1>1, <2>1 DEF ServiceOK, Waiting
    <2>8. \A d \in Callers : call'[d].stop # "no" => call'[d].at \in Waiting
        BY <1>1, <1>2, <1>3 DEF ServiceOK
    <2>9. closer' \in {"clients", "done"} => active' = {}
        BY <1>1, <1>4 DEF ServiceOK
    <2>10. closer' \in {"join", "abandoned"} => \A d \in active' : call'[d].stop = "cancel"
        BY <1>1, <1>4, <2>2 DEF ServiceOK
    <2>11. \A d \in Callers : call'[d].at \in Waiting => call'[d].provider \in Available
        BY <1>1, <2>1 DEF ServiceOK
    <2>12. /\ accepting' => closer' \in {"none", "gate", "done"}
           /\ ~accepting' => closer' \in {"drain", "join", "clients", "done", "abandoned"}
        BY <1>1, <1>4 DEF ServiceOK
    <2> QED  BY <2>3, <2>4, <2>5, <2>6, <2>7, <2>8, <2>9, <2>10, <2>11, <2>12 DEF ServiceOK
<1> QED  BY <1>5, <1>6, <1>7 DEF IInv

LEMMA AdmitStep ==
    ASSUME IInv, NEW c \in Callers, Admit(c)
    PROVE  \E r \in Calls : Moves(c, r)
<1> DEFINE in == [call[c] EXCEPT !.at = "lane", !.provider = ProviderOf(c)]
           out == [Idle EXCEPT !.at = "failed"]
<1>1. TypeOK /\ PermitsOK /\ call[c] \in Calls /\ call[c].at = "holding" /\ c \notin active
      /\ call[c].stop = "no"
    BY DEF IInv, TypeOK, PermitsOK, ServiceOK, Admit, Waiting
<1>2. in \in Calls /\ in.at = "lane" /\ in.provider = ProviderOf(c) /\ out \in Calls /\ out.at = "failed"
      /\ in.stop = "no" /\ out.stop = "no"
    <2>1. in \in Calls /\ in.at = "lane" /\ in.provider = ProviderOf(c) /\ in.stop = "no"
        BY <1>1 DEF Calls, ProviderOf, Waiting
    <2>2. out \in Calls /\ out.at = "failed" /\ out.stop = "no"
        BY BoundsAssumption DEF Calls, Idle, Over
    <2> QED  BY <2>1, <2>2
<1>3. /\ Slots(in.at) = Slots(call[c].at) /\ LanesOf(in.at) = LanesOf(call[c].at)
      /\ Slots(out.at) = Slots(call[c].at) /\ LanesOf(out.at) = LanesOf(call[c].at)
    BY <1>1, <1>2 DEF Slots, LanesOf, Waiting
<1>4. UNCHANGED <<lanes, total, accepting, clients, gateway, closer, economy>>
    BY DEF Admit
<1>5. CASE ProviderOf(c) \in Available /\ Admits(c)
    <2>1. call' = [call EXCEPT ![c] = in] /\ active' = active \union {c}
        BY <1>5 DEF Admit
    <2> HIDE DEF in
    <2>2. Moves(c, in)
        BY <1>1, <1>2, <1>3, <1>4, <1>5, <2>1, SamePermits DEF Moves, Admits, Waiting
    <2> QED  BY <1>2, <2>2
<1>6. CASE ~(ProviderOf(c) \in Available /\ Admits(c))
    <2>1. call' = [call EXCEPT ![c] = out] /\ active' = active \ {c}
        BY <1>1, <1>6 DEF Admit, Quits
    <2> HIDE DEF out
    <2>2. Moves(c, out)
        BY <1>1, <1>2, <1>3, <1>4, <2>1, SamePermits DEF Moves, Waiting
    <2> QED  BY <1>2, <2>2
<1> QED  BY <1>5, <1>6

LEMMA TakeLaneStep ==
    ASSUME IInv, NEW c \in Callers, TakeLane(c)
    PROVE  \E r \in Calls : Moves(c, r)
<1> DEFINE r == [call[c] EXCEPT !.at = "total"]
<1>1. /\ TypeOK /\ PermitsOK /\ ServiceOK /\ call[c] \in Calls /\ call[c].at = "lane" /\ c \in active
      /\ call[c].provider \in Available
    BY DEF IInv, TypeOK, PermitsOK, ServiceOK, TakeLane, Waiting
<1>2. /\ r \in Calls /\ r.at = "total" /\ r.stop = call[c].stop /\ r.provider = call[c].provider
      /\ call' = [call EXCEPT ![c] = r] /\ active' = active \union {c}
    BY <1>1 DEF Calls, Waiting, TakeLane, Place
<1> HIDE DEF r
<1>3. Slots(r.at) = 0 /\ Slots(call[c].at) = 0 /\ LanesOf(r.at) = 1 /\ LanesOf(call[c].at) = 0
    BY <1>1, <1>2 DEF Slots, LanesOf, Waiting
<1>4. /\ total \in Nat /\ total <= Total /\ lanes \in [DOMAIN Lanes -> Nat]
      /\ LaneOf[c] \in DOMAIN Lanes /\ Lanes[LaneOf[c]] \in Nat
    BY <1>1, CallersAssumption DEF TypeOK, PermitsOK
<1>5. total' = total + Slots(r.at) - Slots(call[c].at) /\ total' <= Total
    BY <1>3, <1>4 DEF TakeLane
<1>6. /\ lanes' = [lanes EXCEPT ![LaneOf[c]] = @ + LanesOf(r.at) - LanesOf(call[c].at)]
      /\ lanes'[LaneOf[c]] <= Lanes[LaneOf[c]]
    <2>1. lanes' = [lanes EXCEPT ![LaneOf[c]] = @ + (LanesOf(r.at) - LanesOf(call[c].at))]
        <3>1. LanesOf(r.at) - LanesOf(call[c].at) = 1
            BY <1>3
        <3> QED  BY <3>1 DEF TakeLane
    <2>2. lanes[LaneOf[c]] < Lanes[LaneOf[c]]
        BY DEF TakeLane
    <2>3. LanesOf(r.at) \in {0, 1} /\ LanesOf(call[c].at) \in {0, 1}
        BY <1>3
    <2> QED  BY <1>1, <2>1, <2>2, <2>3, LaneMoves
<1>7. Moves(c, r)
    BY <1>1, <1>2, <1>5, <1>6 DEF Moves, TakeLane, Waiting
<1> QED  BY <1>2, <1>7

LEMMA TakeSlotStep ==
    ASSUME IInv, NEW c \in Callers, TakeSlot(c)
    PROVE  \E r \in Calls : Moves(c, r)
<1> DEFINE r == [call[c] EXCEPT !.at = "post", !.tries = 1]
<1>1. /\ TypeOK /\ PermitsOK /\ ServiceOK /\ call[c] \in Calls /\ call[c].at = "total" /\ c \in active
      /\ call[c].provider \in Available
    BY DEF IInv, TypeOK, PermitsOK, ServiceOK, TakeSlot, Waiting
<1>2. /\ r \in Calls /\ r.at = "post" /\ r.stop = call[c].stop /\ r.provider = call[c].provider
      /\ call' = [call EXCEPT ![c] = r] /\ active' = active \union {c}
    <2>1. 1 \in 0..MaxAttempts
        BY BoundsAssumption
    <2>2. r \in Calls /\ r.at = "post" /\ r.stop = call[c].stop /\ r.provider = call[c].provider
        BY <1>1, <2>1 DEF Calls, Waiting
    <2>3. call' = [call EXCEPT ![c] = r]
        BY DEF TakeSlot
    <2>4. active' = active \union {c}
        BY <1>1 DEF TakeSlot
    <2> QED  BY <2>2, <2>3, <2>4
<1> HIDE DEF r
<1>3. Slots(r.at) = 1 /\ Slots(call[c].at) = 0 /\ LanesOf(r.at) = 1 /\ LanesOf(call[c].at) = 1
    BY <1>1, <1>2 DEF Slots, LanesOf, Waiting
<1>4. /\ total \in Nat /\ total < Total /\ lanes \in [DOMAIN Lanes -> Nat] /\ Total \in Nat
      /\ LaneOf[c] \in DOMAIN Lanes /\ lanes[LaneOf[c]] <= Lanes[LaneOf[c]]
    BY <1>1, CallersAssumption, BoundsAssumption DEF TypeOK, PermitsOK, TakeSlot
<1>5. total' = total + Slots(r.at) - Slots(call[c].at) /\ total' <= Total
    BY <1>3, <1>4 DEF TakeSlot
<1>6. /\ lanes' = [lanes EXCEPT ![LaneOf[c]] = @ + LanesOf(r.at) - LanesOf(call[c].at)]
      /\ lanes'[LaneOf[c]] <= Lanes[LaneOf[c]]
    BY <1>3, <1>4 DEF TakeSlot
<1>7. Moves(c, r)
    BY <1>1, <1>2, <1>5, <1>6 DEF Moves, TakeSlot, Waiting
<1> QED  BY <1>2, <1>7

\* The finally clauses give back what a call holds, wherever it is.
LEMMA FinishStep ==
    ASSUME IInv, NEW c \in Callers, call[c].at \in Waiting, NEW how \in Over, Finish(c, how),
           UNCHANGED <<accepting, clients, gateway, closer, economy>>
    PROVE  \E r \in Calls : Moves(c, r)
<1> DEFINE r == [Idle EXCEPT !.at = how]
<1>1. TypeOK /\ PermitsOK /\ call[c] \in Calls /\ c \in active
    BY DEF IInv, TypeOK, PermitsOK
<1>2. r \in Calls /\ r.at = how /\ r.at \notin Waiting /\ r.at # "holding" /\ r.stop = "no"
      /\ call' = [call EXCEPT ![c] = r] /\ active' = active \ {c}
    BY <1>1, BoundsAssumption DEF Calls, Waiting, Over, Idle, Finish
<1> HIDE DEF r
<1>3. /\ Slots(r.at) = 0 /\ Slots(call[c].at) = (IF call[c].at \in {"lane", "total"} THEN 0 ELSE 1)
      /\ LanesOf(r.at) = 0 /\ LanesOf(call[c].at) = (IF call[c].at = "lane" THEN 0 ELSE 1)
    BY <1>1, <1>2 DEF Slots, LanesOf, Waiting
<1>4. /\ total \in Nat /\ total <= Total /\ lanes \in [DOMAIN Lanes -> Nat] /\ Total \in Nat
      /\ LaneOf[c] \in DOMAIN Lanes /\ lanes[LaneOf[c]] <= Lanes[LaneOf[c]]
      /\ Lanes[LaneOf[c]] \in Nat
    BY <1>1, CallersAssumption, BoundsAssumption DEF TypeOK, PermitsOK
<1>5. total' = total + Slots(r.at) - Slots(call[c].at) /\ total' <= Total
    <2>1. total' = total - Slots(call[c].at)
        BY <1>3 DEF Finish, Release
    <2>2. Slots(call[c].at) \in {0, 1} /\ (Slots(call[c].at) = 1 => c \in InSlot)
        BY DEF Slots, InSlot
    <2> QED  BY <1>3, <1>4, <2>1, <2>2
<1>6. /\ lanes' = [lanes EXCEPT ![LaneOf[c]] = @ + LanesOf(r.at) - LanesOf(call[c].at)]
      /\ lanes'[LaneOf[c]] <= Lanes[LaneOf[c]]
    <2>1. lanes' = [lanes EXCEPT ![LaneOf[c]] = @ - LanesOf(call[c].at)]
        BY <1>3 DEF Finish, Release
    <2>2. LanesOf(call[c].at) \in {0, 1} /\ lanes[LaneOf[c]] \in Nat
        BY <1>4 DEF LanesOf
    <2>3. LanesOf(r.at) = 0 /\ LanesOf(r.at) \in {0, 1} /\ LanesOf(r.at) <= LanesOf(call[c].at)
        BY <1>3, <2>2
    <2>4. lanes[LaneOf[c]] - LanesOf(call[c].at) = lanes[LaneOf[c]] + (LanesOf(r.at) - LanesOf(call[c].at))
        BY <2>2, <2>3
    <2>5. lanes' = [lanes EXCEPT ![LaneOf[c]] = @ + (LanesOf(r.at) - LanesOf(call[c].at))]
        BY <1>4, <2>1, <2>4
    <2> QED  BY <1>1, <2>2, <2>3, <2>5, LaneMoves
<1>7. Moves(c, r)
    BY <1>2, <1>5, <1>6 DEF Moves, Waiting
<1> QED  BY <1>2, <1>7

LEMMA AnswerStep ==
    ASSUME IInv, NEW c \in Callers, Answer(c)
    PROVE  \E r \in Calls : Moves(c, r)
<1> DEFINE r == [call[c] EXCEPT !.at = "backoff"]
<1>1. /\ TypeOK /\ PermitsOK /\ ServiceOK /\ call[c] \in Calls /\ call[c].at = "post" /\ c \in active
      /\ call[c].provider \in Available /\ call[c].at \in Waiting
    BY DEF IInv, TypeOK, PermitsOK, ServiceOK, Answer, Waiting
<1>2. UNCHANGED <<accepting, clients, gateway, closer, economy>>
    BY DEF Answer
<1>3. CASE Finish(c, "answered") \/ Finish(c, "failed")
    BY <1>1, <1>2, <1>3, FinishStep DEF Over
<1>4. CASE Place(c, "backoff") /\ UNCHANGED <<active, lanes, total>> /\ call[c].tries < MaxAttempts
    <2>1. /\ r \in Calls /\ r.at = "backoff" /\ r.tries = call[c].tries /\ r.stop = call[c].stop /\ r.provider = call[c].provider
          /\ call' = [call EXCEPT ![c] = r] /\ active' = active \union {c}
        BY <1>1, <1>4 DEF Calls, Waiting, Place
    <2> HIDE DEF r
    <2>2. Slots(r.at) = Slots(call[c].at) /\ LanesOf(r.at) = LanesOf(call[c].at)
        BY <1>1, <2>1 DEF Slots, LanesOf, Waiting
    <2>3. Moves(c, r)
        BY <1>1, <1>2, <1>4, <2>1, <2>2, SamePermits DEF Moves, Waiting
    <2> QED  BY <2>1, <2>3
<1> QED  BY <1>3, <1>4 DEF Answer, Retries

LEMMA TryAgainStep ==
    ASSUME IInv, NEW c \in Callers, TryAgain(c)
    PROVE  \E r \in Calls : Moves(c, r)
<1> DEFINE r == [call[c] EXCEPT !.at = "post", !.tries = @ + 1]
<1>1. /\ TypeOK /\ PermitsOK /\ ServiceOK /\ call[c] \in Calls /\ call[c].at = "backoff" /\ c \in active
      /\ call[c].provider \in Available /\ call[c].tries < MaxAttempts
    BY DEF IInv, TypeOK, PermitsOK, ServiceOK, TryAgain, Waiting
<1>2. /\ r \in Calls /\ r.at = "post" /\ r.stop = call[c].stop /\ r.provider = call[c].provider
      /\ call' = [call EXCEPT ![c] = r] /\ active' = active \union {c}
    <2>1. call[c].tries + 1 \in 0..MaxAttempts
        BY <1>1, BoundsAssumption DEF Calls
    <2>2. r \in Calls /\ r.at = "post" /\ r.stop = call[c].stop /\ r.provider = call[c].provider
        BY <1>1, <2>1 DEF Calls, Waiting
    <2>3. call' = [call EXCEPT ![c] = r]
        BY DEF TryAgain
    <2>4. active' = active \union {c}
        BY <1>1 DEF TryAgain
    <2> QED  BY <2>2, <2>3, <2>4
<1> HIDE DEF r
<1>3. Slots(r.at) = Slots(call[c].at) /\ LanesOf(r.at) = LanesOf(call[c].at)
    BY <1>1, <1>2 DEF Slots, LanesOf, Waiting
<1>4. Moves(c, r)
    BY <1>1, <1>2, <1>3, SamePermits DEF Moves, Waiting, TryAgain
<1> QED  BY <1>2, <1>4

\* A deadline, a caller that gives up and the close of the gateway only mark a call.
LEMMA MarkStep ==
    ASSUME IInv, NEW c \in Callers, Deadline(c) \/ Abandon(c)
    PROVE  \E r \in Calls : Moves(c, r)
<1>1. /\ TypeOK /\ PermitsOK /\ ServiceOK /\ call[c] \in Calls /\ call[c].at \in Waiting /\ c \in active
      /\ call[c].provider \in Available /\ (call[c].at = "backoff" => call[c].tries < MaxAttempts)
    BY DEF IInv, TypeOK, PermitsOK, ServiceOK, Deadline, Budgeted, Abandon
<1>2. PICK s \in {"deadline", "cancel"} :
        /\ call' = [call EXCEPT ![c].stop = s]
        /\ call[c].stop = "cancel" => s = "cancel"
    BY DEF Deadline, Abandon
<1> DEFINE r == [call[c] EXCEPT !.stop = s]
<1>3. /\ r \in Calls /\ r.at = call[c].at /\ r.stop = s /\ r.provider = call[c].provider
      /\ r.tries = call[c].tries /\ call' = [call EXCEPT ![c] = r]
    BY <1>1, <1>2 DEF Calls
<1>4. UNCHANGED <<active, lanes, total, accepting, clients, gateway, closer, economy>>
    BY DEF Deadline, Abandon
<1> HIDE DEF r
<1>5. active' = active \union {c} /\ r.at # "holding"
    BY <1>1, <1>3, <1>4 DEF Waiting
<1>6. Moves(c, r)
    BY <1>1, <1>2, <1>3, <1>4, <1>5, SamePermits DEF Moves
<1> QED  BY <1>3, <1>6

LEMMA UnwindStep ==
    ASSUME IInv, NEW c \in Callers, Unwind(c)
    PROVE  \E r \in Calls : Moves(c, r)
<1>1. PICK how \in Over : Finish(c, how)
    BY DEF Unwind, Over
<1>2. call[c].at \in Waiting /\ UNCHANGED <<accepting, clients, gateway, closer, economy>>
    BY DEF IInv, ServiceOK, Unwind
<1> QED  BY <1>1, <1>2, FinishStep

-----------------------------------------------------------------------------
(* The steps of the service.                                                    *)

\* A step that leaves the calls where they are and the permits as they are.
Rests == /\ UNCHANGED <<active, lanes, total>>
         /\ \/ UNCHANGED call
            \/ CancelActive

LEMMA RestsKeep ==
    ASSUME TypeOK, PermitsOK, Rests
    PROVE  /\ call' \in [Callers -> Calls] /\ PermitsOK'
           /\ \A c \in Callers : /\ call'[c].at = call[c].at /\ call'[c].provider = call[c].provider
                                 /\ call'[c].tries = call[c].tries
                                 /\ call[c].stop = "cancel" => call'[c].stop = "cancel"
<1>1. CASE UNCHANGED call
    BY <1>1, PermitsStay DEF Rests, TypeOK
<1>2. CASE CancelActive
    <2>1. \A c \in Callers : [call[c] EXCEPT !.stop = "cancel"] \in Calls
        BY DEF TypeOK, Calls
    <2>2. call' \in [Callers -> Calls]
        BY <1>2, <2>1 DEF CancelActive, TypeOK
    <2>3. \A c \in Callers : /\ call'[c].at = call[c].at /\ call'[c].provider = call[c].provider
                             /\ call'[c].tries = call[c].tries
                             /\ call[c].stop = "cancel" => call'[c].stop = "cancel"
        BY <1>2 DEF CancelActive, TypeOK, Calls
    <2> QED  BY <2>2, <2>3, PermitsStay DEF Rests
<1> QED  BY <1>1, <1>2 DEF Rests

LEMMA ServiceStep ==
    ASSUME IInv, Startup \/ CleanUp \/ Shutdown \/ Closing \/ CloseTimeout \/ Flip
    PROVE  IInv'
<1>1. TypeOK /\ PermitsOK /\ ServiceOK
    BY DEF IInv
<1>2. Rests
    BY DEF Rests, Startup, CleanUp, Shutdown, Closing, CloseGate, Drained, DrainTimeout, CloseClients,
           CloseTimeout, Flip
<1>3. /\ call' \in [Callers -> Calls] /\ PermitsOK' /\ UNCHANGED <<active, lanes, total>>
      /\ \A c \in Callers : /\ call'[c].at = call[c].at /\ call'[c].provider = call[c].provider
                            /\ call'[c].tries = call[c].tries
                            /\ call[c].stop = "cancel" => call'[c].stop = "cancel"
    BY <1>1, <1>2, RestsKeep DEF Rests
<1>4. TypeOK'
    BY <1>1, <1>3 DEF TypeOK, Startup, CleanUp, Shutdown, Closing, CloseGate, Drained, DrainTimeout, CloseClients,
           CloseTimeout, Flip, Built, BuildFails, After
<1>5. \A c \in Callers : /\ call'[c].at \in Waiting => call'[c].provider \in Available
                         /\ call'[c].at = "backoff" => call'[c].tries < MaxAttempts
    BY <1>1, <1>3 DEF ServiceOK
<1>6. \A c \in Callers : call'[c].stop # "no" => call'[c].at \in Waiting
    <2>1. CASE UNCHANGED call
        BY <1>1, <2>1 DEF ServiceOK
    <2>2. CASE CancelActive
        BY <1>1, <1>3, <2>2 DEF ServiceOK, CancelActive, PermitsOK
    <2> QED  BY <1>2, <2>1, <2>2 DEF Rests
<1>7. CancelActive => \A c \in active' : call'[c].stop = "cancel"
    BY <1>1, <1>3 DEF CancelActive, TypeOK, Calls
<1>8. \/ /\ gateway \in {"new", "cleaning"} /\ gateway' # "closed" /\ UNCHANGED <<call, accepting, closer>>
         /\ gateway' = "built" => clients' = Available
      \/ UNCHANGED <<call, accepting, closer, gateway, clients>>
      \/ /\ closer = "none" /\ gateway' = "closed" /\ UNCHANGED <<call, accepting, clients>>
         /\ \/ gateway = "built" /\ closer' = "gate"
            \/ gateway # "built" /\ closer' = "done"
      \/ /\ closer = "gate" /\ accepting' = FALSE /\ UNCHANGED <<call, clients, gateway>>
         /\ \/ active = {} /\ closer' = "clients"
            \/ closer' = "drain"
      \/ /\ closer \in {"drain", "join"} /\ active = {} /\ closer' = "clients"
         /\ UNCHANGED <<call, clients, gateway, accepting>>
      \/ /\ closer = "drain" /\ CancelActive /\ closer' = "join" /\ UNCHANGED <<clients, gateway, accepting>>
      \/ /\ closer = "clients" /\ clients' = {} /\ closer' = "done" /\ UNCHANGED <<call, gateway, accepting>>
      \/ /\ closer \in {"drain", "join", "clients"} /\ CancelActive /\ closer' = "abandoned"
         /\ UNCHANGED <<gateway, accepting>>
    BY DEF Startup, CleanUp, Shutdown, Closing, CloseGate, Drained, DrainTimeout, CloseClients,
           CloseTimeout, Flip, Built, BuildFails, After
<1>9. closer' = "none" <=> gateway' # "closed"
    BY <1>1, <1>8 DEF ServiceOK
<1>10. /\ accepting' => closer' \in {"none", "gate", "done"}
       /\ ~accepting' => closer' \in {"drain", "join", "clients", "done", "abandoned"}
    BY <1>1, <1>8 DEF ServiceOK
<1>11. gateway' = "built" \/ closer' \in {"gate", "drain"} => clients' = Available
    BY <1>1, <1>8 DEF ServiceOK
<1>12. closer' = "done" /\ ~accepting' => clients' = {}
    BY <1>1, <1>8 DEF ServiceOK
<1>13. ASSUME NEW c \in Callers, call[c].at \in {"holding"} \union Waiting
       PROVE  gateway' = "built" \/ closer' = "gate" \/ ~accepting'
    BY <1>1, <1>8, <1>13 DEF ServiceOK
<1>14. closer' \in {"clients", "done"} => active = {}
    <2>1. closer = "none" /\ gateway # "built" => active = {}
        BY <1>1 DEF ServiceOK, PermitsOK
    <2> QED  BY <1>1, <1>8, <2>1 DEF ServiceOK
<1>15. closer' \in {"join", "abandoned"} => \A c \in active' : call'[c].stop = "cancel"
    BY <1>1, <1>3, <1>7, <1>8 DEF ServiceOK
<1>16. ServiceOK'
    BY <1>3, <1>5, <1>6, <1>9, <1>10, <1>11, <1>12, <1>13, <1>14, <1>15 DEF ServiceOK
<1> QED  BY <1>3, <1>4, <1>16 DEF IInv

-----------------------------------------------------------------------------
LEMMA Initially == Init => IInv
<1> SUFFICES ASSUME Init  PROVE IInv
    OBVIOUS
<1>1. \A c \in Callers : call[c] = Idle
    BY DEF Init
<1>2. Idle \in Calls /\ Idle.at = "out" /\ Idle.stop = "no"
    BY BoundsAssumption DEF Idle, Calls
<1>3. TypeOK
    BY <1>2 DEF Init, TypeOK
<1>4. active = {c \in Callers : call[c].at \in Waiting}
    BY <1>1, <1>2 DEF Init, Waiting
<1>5. InSlot = {} /\ \A l \in DOMAIN Lanes : InLane(l) = {}
    BY <1>1, <1>2 DEF InSlot, InLane, Waiting
<1>6. Cardinality({}) = 0 /\ active \ Business = {}
    BY FS_EmptySet DEF Init
<1>7. PermitsOK
    <2>1. Total \in Nat /\ MaxPending \in Nat /\ \A l \in DOMAIN Lanes : Lanes[l] \in Nat
        BY BoundsAssumption, CallersAssumption
    <2>2. total = 0 /\ \A l \in DOMAIN Lanes : lanes[l] = 0
        BY DEF Init
    <2>3. \A l \in DOMAIN Lanes : lanes[l] = Cardinality(InLane(l)) /\ lanes[l] <= Lanes[l]
        BY <1>5, <1>6, <2>1, <2>2
    <2>4. total = Cardinality(InSlot) /\ total <= Total
        BY <1>5, <1>6, <2>1, <2>2
    <2>5. Cardinality(active \ Business) = 0 /\ 0 <= Total + MaxPending
        BY <1>6, <2>1
    <2> QED  BY <1>4, <2>3, <2>4, <2>5 DEF PermitsOK
<1>8. ServiceOK
    BY <1>1, <1>2 DEF Init, ServiceOK, Waiting
<1> QED  BY <1>3, <1>7, <1>8 DEF IInv

LEMMA Preserved == IInv /\ [Next]_vars => IInv'
<1> SUFFICES ASSUME IInv, [Next]_vars  PROVE IInv'
    OBVIOUS
<1>1. CASE Startup \/ CleanUp \/ Shutdown \/ Closing \/ CloseTimeout \/ Flip
    BY <1>1, ServiceStep
<1>2. ASSUME NEW c \in Callers,
             GetGateway(c) \/ Admit(c) \/ TakeLane(c) \/ TakeSlot(c) \/ Answer(c) \/ TryAgain(c)
             \/ Deadline(c) \/ Abandon(c) \/ Unwind(c)
      PROVE  IInv'
    <2>1. GetGateway(c) \/ \E r \in Calls : Moves(c, r)
        BY <1>2, AdmitStep, TakeLaneStep, TakeSlotStep, AnswerStep, TryAgainStep, MarkStep, UnwindStep
    <2> QED  BY <2>1, GetGatewayStep, MovesKeep
<1>3. CASE UNCHANGED vars
    <2>1. TypeOK'
        BY <1>3 DEF vars, IInv, TypeOK
    <2>2. PermitsOK'
        BY <1>3, PermitsStay DEF vars, IInv
    <2>3. ServiceOK'
        BY <1>3 DEF vars, IInv, ServiceOK
    <2> QED  BY <2>1, <2>2, <2>3 DEF IInv
<1> QED  BY <1>1, <1>2, <1>3 DEF Next

\* The permits are those of the calls under way and the shutdown goes step by step.
THEOREM Inductive == Spec => []IInv
<1> QED  BY Initially, Preserved, PTL DEF Spec

\* Limits hold and permits come back, whatever fails, times out or is cancelled
\* (transport.py:139-174).
THEOREM Bounded == Spec => []CallsBounded
<1>1. IInv => CallsBounded
    BY DEF IInv, PermitsOK, CallsBounded, InSlot, InLane
<1> QED  BY <1>1, Inductive, PTL

\* Nothing is sent through a closed gateway, and a shutdown that reports success leaves no
\* call and no client (providers.py:177-201, transport.py:373-408).
THEOREM Quiet == Spec => []ClosedIsQuiet
<1>1. IInv => ClosedIsQuiet
    <2> SUFFICES ASSUME IInv  PROVE ClosedIsQuiet
        OBVIOUS
    <2>1. TypeOK /\ PermitsOK /\ ServiceOK
        BY DEF IInv
    <2>2. ASSUME NEW c \in Callers, call[c].at = "post", call[c].stop = "no"
          PROVE  call[c].provider \in clients /\ closer \in {"none", "gate", "drain"}
        <3>1. c \in active /\ call[c].provider \in Available
            BY <2>1, <2>2 DEF PermitsOK, ServiceOK, Waiting
        <3>2. closer \in {"none", "gate", "drain"}
            BY <2>1, <2>2, <3>1 DEF ServiceOK, TypeOK
        <3>3. gateway = "built" \/ closer \in {"gate", "drain"}
            BY <2>1, <2>2, <3>2 DEF ServiceOK, Waiting
        <3> QED  BY <2>1, <3>1, <3>2, <3>3 DEF ServiceOK
    <2> QED  BY <2>1, <2>2 DEF ClosedIsQuiet, ServiceOK
<1> QED  BY <1>1, Inductive, PTL
-----------------------------------------------------------------------------
(* The policy's intake: what its variables hold.                                *)

RecordType ==
    [at : Times, kind : {"mute", "warning"}, out : BOOLEAN, closed : BOOLEAN,
     mark : {"none", "applied", "void"}]
JobType ==
    [to : Statuses, at : Times, cause : Nat,
     st : {"pending", "processing", "lapsed", "failed", "applied"},
     mark : {"none", "applied", "void"}, event : 0..MaxJobs]
RecordsOK == records \in Seq(RecordType)
JobsOK ==
    /\ jobs \in Seq(JobType) /\ Len(jobs) <= MaxJobs
    /\ \A j \in DOMAIN jobs : jobs[j].cause <= Len(records)
RestOK ==
    /\ now \in Times /\ status \in Statuses /\ base \in [status : Statuses, jobs : 0..MaxJobs]
    /\ \A v, w \in reviews : v.kind = w.kind => v = w
    /\ decided \in {None} \union 0..Len(records) /\ held \subseteq DOMAIN records
    /\ upsets \in 0..MaxUpsets
    /\ checkpoint # None => checkpoint.upto \in Nat
AskOK == ask # None => ask.record \in DOMAIN records
PreviewOK(p) ==
    \/ p = None
    \/ p.do = "create" /\ p.at \in Times /\ p.kind \in {"mute", "warning"}
    \/ p.do = "status" /\ p.to \in Statuses /\ p.at \in Times \union {None} /\ p.cause \in 0..Len(records)
    \/ p.do = "withdraw" /\ p.record \in DOMAIN records
    \/ p.do = "stop" /\ (p.ask # None => p.ask.record \in DOMAIN records)
    \/ p.do = "resolve"
PendingOK == DOMAIN pending = Operators /\ \A o \in Operators : PreviewOK(pending[o])
(* The task in hand has what is still to do in order, and the jobs among it open. *)
TaskOK ==
    /\ task \in [do : {"idle", "compensate", "record", "jobs", "start"}, left : Seq(Nat), claimed : Nat]
    /\ task.do \in {"compensate", "record"} => \A k \in DOMAIN task.left : task.left[k] \in DOMAIN records
    /\ task.do = "record" => task.left # <<>>
    /\ task.do = "jobs" =>
        /\ \A k \in DOMAIN task.left :
            /\ task.left[k] \in DOMAIN jobs /\ task.left[k] > task.claimed
            /\ jobs[task.left[k]].st # "applied"
        /\ \A k, l \in DOMAIN task.left : k < l => task.left[k] < task.left[l]
    /\ task.claimed # 0 =>
        /\ task.do = "jobs" /\ task.claimed \in DOMAIN jobs /\ jobs[task.claimed].st # "applied"
        /\ MayRun(task.claimed)

(* What is closed was withdrawn and has no effect; a job that took effect is settled, *)
(* and the record behind it was processed before.                                      *)
ClosedOK == \A i \in DOMAIN records : records[i].closed => records[i].out /\ records[i].mark # "applied"
SettledOK ==
    \A j \in DOMAIN jobs :
        /\ jobs[j].st # "applied" => jobs[j].mark = "none" /\ jobs[j].event = 0
        /\ jobs[j].mark = "applied" /\ j > base.jobs /\ jobs[j].cause # 0 =>
            /\ records[jobs[j].cause].mark # "none"
            /\ records[jobs[j].cause].closed => jobs[j].cause \in held
(* A suggestion stands on a record that counts or that a review has covered.           *)
SuggestionOK ==
    /\ decided # None => ask = None
    /\ ask # None => ~records[ask.record].closed \/ Covered(ask.record)
(* The row differs from what the status changes leave only while something is to come. *)
Alive(j) == jobs[j].st # "applied" /\ (jobs[j].cause = 0 \/ ~records[jobs[j].cause].closed)
ToCome ==
    \/ reviews # {}
    \/ \E i \in DOMAIN records : records[i].out /\ ~records[i].closed
    \/ \E j \in DOMAIN jobs : Alive(j)
RowOK == status = Projected(jobs) \/ ToCome
StoreOK == RecordsOK /\ JobsOK /\ RestOK /\ AskOK
Sound == StoreOK /\ ClosedOK /\ SettledOK /\ SuggestionOK /\ RowOK
IntakeInv == Sound /\ PendingOK /\ TaskOK
-----------------------------------------------------------------------------
(* What is in hand has an order.                                                *)

LEMMA LeastOf == ASSUME NEW S \in SUBSET Nat, S # {}
                 PROVE  \E m \in S : \A n \in S : m <= n
<1>1. PICK m \in S : \A n \in S : ~(<<n, m>> \in OpToRel(<, Nat))
    BY NatLessThanWellFounded, WFMin
<1>2. \A n \in S : ~(n < m)
    BY <1>1 DEF OpToRel
<1> QED  BY <1>2

Orders(s, S) ==
    /\ s \in [1..Cardinality(S) -> S]
    /\ \A a, b \in 1..Cardinality(S) : a < b => s[a] < s[b]
LEMMA OrderExists == \A m \in Nat : \A S \in SUBSET (1..m) : \E s : Orders(s, S)
<1> DEFINE Bad == {m \in Nat : ~(\A S \in SUBSET (1..m) : \E s : Orders(s, S))}
<1> SUFFICES ASSUME Bad # {} PROVE FALSE
    OBVIOUS
<1>1. PICK m \in Bad : \A n \in Bad : m <= n
    BY LeastOf
<1>2. PICK S \in SUBSET (1..m) : ~(\E s : Orders(s, S))
    BY <1>1
<1>3. CASE m \notin S
    <2>1. m # 0
        <3>1. SUFFICES ASSUME m = 0 PROVE FALSE
            OBVIOUS
        <3>2. S = {}
            BY <3>1
        <3>3. Cardinality(S) = 0
            BY <3>2, FS_EmptySet
        <3>4. Orders([x \in {} |-> 0], S)
            BY <3>2, <3>3 DEF Orders
        <3> QED  BY <1>2, <3>4
    <2>2. S \in SUBSET (1..(m - 1)) /\ m - 1 \in Nat
        BY <1>3, <2>1
    <2>3. m - 1 \notin Bad
        BY <1>1, <2>2
    <2> QED  BY <1>2, <2>2, <2>3
<1>4. CASE m \in S
    <2> DEFINE T == S \ {m}
    <2>1. m \in Nat /\ m >= 1
        BY <1>4
    <2>2. T \in SUBSET (1..(m - 1)) /\ m - 1 \in Nat /\ S = T \cup {m} /\ m \notin T
        BY <1>4, <2>1
    <2>3. ~(m <= m - 1)
        BY <2>1
    <2>11. \E s : Orders(s, T)
        BY <1>1, <2>2, <2>3
    <2> HIDE DEF T
    <2>4. PICK s : Orders(s, T)
        BY <2>11
    <2>5. IsFiniteSet(T) /\ Cardinality(T) \in Nat
        <3>1. IsFiniteSet(1..(m - 1))
            BY <2>2, FS_Interval
        <3> QED  BY <2>2, <3>1, FS_Subset, FS_CardinalityType
    <2>6. Cardinality(S) = Cardinality(T) + 1
        BY <2>2, <2>5, FS_AddElement
    <2> DEFINE n == Cardinality(T)
               t == [a \in 1..(n + 1) |-> IF a <= n THEN s[a] ELSE m]
    <2>7. \A a \in 1..n : s[a] \in T /\ s[a] \in S /\ s[a] < m
        <3>1. s \in [1..Cardinality(T) -> T]
            BY <2>4 DEF Orders
        <3>2. \A x \in T : x \in S /\ x < m
            BY <2>1, <2>2
        <3> QED  BY <3>1, <3>2
    <2>8. t \in [1..(n + 1) -> S]
        BY <1>4, <2>5, <2>7
    <2>9. \A a, b \in 1..(n + 1) : a < b => t[a] < t[b]
        <3> TAKE a, b \in 1..(n + 1)
        <3> HAVE a < b
        <3>1. a \in 1..n /\ n \in Nat
            BY <2>5
        <3>4. t[a] = s[a]
            BY <3>1
        <3>2. CASE b <= n
            BY <2>4, <2>5, <3>1, <3>2, <3>4 DEF Orders
        <3>3. CASE ~(b <= n)
            BY <2>7, <3>1, <3>3, <3>4
        <3> QED  BY <3>2, <3>3
    <2>10. Orders(t, S)
        BY <2>6, <2>8, <2>9 DEF Orders
    <2> QED  BY <1>2, <2>10
<1> QED  BY <1>3, <1>4

LEMMA InOrderOrders ==
    ASSUME NEW m \in Nat, NEW S \in SUBSET (1..m)
    PROVE  /\ InOrder(S) \in Seq(S) /\ InOrder(S) \in Seq(Nat)
           /\ \A k \in DOMAIN InOrder(S) : InOrder(S)[k] \in S
           /\ \A k, l \in DOMAIN InOrder(S) : k < l => InOrder(S)[k] < InOrder(S)[l]
<1>1. \E s : Orders(s, S)
    BY OrderExists
<1>2. InOrder(S) = CHOOSE s \in [1..Cardinality(S) -> S] :
                        \A a, b \in 1..Cardinality(S) : a < b => s[a] < s[b]
    BY DEF InOrder
<1>3. Orders(InOrder(S), S)
    BY <1>1, <1>2 DEF Orders
<1>4. Cardinality(S) \in Nat
    <2>1. IsFiniteSet(1..m)
        BY FS_Interval
    <2> QED  BY <2>1, FS_Subset, FS_CardinalityType
<1>5. \A k \in 1..Cardinality(S) : InOrder(S)[k] \in S
    BY <1>3 DEF Orders
<1>6. InOrder(S) \in Seq(S) /\ DOMAIN InOrder(S) = 1..Cardinality(S)
    BY <1>3, <1>4 DEF Orders
<1>7. InOrder(S) \in Seq(Nat)
    <2>1. S \subseteq Nat
        OBVIOUS
    <2>2. InOrder(S) \in [1..Cardinality(S) -> Nat]
        BY <1>3, <2>1 DEF Orders
    <2> QED  BY <1>4, <2>2
<1> QED  BY <1>3, <1>5, <1>6, <1>7 DEF Orders

-----------------------------------------------------------------------------
(* Records and jobs that change.                                                *)

Change(r, st, mark, event) == [r EXCEPT !.st = st, !.mark = mark, !.event = event]
Restate(r, st) == [r EXCEPT !.st = st]
Void(r) == [r EXCEPT !.mark = "void"]
JobStates == {"pending", "processing", "lapsed", "failed", "applied"}
Marks == {"none", "applied", "void"}
Same(x, r) == x \in JobType /\ x.to = r.to /\ x.at = r.at /\ x.cause = r.cause
LEMMA JobChanges ==
    ASSUME NEW r \in JobType, NEW st \in JobStates, NEW mark \in Marks, NEW event \in 0..MaxJobs
    PROVE  /\ Same(r, r)
           /\ LET x == Restate(r, st) IN Same(x, r) /\ x.st = st /\ x.mark = r.mark /\ x.event = r.event
           /\ LET x == Void(r) IN Same(x, r) /\ x.st = r.st /\ x.mark = "void" /\ x.event = r.event
           /\ LET x == Change(r, st, mark, event) IN
                Same(x, r) /\ x.st = st /\ x.mark = mark /\ x.event = event
<1> USE DEF JobType, JobStates, Marks
<1>1. LET x == Restate(r, st) IN Same(x, r) /\ x.st = st /\ x.mark = r.mark /\ x.event = r.event
    BY DEF Restate, Same
<1>2. LET x == Void(r) IN Same(x, r) /\ x.st = r.st /\ x.mark = "void" /\ x.event = r.event
    BY DEF Void, Same
<1>3. LET x == Change(r, st, mark, event) IN
        Same(x, r) /\ x.st = st /\ x.mark = mark /\ x.event = event
    <2>1. PICK y \in JobType : y = [r EXCEPT !.st = st]
        OBVIOUS
    <2>2. PICK z \in JobType : z = [y EXCEPT !.mark = mark]
        BY <2>1
    <2>3. Change(r, st, mark, event) = [z EXCEPT !.event = event]
        BY <2>1, <2>2 DEF Change
    <2>4. y.to = r.to /\ y.at = r.at /\ y.cause = r.cause /\ y.st = st
        BY <2>1
    <2>5. z.to = r.to /\ z.at = r.at /\ z.cause = r.cause /\ z.st = st /\ z.mark = mark
        BY <2>2, <2>4
    <2> QED  BY <2>3, <2>5 DEF Same
<1> QED  BY <1>1, <1>2, <1>3 DEF Same

\* Jobs change in place.
JobsChange(js) ==
    /\ js \in Seq(JobType) /\ Len(js) = Len(jobs) /\ DOMAIN js = DOMAIN jobs
    /\ \A j \in DOMAIN jobs : Same(js[j], jobs[j])
Numbered == jobs \in Seq(JobType) /\ Len(jobs) \in Nat /\ DOMAIN jobs = 1..Len(jobs)
LEMMA JobsNumbered == JobsOK => Numbered
    BY DEF JobsOK, Numbered
LEMMA JobsStay == ASSUME Numbered PROVE JobsChange(jobs)
    BY DEF JobsChange, Same, Numbered

LEMMA Voids ==
    ASSUME Numbered, NEW i
    PROVE  /\ JobsChange(Voided(i))
           /\ \A j \in DOMAIN jobs :
                /\ Voided(i)[j].st = jobs[j].st /\ Voided(i)[j].event = jobs[j].event
                /\ Voided(i)[j].mark =
                    IF jobs[j].cause = i /\ jobs[j].mark = "applied" THEN "void" ELSE jobs[j].mark
<1> USE DEF Numbered
<1>1. ASSUME NEW j \in DOMAIN jobs
      PROVE  /\ Same(Voided(i)[j], jobs[j])
             /\ Voided(i)[j].st = jobs[j].st /\ Voided(i)[j].event = jobs[j].event
             /\ Voided(i)[j].mark =
                    IF jobs[j].cause = i /\ jobs[j].mark = "applied" THEN "void" ELSE jobs[j].mark
    <2>1. jobs[j] \in JobType
        OBVIOUS
    <2>2. /\ Same(jobs[j], jobs[j])
          /\ Same(Void(jobs[j]), jobs[j]) /\ Void(jobs[j]).st = jobs[j].st
          /\ Void(jobs[j]).mark = "void" /\ Void(jobs[j]).event = jobs[j].event
        <3>1. "pending" \in JobStates /\ "none" \in Marks /\ jobs[j].event \in 0..MaxJobs
            BY <2>1 DEF JobStates, Marks, JobType
        <3> QED  BY <2>1, <3>1, JobChanges
    <2>3. Voided(i)[j] = IF jobs[j].cause = i /\ jobs[j].mark = "applied"
                         THEN Void(jobs[j]) ELSE jobs[j]
        BY DEF Voided, Void
    <2> QED  BY <2>2, <2>3
<1>2. \A j \in DOMAIN jobs : Voided(i)[j] \in JobType
    BY <1>1 DEF Same
<1>3. Voided(i) \in Seq(JobType) /\ Len(Voided(i)) = Len(jobs) /\ DOMAIN Voided(i) = DOMAIN jobs
    <2>1. Voided(i) \in [1..Len(jobs) -> JobType]
        BY <1>2 DEF Voided
    <2> QED  BY <2>1
<1> QED  BY <1>1, <1>3 DEF JobsChange

LEMMA Settles ==
    ASSUME JobsOK, NEW j \in DOMAIN jobs, NEW m \in {"none", "applied"}, NEW k, jobs[j].event = 0
    PROVE  /\ JobsChange(Settle(j, m, k))
           /\ Settle(j, m, k)[j].st = "applied" /\ Settle(j, m, k)[j].mark = m
           /\ \A l \in DOMAIN jobs : l # j =>
                /\ Settle(j, m, k)[l].mark = jobs[l].mark /\ Settle(j, m, k)[l].event = jobs[l].event
                /\ Settle(j, m, k)[l].st = IF l = k THEN "applied" ELSE jobs[l].st
           /\ m = "none" => Settle(j, m, k)[j].event = 0
<1> USE JobsNumbered DEF Numbered
<1> DEFINE e == IF m = "applied" THEN NextEvent ELSE 0
<1>1. e \in 0..MaxJobs
    <2> DEFINE E == {l \in DOMAIN jobs : jobs[l].event > 0}
    <2>1. E \in SUBSET (DOMAIN jobs \ {j})
        OBVIOUS
    <2>2. IsFiniteSet(DOMAIN jobs) /\ Cardinality(DOMAIN jobs) = Len(jobs)
        <3>1. Cardinality(1..Len(jobs)) = Len(jobs) /\ IsFiniteSet(1..Len(jobs))
            <4>1. 1 \in Int /\ Len(jobs) \in Int
                OBVIOUS
            <4>2. Cardinality(1..Len(jobs)) = IF 1 > Len(jobs) THEN 0 ELSE Len(jobs) - 1 + 1
                BY <4>1, FS_Interval
            <4>3. IsFiniteSet(1..Len(jobs))
                BY <4>1, FS_Interval
            <4> QED  BY <4>2, <4>3
        <3> QED  BY <3>1
    <2>3. IsFiniteSet(DOMAIN jobs \ {j}) /\ Cardinality(DOMAIN jobs \ {j}) = Len(jobs) - 1
        BY <2>2, FS_RemoveElement
    <2>4. Cardinality(E) <= Len(jobs) - 1 /\ Cardinality(E) \in Nat
        BY <2>1, <2>3, FS_Subset, FS_CardinalityType
    <2>5. NextEvent = 1 + Cardinality(E)
        BY DEF NextEvent
    <2> HIDE DEF E
    <2> QED  BY <2>4, <2>5, IntakeBounds DEF JobsOK
<1> HIDE DEF e
<1>2. ASSUME NEW l \in DOMAIN jobs
      PROVE  /\ Same(Settle(j, m, k)[l], jobs[l])
             /\ l = j => /\ Settle(j, m, k)[l].st = "applied" /\ Settle(j, m, k)[l].mark = m
                         /\ Settle(j, m, k)[l].event = e
             /\ l # j => /\ Settle(j, m, k)[l].mark = jobs[l].mark
                         /\ Settle(j, m, k)[l].event = jobs[l].event
                         /\ Settle(j, m, k)[l].st = IF l = k THEN "applied" ELSE jobs[l].st
    <2>1. jobs[l] \in JobType /\ "applied" \in JobStates /\ m \in Marks
        BY DEF JobStates, Marks
    <2>2. Settle(j, m, k)[l] = IF l = j THEN Change(jobs[l], "applied", m, e)
                               ELSE IF l = k THEN Restate(jobs[l], "applied") ELSE jobs[l]
        BY DEF Settle, Change, Restate, e
    <2>3. /\ Same(jobs[l], jobs[l])
          /\ LET x == Restate(jobs[l], "applied") IN
                Same(x, jobs[l]) /\ x.st = "applied" /\ x.mark = jobs[l].mark /\ x.event = jobs[l].event
          /\ LET x == Change(jobs[l], "applied", m, e) IN
                Same(x, jobs[l]) /\ x.st = "applied" /\ x.mark = m /\ x.event = e
        BY <1>1, <2>1, JobChanges
    <2> QED  BY <2>2, <2>3
<1>3. \A l \in DOMAIN jobs : Settle(j, m, k)[l] \in JobType
    BY <1>2 DEF Same
<1>4. /\ Settle(j, m, k) \in Seq(JobType) /\ Len(Settle(j, m, k)) = Len(jobs)
      /\ DOMAIN Settle(j, m, k) = DOMAIN jobs
    <2>1. Settle(j, m, k) \in [1..Len(jobs) -> JobType]
        BY <1>3 DEF Settle
    <2> QED  BY <2>1
<1>5. m = "none" => e = 0
    BY DEF e
<1> QED  BY <1>2, <1>4, <1>5 DEF JobsChange

\* The status that the effective changes leave does not depend on those without effect.
Effects(js) == {j \in DOMAIN js : js[j].mark = "applied" /\ j > base.jobs}
Lasts(js) == {j \in Effects(js) : \A k \in Effects(js) :
                js[k].at < js[j].at \/ (js[k].at = js[j].at /\ js[k].event <= js[j].event)}
LEMMA ProjectedLast ==
    ASSUME NEW js
    PROVE  Projected(js) = IF Lasts(js) = {} THEN base.status ELSE js[CHOOSE j \in Lasts(js) : TRUE].to
    BY DEF Projected, Lasts, Effects
LEMMA ProjectionStays ==
    ASSUME NEW js, NEW ks, Effects(js) = Effects(ks),
           \A j \in Effects(js) : js[j].at = ks[j].at /\ js[j].event = ks[j].event /\ js[j].to = ks[j].to
    PROVE  Projected(js) = Projected(ks)
<1>1. Lasts(js) = Lasts(ks)
    BY DEF Lasts
<1>2. CASE Lasts(js) = {}
    BY <1>1, <1>2, ProjectedLast
<1>3. CASE Lasts(js) # {}
    <2>1. (CHOOSE j \in Lasts(js) : TRUE) \in Effects(js)
        BY <1>3 DEF Lasts
    <2> QED  BY <1>1, <1>3, <2>1, ProjectedLast
<1> QED  BY <1>2, <1>3
LEMMA ProjectedType ==
    ASSUME NEW js \in Seq(JobType), base \in [status : Statuses, jobs : 0..MaxJobs]
    PROVE  Projected(js) \in Statuses
<1>1. CASE Lasts(js) = {}
    BY <1>1, ProjectedLast
<1>2. CASE Lasts(js) # {}
    <2>1. (CHOOSE j \in Lasts(js) : TRUE) \in DOMAIN js
        BY <1>2 DEF Lasts, Effects
    <2>2. js[CHOOSE j \in Lasts(js) : TRUE] \in JobType
        BY <2>1
    <2> QED  BY <1>2, <2>2, ProjectedLast DEF JobType
<1> QED  BY <1>1, <1>2

\* A replay leaves the status that the changes leave, or asks for a review.
LEMMA Replays ==
    ASSUME NEW rs, NEW js \in Seq(JobType), NEW rvs, NEW review, Replay(rs, js, rvs, review),
           base \in [status : Statuses, jobs : 0..MaxJobs], status \in Statuses,
           decided # None => ask = None, \A v, w \in rvs : v.kind = w.kind => v = w
    PROVE  /\ status' \in Statuses /\ \A v, w \in reviews' : v.kind = w.kind => v = w
           /\ status' = Projected(js) \/ reviews' # {}
           /\ ask' # None => /\ decided = None
                             /\ ask'.record \in DOMAIN rs /\ rs[ask'.record].mark = "applied"
<1>1. CASE decided # None /\ reviews' = Ask(rvs, review) /\ UNCHANGED <<status, ask>>
    BY <1>1 DEF Ask
<1>2. CASE /\ status' = Projected(js) /\ reviews' = rvs
           /\ ask' \in IF decided = None THEN Suggested(rs) ELSE {None}
    <2>1. ask' # None => decided = None /\ ask' \in Suggested(rs)
        BY <1>2
    <2>2. ASSUME ask' # None PROVE ask'.record \in DOMAIN rs /\ rs[ask'.record].mark = "applied"
        <3>1. PICK i \in {k \in DOMAIN rs : rs[k].mark = "applied"} :
                ask' = [record |-> i, gen |-> IF ask = None THEN 1 ELSE ask.gen + 1]
            BY <2>1, <2>2 DEF Suggested
        <3>2. ask'.record = i
            BY <3>1
        <3> QED  BY <3>2
    <2> QED  BY <1>2, <2>1, <2>2, ProjectedType
<1> QED  BY <1>1, <1>2 DEF Replay

MarkRecord(r, m) == [r EXCEPT !.mark = m]
CloseRecord(r, m) == [r EXCEPT !.out = TRUE, !.closed = TRUE, !.mark = m]
TakeOut(r) == [r EXCEPT !.out = TRUE]
LEMMA RecordMarks ==
    ASSUME NEW r \in RecordType, NEW m \in Marks
    PROVE  /\ LET x == MarkRecord(r, m) IN
                x \in RecordType /\ x.out = r.out /\ x.closed = r.closed /\ x.mark = m
           /\ LET x == TakeOut(r) IN
                x \in RecordType /\ x.out /\ x.closed = r.closed /\ x.mark = r.mark
           /\ LET x == CloseRecord(r, m) IN
                x \in RecordType /\ x.out /\ x.closed /\ x.mark = m
<1> USE DEF RecordType, Marks
<1>1. LET x == MarkRecord(r, m) IN
        x \in RecordType /\ x.out = r.out /\ x.closed = r.closed /\ x.mark = m
    BY DEF MarkRecord
<1>2. LET x == TakeOut(r) IN x \in RecordType /\ x.out = TRUE /\ x.closed = r.closed /\ x.mark = r.mark
    BY DEF TakeOut
<1>3. LET x == CloseRecord(r, m) IN x \in RecordType /\ x.out = TRUE /\ x.closed = TRUE /\ x.mark = m
    <2>1. PICK y \in RecordType : y = [r EXCEPT !.out = TRUE]
        OBVIOUS
    <2>2. PICK z \in RecordType : z = [y EXCEPT !.closed = TRUE]
        BY <2>1
    <2>3. CloseRecord(r, m) = [z EXCEPT !.mark = m]
        BY <2>1, <2>2 DEF CloseRecord
    <2>4. y.out = TRUE
        BY <2>1
    <2>5. z.out = TRUE /\ z.closed = TRUE
        BY <2>2, <2>4
    <2> QED  BY <2>3, <2>5
<1> QED  BY <1>1, <1>2, <1>3

\* One record changes.
LEMMA RecordsNumbered ==
    ASSUME RecordsOK
    PROVE  /\ records \in Seq(RecordType) /\ Len(records) \in Nat /\ DOMAIN records = 1..Len(records)
           /\ \A k \in DOMAIN records : records[k] \in RecordType
    BY DEF RecordsOK
LEMMA CausesThere ==
    ASSUME RecordsOK, JobsOK
    PROVE  \A j \in DOMAIN jobs :
            /\ jobs[j] \in JobType /\ jobs[j].cause \in Nat /\ jobs[j].cause <= Len(records)
            /\ jobs[j].cause # 0 => jobs[j].cause \in DOMAIN records
<1>1. \A j \in DOMAIN jobs : jobs[j] \in JobType /\ jobs[j].cause <= Len(records)
    BY DEF JobsOK
<1>2. \A j \in DOMAIN jobs : jobs[j].cause \in Nat
    BY <1>1 DEF JobType
<1> QED  BY <1>1, <1>2, RecordsNumbered
LEMMA OneRecord ==
    ASSUME RecordsOK, NEW i \in DOMAIN records, NEW x \in RecordType,
           records' = [records EXCEPT ![i] = x]
    PROVE  /\ RecordsOK' /\ Len(records') = Len(records) /\ DOMAIN records' = DOMAIN records
           /\ records'[i] = x
           /\ \A k \in DOMAIN records : k # i => records'[k] = records[k]
    BY DEF RecordsOK

LEMMA AskKinds ==
    ASSUME NEW pendings, NEW r, \A v, w \in pendings : v.kind = w.kind => v = w
    PROVE  Ask(pendings, r) # {} /\ \A v, w \in Ask(pendings, r) : v.kind = w.kind => v = w
    BY DEF Ask

\* What an input leaves as it is.
Kept ==
    /\ Len(records') = Len(records) /\ DOMAIN records' = DOMAIN records
    /\ JobsChange(jobs') /\ \A j \in DOMAIN jobs : jobs'[j].st = jobs[j].st
    /\ UNCHANGED <<now, upsets, base, decided, checkpoint>>
LEMMA RestAnswered ==
    ASSUME StoreOK, UNCHANGED <<now, upsets, base, decided, checkpoint>>, DOMAIN records' = DOMAIN records,
           Len(records') = Len(records), held' \subseteq DOMAIN records,
           status' \in Statuses, \A v, w \in reviews' : v.kind = w.kind => v = w
    PROVE  RestOK'
    BY DEF StoreOK, RestOK

LEMMA RecordShows ==
    ASSUME Sound, NEW i \in DOMAIN records, RecordInput(i)
    PROVE  /\ UNCHANGED <<jobs, base, decided, held, checkpoint>>
           /\ UNCHANGED records \/ (~records[i].out /\ records[i].mark = "none" /\ records' = Mark(i, "applied"))
           /\ status' \in Statuses /\ \A v, w \in reviews' : v.kind = w.kind => v = w
           /\ status' = Projected(jobs') \/ reviews' # {} \/ (UNCHANGED <<status, reviews>>)
           /\ \/ UNCHANGED ask
              \/ ask' # None => /\ decided = None
                                /\ ask'.record \in DOMAIN records'
                                /\ records'[ask'.record].mark = "applied"
<1> USE DEF Sound, StoreOK, RestOK
<1>1. UNCHANGED <<jobs, base, decided, held, checkpoint>>
    BY DEF RecordInput
<1>2. ASSUME NEW r, reviews' = Ask(reviews, r), UNCHANGED <<status, ask>>
      PROVE  /\ status' \in Statuses /\ reviews' # {} /\ \A v, w \in reviews' : v.kind = w.kind => v = w
    BY <1>2, AskKinds
<1>3. CASE UNCHANGED <<records, status, reviews, ask>>
    BY <1>1, <1>3
<1>4. CASE reviews' = Ask(reviews, Review("input", i, 0)) /\ UNCHANGED <<records, status, ask>>
    BY <1>1, <1>2, <1>4
<1>5. CASE /\ ~records[i].out /\ records[i].mark = "none" /\ records' = Mark(i, "applied")
           /\ \/ reviews' = Ask(reviews, Review("replay", i, 0)) /\ UNCHANGED <<status, ask>>
              \/ /\ ask' = IF ask = None /\ decided = None THEN [record |-> i, gen |-> 0] ELSE ask
                 /\ UNCHANGED <<status, reviews>>
              \/ Replay(records', jobs, reviews, Review("replay", i, 0))
    <2>1. CASE reviews' = Ask(reviews, Review("replay", i, 0)) /\ UNCHANGED <<status, ask>>
        BY <1>1, <1>2, <1>5, <2>1
    <2>2. CASE /\ ask' = IF ask = None /\ decided = None THEN [record |-> i, gen |-> 0] ELSE ask
               /\ UNCHANGED <<status, reviews>>
        <3>1. CASE ask = None /\ decided = None
            <4>1. ask'.record = i
                BY <2>2, <3>1
            <4>2. i \in DOMAIN records' /\ records'[i].mark = "applied"
                BY <1>5, RecordsNumbered DEF Mark, RecordType
            <4> QED  BY <1>1, <1>5, <2>2, <3>1, <4>1, <4>2
        <3>2. CASE ~(ask = None /\ decided = None)
            BY <1>1, <1>5, <2>2, <3>2
        <3> QED  BY <3>1, <3>2
    <2>3. CASE Replay(records', jobs, reviews, Review("replay", i, 0))
        <3>1. jobs \in Seq(JobType)
            BY DEF JobsOK
        <3> QED  BY <1>1, <1>5, <2>3, <3>1, Replays DEF SuggestionOK
    <2> QED  BY <1>5, <2>1, <2>2, <2>3
<1> QED  BY <1>3, <1>4, <1>5 DEF RecordInput

LEMMA RecordSound ==
    ASSUME Sound, NEW i \in DOMAIN records, RecordInput(i), UNCHANGED <<now, upsets>>
    PROVE  Sound' /\ Kept
<1> USE DEF Sound, StoreOK
<1>1. /\ UNCHANGED <<jobs, base, decided, held, checkpoint>>
      /\ UNCHANGED records \/ (~records[i].out /\ records[i].mark = "none" /\ records' = Mark(i, "applied"))
      /\ status' \in Statuses /\ \A v, w \in reviews' : v.kind = w.kind => v = w
      /\ status' = Projected(jobs') \/ reviews' # {} \/ (UNCHANGED <<status, reviews>>)
      /\ \/ UNCHANGED ask
         \/ ask' # None => /\ decided = None
                           /\ ask'.record \in DOMAIN records'
                           /\ records'[ask'.record].mark = "applied"
    BY RecordShows
<1>2. /\ RecordsOK' /\ Len(records') = Len(records) /\ DOMAIN records' = DOMAIN records
      /\ \A k \in DOMAIN records :
            /\ records'[k].out = records[k].out /\ records'[k].closed = records[k].closed
            /\ records[k].mark # "none" => records'[k].mark # "none"
            /\ records'[k].mark = "applied" => records[k].mark = "applied" \/ ~records[k].out
    <2>1. CASE UNCHANGED records
        BY <2>1 DEF RecordsOK
    <2>2. CASE ~records[i].out /\ records' = Mark(i, "applied")
        <3>1. records[i] \in RecordType /\ "applied" \in Marks
            BY RecordsNumbered DEF Marks
        <3>2. /\ MarkRecord(records[i], "applied") \in RecordType
              /\ MarkRecord(records[i], "applied").out = records[i].out
              /\ MarkRecord(records[i], "applied").closed = records[i].closed
              /\ MarkRecord(records[i], "applied").mark = "applied"
            BY <3>1, RecordMarks
        <3>3. records' = [records EXCEPT ![i] = MarkRecord(records[i], "applied")]
            BY <2>2 DEF Mark, MarkRecord
        <3>4. /\ RecordsOK' /\ Len(records') = Len(records) /\ DOMAIN records' = DOMAIN records
              /\ records'[i] = MarkRecord(records[i], "applied")
              /\ \A k \in DOMAIN records : k # i => records'[k] = records[k]
            BY <3>2, <3>3, OneRecord
        <3> QED  BY <2>2, <3>2, <3>4
    <2> QED  BY <1>1, <2>1, <2>2
<1>3. ClosedOK'
    BY <1>2 DEF ClosedOK
<1>4. JobsOK' /\ JobsChange(jobs') /\ \A j \in DOMAIN jobs : jobs'[j].st = jobs[j].st
    BY <1>1, <1>2, JobsNumbered, JobsStay DEF JobsOK
<1>5. RestOK'
    BY <1>1, <1>2, RestAnswered DEF RestOK
<1>6. AskOK'
    BY <1>1, <1>2 DEF AskOK
<1>7. SettledOK'
    <2>1. \A j \in DOMAIN jobs : jobs[j].cause # 0 => jobs[j].cause \in DOMAIN records
        BY CausesThere
    <2> QED  BY <1>1, <1>2, <2>1 DEF SettledOK
<1>8. SuggestionOK'
    <2>1. CASE UNCHANGED ask
        BY <1>1, <1>2, <2>1 DEF SuggestionOK, Covered, AskOK
    <2>2. CASE ask' # None => /\ decided = None
                              /\ ask'.record \in DOMAIN records'
                              /\ records'[ask'.record].mark = "applied"
        BY <1>1, <1>2, <1>3, <2>2 DEF SuggestionOK, ClosedOK
    <2> QED  BY <1>1, <2>1, <2>2
<1>9. RowOK'
    <2>1. Projected(jobs)' = Projected(jobs')
        BY <1>1 DEF Projected
    <2>2. \A j \in DOMAIN jobs : jobs[j].cause # 0 => jobs[j].cause \in DOMAIN records
        BY CausesThere
    <2>3. CASE UNCHANGED <<status, reviews>>
        <3>1. ToCome => ToCome'
            BY <1>1, <1>2, <2>2, <2>3 DEF ToCome, Alive
        <3>2. status = Projected(jobs) => status' = Projected(jobs)'
            BY <1>1, <2>1, <2>3
        <3> QED  BY <3>1, <3>2 DEF RowOK
    <2>4. CASE status' = Projected(jobs') \/ reviews' # {}
        BY <2>1, <2>4 DEF RowOK, ToCome
    <2> QED  BY <1>1, <2>3, <2>4
<1> QED  BY <1>1, <1>2, <1>3, <1>4, <1>5, <1>6, <1>7, <1>8, <1>9 DEF Kept

LEMMA JobsChangeOK ==
    ASSUME JobsOK, JobsChange(jobs'), Len(records') = Len(records)
    PROVE  JobsOK'
    BY DEF JobsOK, JobsChange, Same

LEMMA WithdrawSound ==
    ASSUME Sound, NEW i \in DOMAIN records, WithdrawInput(i), UNCHANGED <<now, upsets>>
    PROVE  Sound' /\ Kept
<1> USE DEF Sound, StoreOK
<1> DEFINE m == IF records[i].mark = "applied" THEN "void" ELSE records[i].mark
           x == CloseRecord(records[i], m)
           Rest == {v \in reviews : v.record # i}
           Again == Review("replay", i, 0)
<1>1. UNCHANGED <<base, decided, checkpoint>>
    BY DEF WithdrawInput
<1>2. CASE records[i].closed
    <2>1. UNCHANGED <<records, jobs, status, reviews, ask, held>>
        BY <1>2 DEF WithdrawInput
    <2>2. Projected(jobs)' = Projected(jobs)
        BY <1>1, <2>1 DEF Projected
    <2>3. RecordsOK' /\ JobsOK' /\ RestOK' /\ AskOK' /\ ClosedOK' /\ SettledOK' /\ SuggestionOK'
        BY <1>1, <2>1 DEF RecordsOK, JobsOK, RestOK, AskOK, ClosedOK, SettledOK, SuggestionOK, Covered
    <2>4. RowOK'
        BY <2>1, <2>2 DEF RowOK, ToCome, Alive
    <2> QED  BY <1>1, <2>1, <2>3, <2>4, JobsNumbered, JobsStay DEF Kept
<1>3. CASE ~records[i].closed
    <2>1. records' = [records EXCEPT ![i] = x]
        BY <1>3 DEF WithdrawInput, CloseRecord
    <2>2. \/ /\ Covered(i) \/ (records[i].mark # "none" /\ decided = i)
             /\ reviews' = Ask(Rest, Again) /\ held' = held \union {i} /\ UNCHANGED <<jobs, status, ask>>
          \/ /\ UNCHANGED held /\ jobs' = (IF records[i].mark = "none" THEN jobs ELSE Voided(i))
             /\ Replay(records', jobs', Rest, Again)
        BY <1>3 DEF WithdrawInput
    <2>3. records[i] \in RecordType /\ m \in Marks /\ m # "applied" /\ (m = "none" <=> records[i].mark = "none")
        BY RecordsNumbered DEF Marks, RecordType
    <2>4. x \in RecordType /\ x.out /\ x.closed /\ x.mark = m
        BY <2>3, RecordMarks
    <2> HIDE DEF x, m
    <2>5. /\ RecordsOK' /\ Len(records') = Len(records) /\ DOMAIN records' = DOMAIN records
          /\ records'[i] = x
          /\ \A k \in DOMAIN records : k # i => records'[k] = records[k]
        BY <2>1, <2>4, OneRecord
    <2>6. ClosedOK'
        BY <2>3, <2>4, <2>5 DEF ClosedOK
    <2>7. \A v, w \in Rest : v.kind = w.kind => v = w
        BY DEF RestOK
    <2>8. CASE /\ Covered(i) \/ (records[i].mark # "none" /\ decided = i)
               /\ reviews' = Ask(Rest, Again) /\ held' = held \union {i} /\ UNCHANGED <<jobs, status, ask>>
        <3>1. reviews' # {} /\ \A v, w \in reviews' : v.kind = w.kind => v = w
            BY <2>7, <2>8, AskKinds
        <3>2. JobsOK' /\ JobsChange(jobs') /\ \A j \in DOMAIN jobs : jobs'[j].st = jobs[j].st
            BY <2>5, <2>8, JobsNumbered, JobsStay, JobsChangeOK
        <3>3. RestOK'
            BY <1>1, <2>5, <2>8, <3>1, RestAnswered DEF RestOK
        <3>4. AskOK'
            BY <2>5, <2>8 DEF AskOK
        <3>5. SettledOK'
            <4>1. \A j \in DOMAIN jobs : jobs[j].cause # 0 => jobs[j].cause \in DOMAIN records
                BY CausesThere
            <4> QED  BY <1>1, <2>3, <2>4, <2>5, <2>8, <4>1 DEF SettledOK
        <3>6. SuggestionOK'
            <4>1. ask # None => decided = None
                BY DEF SuggestionOK
            <4>2. i # None
                BY RecordsNumbered, NoneAssumption
            <4>3. ask # None /\ ask.record = i => Covered(i)
                BY <2>8, <4>1, <4>2
            <4> QED  BY <1>1, <2>5, <2>8, <4>1, <4>3 DEF SuggestionOK, Covered, AskOK
        <3>7. RowOK'
            BY <3>1 DEF RowOK, ToCome
        <3> QED  BY <1>1, <2>5, <2>6, <3>2, <3>3, <3>4, <3>5, <3>6, <3>7 DEF Kept
    <2>9. CASE /\ UNCHANGED held /\ jobs' = (IF records[i].mark = "none" THEN jobs ELSE Voided(i))
               /\ Replay(records', jobs', Rest, Again)
        <3>1. /\ JobsChange(jobs')
              /\ \A j \in DOMAIN jobs :
                    /\ jobs'[j].st = jobs[j].st /\ jobs'[j].event = jobs[j].event
                    /\ jobs'[j].mark = IF records[i].mark # "none" /\ jobs[j].cause = i /\ jobs[j].mark = "applied"
                                       THEN "void" ELSE jobs[j].mark
            BY <2>9, JobsNumbered, JobsStay, Voids
        <3>2. JobsOK'
            BY <2>5, <3>1, JobsChangeOK
        <3>3. /\ status' \in Statuses /\ \A v, w \in reviews' : v.kind = w.kind => v = w
              /\ status' = Projected(jobs') \/ reviews' # {}
              /\ ask' # None => /\ decided = None
                                /\ ask'.record \in DOMAIN records' /\ records'[ask'.record].mark = "applied"
            <4>1. jobs' \in Seq(JobType)
                BY <3>1 DEF JobsChange
            <4> QED  BY <2>7, <2>9, <4>1, Replays DEF RestOK, SuggestionOK
        <3>4. RestOK'
            BY <1>1, <2>5, <2>9, <3>3, RestAnswered DEF RestOK
        <3>5. AskOK'
            BY <3>3 DEF AskOK
        <3>6. SettledOK'
            <4>1. \A j \in DOMAIN jobs :
                    /\ jobs[j].cause # 0 => jobs[j].cause \in DOMAIN records
                    /\ jobs'[j].cause = jobs[j].cause
                BY <3>1, CausesThere DEF JobsChange, Same
            <4>2. DOMAIN jobs' = DOMAIN jobs
                BY <3>1 DEF JobsChange
            <4> QED  BY <1>1, <2>3, <2>4, <2>5, <2>9, <3>1, <4>1, <4>2 DEF SettledOK
        <3>7. SuggestionOK'
            BY <1>1, <2>6, <3>3 DEF SuggestionOK, ClosedOK
        <3>8. RowOK'
            <4>1. Projected(jobs)' = Projected(jobs')
                BY <1>1 DEF Projected
            <4> QED  BY <3>3, <4>1 DEF RowOK, ToCome
        <3> QED  BY <1>1, <2>5, <2>6, <3>1, <3>2, <3>4, <3>5, <3>6, <3>7, <3>8 DEF Kept
    <2> QED  BY <2>2, <2>8, <2>9
<1> QED  BY <1>2, <1>3

\* A status change: the job is settled, fails and waits, or lifts the review of an older one.
Superseded == {v.job : v \in reviews}
Older == IF Superseded = {} THEN 0 ELSE CHOOSE k \in Superseded : TRUE
LEMMA StatusShows ==
    ASSUME NEW j, StatusInput(j)
    PROVE  /\ UNCHANGED <<records, base, decided, held, checkpoint>>
           /\ \/ /\ jobs[j].cause # 0 /\ records[jobs[j].cause].out
                 /\ jobs' = Settle(j, "none", 0) /\ UNCHANGED <<status, reviews, ask>>
              \/ /\ jobs' = [jobs EXCEPT ![j].st = "failed"] /\ UNCHANGED <<status, ask>>
                 /\ UNCHANGED reviews \/ reviews' = Ask(reviews, Review("input", 0, j))
              \/ /\ jobs[j].cause # 0 =>
                        ~records[jobs[j].cause].out /\ records[jobs[j].cause].mark = "applied"
                 /\ jobs' = Settle(j, "applied", Older)
                 /\ \/ reviews' = {Review("replay", 0, j)} /\ UNCHANGED <<status, ask>>
                    \/ Replay(records, jobs', {}, Review("replay", 0, j))
                    \/ status' = Projected(jobs') /\ reviews' = {} /\ ask' \in {ask, None}
<1>1. UNCHANGED <<records, base, decided, held, checkpoint>>
    BY DEF StatusInput
<1>2. CASE jobs[j].cause # 0 /\ records[jobs[j].cause].out
    BY <1>1, <1>2 DEF StatusInput
<1>3. CASE ~(jobs[j].cause # 0 /\ records[jobs[j].cause].out)
    <2>1. CASE jobs[j].cause # 0 /\ records[jobs[j].cause].mark # "applied"
        BY <1>1, <1>3, <2>1 DEF StatusInput
    <2>2. CASE ~(jobs[j].cause # 0 /\ records[jobs[j].cause].mark # "applied")
        BY <1>1, <1>3, <2>2 DEF StatusInput, Older, Superseded
    <2> QED  BY <2>1, <2>2
<1> QED  BY <1>2, <1>3

LEMMA OlderIsOlder ==
    ASSUME NEW j \in Nat, MayRun(j)
    PROVE  (Older \in Nat /\ Older < j) \/ Older = 0
<1>1. \A k \in Superseded : k \in 1..(j - 1)
    BY DEF MayRun, Superseded
<1>2. Superseded # {} => (CHOOSE k \in Superseded : TRUE) \in Superseded
    OBVIOUS
<1> QED  BY <1>1, <1>2 DEF Older

StatusKept(j) ==
    /\ UNCHANGED <<now, upsets, records, base, decided, checkpoint>>
    /\ JobsChange(jobs') /\ \A l \in DOMAIN jobs : l > j => jobs'[l].st = jobs[l].st
\* The change of a job as the projection and the rest of the invariant see it.
LEMMA StatusJobs ==
    ASSUME Sound, NEW j \in DOMAIN jobs, jobs[j].st # "applied", MayRun(j), StatusInput(j)
    PROVE  /\ JobsChange(jobs') /\ \A l \in DOMAIN jobs : l > j => jobs'[l].st = jobs[l].st
           /\ \A l \in DOMAIN jobs : l # j => jobs'[l].mark = jobs[l].mark /\ jobs'[l].event = jobs[l].event
           /\ \A l \in DOMAIN jobs : l # j =>
                (jobs'[l].st = jobs[l].st \/ (jobs'[l].st = "applied" /\ reviews # {}))
           /\ \/ /\ jobs[j].cause # 0 /\ records[jobs[j].cause].out
                 /\ jobs'[j].st = "applied" /\ jobs'[j].mark = "none" /\ jobs'[j].event = 0
                 /\ \A l \in DOMAIN jobs : l # j => jobs'[l].st = jobs[l].st
                 /\ UNCHANGED <<status, reviews, ask>>
              \/ /\ jobs'[j].st = "failed" /\ jobs'[j].mark = "none" /\ jobs'[j].event = 0
                 /\ \A l \in DOMAIN jobs : l # j => jobs'[l].st = jobs[l].st
                 /\ UNCHANGED <<status, ask>>
                 /\ UNCHANGED reviews \/ reviews' = Ask(reviews, Review("input", 0, j))
              \/ /\ jobs'[j].st = "applied" /\ jobs'[j].mark = "applied"
                 /\ jobs[j].cause # 0 =>
                        ~records[jobs[j].cause].out /\ records[jobs[j].cause].mark = "applied"
                 /\ \/ reviews' = {Review("replay", 0, j)} /\ UNCHANGED <<status, ask>>
                    \/ Replay(records, jobs', {}, Review("replay", 0, j))
                    \/ status' = Projected(jobs') /\ reviews' = {} /\ ask' \in {ask, None}
<1> USE DEF Sound, StoreOK
<1>1. Numbered /\ jobs[j] \in JobType /\ j \in Nat
    BY JobsNumbered DEF Numbered
<1>2. jobs[j].mark = "none" /\ jobs[j].event = 0
    BY DEF SettledOK
<1>3. 0 \notin DOMAIN jobs
    BY <1>1 DEF Numbered
<1>4. CASE /\ jobs[j].cause # 0 /\ records[jobs[j].cause].out
           /\ jobs' = Settle(j, "none", 0) /\ UNCHANGED <<status, reviews, ask>>
    <2>1. /\ JobsChange(jobs') /\ jobs'[j].st = "applied" /\ jobs'[j].mark = "none" /\ jobs'[j].event = 0
          /\ \A l \in DOMAIN jobs : l # j =>
                /\ jobs'[l].mark = jobs[l].mark /\ jobs'[l].event = jobs[l].event
                /\ jobs'[l].st = IF l = 0 THEN "applied" ELSE jobs[l].st
        BY <1>2, <1>4, Settles
    <2>2. \A l \in DOMAIN jobs : l # j => jobs'[l].st = jobs[l].st
        BY <1>3, <2>1
    <2>3. \A l \in DOMAIN jobs : l > j => l # j
        BY <1>1
    <2> QED  BY <1>4, <2>1, <2>2, <2>3
<1>5. CASE /\ jobs' = [jobs EXCEPT ![j].st = "failed"] /\ UNCHANGED <<status, ask>>
           /\ UNCHANGED reviews \/ reviews' = Ask(reviews, Review("input", 0, j))
    <2>1. /\ jobs' = [jobs EXCEPT ![j] = Restate(jobs[j], "failed")]
          /\ Restate(jobs[j], "failed") \in JobType
          /\ Same(Restate(jobs[j], "failed"), jobs[j]) /\ Restate(jobs[j], "failed").st = "failed"
          /\ Restate(jobs[j], "failed").mark = "none" /\ Restate(jobs[j], "failed").event = 0
        <3>1. jobs' = [jobs EXCEPT ![j] = Restate(jobs[j], "failed")]
            BY <1>5 DEF Restate
        <3>2. "failed" \in JobStates /\ "none" \in Marks /\ jobs[j].event \in 0..MaxJobs
            BY <1>1 DEF JobStates, Marks, JobType
        <3>3. LET x == Restate(jobs[j], "failed") IN
                Same(x, jobs[j]) /\ x.st = "failed" /\ x.mark = jobs[j].mark /\ x.event = jobs[j].event
            BY <1>1, <3>2, JobChanges
        <3> QED  BY <1>2, <3>1, <3>3 DEF Same
    <2>2. \A l \in DOMAIN jobs : l # j => jobs'[l] = jobs[l]
        BY <1>1, <2>1
    <2>3. jobs'[j] = Restate(jobs[j], "failed")
        BY <1>1, <2>1
    <2>4. JobsChange(jobs')
        <3>1. JobsChange(jobs)
            BY <1>1, JobsStay
        <3>2. \A l \in DOMAIN jobs : Same(jobs'[l], jobs[l])
            BY <2>1, <2>2, <2>3, <3>1 DEF JobsChange
        <3>3. jobs' \in Seq(JobType) /\ Len(jobs') = Len(jobs) /\ DOMAIN jobs' = DOMAIN jobs
            BY <1>1, <2>1 DEF Numbered
        <3> QED  BY <3>2, <3>3 DEF JobsChange
    <2>5. \A l \in DOMAIN jobs : l > j => l # j
        BY <1>1
    <2> QED  BY <1>5, <2>1, <2>2, <2>3, <2>4, <2>5
<1>6. CASE /\ jobs[j].cause # 0 => ~records[jobs[j].cause].out /\ records[jobs[j].cause].mark = "applied"
           /\ jobs' = Settle(j, "applied", Older)
           /\ \/ reviews' = {Review("replay", 0, j)} /\ UNCHANGED <<status, ask>>
              \/ Replay(records, jobs', {}, Review("replay", 0, j))
              \/ status' = Projected(jobs') /\ reviews' = {} /\ ask' \in {ask, None}
    <2>1. /\ JobsChange(jobs') /\ jobs'[j].st = "applied" /\ jobs'[j].mark = "applied"
          /\ \A l \in DOMAIN jobs : l # j =>
                /\ jobs'[l].mark = jobs[l].mark /\ jobs'[l].event = jobs[l].event
                /\ jobs'[l].st = IF l = Older THEN "applied" ELSE jobs[l].st
        BY <1>2, <1>6, Settles
    <2>2. Older < j /\ Older \in Nat /\ (Older # 0 => reviews # {})
        <3>1. j > 0
            BY <1>1, <1>3
        <3>2. Older # 0 => reviews # {}
            BY DEF Older, Superseded
        <3> QED  BY <1>1, <3>1, <3>2, OlderIsOlder
    <2>3. \A l \in DOMAIN jobs : l > j => l # j /\ l # Older
        BY <1>1, <2>2 DEF Numbered
    <2>4. \A l \in DOMAIN jobs : l # j =>
            (jobs'[l].st = jobs[l].st \/ (jobs'[l].st = "applied" /\ reviews # {}))
        BY <1>3, <2>1, <2>2
    <2> QED  BY <1>6, <2>1, <2>3, <2>4
<1> QED  BY <1>4, <1>5, <1>6, StatusShows

LEMMA StatusSound ==
    ASSUME Sound, NEW j \in DOMAIN jobs, jobs[j].st # "applied", MayRun(j), StatusInput(j),
           UNCHANGED <<now, upsets>>
    PROVE  Sound' /\ StatusKept(j)
<1> USE DEF Sound, StoreOK
<1>1. UNCHANGED <<records, base, decided, held, checkpoint>>
    BY StatusShows
<1>2. /\ JobsChange(jobs') /\ \A l \in DOMAIN jobs : l > j => jobs'[l].st = jobs[l].st
      /\ \A l \in DOMAIN jobs : l # j => jobs'[l].mark = jobs[l].mark /\ jobs'[l].event = jobs[l].event
      /\ \A l \in DOMAIN jobs : l # j =>
            (jobs'[l].st = jobs[l].st \/ (jobs'[l].st = "applied" /\ reviews # {}))
    BY StatusJobs
<1>3. jobs[j].mark = "none" /\ jobs[j].event = 0
    BY DEF SettledOK
<1>4. /\ DOMAIN jobs' = DOMAIN jobs
      /\ \A l \in DOMAIN jobs : /\ jobs'[l].at = jobs[l].at /\ jobs'[l].to = jobs[l].to
                                /\ jobs'[l].cause = jobs[l].cause
                                /\ jobs[l].cause # 0 => jobs[l].cause \in DOMAIN records
    BY <1>2, CausesThere DEF JobsChange, Same
<1>5. RecordsOK' /\ ClosedOK' /\ JobsOK'
    BY <1>1, <1>2, JobsChangeOK DEF RecordsOK, ClosedOK
<1>6. Projected(jobs)' = Projected(jobs')
    BY <1>1 DEF Projected
<1>7. ASSUME jobs'[j].mark = "none"
      PROVE  Projected(jobs') = Projected(jobs)
    <2>1. Effects(jobs) = Effects(jobs')
        BY <1>2, <1>3, <1>4, <1>7 DEF Effects
    <2>2. \A l \in Effects(jobs) : /\ jobs[l].at = jobs'[l].at /\ jobs[l].event = jobs'[l].event
                                   /\ jobs[l].to = jobs'[l].to
        BY <1>2, <1>3, <1>4 DEF Effects
    <2> QED  BY <2>1, <2>2, ProjectionStays
<1>8. CASE /\ jobs[j].cause # 0 /\ records[jobs[j].cause].out
           /\ jobs'[j].st = "applied" /\ jobs'[j].mark = "none" /\ jobs'[j].event = 0
           /\ \A l \in DOMAIN jobs : l # j => jobs'[l].st = jobs[l].st
           /\ UNCHANGED <<status, reviews, ask>>
    <2>1. RestOK' /\ AskOK' /\ SuggestionOK'
        BY <1>1, <1>8 DEF RestOK, AskOK, SuggestionOK, Covered
    <2>2. SettledOK'
        BY <1>1, <1>2, <1>4, <1>8 DEF SettledOK
    <2>3. ToCome => ToCome'
        <3>1. \A l \in DOMAIN jobs : Alive(l) => Alive(l)' \/ (records[jobs[j].cause].out /\ ~records[jobs[j].cause].closed)
            BY <1>1, <1>4, <1>8 DEF Alive
        <3> QED  BY <1>1, <1>4, <1>8, <3>1 DEF ToCome
    <2>4. RowOK'
        BY <1>6, <1>7, <1>8, <2>3 DEF RowOK
    <2> QED  BY <1>1, <1>2, <1>5, <2>1, <2>2, <2>4 DEF StatusKept
<1>9. CASE /\ jobs'[j].st = "failed" /\ jobs'[j].mark = "none" /\ jobs'[j].event = 0
           /\ \A l \in DOMAIN jobs : l # j => jobs'[l].st = jobs[l].st
           /\ UNCHANGED <<status, ask>>
           /\ UNCHANGED reviews \/ reviews' = Ask(reviews, Review("input", 0, j))
    <2>1. RestOK' /\ (UNCHANGED reviews \/ reviews' # {})
        <3>1. CASE UNCHANGED reviews
            BY <1>1, <1>9, <3>1, RestAnswered DEF RestOK
        <3>2. CASE reviews' = Ask(reviews, Review("input", 0, j))
            <4>1. reviews' # {} /\ \A v, w \in reviews' : v.kind = w.kind => v = w
                BY <3>2, AskKinds DEF RestOK
            <4> QED  BY <1>1, <1>9, <4>1, RestAnswered DEF RestOK
        <3> QED  BY <1>9, <3>1, <3>2
    <2>2. AskOK' /\ SuggestionOK'
        BY <1>1, <1>9 DEF AskOK, SuggestionOK, Covered
    <2>3. SettledOK'
        BY <1>1, <1>2, <1>4, <1>9 DEF SettledOK
    <2>4. ToCome => ToCome'
        <3>1. \A l \in DOMAIN jobs : Alive(l) => Alive(l)'
            BY <1>1, <1>4, <1>9 DEF Alive
        <3> QED  BY <1>1, <1>4, <1>9, <2>1, <3>1 DEF ToCome
    <2>5. RowOK'
        BY <1>6, <1>7, <1>9, <2>4 DEF RowOK
    <2> QED  BY <1>1, <1>2, <1>5, <2>1, <2>2, <2>3, <2>5 DEF StatusKept
<1>10. CASE /\ jobs'[j].st = "applied" /\ jobs'[j].mark = "applied"
            /\ jobs[j].cause # 0 => ~records[jobs[j].cause].out /\ records[jobs[j].cause].mark = "applied"
            /\ \/ reviews' = {Review("replay", 0, j)} /\ UNCHANGED <<status, ask>>
               \/ Replay(records, jobs', {}, Review("replay", 0, j))
               \/ status' = Projected(jobs') /\ reviews' = {} /\ ask' \in {ask, None}
    <2>1. jobs' \in Seq(JobType)
        BY <1>2 DEF JobsChange
    <2>2. Projected(jobs') \in Statuses
        BY <2>1, ProjectedType DEF RestOK
    <2>3. /\ status' \in Statuses /\ \A v, w \in reviews' : v.kind = w.kind => v = w
          /\ status' = Projected(jobs') \/ reviews' # {}
          /\ \/ ask' \in {ask, None}
             \/ ask' # None => /\ decided = None
                               /\ ask'.record \in DOMAIN records /\ records[ask'.record].mark = "applied"
        <3>1. CASE reviews' = {Review("replay", 0, j)} /\ UNCHANGED <<status, ask>>
            BY <3>1 DEF RestOK
        <3>2. CASE Replay(records, jobs', {}, Review("replay", 0, j))
            <4>1. /\ base \in [status : Statuses, jobs : 0..MaxJobs] /\ status \in Statuses
                  /\ decided # None => ask = None
                BY DEF RestOK, SuggestionOK
            <4> DEFINE Nothing == {}
            <4>2. \A v, w \in Nothing : v.kind = w.kind => v = w
                OBVIOUS
            <4>4. Replay(records, jobs', Nothing, Review("replay", 0, j))
                BY <3>2
            <4> HIDE DEF Nothing
            <4>3. /\ status' \in Statuses /\ \A v, w \in reviews' : v.kind = w.kind => v = w
                  /\ status' = Projected(jobs') \/ reviews' # {}
                  /\ ask' # None => /\ decided = None
                                    /\ ask'.record \in DOMAIN records /\ records[ask'.record].mark = "applied"
                BY ONLY <2>1, <4>1, <4>2, <4>4, Replays
            <4> QED  BY <4>3
        <3>3. CASE status' = Projected(jobs') /\ reviews' = {} /\ ask' \in {ask, None}
            BY <2>2, <3>3
        <3> QED  BY <1>10, <3>1, <3>2, <3>3
    <2>4. RestOK'
        BY <1>1, <2>3, RestAnswered DEF RestOK
    <2>5. AskOK' /\ SuggestionOK'
        BY <1>1, <2>3 DEF AskOK, SuggestionOK, Covered, ClosedOK
    <2>6. SettledOK'
        <3>1. \A l \in DOMAIN jobs : jobs'[l].st # "applied" => jobs'[l].mark = "none" /\ jobs'[l].event = 0
            BY <1>2, <1>10 DEF SettledOK
        <3>2. \A l \in DOMAIN jobs : jobs'[l].mark = "applied" /\ l > base.jobs /\ jobs[l].cause # 0 =>
                /\ records[jobs[l].cause].mark # "none"
                /\ records[jobs[l].cause].closed => jobs[l].cause \in held
            BY <1>2, <1>4, <1>10 DEF SettledOK, ClosedOK
        <3> QED  BY <1>1, <1>4, <3>1, <3>2 DEF SettledOK
    <2>7. RowOK'
        BY <1>6, <2>3 DEF RowOK, ToCome
    <2> QED  BY <1>1, <1>2, <1>5, <2>4, <2>5, <2>6, <2>7 DEF StatusKept
<1> QED  BY <1>8, <1>9, <1>10, StatusJobs
-----------------------------------------------------------------------------
(* The steps that change no record and no status.                               *)

LEMMA StillSound ==
    ASSUME Sound, UNCHANGED <<records, jobs, status, policy>>, now' \in Times, upsets' \in 0..MaxUpsets
    PROVE  Sound'
<1> USE DEF Sound, StoreOK, policy
<1>1. Projected(jobs)' = Projected(jobs)
    BY DEF Projected
<1>2. RecordsOK' /\ JobsOK' /\ RestOK' /\ AskOK'
    BY DEF RecordsOK, JobsOK, RestOK, AskOK
<1>3. ClosedOK' /\ SettledOK' /\ SuggestionOK'
    BY DEF ClosedOK, SettledOK, SuggestionOK, Covered
<1>4. RowOK'
    BY <1>1 DEF RowOK, ToCome, Alive
<1> QED  BY <1>2, <1>3, <1>4

LEMMA Restates ==
    ASSUME Sound, NEW j \in DOMAIN jobs, jobs[j].st # "applied", NEW st \in JobStates \ {"applied"},
           jobs' = [jobs EXCEPT ![j].st = st], UNCHANGED <<records, status, policy, now, upsets>>
    PROVE  /\ Sound' /\ JobsChange(jobs') /\ jobs'[j].st = st
           /\ \A l \in DOMAIN jobs : l # j => jobs'[l] = jobs[l]
<1> USE DEF Sound, StoreOK, policy
<1>1. Numbered /\ jobs[j] \in JobType
    BY JobsNumbered DEF Numbered
<1>2. /\ jobs' = [jobs EXCEPT ![j] = Restate(jobs[j], st)]
      /\ Same(Restate(jobs[j], st), jobs[j]) /\ Restate(jobs[j], st).st = st
      /\ Restate(jobs[j], st).mark = jobs[j].mark /\ Restate(jobs[j], st).event = jobs[j].event
    <2>1. jobs' = [jobs EXCEPT ![j] = Restate(jobs[j], st)]
        BY DEF Restate
    <2>2. st \in JobStates /\ "none" \in Marks /\ jobs[j].event \in 0..MaxJobs
        BY <1>1 DEF Marks, JobType
    <2>3. LET x == Restate(jobs[j], st) IN
            Same(x, jobs[j]) /\ x.st = st /\ x.mark = jobs[j].mark /\ x.event = jobs[j].event
        BY <1>1, <2>2, JobChanges
    <2> QED  BY <2>1, <2>3
<1>3. jobs'[j] = Restate(jobs[j], st) /\ \A l \in DOMAIN jobs : l # j => jobs'[l] = jobs[l]
    BY <1>1, <1>2 DEF Same
<1>4. JobsChange(jobs')
    <2>1. JobsChange(jobs)
        BY <1>1, JobsStay
    <2>2. \A l \in DOMAIN jobs : Same(jobs'[l], jobs[l])
        BY <1>2, <1>3, <2>1 DEF JobsChange
    <2>3. jobs' \in Seq(JobType) /\ Len(jobs') = Len(jobs) /\ DOMAIN jobs' = DOMAIN jobs
        BY <1>1, <1>2 DEF Numbered, Same
    <2> QED  BY <2>2, <2>3 DEF JobsChange
<1>5. /\ DOMAIN jobs' = DOMAIN jobs
      /\ \A l \in DOMAIN jobs : /\ jobs'[l].at = jobs[l].at /\ jobs'[l].to = jobs[l].to
                                /\ jobs'[l].cause = jobs[l].cause /\ jobs'[l].mark = jobs[l].mark
                                /\ jobs'[l].event = jobs[l].event
                                /\ (jobs'[l].st = "applied" <=> jobs[l].st = "applied")
    BY <1>2, <1>3, <1>4 DEF JobsChange, Same
<1>6. RecordsOK' /\ JobsOK' /\ RestOK' /\ AskOK' /\ ClosedOK' /\ SuggestionOK'
    BY <1>4, JobsChangeOK DEF RecordsOK, RestOK, AskOK, ClosedOK, SuggestionOK, Covered
<1>7. SettledOK'
    BY <1>5 DEF SettledOK
<1>8. RowOK'
    <2>1. Projected(jobs') = Projected(jobs)
        <3>1. Effects(jobs) = Effects(jobs')
            BY <1>5 DEF Effects
        <3>2. \A l \in Effects(jobs) : /\ jobs[l].at = jobs'[l].at /\ jobs[l].event = jobs'[l].event
                                       /\ jobs[l].to = jobs'[l].to
            BY <1>5 DEF Effects
        <3> QED  BY <3>1, <3>2, ProjectionStays
    <2>2. Projected(jobs)' = Projected(jobs')
        BY DEF Projected
    <2>3. \A l \in DOMAIN jobs : Alive(l) => Alive(l)'
        BY <1>5 DEF Alive
    <2>4. ToCome => ToCome'
        BY <1>5, <2>3 DEF ToCome
    <2> QED  BY <2>1, <2>2, <2>4 DEF RowOK
<1> QED  BY <1>2, <1>3, <1>4, <1>6, <1>7, <1>8

\* What is kept of a preview holds as long as no record disappears.
LEMMA PendingStays ==
    ASSUME PendingOK, UNCHANGED pending, DOMAIN records \subseteq DOMAIN records',
           Len(records) \in Nat, Len(records') \in Nat, Len(records) <= Len(records')
    PROVE  PendingOK'
    BY DEF PendingOK, PreviewOK
LEMMA PendingGone ==
    ASSUME PendingOK, NEW o \in Operators, pending' = [pending EXCEPT ![o] = None],
           DOMAIN records \subseteq DOMAIN records',
           Len(records) \in Nat, Len(records') \in Nat, Len(records) <= Len(records')
    PROVE  PendingOK'
    BY DEF PendingOK, PreviewOK

\* The handlers that begin.
LEMMA IdleOK ==
    ASSUME task' = NoTask
    PROVE  TaskOK'
    BY DEF NoTask, TaskOK
LEMMA RecordTask ==
    ASSUME NEW s \in Seq(Nat), NEW do \in {"compensate", "record"},
           \A k \in DOMAIN s : s[k] \in DOMAIN records', do = "record" => s # <<>>, Then(do, s)
    PROVE  TaskOK'
    BY DEF Then, TaskOK
LEMMA JobTask ==
    ASSUME Numbered, JobsNow, UNCHANGED jobs
    PROVE  TaskOK'
<1> DEFINE S == {j \in DOMAIN jobs : jobs[j].st \in {"pending", "failed", "lapsed"}}
           s == InOrder(S)
<1>1. S \in SUBSET (1..Len(jobs)) /\ Len(jobs) \in Nat
    BY DEF Numbered
<1>2. task' = [do |-> "jobs", left |-> s, claimed |-> 0]
    BY DEF JobsNow, Then
<1>3. \A j \in S : j \in DOMAIN jobs /\ j \in Nat /\ j > 0 /\ jobs[j].st # "applied"
    BY DEF Numbered
<1> HIDE DEF S
<1>4. /\ s \in Seq(Nat) /\ \A k \in DOMAIN s : s[k] \in S
      /\ \A k, l \in DOMAIN s : k < l => s[k] < s[l]
    BY <1>1, InOrderOrders
<1> HIDE DEF s
<1>5. task'.do = "jobs" /\ task'.left = s /\ task'.claimed = 0
    BY <1>2
<1>6. task' \in [do : {"idle", "compensate", "record", "jobs", "start"}, left : Seq(Nat), claimed : Nat]
    BY <1>2, <1>4
<1> QED  BY <1>3, <1>4, <1>5, <1>6 DEF TaskOK

LEMMA MaintainStep == ASSUME IntakeInv, Maintain PROVE IntakeInv'
<1> USE DEF IntakeInv
<1>1. UNCHANGED <<now, records, jobs, status, policy, pending, previews, upsets>>
    BY DEF Maintain
<1>2. Sound'
    BY <1>1, StillSound DEF Sound, StoreOK, RestOK
<1>3. PendingOK'
    BY <1>1, PendingStays, RecordsNumbered DEF Sound, StoreOK
<1>4. TaskOK'
    <2> DEFINE s == InOrder(Unprocessed)
    <2>1. Unprocessed \in SUBSET (1..Len(records)) /\ Len(records) \in Nat
        BY RecordsNumbered DEF Unprocessed, Sound, StoreOK
    <2>2. s \in Seq(Nat) /\ \A k \in DOMAIN s : s[k] \in Unprocessed
        BY <2>1, InOrderOrders
    <2>3. Then("compensate", s)
        BY DEF Maintain
    <2>4. \A k \in DOMAIN s : s[k] \in DOMAIN records'
        BY <1>1, <2>2 DEF Unprocessed
    <2> HIDE DEF s
    <2> QED  BY <2>2, <2>3, <2>4, RecordTask
<1> QED  BY <1>2, <1>3, <1>4

LEMMA InputSound ==
    ASSUME Sound, NEW i \in DOMAIN records, Input(i), UNCHANGED <<now, upsets>>
    PROVE  Sound' /\ Kept
    BY RecordSound, WithdrawSound DEF Input

LEMMA CompensateStep == ASSUME IntakeInv, Compensate PROVE IntakeInv' /\ Kept
<1> USE DEF IntakeInv
<1>1. UNCHANGED <<now, pending, previews, upsets>>
    BY DEF Compensate
<1>2. CASE task.left = <<>>
    <2>1. JobsNow /\ UNCHANGED <<records, jobs, status, policy>>
        BY <1>2 DEF Compensate
    <2>2. Numbered
        BY JobsNumbered DEF Sound, StoreOK
    <2>3. Sound'
        BY <1>1, <2>1, StillSound DEF Sound, StoreOK, RestOK
    <2>4. PendingOK'
        BY <1>1, <2>1, PendingStays, RecordsNumbered DEF Sound, StoreOK
    <2>5. TaskOK'
        BY <2>1, <2>2, JobTask
    <2>6. Kept
        BY <1>1, <2>1, <2>2, JobsStay DEF Kept, policy
    <2> QED  BY <2>3, <2>4, <2>5, <2>6
<1>3. CASE task.left # <<>>
    <2>1. Input(Head(task.left)) /\ Then("compensate", Tail(task.left)) /\ task.do = "compensate"
        BY <1>3 DEF Compensate
    <2>2. /\ Head(task.left) \in DOMAIN records /\ Tail(task.left) \in Seq(Nat)
          /\ \A k \in DOMAIN Tail(task.left) : Tail(task.left)[k] \in DOMAIN records
        BY <1>3, <2>1 DEF TaskOK
    <2>3. Sound' /\ Kept
        BY <1>1, <2>1, <2>2, InputSound
    <2>4. DOMAIN records' = DOMAIN records /\ Len(records') = Len(records)
        BY <2>3 DEF Kept
    <2>5. PendingOK'
        BY <1>1, <2>4, PendingStays, RecordsNumbered DEF Sound, StoreOK
    <2>6. TaskOK'
        BY <2>1, <2>2, <2>4, RecordTask
    <2> QED  BY <2>3, <2>5, <2>6
<1> QED  BY <1>2, <1>3

LEMMA BridgeStep == ASSUME IntakeInv, Bridge PROVE IntakeInv' /\ Kept
<1> USE DEF IntakeInv
<1>1. /\ UNCHANGED <<now, pending, previews, upsets>> /\ task' = NoTask
      /\ task.do = "record" /\ Input(Head(task.left))
    BY DEF Bridge
<1>2. Head(task.left) \in DOMAIN records
    BY <1>1 DEF TaskOK
<1>3. Sound' /\ Kept
    BY <1>1, <1>2, InputSound
<1>4. PendingOK'
    BY <1>1, <1>3, PendingStays, RecordsNumbered DEF Sound, StoreOK, Kept
<1> QED  BY <1>1, <1>3, <1>4, IdleOK

\* The jobs in hand stay open, later than the one that is worked on, and in their order.
LEMMA JobTaskStays ==
    ASSUME TaskOK, task.do = "jobs", Numbered, DOMAIN jobs' = DOMAIN jobs,
           NEW s \in Seq(Nat), NEW c \in Nat, task' = [task EXCEPT !.left = s, !.claimed = c],
           \A k \in DOMAIN s : s[k] \in DOMAIN jobs /\ s[k] > c /\ jobs'[s[k]].st # "applied",
           \A k, l \in DOMAIN s : k < l => s[k] < s[l],
           c # 0 => c \in DOMAIN jobs /\ jobs'[c].st # "applied" /\ MayRun(c)'
    PROVE  TaskOK'
<1>1. task \in [do : {"idle", "compensate", "record", "jobs", "start"}, left : Seq(Nat), claimed : Nat]
    BY DEF TaskOK
<1> DEFINE u == [task EXCEPT !.left = s]
<1>2. /\ u \in [do : {"idle", "compensate", "record", "jobs", "start"}, left : Seq(Nat), claimed : Nat]
      /\ u.do = task.do /\ u.left = s /\ task' = [u EXCEPT !.claimed = c]
    BY ONLY <1>1, s \in Seq(Nat), task' = [task EXCEPT !.left = s, !.claimed = c]
<1> HIDE DEF u
<1>3. /\ task' \in [do : {"idle", "compensate", "record", "jobs", "start"}, left : Seq(Nat), claimed : Nat]
      /\ task'.do = "jobs" /\ task'.left = s /\ task'.claimed = c
    BY <1>1, <1>2
<1> QED  BY <1>3 DEF TaskOK, MayRun

LEMMA ClaimJobStep == ASSUME IntakeInv, ClaimJob PROVE IntakeInv'
<1> USE DEF IntakeInv
<1>1. /\ task.do = "jobs" /\ task.claimed = 0
      /\ UNCHANGED <<now, records, status, policy, pending, previews, upsets>>
    BY DEF ClaimJob
<1>2. Numbered
    BY JobsNumbered DEF Sound, StoreOK
<1>3. PendingOK'
    BY <1>1, PendingStays, RecordsNumbered DEF Sound, StoreOK
<1>4. CASE task.left = <<>>
    <2>1. task' = NoTask /\ UNCHANGED jobs
        BY <1>4 DEF ClaimJob
    <2>2. Sound'
        BY <1>1, <2>1, StillSound DEF Sound, StoreOK, RestOK
    <2> QED  BY <1>3, <2>1, <2>2, IdleOK
<1>5. CASE task.left # <<>>
    <2> DEFINE s == Tail(task.left)
    <2>0. PICK j : j = Head(task.left)
        OBVIOUS
    <2>1. /\ task.left \in Seq(Nat) /\ j \in DOMAIN jobs /\ jobs[j].st # "applied" /\ j \in Nat
          /\ \A k \in DOMAIN task.left : task.left[k] \in DOMAIN jobs /\ jobs[task.left[k]].st # "applied"
          /\ \A k, l \in DOMAIN task.left : k < l => task.left[k] < task.left[l]
        BY <1>1, <1>5, <2>0 DEF TaskOK, Numbered
    <2>2. /\ s \in Seq(Nat)
          /\ \A k \in DOMAIN s : /\ k + 1 \in DOMAIN task.left /\ s[k] = task.left[k + 1] /\ k \in Nat
                                 /\ 1 \in DOMAIN task.left /\ j = task.left[1] /\ 1 < k + 1
        BY <1>5, <2>0, <2>1
    <2>3. \A k \in DOMAIN s : s[k] \in DOMAIN jobs /\ s[k] \in Nat /\ s[k] > 0 /\ s[k] > j /\ jobs[s[k]].st # "applied"
        BY <1>2, <2>1, <2>2 DEF Numbered
    <2>4. \A k, l \in DOMAIN s : k < l => s[k] < s[l]
        BY <2>1, <2>2
    <2> HIDE DEF s
    <2>5. CASE MayRun(j)
        <3>1. /\ jobs' = [jobs EXCEPT ![j].st = "processing"]
              /\ task' = [task EXCEPT !.left = s, !.claimed = j]
            BY <1>5, <2>0, <2>5 DEF ClaimJob, s
        <3>2. "processing" \in JobStates \ {"applied"}
            BY DEF JobStates
        <3>3. /\ Sound' /\ JobsChange(jobs') /\ jobs'[j].st = "processing"
              /\ \A l \in DOMAIN jobs : l # j => jobs'[l] = jobs[l]
            BY <1>1, <2>1, <3>1, <3>2, Restates
        <3>4. DOMAIN jobs' = DOMAIN jobs /\ jobs'[j].at = jobs[j].at
            BY <2>1, <3>3 DEF JobsChange, Same
        <3>5. MayRun(j)'
            BY <1>1, <2>5, <3>4 DEF MayRun, policy
        <3>6. \A k \in DOMAIN s : s[k] \in DOMAIN jobs /\ s[k] > j /\ jobs'[s[k]].st # "applied"
            <4>1. \A k \in DOMAIN s : s[k] # j
                BY <2>1, <2>3
            <4> QED  BY <2>3, <3>3, <4>1
        <3>7. j \in DOMAIN jobs /\ jobs'[j].st # "applied"
            BY <2>1, <3>3
        <3>8. TaskOK'
            BY <1>1, <1>2, <2>1, <2>2, <2>4, <3>1, <3>4, <3>5, <3>6, <3>7, JobTaskStays
        <3> QED  BY <1>3, <3>3, <3>8
    <2>6. CASE ~MayRun(j)
        <3>1. task' = [task EXCEPT !.left = s] /\ UNCHANGED jobs
            BY <1>5, <2>0, <2>6 DEF ClaimJob, s
        <3>2. Sound'
            BY <1>1, <3>1, StillSound DEF Sound, StoreOK, RestOK
        <3>3. task' = [task EXCEPT !.left = s, !.claimed = 0]
            BY <1>1, <3>1 DEF TaskOK
        <3>4. /\ DOMAIN jobs' = DOMAIN jobs
              /\ \A k \in DOMAIN s : s[k] \in DOMAIN jobs /\ s[k] > 0 /\ jobs'[s[k]].st # "applied"
            BY <2>3, <3>1
        <3>5. TaskOK'
            <4>1. PICK c \in Nat : c = 0
                OBVIOUS
            <4>2. /\ task' = [task EXCEPT !.left = s, !.claimed = c]
                  /\ \A k \in DOMAIN s : s[k] \in DOMAIN jobs /\ s[k] > c /\ jobs'[s[k]].st # "applied"
                  /\ c # 0 => c \in DOMAIN jobs /\ jobs'[c].st # "applied" /\ MayRun(c)'
                BY <3>3, <3>4, <4>1
            <4>3. s \in Seq(Nat) /\ TaskOK
                BY <2>2
            <4> QED  BY ONLY <1>1, <1>2, <2>4, <3>4, <4>2, <4>3, JobTaskStays
        <3> QED  BY <1>3, <3>2, <3>5
    <2> QED  BY <2>5, <2>6
<1> QED  BY <1>4, <1>5

LEMMA RunJobStep == ASSUME IntakeInv, RunJob PROVE IntakeInv' /\ StatusKept(task.claimed)
<1> USE DEF IntakeInv
<1> DEFINE j == task.claimed
<1>1. /\ task.do = "jobs" /\ j # 0 /\ StatusInput(j)
      /\ task' = [task EXCEPT !.claimed = 0] /\ UNCHANGED <<now, pending, previews, upsets>>
    BY DEF RunJob
<1>2. j \in DOMAIN jobs /\ jobs[j].st # "applied" /\ MayRun(j) /\ j \in Nat
    BY <1>1 DEF TaskOK
<1>3. Sound' /\ StatusKept(j)
    BY <1>1, <1>2, StatusSound
<1>4. Numbered
    BY JobsNumbered DEF Sound, StoreOK
<1>5. PendingOK'
    BY <1>1, <1>3, PendingStays, RecordsNumbered DEF Sound, StoreOK, StatusKept
<1>6. TaskOK'
    <2> DEFINE s == task.left
    <2>1. /\ s \in Seq(Nat) /\ \A k, l \in DOMAIN s : k < l => s[k] < s[l]
          /\ \A k \in DOMAIN s : s[k] \in DOMAIN jobs /\ s[k] > j /\ jobs[s[k]].st # "applied"
        BY <1>1 DEF TaskOK
    <2>2. DOMAIN jobs' = DOMAIN jobs
        BY <1>3 DEF StatusKept, JobsChange
    <2>3. \A k \in DOMAIN s : s[k] \in DOMAIN jobs /\ s[k] > 0 /\ jobs'[s[k]].st # "applied"
        BY <1>3, <1>4, <2>1 DEF StatusKept, Numbered
    <2>4. task' = [task EXCEPT !.left = s, !.claimed = 0]
        BY <1>1 DEF TaskOK
    <2> HIDE DEF s
    <2> QED  BY <1>1, <1>4, <2>1, <2>2, <2>3, <2>4, JobTaskStays
<1> QED  BY <1>3, <1>5, <1>6

LEMMA LapseStep == ASSUME IntakeInv, Lapse PROVE IntakeInv'
<1> USE DEF IntakeInv
<1>1. UNCHANGED <<now, records, status, policy, pending, task, previews, upsets>>
    BY DEF Lapse
<1>2. PICK j \in DOMAIN jobs : /\ jobs[j].st = "processing" /\ task.claimed # j
                               /\ jobs' = [jobs EXCEPT ![j].st = "lapsed"]
    BY DEF Lapse
<1>3. /\ Sound' /\ JobsChange(jobs') /\ jobs'[j].st = "lapsed"
      /\ \A l \in DOMAIN jobs : l # j => jobs'[l] = jobs[l]
    <2>1. "lapsed" \in JobStates \ {"applied"} /\ jobs[j].st # "applied"
        BY <1>2 DEF JobStates
    <2> QED  BY <1>1, <1>2, <2>1, Restates
<1>4. PendingOK'
    BY <1>1, PendingStays, RecordsNumbered DEF Sound, StoreOK
<1>5. TaskOK'
    <2>1. /\ DOMAIN jobs' = DOMAIN jobs
          /\ \A l \in DOMAIN jobs : jobs[l].st # "applied" => jobs'[l].st # "applied"
          /\ \A l \in DOMAIN jobs : jobs'[l].at = jobs[l].at
        BY <1>3 DEF JobsChange, Same
    <2>2. \A l \in DOMAIN jobs : MayRun(l) => MayRun(l)'
        BY <1>1, <2>1 DEF MayRun, policy
    <2> QED  BY <1>1, <2>1, <2>2 DEF TaskOK
<1> QED  BY <1>3, <1>4, <1>5

LEMMA OtherSteps == ASSUME IntakeInv, Upset \/ Tick \/ StartJobs PROVE IntakeInv'
<1> USE DEF IntakeInv
<1>1. /\ UNCHANGED <<records, jobs, status, policy, pending, previews>>
      /\ now' \in Times /\ upsets' \in 0..MaxUpsets
    <2>1. Horizon \in Nat /\ MaxUpsets \in Nat /\ now \in Times /\ upsets \in 0..MaxUpsets
        BY IntakeBounds DEF Sound, StoreOK, RestOK
    <2> QED  BY <2>1 DEF Upset, Tick, StartJobs, Times
<1>2. Sound'
    BY <1>1, StillSound
<1>3. PendingOK'
    BY <1>1, PendingStays, RecordsNumbered DEF Sound, StoreOK
<1>4. TaskOK'
    <2>1. Numbered
        BY JobsNumbered DEF Sound, StoreOK
    <2>2. CASE Upset \/ Tick
        <3>1. task' = NoTask
            BY <2>2 DEF Upset, Tick
        <3> QED  BY <3>1, IdleOK
    <2>3. CASE StartJobs
        BY <1>1, <2>1, <2>3, JobTask DEF StartJobs
    <2> QED  BY <2>2, <2>3
<1> QED  BY <1>2, <1>3, <1>4

LEMMA PreviewStep == ASSUME IntakeInv, NEW o \in Operators, Preview(o) PROVE IntakeInv'
<1> USE DEF IntakeInv
<1>1. UNCHANGED <<now, records, jobs, status, policy, task, upsets>>
    BY DEF Preview
<1>2. Sound'
    BY <1>1, StillSound DEF Sound, StoreOK, RestOK
<1>3. PICK p \in PreviewCreate \union PreviewConsultation \union PreviewStatus \union PreviewUnlock
                \union PreviewWithdraw \union PreviewStop \union PreviewReview :
        pending' = [pending EXCEPT ![o] = p]
    BY DEF Preview
<1>4. DOMAIN records = 1..Len(records) /\ Len(records) \in Nat
    BY RecordsNumbered DEF Sound, StoreOK
<1>5. Causes \subseteq 0..Len(records)
    BY <1>4 DEF Causes
<1>6. PreviewOK(p)
    <2>1. CASE p \in PreviewCreate
        BY <2>1 DEF PreviewCreate, PreviewOK
    <2>2. CASE p \in PreviewConsultation
        BY <1>5, <2>2 DEF PreviewConsultation, PreviewOK, Statuses
    <2>3. CASE p \in PreviewStatus
        BY <1>5, <2>3 DEF PreviewStatus, PreviewOK, Statuses
    <2>4. CASE p \in PreviewUnlock
        BY <1>4, <2>4 DEF PreviewUnlock, PreviewOK, Statuses
    <2>5. CASE p \in PreviewWithdraw
        BY <2>5 DEF PreviewWithdraw, PreviewOK, Latest
    <2>6. CASE p \in PreviewStop
        BY <2>6 DEF PreviewStop, PreviewOK, Sound, StoreOK, AskOK
    <2>7. CASE p \in PreviewReview
        BY <2>7 DEF PreviewReview, PreviewOK
    <2> QED  BY <1>3, <2>1, <2>2, <2>3, <2>4, <2>5, <2>6, <2>7
<1>7. PendingOK'
    <2>1. DOMAIN pending' = Operators /\ pending'[o] = p /\ \A q \in Operators : q # o => pending'[q] = pending[q]
        BY <1>3 DEF PendingOK
    <2> QED  BY <1>1, <1>6, <2>1 DEF PendingOK, PreviewOK
<1>8. TaskOK'
    BY <1>1, IdleOK DEF Preview
<1> QED  BY <1>2, <1>7, <1>8
-----------------------------------------------------------------------------
(* The confirmations: what is done on a preview.                                *)

Grown == /\ Len(records) <= Len(records') /\ Len(records') \in Nat
         /\ DOMAIN records \subseteq DOMAIN records'
LEMMA CreateSound ==
    ASSUME Sound, NEW p, p # None, PreviewOK(p), ConfirmCreate(p), UNCHANGED <<now, upsets>>
    PROVE  Sound' /\ TaskOK' /\ Grown /\ UNCHANGED decided
<1> USE DEF Sound, StoreOK
<1> DEFINE r == [at |-> p.at, kind |-> p.kind, out |-> FALSE, mark |-> "none", closed |-> FALSE]
<1>1. /\ p.do = "create" /\ Len(records) < MaxRecords /\ records' = Append(records, r)
      /\ Then("record", <<Len(records) + 1>>) /\ UNCHANGED <<jobs, status, base, reviews, ask, decided, held, checkpoint>>
    BY DEF ConfirmCreate, policy
<1>2. r \in RecordType /\ r.out = FALSE /\ r.closed = FALSE
    <2>1. p.at \in Times /\ p.kind \in {"mute", "warning"}
        BY <1>1 DEF PreviewOK
    <2> QED  BY <2>1 DEF RecordType
<1> HIDE DEF r
<1>3. /\ records' \in Seq(RecordType) /\ Len(records') = Len(records) + 1 /\ Len(records) \in Nat
      /\ DOMAIN records = 1..Len(records) /\ DOMAIN records' = 1..(Len(records) + 1)
      /\ records'[Len(records) + 1] = r /\ \A i \in DOMAIN records : records'[i] = records[i]
    BY <1>1, <1>2, RecordsNumbered
<1>4. RecordsOK' /\ Grown
    BY <1>1, <1>3, IntakeBounds DEF RecordsOK, Grown
<1>5. JobsOK'
    BY <1>1, <1>3, CausesThere DEF JobsOK
<1>6. RestOK' /\ AskOK'
    BY <1>1, <1>3 DEF RestOK, AskOK
<1>7. ClosedOK'
    <2>1. \A i \in DOMAIN records' : i \in DOMAIN records \/ i = Len(records) + 1
        BY <1>3
    <2> QED  BY <1>2, <1>3, <2>1 DEF ClosedOK
<1>8. SettledOK'
    <2>1. \A j \in DOMAIN jobs : jobs[j].cause # 0 => jobs[j].cause \in DOMAIN records
        BY CausesThere
    <2> QED  BY <1>1, <1>3, <2>1 DEF SettledOK
<1>9. SuggestionOK'
    BY <1>1, <1>3 DEF SuggestionOK, Covered, AskOK
<1>10. RowOK'
    <2>1. \A j \in DOMAIN jobs : jobs[j].cause # 0 => jobs[j].cause \in DOMAIN records
        BY CausesThere
    <2>2. ToCome => ToCome'
        BY <1>1, <1>3, <2>1 DEF ToCome, Alive
    <2>3. Projected(jobs)' = Projected(jobs)
        BY <1>1 DEF Projected
    <2> QED  BY <1>1, <2>2, <2>3 DEF RowOK
<1>11. TaskOK'
    <2> DEFINE s == <<Len(records) + 1>>
    <2>1. s \in Seq(Nat) /\ s # <<>> /\ \A k \in DOMAIN s : s[k] \in DOMAIN records'
        BY <1>3
    <2>2. Then("record", s)
        BY <1>1
    <2> HIDE DEF s
    <2> QED  BY <2>1, <2>2, RecordTask
<1> QED  BY <1>1, <1>4, <1>5, <1>6, <1>7, <1>8, <1>9, <1>10, <1>11

LEMMA TakeOutSound ==
    ASSUME Sound, NEW p, p # None, PreviewOK(p), ConfirmWithdraw(p), UNCHANGED <<now, upsets>>
    PROVE  Sound' /\ TaskOK' /\ Grown /\ UNCHANGED decided
<1> USE DEF Sound, StoreOK
<1>1. /\ p.do = "withdraw" /\ records' = [records EXCEPT ![p.record].out = TRUE]
      /\ Then("record", <<p.record>>) /\ UNCHANGED <<jobs, status, base, reviews, ask, decided, held, checkpoint>>
    BY DEF ConfirmWithdraw, policy
<1>2. PICK i \in DOMAIN records : i = p.record
    BY <1>1 DEF PreviewOK
<1>3. /\ records' = [records EXCEPT ![i] = TakeOut(records[i])] /\ TakeOut(records[i]) \in RecordType
      /\ TakeOut(records[i]).out /\ TakeOut(records[i]).closed = records[i].closed
      /\ TakeOut(records[i]).mark = records[i].mark
    <2>1. records' = [records EXCEPT ![i] = TakeOut(records[i])]
        BY <1>1, <1>2 DEF TakeOut
    <2>2. records[i] \in RecordType /\ "none" \in Marks
        BY RecordsNumbered DEF Marks
    <2> QED  BY <2>1, <2>2, RecordMarks
<1>4. /\ RecordsOK' /\ Len(records') = Len(records) /\ DOMAIN records' = DOMAIN records
      /\ \A k \in DOMAIN records : /\ records'[k].closed = records[k].closed
                                   /\ records'[k].mark = records[k].mark
                                   /\ records[k].out => records'[k].out
    BY <1>3, OneRecord
<1>5. JobsOK'
    BY <1>1, <1>4 DEF JobsOK
<1>6. RestOK' /\ AskOK'
    BY <1>1, <1>4 DEF RestOK, AskOK
<1>7. ClosedOK'
    BY <1>4 DEF ClosedOK
<1>8. \A j \in DOMAIN jobs : jobs[j].cause # 0 => jobs[j].cause \in DOMAIN records
    BY CausesThere
<1>9. SettledOK'
    BY <1>1, <1>4, <1>8 DEF SettledOK
<1>10. SuggestionOK'
    BY <1>1, <1>4 DEF SuggestionOK, Covered, AskOK
<1>11. RowOK'
    <2>1. ToCome => ToCome'
        BY <1>1, <1>4, <1>8 DEF ToCome, Alive
    <2>2. Projected(jobs)' = Projected(jobs)
        BY <1>1 DEF Projected
    <2> QED  BY <1>1, <2>1, <2>2 DEF RowOK
<1>12. TaskOK'
    <2> DEFINE s == <<i>>
    <2>1. i \in Nat
        BY RecordsNumbered
    <2>2. s \in Seq(Nat) /\ s # <<>> /\ \A k \in DOMAIN s : s[k] \in DOMAIN records'
        BY <1>4, <2>1
    <2>3. Then("record", s)
        BY <1>1, <1>2
    <2> HIDE DEF s
    <2> QED  BY <2>2, <2>3, RecordTask
<1>13. Grown
    BY <1>4, RecordsNumbered DEF Grown
<1> QED  BY <1>1, <1>4, <1>5, <1>6, <1>7, <1>9, <1>10, <1>11, <1>12, <1>13

\* A task that begins is idle but for its kind.
LEMMA StartTask ==
    ASSUME task' = [NoTask EXCEPT !.do = "start"]
    PROVE  TaskOK'
<1>1. task' = [do |-> "start", left |-> <<>>, claimed |-> 0]
    BY DEF NoTask
<1>2. /\ task'.do = "start" /\ task'.claimed = 0
      /\ task' \in [do : {"idle", "compensate", "record", "jobs", "start"}, left : Seq(Nat), claimed : Nat]
    BY ONLY <1>1
<1> QED  BY ONLY <1>2 DEF TaskOK

LEMMA ChangeSound ==
    ASSUME Sound, NEW p, p # None, PreviewOK(p), ConfirmStatus(p), UNCHANGED <<now, upsets>>
    PROVE  Sound' /\ TaskOK' /\ Grown /\ UNCHANGED decided
<1> USE DEF Sound, StoreOK
<1>1. /\ p.do = "status" /\ Len(jobs) < MaxJobs
      /\ UNCHANGED <<records, base, reviews, ask, decided, held, checkpoint>>
    BY DEF ConfirmStatus, policy
<1>2. TaskOK' /\ Grown
    <2>1. Grown
        BY <1>1, RecordsNumbered DEF Grown
    <2>2. task' = [NoTask EXCEPT !.do = "start"]
        BY DEF ConfirmStatus
    <2> QED  BY <2>1, <2>2, StartTask
<1>3. CASE ~StillActive(p.cause)
    <2>1. UNCHANGED <<status, jobs, policy>>
        BY <1>1, <1>3 DEF ConfirmStatus, policy
    <2>2. Sound'
        BY <1>1, <2>1, StillSound DEF RestOK
    <2> QED  BY <1>1, <1>2, <2>2
<1>4. CASE StillActive(p.cause)
    <2> DEFINE job == [to |-> p.to, at |-> IF p.at = None THEN now ELSE p.at, cause |-> p.cause,
                       st |-> "pending", mark |-> "none", event |-> 0]
    <2>0. PICK n : n = Len(jobs) + 1
        OBVIOUS
    <2>1. status' = p.to /\ jobs' = Append(jobs, job)
        BY <1>4 DEF ConfirmStatus
    <2>2. p.to \in Statuses /\ p.at \in Times \union {None} /\ p.cause \in 0..Len(records)
        BY <1>1 DEF PreviewOK
    <2>3. /\ job \in JobType /\ job.st = "pending" /\ job.mark = "none" /\ job.event = 0 /\ job.cause = p.cause
        <3>1. (IF p.at = None THEN now ELSE p.at) \in Times
            BY <2>2 DEF RestOK
        <3>2. MaxJobs \in Nat /\ p.cause \in Nat
            BY <2>2, IntakeBounds
        <3> QED  BY <2>2, <3>1, <3>2 DEF JobType
    <2> HIDE DEF job
    <2>4. /\ jobs' \in Seq(JobType) /\ Len(jobs') = n /\ Len(jobs) \in Nat /\ n \in Nat
          /\ DOMAIN jobs = 1..Len(jobs) /\ DOMAIN jobs' = 1..n
          /\ jobs'[n] = job /\ \A j \in DOMAIN jobs : jobs'[j] = jobs[j]
        BY <2>0, <2>1, <2>3, JobsNumbered DEF Numbered
    <2>5. \A j \in DOMAIN jobs' : j \in DOMAIN jobs \/ j = n
        BY <2>0, <2>4
    <2>6. JobsOK'
        <3>1. Len(jobs') <= MaxJobs
            BY <1>1, <2>0, <2>4, IntakeBounds
        <3>2. \A j \in DOMAIN jobs' : jobs'[j].cause <= Len(records)
            BY <2>2, <2>3, <2>4, <2>5 DEF JobsOK
        <3> QED  BY <1>1, <2>4, <3>1, <3>2 DEF JobsOK
    <2>7. RecordsOK' /\ RestOK' /\ AskOK' /\ ClosedOK' /\ SuggestionOK'
        BY <1>1, <2>1, <2>2 DEF RecordsOK, RestOK, AskOK, ClosedOK, SuggestionOK, Covered
    <2>8. SettledOK'
        BY <1>1, <2>3, <2>4, <2>5 DEF SettledOK
    <2>9. RowOK'
        <3>1. p.cause = 0 \/ ~records[p.cause].closed
            <4>1. p.cause # 0 => p.cause \in DOMAIN records /\ ~records[p.cause].out
                BY <1>4, <2>2, RecordsNumbered DEF StillActive
            <4> QED  BY <4>1 DEF ClosedOK
        <3>2. n \in DOMAIN jobs' /\ Alive(n)'
            BY <1>1, <2>0, <2>3, <2>4, <3>1 DEF Alive
        <3> QED  BY <3>2 DEF RowOK, ToCome
    <2> QED  BY <1>1, <1>2, <2>6, <2>7, <2>8, <2>9
<1> QED  BY <1>3, <1>4

LEMMA StopSound ==
    ASSUME Sound, NEW p, p # None, PreviewOK(p), ConfirmStop(p), task = NoTask, UNCHANGED <<now, upsets>>
    PROVE  /\ Sound' /\ TaskOK' /\ Grown /\ UNCHANGED <<records, checkpoint, held>>
           /\ UNCHANGED decided \/ decided' = 0 \/ (ask # None /\ decided' = ask.record)
<1> USE DEF Sound, StoreOK
<1>1. UNCHANGED <<records, jobs, status, base, reviews, held, checkpoint, task>> /\ p.do = "stop"
    BY DEF ConfirmStop
<1>2. TaskOK' /\ Grown
    BY <1>1, IdleOK, RecordsNumbered DEF Grown
<1>3. \/ UNCHANGED <<decided, ask>>
      \/ /\ Stands(p) /\ ask' = None
         /\ decided' = (IF p.ask = None THEN 0 ELSE p.ask.record)
    BY DEF ConfirmStop
<1>4. UNCHANGED <<decided, ask>> \/ (ask' = None /\ (decided' = 0 \/ (ask # None /\ decided' = ask.record)))
    BY <1>3 DEF Stands
<1>5. CASE UNCHANGED <<decided, ask>>
    <2>1. Sound'
        BY <1>1, <1>5, StillSound DEF RestOK, policy
    <2> QED  BY <1>1, <1>2, <1>5, <2>1
<1>6. CASE ask' = None /\ (decided' = 0 \/ (ask # None /\ decided' = ask.record))
    <2>1. decided' \in 0..Len(records)
        BY <1>6, RecordsNumbered DEF AskOK
    <2>2. RecordsOK' /\ JobsOK' /\ RestOK' /\ AskOK'
        BY <1>1, <1>6, <2>1 DEF RecordsOK, JobsOK, RestOK, AskOK
    <2>3. ClosedOK' /\ SettledOK' /\ SuggestionOK'
        BY <1>1, <1>6 DEF ClosedOK, SettledOK, SuggestionOK
    <2>4. Projected(jobs)' = Projected(jobs)
        BY <1>1 DEF Projected
    <2>5. RowOK'
        BY <1>1, <2>4 DEF RowOK, ToCome, Alive
    <2> QED  BY <1>1, <1>2, <1>6, <2>2, <2>3, <2>5
<1> QED  BY <1>4, <1>5, <1>6

LEMMA ResolveSound ==
    ASSUME Sound, NEW p, p # None, PreviewOK(p), ConfirmResolve(p), task = NoTask, UNCHANGED <<now, upsets>>
    PROVE  /\ Sound' /\ TaskOK' /\ Grown
           /\ UNCHANGED decided \/ decided' = None
<1> USE DEF Sound, StoreOK
<1> DEFINE Took(i) == ~records[i].out /\ records[i].kind = "mute" /\ records[i].mark = "none"
<1>1. \/ UNCHANGED <<records, jobs, policy, status, task>>
      \/ /\ records' = [i \in DOMAIN records |->
                IF Took(i) THEN MarkRecord(records[i], "applied") ELSE records[i]]
         /\ jobs' = [j \in DOMAIN jobs |-> IF jobs[j].st = "applied" THEN jobs[j]
                ELSE Change(jobs[j], "applied", "applied", Len(jobs))]
         /\ reviews' = {} /\ decided' = None /\ held' = {} /\ ask' \in {ask, None}
         /\ base' = [status |-> status, jobs |-> Len(jobs)]
         /\ checkpoint' = [at |-> now, upto |-> Len(records)]
         /\ UNCHANGED <<status, task>>
    BY DEF ConfirmResolve, MarkRecord, Change
<1>2. TaskOK'
    <2>1. UNCHANGED task
        BY <1>1
    <2> QED  BY <2>1, IdleOK
<1>3. CASE UNCHANGED <<records, jobs, policy, status, task>>
    <2>1. Sound'
        BY <1>3, StillSound DEF RestOK
    <2> QED  BY <1>2, <1>3, <2>1, RecordsNumbered DEF Grown, policy
<1>4. CASE /\ records' = [i \in DOMAIN records |->
                IF Took(i) THEN MarkRecord(records[i], "applied") ELSE records[i]]
           /\ jobs' = [j \in DOMAIN jobs |-> IF jobs[j].st = "applied" THEN jobs[j]
                ELSE Change(jobs[j], "applied", "applied", Len(jobs))]
           /\ reviews' = {} /\ decided' = None /\ held' = {} /\ ask' \in {ask, None}
           /\ base' = [status |-> status, jobs |-> Len(jobs)]
           /\ checkpoint' = [at |-> now, upto |-> Len(records)]
           /\ UNCHANGED <<status, task>>
    <2>1. /\ records \in Seq(RecordType) /\ Len(records) \in Nat /\ DOMAIN records = 1..Len(records)
          /\ \A i \in DOMAIN records : records[i] \in RecordType
        BY RecordsNumbered
    <2>2. \A i \in DOMAIN records :
            /\ records'[i] \in RecordType /\ records'[i].out = records[i].out
            /\ records'[i].closed = records[i].closed
            /\ records'[i].mark = "applied" => records[i].mark = "applied" \/ ~records[i].out
        <3> TAKE i \in DOMAIN records
        <3>1. /\ MarkRecord(records[i], "applied") \in RecordType
              /\ MarkRecord(records[i], "applied").out = records[i].out
              /\ MarkRecord(records[i], "applied").closed = records[i].closed
            <4>1. "applied" \in Marks
                BY DEF Marks
            <4> QED  BY <2>1, <4>1, RecordMarks
        <3>2. records'[i] = IF Took(i) THEN MarkRecord(records[i], "applied") ELSE records[i]
            BY <1>4
        <3>3. CASE Took(i)
            BY <3>1, <3>2, <3>3
        <3>4. CASE ~Took(i)
            BY <2>1, <3>2, <3>4
        <3> QED  BY <3>3, <3>4
    <2>3. records' \in Seq(RecordType) /\ Len(records') = Len(records) /\ DOMAIN records' = DOMAIN records
        <3>1. DOMAIN records' = 1..Len(records)
            BY <1>4, <2>1
        <3>2. records' \in [1..Len(records) -> RecordType]
            BY <1>4, <2>1, <2>2, <3>1
        <3> QED  BY <2>1, <3>1, <3>2
    <2>4. RecordsOK' /\ Grown
        BY <2>1, <2>3 DEF RecordsOK, Grown
    <2>5. ClosedOK'
        BY <2>2, <2>3 DEF ClosedOK
    <2>6. Numbered /\ Len(jobs) <= MaxJobs
        BY JobsNumbered DEF JobsOK
    <2>7. \A j \in DOMAIN jobs : Same(jobs'[j], jobs[j]) /\ jobs'[j].st = "applied"
        <3> TAKE j \in DOMAIN jobs
        <3>1. jobs[j] \in JobType /\ "applied" \in JobStates /\ "applied" \in Marks /\ Len(jobs) \in 0..MaxJobs
            BY <2>6 DEF Numbered, JobStates, Marks
        <3>2. /\ Same(jobs[j], jobs[j])
              /\ LET x == Change(jobs[j], "applied", "applied", Len(jobs)) IN
                    Same(x, jobs[j]) /\ x.st = "applied" /\ x.mark = "applied" /\ x.event = Len(jobs)
            BY <3>1, JobChanges
        <3>3. jobs'[j] = IF jobs[j].st = "applied" THEN jobs[j]
                         ELSE Change(jobs[j], "applied", "applied", Len(jobs))
            BY <1>4
        <3> QED  BY <3>2, <3>3
    <2>8. JobsChange(jobs')
        <3>1. DOMAIN jobs' = 1..Len(jobs)
            BY <1>4, <2>6 DEF Numbered
        <3>2. jobs' \in [1..Len(jobs) -> JobType]
            BY <1>4, <2>6, <2>7, <3>1 DEF Numbered, Same
        <3> QED  BY <2>6, <2>7, <3>1, <3>2 DEF JobsChange, Numbered
    <2>9. JobsOK'
        BY <2>3, <2>8, JobsChangeOK
    <2>10. RestOK' /\ AskOK'
        <3>1. base' \in [status : Statuses, jobs : 0..MaxJobs]
            BY <1>4, <2>6 DEF RestOK, Numbered
        <3>2. checkpoint'.upto \in Nat
            BY <1>4, <2>1
        <3> QED  BY <1>4, <2>3, <3>1, <3>2 DEF RestOK, AskOK
    <2>11. SettledOK'
        <3>1. \A j \in DOMAIN jobs' : jobs'[j].st = "applied" /\ ~(j > base'.jobs)
            BY <1>4, <2>6, <2>7, <2>8 DEF JobsChange, Numbered
        <3> QED  BY <3>1 DEF SettledOK
    <2>12. SuggestionOK'
        <3>1. checkpoint' # None
            <4>1. now \in Nat
                BY IntakeBounds DEF RestOK, Times
            <4> QED  BY <1>4, <2>1, <4>1, NoneAssumption
        <3>2. ask # None => ask.record \in DOMAIN records /\ ask.record <= Len(records)
            BY <2>1 DEF AskOK
        <3>3. checkpoint'.upto = Len(records)
            BY <1>4
        <3> QED  BY <1>4, <3>1, <3>2, <3>3 DEF SuggestionOK, Covered
    <2>13. RowOK'
        <3>1. \A j \in DOMAIN jobs' : ~(j > base'.jobs)
            BY <1>4, <2>6, <2>8 DEF JobsChange, Numbered
        <3>2. Projected(jobs)' = base'.status
            BY <3>1 DEF Projected
        <3> QED  BY <1>4, <3>2 DEF RowOK
    <2> QED  BY <1>2, <1>4, <2>4, <2>5, <2>9, <2>10, <2>11, <2>12, <2>13
<1> QED  BY <1>1, <1>3, <1>4

\* A decision is only taken for the suggestion that stands, with no handler under way.
DecisionStep == decided' # decided /\ decided' \in Nat \ {0} =>
    /\ task = NoTask /\ ask # None /\ decided' = ask.record
    /\ UNCHANGED <<records, checkpoint, held>>
LEMMA ConfirmStep ==
    ASSUME IntakeInv, NEW o \in Operators, Confirm(o)
    PROVE  IntakeInv' /\ DecisionStep
<1> USE DEF IntakeInv
<1> DEFINE p == pending[o]
<1>1. /\ task = NoTask /\ p # None /\ pending' = [pending EXCEPT ![o] = None]
      /\ UNCHANGED <<now, previews, upsets>>
      /\ ConfirmCreate(p) \/ ConfirmWithdraw(p) \/ ConfirmStatus(p) \/ ConfirmStop(p) \/ ConfirmResolve(p)
    BY DEF Confirm
<1>2. PreviewOK(p)
    BY DEF PendingOK
<1> HIDE DEF p
<1>3. /\ Sound' /\ TaskOK' /\ Grown
      /\ \/ UNCHANGED decided \/ decided' = 0 \/ decided' = None
         \/ ask # None /\ decided' = ask.record /\ UNCHANGED <<records, checkpoint, held>>
    BY <1>1, <1>2, CreateSound, TakeOutSound, ChangeSound, StopSound, ResolveSound
<1>4. PendingOK'
    BY <1>1, <1>3, PendingGone, RecordsNumbered DEF Grown, Sound, StoreOK
<1>5. DecisionStep
    BY <1>1, <1>3, NoneAssumption DEF DecisionStep
<1> QED  BY <1>3, <1>4, <1>5

LEMMA IntakeStep == ASSUME IntakeInv, [IntakeNext]_intake PROVE IntakeInv' /\ DecisionStep
<1>1. CASE UNCHANGED intake
    <2>1. UNCHANGED <<now, records, jobs, status, policy, pending, task, previews, upsets, decided>>
        BY <1>1 DEF intake, policy
    <2>2. Sound'
        BY <2>1, StillSound DEF IntakeInv, Sound, StoreOK, RestOK
    <2>3. PendingOK'
        BY <2>1, PendingStays, RecordsNumbered DEF IntakeInv, Sound, StoreOK
    <2>4. TaskOK'
        BY <2>1 DEF IntakeInv, TaskOK, MayRun, policy
    <2> QED  BY <2>1, <2>2, <2>3, <2>4 DEF IntakeInv, DecisionStep
<1>2. CASE Maintain
    BY <1>2, MaintainStep DEF DecisionStep, Maintain, policy
<1>3. CASE Compensate
    BY <1>3, CompensateStep DEF DecisionStep, Kept
<1>4. CASE Bridge
    BY <1>4, BridgeStep DEF DecisionStep, Kept
<1>5. CASE ClaimJob
    BY <1>5, ClaimJobStep DEF DecisionStep, ClaimJob, policy
<1>6. CASE RunJob
    BY <1>6, RunJobStep DEF DecisionStep, StatusKept
<1>7. CASE Upset \/ Tick \/ StartJobs
    <2>1. UNCHANGED decided
        BY <1>7 DEF Upset, Tick, StartJobs, policy
    <2> QED  BY <1>7, <2>1, OtherSteps DEF DecisionStep
<1>8. CASE Lapse
    BY <1>8, LapseStep DEF DecisionStep, Lapse, policy
<1>9. CASE \E o \in Operators : Preview(o)
    <2>1. PICK o \in Operators : Preview(o)
        BY <1>9
    <2>2. UNCHANGED decided
        BY <2>1 DEF Preview, policy
    <2> QED  BY <2>1, <2>2, PreviewStep DEF DecisionStep
<1>10. CASE \E o \in Operators : Confirm(o)
    BY <1>10, ConfirmStep
<1> QED  BY <1>1, <1>2, <1>3, <1>4, <1>5, <1>6, <1>7, <1>8, <1>9, <1>10 DEF IntakeNext, TaskStep

LEMMA IntakeBegins == IntakeInit => IntakeInv
<1> SUFFICES ASSUME IntakeInit PROVE IntakeInv
    OBVIOUS
<1>1. /\ now \in Times /\ jobs = <<>> /\ status = "ok" /\ base = [status |-> "ok", jobs |-> 0]
      /\ reviews = {} /\ decided = None /\ held = {} /\ checkpoint = None
      /\ pending = [o \in Operators |-> None] /\ task = NoTask /\ upsets = 0
    BY DEF IntakeInit
<1>2. Horizon \in Nat /\ MaxJobs \in Nat /\ MaxUpsets \in Nat
    BY IntakeBounds
<1>3. \/ records = <<>> /\ ask = None
      \/ /\ records = <<[at |-> now, kind |-> "mute", out |-> FALSE, mark |-> "applied",
                         closed |-> FALSE]>>
         /\ ask = [record |-> 1, gen |-> 0]
    BY DEF IntakeInit
<1>4. RecordsOK /\ AskOK /\ ClosedOK /\ (ask # None => ~records[ask.record].closed)
    <2>1. CASE records = <<>> /\ ask = None
        BY <2>1 DEF RecordsOK, AskOK, ClosedOK
    <2>2. CASE /\ records = <<[at |-> now, kind |-> "mute", out |-> FALSE, mark |-> "applied",
                               closed |-> FALSE]>>
               /\ ask = [record |-> 1, gen |-> 0]
        <3> DEFINE r == [at |-> now, kind |-> "mute", out |-> FALSE, mark |-> "applied", closed |-> FALSE]
        <3>1. r \in RecordType /\ r.closed = FALSE
            BY <1>1 DEF RecordType
        <3> HIDE DEF r
        <3>2. /\ records \in Seq(RecordType) /\ DOMAIN records = {1} /\ records[1] = r
            BY <2>2, <3>1 DEF r
        <3>3. ask.record = 1
            BY <2>2
        <3> QED  BY <3>1, <3>2, <3>3 DEF RecordsOK, AskOK, ClosedOK
    <2> QED  BY <1>3, <2>1, <2>2
<1>5. JobsOK /\ DOMAIN jobs = {}
    BY <1>1, <1>2 DEF JobsOK
<1>6. RestOK /\ SettledOK /\ SuggestionOK
    <2>1. base \in [status : Statuses, jobs : 0..MaxJobs]
        BY <1>1, <1>2 DEF Statuses
    <2> QED  BY <1>1, <1>2, <1>4, <1>5, <2>1 DEF RestOK, SettledOK, SuggestionOK, Statuses
<1>7. RowOK
    <2>1. Projected(jobs) = base.status
        BY <1>5 DEF Projected
    <2> QED  BY <1>1, <2>1 DEF RowOK
<1>8. PendingOK
    BY <1>1 DEF PendingOK, PreviewOK
<1>9. TaskOK
    BY <1>1 DEF NoTask, TaskOK
<1> QED  BY <1>4, <1>5, <1>6, <1>7, <1>8, <1>9 DEF IntakeInv, Sound, StoreOK
-----------------------------------------------------------------------------
(* What a decision stands on.  A withdrawal that no handler is about to process *)
(* was lost to an upset; a suggestion and a decision are about a record whose    *)
(* event was processed, so that a withdrawal later finds it.                     *)
Lost(i) == records[i].out /\ ~records[i].closed
LostOK == upsets = 0 => \A i \in DOMAIN records : Lost(i) => task.do = "record" /\ Head(task.left) = i
Stopped == decided \in Nat \ {0}
StandingOK ==
    /\ ask # None => records[ask.record].mark # "none"
    /\ Stopped => /\ records[decided].mark # "none"
                  /\ records[decided].closed => decided \in held \/ Covered(decided)
DecisionInv == LostOK /\ StandingOK

\* What an input of record i does to the records, the suggestion and the decision.
LEMMA InputStands ==
    ASSUME Sound, StandingOK, NEW i \in DOMAIN records, Input(i), UNCHANGED <<now, upsets>>
    PROVE  StandingOK' /\ \A k \in DOMAIN records' : Lost(k)' => Lost(k) /\ k # i
<1> USE DEF Sound, StoreOK
<1>1. Kept
    BY InputSound
<1>2. DOMAIN records' = DOMAIN records /\ UNCHANGED <<decided, checkpoint>>
    BY <1>1 DEF Kept
<1>3. Stopped => decided \in DOMAIN records
    BY RecordsNumbered, NoneAssumption DEF Stopped, RestOK
<1>4. CASE ~records[i].out
    <2>1. RecordInput(i)
        BY <1>4 DEF Input
    <2>2. /\ UNCHANGED held
          /\ UNCHANGED records \/ records' = Mark(i, "applied")
          /\ \/ UNCHANGED ask
             \/ ask' # None => records'[ask'.record].mark = "applied"
        BY <2>1, RecordShows
    <2>3. \A k \in DOMAIN records :
            /\ records'[k].out = records[k].out /\ records'[k].closed = records[k].closed
            /\ records[k].mark # "none" => records'[k].mark # "none"
        <3>1. CASE UNCHANGED records
            BY <3>1
        <3>2. CASE records' = Mark(i, "applied")
            <4>1. records[i] \in RecordType /\ "applied" \in Marks
                BY RecordsNumbered DEF Marks
            <4>2. LET x == MarkRecord(records[i], "applied") IN
                    x \in RecordType /\ x.out = records[i].out /\ x.closed = records[i].closed /\ x.mark = "applied"
                BY <4>1, RecordMarks
            <4>3. records' = [records EXCEPT ![i] = MarkRecord(records[i], "applied")]
                BY <3>2 DEF Mark, MarkRecord
            <4> QED  BY <4>2, <4>3, OneRecord
        <3> QED  BY <2>2, <3>1, <3>2
    <2>4. StandingOK'
        BY <1>2, <1>3, <2>2, <2>3 DEF StandingOK, Stopped, Covered, AskOK
    <2>5. \A k \in DOMAIN records' : Lost(k)' => Lost(k) /\ k # i
        BY <1>2, <1>4, <2>3 DEF Lost
    <2> QED  BY <2>4, <2>5
<1>5. CASE records[i].out /\ records[i].closed
    <2>1. UNCHANGED <<records, ask, held>>
        BY <1>5 DEF Input, WithdrawInput
    <2>2. StandingOK'
        BY <1>2, <2>1 DEF StandingOK, Stopped, Covered
    <2> QED  BY <1>5, <2>1, <2>2 DEF Lost
<1>6. CASE records[i].out /\ ~records[i].closed
    <2> DEFINE m == IF records[i].mark = "applied" THEN "void" ELSE records[i].mark
               x == CloseRecord(records[i], m)
               Rest == {v \in reviews : v.record # i}
               Again == Review("replay", i, 0)
    <2>1. /\ records' = [records EXCEPT ![i] = x]
          /\ \/ (Covered(i) \/ (records[i].mark # "none" /\ decided = i)) /\ held' = held \union {i} /\ UNCHANGED ask
             \/ /\ ~(Covered(i) \/ (records[i].mark # "none" /\ decided = i)) /\ UNCHANGED held
                /\ jobs' = (IF records[i].mark = "none" THEN jobs ELSE Voided(i))
                /\ Replay(records', jobs', Rest, Again)
        BY <1>6 DEF Input, WithdrawInput, CloseRecord
    <2>2. records[i] \in RecordType /\ m \in Marks /\ (m = "none" <=> records[i].mark = "none")
        BY RecordsNumbered DEF Marks, RecordType
    <2>3. x \in RecordType /\ x.out /\ x.closed /\ x.mark = m
        BY <2>2, RecordMarks
    <2> HIDE DEF x, m
    <2>4. /\ records'[i] = x
          /\ \A k \in DOMAIN records : k # i => records'[k] = records[k]
        BY <2>1, <2>3, OneRecord
    <2>5. \A k \in DOMAIN records : records[k].mark # "none" => records'[k].mark # "none"
        BY <2>2, <2>3, <2>4
    <2>6. \A k \in DOMAIN records' : Lost(k)' => Lost(k) /\ k # i
        BY <1>2, <2>3, <2>4 DEF Lost
    <2>7. CASE (Covered(i) \/ (records[i].mark # "none" /\ decided = i)) /\ held' = held \union {i} /\ UNCHANGED ask
        <3>1. ask' # None => records'[ask'.record].mark # "none"
            BY <2>5, <2>7 DEF StandingOK, AskOK
        <3>2. Stopped' => /\ records'[decided'].mark # "none"
                          /\ records'[decided'].closed => decided' \in held' \/ Covered(decided)'
            BY <1>2, <1>3, <2>4, <2>5, <2>7 DEF StandingOK, Stopped, Covered
        <3> QED  BY <2>6, <3>1, <3>2 DEF StandingOK
    <2>8. CASE /\ ~(Covered(i) \/ (records[i].mark # "none" /\ decided = i)) /\ UNCHANGED held
               /\ jobs' = (IF records[i].mark = "none" THEN jobs ELSE Voided(i))
               /\ Replay(records', jobs', Rest, Again)
        <3>1. \A v, w \in Rest : v.kind = w.kind => v = w
            BY DEF RestOK
        <3>2. jobs' \in Seq(JobType)
            BY <1>1 DEF Kept, JobsChange
        <3>3. ask' # None => records'[ask'.record].mark = "applied"
            BY <2>8, <3>1, <3>2, Replays DEF RestOK, SuggestionOK
        <3>4. Stopped => decided # i
            BY <2>8 DEF StandingOK
        <3>5. Stopped' => /\ records'[decided'].mark # "none"
                          /\ records'[decided'].closed => decided' \in held' \/ Covered(decided)'
            BY <1>2, <1>3, <2>4, <2>5, <2>8, <3>4 DEF StandingOK, Stopped, Covered
        <3> QED  BY <2>6, <3>3, <3>5 DEF StandingOK
    <2> QED  BY <2>1, <2>7, <2>8
<1> QED  BY <1>4, <1>5, <1>6

\* Nothing about the decision changes while the records and the policy stay as they are.
LEMMA DecisionStays ==
    ASSUME DecisionInv, UNCHANGED <<records, decided, held, checkpoint>>,
           UNCHANGED ask \/ (ask' # None => records[ask'.record].mark # "none"),
           upsets' = 0 => upsets = 0 /\ (task.do = "record" => UNCHANGED task)
    PROVE  DecisionInv'
<1>1. LostOK'
    BY DEF DecisionInv, LostOK, Lost
<1>2. StandingOK'
    BY DEF DecisionInv, StandingOK, Stopped, Covered
<1> QED  BY <1>1, <1>2 DEF DecisionInv

\* The confirmations: a withdrawal is in hand at once, a decision takes over its suggestion's record.
LEMMA ConfirmStands ==
    ASSUME IntakeInv, DecisionInv, NEW o \in Operators, Confirm(o)
    PROVE  DecisionInv'
<1> USE DEF IntakeInv, Sound, StoreOK, DecisionInv
<1> DEFINE p == pending[o]
<1>1. /\ task = NoTask /\ p # None /\ UNCHANGED upsets
      /\ ConfirmCreate(p) \/ ConfirmWithdraw(p) \/ ConfirmStatus(p) \/ ConfirmStop(p) \/ ConfirmResolve(p)
    BY DEF Confirm
<1>2. PreviewOK(p)
    BY DEF PendingOK
<1> HIDE DEF p
<1>3. task.do # "record" /\ (upsets = 0 => \A i \in DOMAIN records : ~Lost(i))
    BY <1>1 DEF LostOK, NoTask
<1>4. Stopped => decided \in DOMAIN records
    BY RecordsNumbered, NoneAssumption DEF Stopped, RestOK
<1>5. records \in Seq(RecordType) /\ Len(records) \in Nat /\ DOMAIN records = 1..Len(records)
    BY RecordsNumbered
<1>6. CASE ConfirmCreate(p)
    <2> DEFINE r == [at |-> p.at, kind |-> p.kind, out |-> FALSE, mark |-> "none", closed |-> FALSE]
    <2>1. p.do = "create" /\ records' = Append(records, r) /\ UNCHANGED <<ask, decided, held, checkpoint>>
        BY <1>6 DEF ConfirmCreate, policy
    <2>2. r \in RecordType /\ ~r.out
        BY <1>1, <1>2, <2>1 DEF PreviewOK, RecordType
    <2> HIDE DEF r
    <2>3. /\ DOMAIN records' = 1..(Len(records) + 1) /\ records'[Len(records) + 1] = r
          /\ \A i \in DOMAIN records : i \in DOMAIN records' /\ records'[i] = records[i]
        BY <1>5, <2>1, <2>2
    <2>4. \A i \in DOMAIN records' : Lost(i)' => i \in DOMAIN records /\ Lost(i)
        BY <1>5, <2>2, <2>3 DEF Lost
    <2>5. LostOK'
        BY <1>1, <1>3, <2>4 DEF LostOK
    <2>6. StandingOK'
        BY <1>4, <2>1, <2>3 DEF StandingOK, Stopped, Covered, AskOK
    <2> QED  BY <2>5, <2>6
<1>7. CASE ConfirmWithdraw(p)
    <2>1. /\ p.do = "withdraw" /\ records' = [records EXCEPT ![p.record].out = TRUE]
          /\ Then("record", <<p.record>>) /\ UNCHANGED <<ask, decided, held, checkpoint>>
        BY <1>7 DEF ConfirmWithdraw, policy
    <2>2. PICK i \in DOMAIN records : i = p.record
        BY <1>1, <1>2, <2>1 DEF PreviewOK
    <2>3. records' = [records EXCEPT ![i] = TakeOut(records[i])] /\ TakeOut(records[i]) \in RecordType
        <3>1. records' = [records EXCEPT ![i] = TakeOut(records[i])]
            BY <2>1, <2>2 DEF TakeOut
        <3>2. records[i] \in RecordType /\ "none" \in Marks
            BY RecordsNumbered DEF Marks
        <3> QED  BY <3>1, <3>2, RecordMarks
    <2>4. TakeOut(records[i]).closed = records[i].closed /\ TakeOut(records[i]).mark = records[i].mark
        <3>1. records[i] \in RecordType /\ "none" \in Marks
            BY RecordsNumbered DEF Marks
        <3> QED  BY <3>1, RecordMarks
    <2>5. /\ DOMAIN records' = DOMAIN records
          /\ \A k \in DOMAIN records : /\ records'[k].closed = records[k].closed
                                       /\ records'[k].mark = records[k].mark
                                       /\ k # i => records'[k] = records[k]
        BY <2>3, <2>4, OneRecord
    <2>6. \A k \in DOMAIN records' : Lost(k)' => Lost(k) \/ k = i
        BY <2>5 DEF Lost
    <2>7. task'.do = "record" /\ Head(task'.left) = i
        BY <2>1, <2>2 DEF Then
    <2>8. LostOK'
        BY <1>1, <1>3, <2>5, <2>6, <2>7 DEF LostOK
    <2>9. StandingOK'
        BY <1>4, <2>1, <2>5 DEF StandingOK, Stopped, Covered, AskOK
    <2> QED  BY <2>8, <2>9
<1>8. CASE ConfirmStatus(p)
    <2>1. UNCHANGED <<records, ask, decided, held, checkpoint>>
        BY <1>8 DEF ConfirmStatus, policy
    <2> QED  BY <1>1, <1>3, <2>1, DecisionStays
<1>9. CASE ConfirmStop(p)
    <2>1. UNCHANGED <<records, held, checkpoint, task>>
        BY <1>9 DEF ConfirmStop
    <2>2. \/ UNCHANGED <<decided, ask>>
          \/ ask' = None /\ (decided' = 0 \/ (ask # None /\ decided' = ask.record))
        BY <1>9 DEF ConfirmStop, Stands
    <2>3. LostOK'
        BY <1>1, <2>1 DEF LostOK, Lost
    <2>4. CASE UNCHANGED <<decided, ask>>
        BY <1>1, <1>3, <2>1, <2>4, DecisionStays
    <2>5. CASE ask' = None /\ (decided' = 0 \/ (ask # None /\ decided' = ask.record))
        <3>1. ask # None => /\ records[ask.record].mark # "none"
                            /\ records[ask.record].closed => Covered(ask.record)
            BY DEF StandingOK, SuggestionOK
        <3>2. StandingOK'
            BY <2>1, <2>5, <3>1 DEF StandingOK, Stopped, Covered
        <3> QED  BY <2>3, <3>2
    <2> QED  BY <2>2, <2>4, <2>5
<1>10. CASE ConfirmResolve(p)
    <2> DEFINE Took(i) == ~records[i].out /\ records[i].kind = "mute" /\ records[i].mark = "none"
    <2>1. \/ UNCHANGED <<records, decided, ask, held, checkpoint, task>>
          \/ /\ records' = [i \in DOMAIN records |->
                    IF Took(i) THEN MarkRecord(records[i], "applied") ELSE records[i]]
             /\ decided' = None /\ ask' \in {ask, None} /\ UNCHANGED task
        BY <1>10 DEF ConfirmResolve, MarkRecord, policy
    <2>2. CASE UNCHANGED <<records, decided, ask, held, checkpoint, task>>
        BY <1>1, <1>3, <2>2, DecisionStays
    <2>3. CASE /\ records' = [i \in DOMAIN records |->
                    IF Took(i) THEN MarkRecord(records[i], "applied") ELSE records[i]]
               /\ decided' = None /\ ask' \in {ask, None} /\ UNCHANGED task
        <3>1. DOMAIN records' = DOMAIN records
            BY <2>3
        <3>2. \A i \in DOMAIN records : /\ records'[i].out = records[i].out
                                        /\ records'[i].closed = records[i].closed
                                        /\ records[i].mark # "none" => records'[i].mark # "none"
            <4> TAKE i \in DOMAIN records
            <4>1. records[i] \in RecordType /\ "applied" \in Marks
                BY RecordsNumbered DEF Marks
            <4>2. LET x == MarkRecord(records[i], "applied") IN
                    x.out = records[i].out /\ x.closed = records[i].closed /\ x.mark = "applied"
                BY <4>1, RecordMarks
            <4>3. records'[i] = IF Took(i) THEN MarkRecord(records[i], "applied") ELSE records[i]
                BY <2>3
            <4> QED  BY <4>2, <4>3
        <3>3. LostOK'
            BY <1>1, <2>3, <3>1, <3>2 DEF LostOK, Lost
        <3>4. StandingOK'
            BY <2>3, <3>2, NoneAssumption DEF StandingOK, Stopped, AskOK
        <3> QED  BY <3>3, <3>4
    <2> QED  BY <2>1, <2>2, <2>3
<1> QED  BY <1>1, <1>6, <1>7, <1>8, <1>9, <1>10

LEMMA DecisionInvStep ==
    ASSUME IntakeInv, DecisionInv, [IntakeNext]_intake
    PROVE  DecisionInv'
<1> USE DEF IntakeInv, Sound, StoreOK
<1>1. CASE Maintain \/ ClaimJob \/ StartJobs \/ Lapse \/ Tick \/ UNCHANGED intake
    <2>1. /\ UNCHANGED <<records, ask, decided, held, checkpoint, upsets>>
          /\ task.do # "record" \/ UNCHANGED task
        BY <1>1 DEF Maintain, ClaimJob, StartJobs, Lapse, Tick, intake, policy, NoTask
    <2> QED  BY <2>1, DecisionStays
<1>2. CASE \E o \in Operators : Preview(o)
    <2>1. UNCHANGED <<records, ask, decided, held, checkpoint, upsets, task>>
        BY <1>2 DEF Preview, policy
    <2> QED  BY <2>1, DecisionStays
<1>3. CASE Upset
    <2>1. UNCHANGED <<records, ask, decided, held, checkpoint>> /\ upsets' # 0
        BY <1>3 DEF Upset, policy, RestOK
    <2> QED  BY <2>1, DecisionStays
<1>4. CASE Compensate
    <2>1. UNCHANGED <<now, upsets>> /\ task.do = "compensate"
        BY <1>4 DEF Compensate
    <2>2. CASE task.left = <<>>
        <3>1. UNCHANGED <<records, ask, decided, held, checkpoint>>
            BY <1>4, <2>2 DEF Compensate, policy
        <3> QED  BY <2>1, <3>1, DecisionStays
    <2>3. CASE task.left # <<>>
        <3>1. Head(task.left) \in DOMAIN records /\ Input(Head(task.left))
            BY <1>4, <2>3 DEF Compensate, TaskOK
        <3>2. StandingOK' /\ \A k \in DOMAIN records' : Lost(k)' => Lost(k)
            BY <2>1, <3>1, InputStands DEF DecisionInv
        <3>3. DOMAIN records' = DOMAIN records
            BY <2>1, <3>1, InputSound DEF Kept
        <3>4. LostOK'
            BY <2>1, <3>2, <3>3 DEF DecisionInv, LostOK
        <3> QED  BY <3>2, <3>4 DEF DecisionInv
    <2> QED  BY <2>2, <2>3
<1>5. CASE Bridge
    <2>1. UNCHANGED <<now, upsets>> /\ task.do = "record" /\ Input(Head(task.left))
        BY <1>5 DEF Bridge
    <2>2. Head(task.left) \in DOMAIN records
        BY <2>1 DEF TaskOK
    <2>3. StandingOK' /\ \A k \in DOMAIN records' : Lost(k)' => Lost(k) /\ k # Head(task.left)
        BY <2>1, <2>2, InputStands DEF DecisionInv
    <2>4. DOMAIN records' = DOMAIN records
        BY <2>1, <2>2, InputSound DEF Kept
    <2>5. LostOK'
        BY <2>1, <2>3, <2>4 DEF DecisionInv, LostOK
    <2> QED  BY <2>3, <2>5 DEF DecisionInv
<1>6. CASE RunJob
    <2> DEFINE j == task.claimed
    <2>1. StatusInput(j) /\ task.do = "jobs" /\ UNCHANGED upsets /\ j \in DOMAIN jobs
        BY <1>6 DEF RunJob, TaskOK
    <2>2. UNCHANGED <<records, base, decided, held, checkpoint>>
        BY <2>1, StatusShows
    <2>3. jobs' \in Seq(JobType)
        BY <1>6, RunJobStep DEF StatusKept, JobsChange
    <2>4. UNCHANGED ask \/ (ask' # None => records[ask'.record].mark # "none")
        <3>1. \/ UNCHANGED ask \/ ask' \in {ask, None}
              \/ Replay(records, jobs', {}, Review("replay", 0, j))
            BY <2>1, StatusShows
        <3>2. CASE Replay(records, jobs', {}, Review("replay", 0, j))
            <4>1. /\ base \in [status : Statuses, jobs : 0..MaxJobs] /\ status \in Statuses
                  /\ decided # None => ask = None
                BY DEF RestOK, SuggestionOK
            <4> DEFINE Nothing == {}
            <4>2. (\A v, w \in Nothing : v.kind = w.kind => v = w) /\ Replay(records, jobs', Nothing, Review("replay", 0, j))
                BY <3>2
            <4> HIDE DEF Nothing
            <4>3. ask' # None => records[ask'.record].mark = "applied"
                BY ONLY <2>3, <4>1, <4>2, Replays
            <4> QED  BY <4>3
        <3> QED  BY <3>1, <3>2
    <2> QED  BY <2>1, <2>2, <2>4, DecisionStays
<1>7. CASE \E o \in Operators : Confirm(o)
    BY <1>7, ConfirmStands
<1> QED  BY <1>1, <1>2, <1>3, <1>4, <1>5, <1>6, <1>7 DEF IntakeNext, TaskStep

LEMMA DecisionBegins == IntakeInit => DecisionInv
<1> SUFFICES ASSUME IntakeInit PROVE DecisionInv
    OBVIOUS
<1>1. decided = None
    BY DEF IntakeInit
<1>2. CASE records = <<>> /\ ask = None
    BY <1>1, <1>2, NoneAssumption DEF DecisionInv, LostOK, StandingOK, Stopped
<1>3. CASE /\ records = <<[at |-> now, kind |-> "mute", out |-> FALSE, mark |-> "applied",
                           closed |-> FALSE]>>
           /\ ask = [record |-> 1, gen |-> 0]
    <2>1. DOMAIN records = {1} /\ records[1].out = FALSE /\ records[1].mark = "applied" /\ ask.record = 1
        BY <1>3
    <2> QED  BY <1>1, <2>1, NoneAssumption DEF DecisionInv, LostOK, Lost, StandingOK, Stopped
<1> QED  BY <1>2, <1>3 DEF IntakeInit
-----------------------------------------------------------------------------
\* The inductive invariant.
THEOREM IntakeInvariant == IntakeSpec => []IntakeInv
<1> QED  BY IntakeBegins, IntakeStep, PTL DEF IntakeSpec

\* What was withdrawn stays out: the record's event has no effect any more, and neither has a
\* status change that it was the reason for, unless a review accepted it or waits to.
THEOREM WithdrawnStaysOut == IntakeSpec => []WithdrawalStands
<1>1. IntakeInv => WithdrawalStands
    <2> SUFFICES ASSUME IntakeInv, NEW i \in DOMAIN records, records[i].closed
                 PROVE  /\ records[i].mark # "applied"
                        /\ \A j \in DOMAIN jobs : jobs[j].cause = i /\ jobs[j].mark = "applied" =>
                                i \in held \/ j <= base.jobs
        BY DEF WithdrawalStands
    <2> USE DEF IntakeInv, Sound, StoreOK
    <2>1. i # 0
        BY RecordsNumbered
    <2>2. base.jobs \in Nat /\ \A j \in DOMAIN jobs : j \in Nat
        BY JobsNumbered, IntakeBounds DEF Numbered, RestOK
    <2> QED  BY <2>1, <2>2 DEF ClosedOK, SettledOK
<1> QED  BY <1>1, IntakeInvariant, PTL

\* The member's row follows the confirmed commands: with nothing left to process or to review it
\* holds the status of the last effective change, and every variable has its type.
THEOREM RowsFollow == IntakeSpec => []RowFollowsCommands
<1>1. IntakeInv => RowFollowsCommands
    <2> SUFFICES ASSUME IntakeInv PROVE RowFollowsCommands
        OBVIOUS
    <2> USE DEF IntakeInv, Sound, StoreOK
    <2>1. \A i \in DOMAIN records : records[i] \in [at : Times, kind : {"mute", "warning"},
            out : BOOLEAN, closed : BOOLEAN, mark : {"none", "applied", "void"}]
        BY RecordsNumbered DEF RecordType
    <2>2. \A j \in DOMAIN jobs : jobs[j] \in [to : Statuses, at : Times, cause : 0..Len(records),
            st : {"pending", "processing", "lapsed", "failed", "applied"},
            mark : {"none", "applied", "void"}, event : 0..MaxJobs]
        <3> TAKE j \in DOMAIN jobs
        <3>1. jobs[j] \in JobType /\ jobs[j].cause \in 0..Len(records)
            BY CausesThere, RecordsNumbered
        <3> QED  BY <3>1 DEF JobType
    <2>3. \A o \in Operators : pending[o] = None
            \/ pending[o].do \in {"create", "status", "withdraw", "stop", "resolve"}
        BY DEF PendingOK, PreviewOK
    <2>4. IntakeTypeOK
        BY <2>1, <2>2, <2>3 DEF IntakeTypeOK, RestOK
    <2>5. AllProcessed => ~ToCome
        BY DEF AllProcessed, ToCome, Alive
    <2> QED  BY <2>4, <2>5 DEF RowOK, RowFollowsCommands
<1> QED  BY <1>1, IntakeInvariant, PTL

\* No stop is decided on a record that was withdrawn, but where an upset lost the withdrawal before
\* the policy took it in or a resolved review has covered the record; and no withdrawal that the
\* policy takes in leaves a decision standing that the administrators do not have before them.
THEOREM DecisionsAreCurrent == IntakeSpec => DecisionIsCurrent
<1> DEFINE Made == decided' # decided /\ decided' \in Nat \ {0} =>
                    \/ ~records[decided'].out \/ Covered(decided')
                    \/ upsets > 0 /\ ~records[decided'].closed
           Answered == decided \in Nat \ {0} /\ records[decided].closed => decided \in held \/ Covered(decided)
<1>1. IntakeInit => DecisionInv
    BY DecisionBegins
<1>2. IntakeInv /\ DecisionInv /\ [IntakeNext]_intake => DecisionInv'
    BY DecisionInvStep
<1>3. IntakeInv /\ DecisionInv /\ [IntakeNext]_intake => [Made]_intake
    <2> SUFFICES ASSUME IntakeInv, DecisionInv, [IntakeNext]_intake,
                        decided' # decided, decided' \in Nat \ {0}
                 PROVE  \/ ~records[decided'].out \/ Covered(decided')
                        \/ upsets > 0 /\ ~records[decided'].closed
        OBVIOUS
    <2>1. task = NoTask /\ ask # None /\ decided' = ask.record
        BY IntakeStep DEF DecisionStep
    <2>2. decided' \in DOMAIN records /\ (~records[decided'].closed \/ Covered(decided'))
        BY <2>1 DEF IntakeInv, Sound, StoreOK, AskOK, SuggestionOK
    <2>3. upsets \in Nat
        BY DEF IntakeInv, Sound, StoreOK, RestOK
    <2>4. upsets = 0 => ~Lost(decided')
        BY <2>1, <2>2 DEF DecisionInv, LostOK, NoTask
    <2> QED  BY <2>2, <2>3, <2>4 DEF Lost
<1>4. DecisionInv => Answered
    BY DEF DecisionInv, StandingOK, Stopped
<1> QED  BY <1>1, <1>2, <1>3, <1>4, IntakeInvariant, PTL DEF DecisionIsCurrent, IntakeSpec
=============================================================================
