-------------------------- MODULE ChatTurns_proofs --------------------------
(* No part of a reply is sent twice or out of order and what is cleared stays   *)
(* cleared, for any messages, any length of the replies, any limits and any     *)
(* number of turns, crashes and clears.                                         *)
EXTENDS ChatTurns, FiniteSetTheorems, WellFoundedInduction, TLAPS

TurnRecord ==
    [event : Events, step : Threaded \cup Waits \cup {"absent", "gone"}, acted : BOOLEAN,
     ok : BOOLEAN, ended : BOOLEAN, rows : Seq(Statuses), part : Parts, want : 0..MaxParts,
     plan : {"none", "reply", "notice", "silence"}]
Typed ==
    /\ turn \in [Turns -> TurnRecord]
    /\ pending \in [Conversations \cup {Others} -> Nat]
    /\ ledger \in [Events -> Seq(Statuses)] /\ \A e \in Events : Len(ledger[e]) <= MaxParts
    /\ message \in [Events -> {"none", "live", "purged"}]
    /\ said \in [Events -> SUBSET Parts]
    /\ calls \in [Events -> [Parts -> {0, 1}]]
    /\ late \in [Events -> {0, 1}]
    /\ allowed \in [Conversations -> BOOLEAN] /\ upsets \in 0..MaxUpsets

(* A slot is that of a turn that runs.                                          *)
In(c) == {t \in Turns : Running(t) /\ Of(Event(t)) = c}
SlotsOK ==
    /\ \A c \in Conversations : pending[c] = Cardinality(In(c)) /\ pending[c] <= PerConversation
    /\ Admitted <= AtOnce

(* One turn of a conversation holds its lock.                                   *)
Exclusive ==
    \A t, u \in Turns : Holds(t) /\ Holds(u) /\ Of(Event(t)) = Of(Event(u)) => t = u

(* What the ledger says of the calls.                                           *)
LedgerOK ==
    \A e \in Events, i \in Parts :
        /\ i > 1 /\ calls[e][i] = 1 => calls[e][i - 1] = 1
        /\ i \notin DOMAIN ledger[e] => calls[e][i] = 0
        /\ i \in DOMAIN ledger[e] =>
            /\ ledger[e][i] \in {"pending", "no_reply"} => calls[e][i] = 0
            /\ ledger[e][i] \in {"sent", "archived"} => calls[e][i] = 1

(* What a turn that holds the lock knows: the rows it has read may be old, but  *)
(* what was sent stays sent, and the part it has claimed is its own until the   *)
(* platform is called.                                                          *)
RowsFit(r) ==
    r.rows # <<>> =>
        /\ Len(r.rows) = Len(ledger[r.event])
        /\ \A i \in DOMAIN r.rows : r.rows[i] \in {"sent", "archived"} => calls[r.event][i] = 1
Claimed(r) ==
    \/ r.step = "claim" /\ r.acted /\ r.ok
    \/ r.step = "preflight"
    \/ r.step = "undo" /\ ~r.acted
Past == {"call", "sent", "unknown", "persist", "archived"}
PartFits(r) ==
    /\ r.step \in {"claim", "preflight", "undo"} \cup Past =>
        /\ r.part \in DOMAIN ledger[r.event]
        /\ r.part > 1 => calls[r.event][r.part - 1] = 1
    /\ Claimed(r) => /\ ledger[r.event][r.part] \in {"sending", "cancelled"}
                     /\ calls[r.event][r.part] = 0
    /\ r.step \in Past => calls[r.event][r.part] = 1
Fits(r) == RowsFit(r) /\ PartFits(r)
TurnsOK ==
    \A t \in Turns : /\ Holds(t) => Fits(turn[t])
                     /\ turn[t].step = "lock" => turn[t].rows = <<>>

(* A turn that has found its message live, and has not called yet.              *)
Passed(t) == turn[t].step = "preflight" /\ turn[t].acted /\ turn[t].ok
LateOK ==
    /\ \A t \in Turns : Passed(t) => Live(Event(t)) \/ message[Event(t)] = "purged"
    /\ \A e \in Events : late[e] = 1 =>
        e \in Private /\ message[e] = "purged" /\ \A t \in Turns : Passed(t) => Event(t) # e

IInv == Typed /\ SlotsOK /\ Exclusive /\ LedgerOK /\ TurnsOK /\ LateOK
-----------------------------------------------------------------------------
(* Slots.                                                                       *)

\* A set that one element enters or leaves.
LEMMA OneMoves ==
    ASSUME NEW S, IsFiniteSet(S), NEW c, NEW T, T \ {c} = S \ {c}
    PROVE  /\ Cardinality(S) \in Nat /\ Cardinality(T) \in Nat
           /\ (c \in S <=> c \in T) => Cardinality(T) = Cardinality(S)
           /\ c \notin S /\ c \in T => Cardinality(T) = Cardinality(S) + 1
           /\ c \in S /\ c \notin T => Cardinality(T) = Cardinality(S) - 1
<1>1. Cardinality(S) \in Nat
    BY FS_CardinalityType
<1>2. CASE c \in S <=> c \in T
    <2>1. S = T
        BY <1>2
    <2> QED  BY <1>1, <1>2, <2>1
<1>3. CASE c \notin S /\ c \in T
    <2>1. T = S \union {c}
        BY <1>3
    <2>2. Cardinality(T) = Cardinality(S) + 1
        BY <1>3, <2>1, FS_AddElement
    <2> QED  BY <1>1, <1>3, <2>2
<1>4. CASE c \in S /\ c \notin T
    <2>1. T = S \ {c}
        BY <1>4
    <2>2. Cardinality(T) = Cardinality(S) - 1 /\ IsFiniteSet(T)
        BY <1>4, <2>1, FS_RemoveElement
    <2>3. Cardinality(T) \in Nat
        BY <2>2, FS_CardinalityType
    <2> QED  BY <1>1, <1>4, <2>2, <2>3
<1> QED  BY <1>2, <1>3, <1>4

LEMMA FewTurns == \A c : IsFiniteSet(In(c))
<1>1. IsFiniteSet(Turns)
    BY FS_Interval, BoundsAssumption DEF Turns
<1> QED  BY <1>1, FS_Subset DEF In

\* Turns that run on where they are keep their slots.
LEMMA SlotsStay ==
    ASSUME SlotsOK, UNCHANGED pending,
           \A t \in Turns : /\ Running(t)' <=> Running(t)
                            /\ Running(t) => Event(t)' = Event(t)
    PROVE  SlotsOK'
<1>1. \A c \in Conversations : In(c)' = In(c)
    BY DEF In
<1> QED  BY <1>1 DEF SlotsOK, Admitted

LEMMA SlotsEnd ==
    ASSUME Typed, SlotsOK, NEW t \in Turns, Running(t), Ends(t)
    PROVE  SlotsOK' /\ pending' \in [Conversations \cup {Others} -> Nat]
<1> DEFINE d == Of(Event(t))
<1>1. d \in Conversations /\ Others \notin Conversations
    BY DEF Of, Conversations, Others
<1>2. \A u \in Turns : /\ Running(u)' <=> Running(u) /\ u # t
                       /\ Running(u)' => Event(u)' = Event(u)
    BY DEF Ends, Typed, Running, Event, Gone
<1>3. \A c \in Conversations : /\ In(c)' \ {t} = In(c) \ {t} /\ t \notin In(c)'
                               /\ t \in In(c) <=> c = d
    BY <1>2 DEF In
<1>4. \A c \in Conversations : /\ Cardinality(In(c)) \in Nat /\ Cardinality(In(c)') \in Nat
                               /\ c = d => Cardinality(In(c)') = Cardinality(In(c)) - 1
                               /\ c # d => Cardinality(In(c)') = Cardinality(In(c))
    BY <1>3, FewTurns, OneMoves
<1>5. /\ \A c \in Conversations \cup {Others} :
            pending'[c] = IF c = d THEN pending[c] - 1 ELSE pending[c]
      /\ DOMAIN pending' = Conversations \cup {Others}
      /\ pending' = [c \in Conversations \cup {Others} |-> pending'[c]]
    BY <1>1 DEF Ends, Typed
<1>6. \A c \in Conversations : pending[c] \in Nat /\ pending[c] = Cardinality(In(c)) /\ pending[c] <= PerConversation
    BY DEF SlotsOK, Typed
<1>7. PerConversation \in Nat /\ AtOnce \in Nat /\ pending[Others] \in Nat
    BY BoundsAssumption DEF Typed
<1> HIDE DEF d
<1>8. \A c \in Conversations : pending'[c] = Cardinality(In(c)') /\ pending'[c] \in Nat
                               /\ pending'[c] <= pending[c] /\ pending'[c] <= PerConversation
    BY <1>4, <1>5, <1>6, <1>7
<1>9. pending'[Others] = pending[Others]
    BY <1>1, <1>5
<1>10. pending' \in [Conversations \cup {Others} -> Nat]
    BY <1>5, <1>7, <1>8, <1>9
<1>11. Admitted' <= AtOnce
    <2>1. pending["private"] + pending["group"] + pending[Others] <= AtOnce
        BY DEF SlotsOK, Admitted
    <2>2. /\ pending'["private"] \in Nat /\ pending'["group"] \in Nat /\ pending["private"] \in Nat
          /\ pending["group"] \in Nat
          /\ pending'["private"] <= pending["private"] /\ pending'["group"] <= pending["group"]
        BY <1>6, <1>8 DEF Conversations
    <2> QED  BY <1>7, <1>9, <2>1, <2>2 DEF Admitted
<1> QED  BY <1>8, <1>10, <1>11 DEF SlotsOK

LEMMA SlotsArrive ==
    ASSUME Typed, SlotsOK, NEW t \in Turns, NEW e \in Events, Arrive(t, e)
    PROVE  SlotsOK' /\ pending' \in [Conversations \cup {Others} -> Nat]
<1> DEFINE d == Of(e)
<1>1. d \in Conversations /\ Others \notin Conversations
    BY DEF Of, Conversations, Others
<1>2. \A u \in Turns : /\ Running(u)' <=> Running(u) \/ u = t
                       /\ Running(u)' => Event(u)' = IF u = t THEN e ELSE Event(u)
                       /\ ~Running(t)
    BY DEF Arrive, Typed, Running, Event, Absent
<1>3. \A c \in Conversations : /\ In(c)' \ {t} = In(c) \ {t} /\ t \notin In(c)
                               /\ t \in In(c)' <=> c = d
    BY <1>2 DEF In
<1>4. \A c \in Conversations : /\ Cardinality(In(c)) \in Nat /\ Cardinality(In(c)') \in Nat
                               /\ c = d => Cardinality(In(c)') = Cardinality(In(c)) + 1
                               /\ c # d => Cardinality(In(c)') = Cardinality(In(c))
    BY <1>3, FewTurns, OneMoves
<1>5. /\ \A c \in Conversations \cup {Others} :
            pending'[c] = IF c = d THEN pending[c] + 1 ELSE pending[c]
      /\ DOMAIN pending' = Conversations \cup {Others}
      /\ pending' = [c \in Conversations \cup {Others} |-> pending'[c]]
    BY <1>1 DEF Arrive, Typed
<1>6. \A c \in Conversations : pending[c] \in Nat /\ pending[c] = Cardinality(In(c)) /\ pending[c] <= PerConversation
    BY DEF SlotsOK, Typed
<1>7. PerConversation \in Nat /\ AtOnce \in Nat /\ pending[Others] \in Nat
    BY BoundsAssumption DEF Typed
<1>8. pending[d] < PerConversation /\ Admitted < AtOnce
    BY DEF Arrive, Admits
<1> HIDE DEF d
<1>9. \A c \in Conversations : pending'[c] = Cardinality(In(c)') /\ pending'[c] \in Nat
                               /\ pending'[c] <= PerConversation
    BY <1>4, <1>5, <1>6, <1>7, <1>8
<1>10. pending'[Others] = pending[Others]
    BY <1>1, <1>5
<1>11. pending' \in [Conversations \cup {Others} -> Nat]
    BY <1>5, <1>7, <1>9, <1>10
<1>12. Admitted' <= AtOnce
    <2>1. pending["private"] \in Nat /\ pending["group"] \in Nat
        BY <1>6 DEF Conversations
    <2>2. CASE d = "private"
        BY <1>5, <1>7, <1>8, <1>10, <2>1, <2>2 DEF Admitted, Conversations
    <2>3. CASE d = "group"
        BY <1>5, <1>7, <1>8, <1>10, <2>1, <2>3 DEF Admitted, Conversations
    <2> QED  BY <1>1, <2>2, <2>3 DEF Conversations
<1> QED  BY <1>9, <1>11, <1>12 DEF SlotsOK

-----------------------------------------------------------------------------
(* What a step of a turn keeps.                                                 *)

\* A turn that holds the lock of its conversation, or takes it, goes on as r: it may
\* change the plan of its own message, never against what was called.
LEMMA TurnGoes ==
    ASSUME IInv, NEW t \in Turns, NEW r \in TurnRecord, NEW plan \in Seq(Statuses),
           turn' = [turn EXCEPT ![t] = r], r.event = Event(t), r.step \notin {"absent", "gone", "lock"},
           \/ Holds(t)
           \/ turn[t].step = "lock" /\ \A u \in Turns : Holds(u) => Of(Event(u)) # Of(Event(t)),
           UNCHANGED <<pending, calls, late>>,
           ledger' = [ledger EXCEPT ![Event(t)] = plan], Len(plan) <= MaxParts,
           ledger[Event(t)] # <<>> => Len(plan) = Len(ledger[Event(t)]),
           \A i \in DOMAIN plan :
               /\ plan[i] \in {"pending", "no_reply"} => calls[Event(t)][i] = 0
               /\ plan[i] \in {"sent", "archived"} => calls[Event(t)][i] = 1,
           message' \in [Events -> {"none", "live", "purged"}],
           \A e \in Events : message[e] # "none" => message'[e] = message[e],
           said' \in [Events -> SUBSET Parts], allowed' \in [Conversations -> BOOLEAN],
           upsets' \in 0..MaxUpsets,
           Fits(r)',
           (r.step = "preflight" /\ r.acted /\ r.ok) => Passed(t) \/ Live(Event(t))
    PROVE  IInv'
<1> DEFINE e == Event(t)
<1>1. /\ e \in Events /\ Running(t) /\ turn[t] \in TurnRecord
      /\ turn \in [Turns -> TurnRecord] /\ ledger \in [Events -> Seq(Statuses)]
    BY DEF IInv, Typed, TurnRecord, Event, Holds, Running
<1>2. turn' = [u \in Turns |-> IF u = t THEN r ELSE turn[u]]
    BY <1>1
<1>3. ledger'[e] = plan /\ \A x \in Events : x # e => ledger'[x] = ledger[x]
    BY <1>1
<1>4. Typed'
    <2>1. \A x \in Events : Len(ledger'[x]) <= MaxParts
        BY <1>1, <1>3 DEF IInv, Typed
    <2>2. ledger' \in [Events -> Seq(Statuses)] /\ turn' \in [Turns -> TurnRecord]
        BY <1>1, <1>2
    <2> QED  BY <2>1, <2>2 DEF IInv, Typed
<1>5. \A u \in Turns : /\ Running(u)' <=> Running(u)
                       /\ Event(u)' = Event(u)
                       /\ u # t => (Holds(u)' <=> Holds(u)) /\ turn'[u] = turn[u] /\ (Passed(u)' <=> Passed(u))
                       /\ Holds(t)'
    BY <1>1, <1>2 DEF Running, Event, Holds, Passed
<1>6. SlotsOK'
    BY <1>5, SlotsStay DEF IInv
<1>7. \A u \in Turns : Holds(u) /\ u # t => Of(Event(u)) # Of(e) /\ Event(u) # e
    BY DEF IInv, Exclusive
<1>8. Exclusive'
    BY <1>5, <1>7 DEF IInv, Exclusive
<1>9. LedgerOK'
    <2> SUFFICES ASSUME NEW x \in Events, NEW i \in Parts
                 PROVE  /\ i > 1 /\ calls[x][i] = 1 => calls[x][i - 1] = 1
                        /\ i \notin DOMAIN ledger'[x] => calls[x][i] = 0
                        /\ i \in DOMAIN ledger'[x] =>
                            /\ ledger'[x][i] \in {"pending", "no_reply"} => calls[x][i] = 0
                            /\ ledger'[x][i] \in {"sent", "archived"} => calls[x][i] = 1
        BY DEF LedgerOK
    <2>1. CASE x # e
        BY <1>3, <2>1 DEF IInv, LedgerOK
    <2>2. CASE x = e
        <3>1. i > 1 /\ calls[x][i] = 1 => calls[x][i - 1] = 1
            BY DEF IInv, LedgerOK
        <3>2. i \notin DOMAIN plan => i \notin DOMAIN ledger[e]
            BY <1>1
        <3> QED  BY <1>3, <2>2, <3>1, <3>2 DEF IInv, LedgerOK
    <2> QED  BY <2>1, <2>2
<1>10. TurnsOK'
    <2> SUFFICES ASSUME NEW u \in Turns
                 PROVE  (Holds(u)' => Fits(turn[u])') /\ (turn'[u].step = "lock" => turn'[u].rows = <<>>)
        BY <1>2 DEF TurnsOK
    <2>1. CASE u = t
        BY <1>1, <1>2, <2>1 DEF Fits, RowsFit, PartFits, Claimed
    <2>2. CASE u # t
        <3>1. turn'[u] = turn[u] /\ (Holds(u)' => Holds(u)) /\ turn[u].event = Event(u)
            BY <1>5, <2>2 DEF Event
        <3>2. Holds(u) => ledger'[Event(u)] = ledger[Event(u)]
            BY <1>1, <1>3, <1>7, <2>2 DEF Event, TurnRecord
        <3>3. Holds(u)' => Fits(turn[u])
            BY <3>1 DEF IInv, TurnsOK
        <3>4. turn'[u].step = "lock" => turn'[u].rows = <<>>
            BY <3>1 DEF IInv, TurnsOK
        <3> QED  BY <3>1, <3>2, <3>3, <3>4 DEF Fits, RowsFit, PartFits, Claimed
    <2> QED  BY <2>1, <2>2
<1>11. LateOK'
    <2>1. ASSUME NEW u \in Turns, Passed(u)'  
          PROVE  Live(Event(u))' \/ message'[Event(u)'] = "purged"
        <3>1. Event(u)' = Event(u) /\ Event(u) \in Events
            BY <1>1, <1>5 DEF Event, TurnRecord
        <3>2. Live(Event(u)) \/ message[Event(u)] = "purged"
            BY <1>1, <1>2, <1>5, <2>1 DEF IInv, LateOK, Passed
        <3>3. message[Event(u)] # "none" => message'[Event(u)] = message[Event(u)]
            BY <3>1
        <3> QED  BY <3>1, <3>2, <3>3 DEF Live
    <2>2. ASSUME NEW x \in Events, late[x] = 1
          PROVE  x \in Private /\ message'[x] = "purged" /\ \A u \in Turns : Passed(u)' => Event(u)' # x
        <3>1. x \in Private /\ message[x] = "purged" /\ \A u \in Turns : Passed(u) => Event(u) # x
            BY <2>2 DEF IInv, LateOK
        <3>2. message'[x] = "purged"
            BY <3>1
        <3>3. Live(e) => e # x
            BY <3>1 DEF Live
        <3>4. Passed(t)' => e # x
            BY <1>1, <1>2, <3>1, <3>3 DEF Passed
        <3> QED  BY <1>5, <3>1, <3>2, <3>4
    <2> QED  BY <2>1, <2>2 DEF LateOK
<1> QED  BY <1>4, <1>6, <1>8, <1>9, <1>10, <1>11 DEF IInv
LEMMA NoTurns ==
    /\ Absent \in TurnRecord /\ Absent.step = "absent" /\ Absent.rows = <<>>
    /\ Gone \in TurnRecord /\ Gone.step = "gone"
<1>1. Absent.event \in Events /\ <<>> \in Seq(Statuses) /\ 1 \in Parts /\ 0 \in 0..MaxParts
    BY EventsAssumption, BoundsAssumption DEF Absent, Parts
<1>2. Absent \in TurnRecord
    BY <1>1 DEF TurnRecord, Absent
<1>3. Gone \in TurnRecord /\ Gone.step = "gone"
    BY <1>2 DEF Gone, TurnRecord
<1> QED  BY <1>2, <1>3 DEF Absent

\* The work of a turn ends.
LEMMA TurnEnds ==
    ASSUME IInv, NEW t \in Turns, Running(t), Ends(t),
           UNCHANGED <<ledger, message, said, calls, late>>,
           allowed' \in [Conversations -> BOOLEAN], upsets' \in 0..MaxUpsets
    PROVE  IInv'
<1>1. turn \in [Turns -> TurnRecord]
    BY DEF IInv, Typed
<1>2. Gone \in TurnRecord /\ Gone.step = "gone"
    BY NoTurns
<1>3. turn' = [u \in Turns |-> IF u = t THEN Gone ELSE turn[u]]
    BY <1>1 DEF Ends
<1>4. SlotsOK' /\ pending' \in [Conversations \cup {Others} -> Nat]
    BY SlotsEnd DEF IInv
<1>5. Typed'
    BY <1>1, <1>2, <1>3, <1>4 DEF IInv, Typed
<1>6. \A u \in Turns : /\ Holds(u)' => Holds(u) /\ turn'[u] = turn[u] /\ Event(u)' = Event(u)
                       /\ Passed(u)' => Passed(u) /\ Event(u)' = Event(u)
                       /\ turn'[u].step = "lock" => turn'[u] = turn[u]
    BY <1>2, <1>3 DEF Holds, Running, Passed, Event
<1>7. Exclusive'
    BY <1>6 DEF IInv, Exclusive
<1>8. LedgerOK'
    BY DEF IInv, LedgerOK
<1>9. TurnsOK'
    BY <1>6 DEF IInv, TurnsOK, Fits, RowsFit, PartFits, Claimed
<1>10. LateOK'
    BY <1>6 DEF IInv, LateOK, Live
<1> QED  BY <1>4, <1>5, <1>7, <1>8, <1>9, <1>10 DEF IInv

\* The platform is called for a part that is claimed, once its message was found live.
LEMMA TurnCalls ==
    ASSUME IInv, NEW t \in Turns, Holds(t), Calls(t), Claimed(turn[t]),
           Event(t) \in Private => Passed(t),
           turn[t].step \in {"claim", "preflight"},
           UNCHANGED <<ledger, message, said, allowed, upsets>>
    PROVE  IInv'
<1> DEFINE e == Event(t)
           i == turn[t].part
<1>1. /\ turn \in [Turns -> TurnRecord] /\ turn[t] \in TurnRecord /\ e \in Events /\ i \in Parts
      /\ calls \in [Events -> [Parts -> {0, 1}]] /\ late \in [Events -> {0, 1}]
      /\ calls[e] \in [Parts -> {0, 1}]
    BY DEF IInv, Typed, TurnRecord, Event
<1>2. /\ RowsFit(turn[t]) /\ i \in DOMAIN ledger[e] /\ (i > 1 => calls[e][i - 1] = 1)
      /\ ledger[e][i] \in {"sending", "cancelled"} /\ calls[e][i] = 0
    BY DEF IInv, TurnsOK, Fits, PartFits, Event
<1>3. PICK r \in TurnRecord :
        /\ turn' = [turn EXCEPT ![t] = r] /\ r.step = "call" /\ r.event = e /\ r.part = i
        /\ r.rows = turn[t].rows
    <2>1. [turn[t] EXCEPT !.step = "call", !.acted = FALSE, !.ok = FALSE] \in TurnRecord
        BY <1>1 DEF TurnRecord, Waits
    <2> QED  BY <2>1, <1>1 DEF Calls, Goes, Event, TurnRecord
<1>4. turn' = [u \in Turns |-> IF u = t THEN r ELSE turn[u]]
    BY <1>1, <1>3
<1>5. /\ calls'[e][i] = 1 /\ \A x \in Events, j \in Parts : x # e \/ j # i => calls'[x][j] = calls[x][j]
      /\ calls' \in [Events -> [Parts -> {0, 1}]]
    <2>1. calls' = [calls EXCEPT ![e] = [calls[e] EXCEPT ![i] = @ + 1]]
        BY DEF Calls
    <2>2. calls'[e] = [calls[e] EXCEPT ![i] = 1] /\ \A x \in Events : x # e => calls'[x] = calls[x]
        BY <1>1, <1>2, <2>1
    <2>3. [calls[e] EXCEPT ![i] = 1] \in [Parts -> {0, 1}]
        BY <1>1
    <2>4. calls' \in [Events -> [Parts -> {0, 1}]]
        BY <1>1, <2>1, <2>2, <2>3
    <2> HIDE DEF e, i
    <2> QED  BY <1>1, <2>2, <2>4
<1>6. Live(e) \/ (late[e] = 0 /\ e \in Private /\ message[e] = "purged")
    <2>1. ~Live(e) => e \in Private
        BY DEF Live
    <2> QED  BY <1>1, <2>1 DEF IInv, LateOK
<1>7. late' \in [Events -> {0, 1}]
      /\ \A x \in Events : late'[x] = 1 => \/ late[x] = 1
                                           \/ x = e /\ e \in Private /\ message[e] = "purged"
    <2>1. CASE Live(e)
        BY <1>1, <2>1 DEF Calls
    <2>2. CASE ~Live(e)
        <3>1. late' = [late EXCEPT ![e] = 1]
            <4>1. late' = [late EXCEPT ![e] = @ + 1]
                BY <2>2 DEF Calls
            <4>2. late[e] + 1 = 1
                BY <1>6, <2>2
            <4> QED  BY <1>1, <4>1, <4>2
        <3> QED  BY <1>1, <1>6, <2>2, <3>1
    <2> QED  BY <2>1, <2>2
<1>8. UNCHANGED <<pending, ledger, message, said, allowed, upsets>>
    BY DEF Calls, Goes
<1>9. Typed'
    BY <1>1, <1>3, <1>4, <1>5, <1>7, <1>8 DEF IInv, Typed
<1>10. \A u \in Turns : /\ Running(u)' <=> Running(u)
                        /\ Event(u)' = Event(u)
                        /\ Holds(u)' <=> Holds(u)
                        /\ u # t => turn'[u] = turn[u]
                        /\ Passed(u)' => Passed(u) /\ u # t
    BY <1>3, <1>4 DEF Running, Event, Holds, Passed
<1>11. SlotsOK'
    BY <1>8, <1>10, SlotsStay DEF IInv
<1>12. \A u \in Turns : Holds(u) /\ u # t => Event(u) # e
    BY DEF IInv, Exclusive
<1>13. Exclusive'
    BY <1>10 DEF IInv, Exclusive
<1>14. LedgerOK'
    <2> SUFFICES ASSUME NEW x \in Events, NEW j \in Parts
                 PROVE  /\ j > 1 /\ calls'[x][j] = 1 => calls'[x][j - 1] = 1
                        /\ j \notin DOMAIN ledger[x] => calls'[x][j] = 0
                        /\ j \in DOMAIN ledger[x] =>
                            /\ ledger[x][j] \in {"pending", "no_reply"} => calls'[x][j] = 0
                            /\ ledger[x][j] \in {"sent", "archived"} => calls'[x][j] = 1
        BY <1>8 DEF LedgerOK
    <2>1. \A y \in Events, k \in Parts : calls[y][k] = 1 => calls'[y][k] = 1
        BY <1>5
    <2>2. j > 1 => j - 1 \in Parts
        BY BoundsAssumption DEF Parts
    <2>3. CASE x = e /\ j = i
        BY <1>2, <1>5, <2>1, <2>2, <2>3
    <2>4. CASE ~(x = e /\ j = i)
        <3>1. calls'[x][j] = calls[x][j]
            BY <1>5, <2>4
        <3> QED  BY <2>1, <2>2, <3>1 DEF IInv, LedgerOK
    <2> QED  BY <2>3, <2>4
<1>15. TurnsOK'
    <2> SUFFICES ASSUME NEW u \in Turns
                 PROVE  (Holds(u)' => Fits(turn[u])') /\ (turn'[u].step = "lock" => turn'[u].rows = <<>>)
        BY DEF TurnsOK
    <2>1. CASE u = t
        <3>1. turn'[u] = r
            BY <1>4, <2>1
        <3>2. RowsFit(turn[u])'
            <4>1. Len(ledger[e]) <= MaxParts /\ ledger[e] \in Seq(Statuses) /\ turn[t].rows \in Seq(Statuses)
                BY <1>1 DEF IInv, Typed, TurnRecord
            <4>2. turn[t].rows # <<>> => DOMAIN turn[t].rows \subseteq Parts
                <5>1. turn[t].rows # <<>> => Len(turn[t].rows) = Len(ledger[e])
                    BY <1>2 DEF RowsFit, Event
                <5>2. /\ MaxParts \in Nat /\ Len(ledger[e]) \in Nat
                      /\ DOMAIN turn[t].rows = 1..Len(turn[t].rows)
                    BY <4>1, BoundsAssumption
                <5> HIDE DEF e
                <5> QED  BY ONLY <4>1, <5>1, <5>2 DEF Parts
            <4>3. \A j \in Parts : calls[e][j] = 1 => calls'[e][j] = 1
                BY <1>1, <1>5
            <4>4. r.rows # <<>> => /\ Len(r.rows) = Len(ledger'[e])
                                   /\ \A j \in DOMAIN r.rows :
                                        r.rows[j] \in {"sent", "archived"} => calls'[e][j] = 1
                BY <1>2, <1>3, <1>8, <4>2, <4>3 DEF RowsFit, Event
            <4> HIDE DEF e, i
            <4> QED  BY <1>3, <3>1, <4>4 DEF RowsFit
        <3>3. PartFits(turn[u])'
            <4>1. i > 1 => i - 1 \in Parts /\ i - 1 # i
                BY <1>1, BoundsAssumption DEF Parts
            <4>2. (i > 1 => calls'[e][i - 1] = 1) /\ calls'[e][i] = 1 /\ i \in DOMAIN ledger'[e]
                BY <1>1, <1>2, <1>5, <1>8, <4>1
            <4> HIDE DEF e, i
            <4> QED  BY <1>3, <3>1, <4>2 DEF PartFits, Claimed
        <3> QED  BY <1>3, <3>1, <3>2, <3>3 DEF Fits
    <2>2. CASE u # t
        <3>1. turn'[u] = turn[u] /\ (Holds(u)' => Holds(u) /\ Fits(turn[u])) /\ turn[u].event = Event(u)
              /\ (turn[u].step = "lock" => turn[u].rows = <<>>)
            BY <1>10, <2>2 DEF Event, IInv, TurnsOK
        <3>2. Holds(u) => calls'[Event(u)] = calls[Event(u)]
            BY <1>1, <1>12, <2>2 DEF Event, TurnRecord, Calls
        <3> QED  BY <1>8, <3>1, <3>2 DEF Fits, RowsFit, PartFits, Claimed
    <2> QED  BY <2>1, <2>2
<1>16. LateOK'
    <2>1. \A u \in Turns : Passed(u)' => Live(Event(u))' \/ message'[Event(u)'] = "purged"
        BY <1>8, <1>10 DEF IInv, LateOK, Live
    <2>2. \A u \in Turns : Passed(u)' => Event(u)' # e
        <3>1. \A u \in Turns : Passed(u) => Holds(u)
            BY DEF Passed, Holds, Running
        <3> QED  BY <1>10, <1>12, <3>1
    <2>3. ASSUME NEW x \in Events, late'[x] = 1
          PROVE  x \in Private /\ message'[x] = "purged" /\ \A u \in Turns : Passed(u)' => Event(u)' # x
        <3>1. CASE x = e
            BY <1>7, <1>8, <2>2, <2>3, <3>1 DEF IInv, LateOK
        <3>2. CASE x # e
            BY <1>7, <1>8, <1>10, <2>3, <3>2 DEF IInv, LateOK
        <3> QED  BY <3>1, <3>2
    <2> QED  BY <2>1, <2>3 DEF LateOK
<1> QED  BY <1>9, <1>11, <1>13, <1>14, <1>15, <1>16 DEF IInv
-----------------------------------------------------------------------------
(* What happens to the turns.                                                   *)

LEMMA ArriveStep ==
    ASSUME IInv, NEW t \in Turns, NEW e \in Events, Arrive(t, e)
    PROVE  IInv'
<1>1. turn \in [Turns -> TurnRecord] /\ UNCHANGED <<ledger, message, said, calls, late, allowed, upsets>>
    BY DEF IInv, Typed, Arrive
<1>2. PICK r \in TurnRecord : turn' = [turn EXCEPT ![t] = r] /\ r.step = "lock" /\ r.rows = <<>> /\ r.event = e
    <2>1. [Absent EXCEPT !.event = e, !.step = "lock"] \in TurnRecord
        BY NoTurns DEF TurnRecord, Waits
    <2> QED  BY <2>1, NoTurns DEF Arrive, TurnRecord
<1>3. turn' = [u \in Turns |-> IF u = t THEN r ELSE turn[u]]
    BY <1>1, <1>2
<1>4. SlotsOK' /\ pending' \in [Conversations \cup {Others} -> Nat]
    BY SlotsArrive DEF IInv
<1>5. Typed'
    BY <1>1, <1>3, <1>4 DEF IInv, Typed
<1>6. \A u \in Turns : /\ Holds(u)' => Holds(u) /\ turn'[u] = turn[u] /\ Event(u)' = Event(u)
                       /\ Passed(u)' => Passed(u) /\ Event(u)' = Event(u)
                       /\ turn'[u].step = "lock" => turn'[u] = turn[u] \/ turn'[u].rows = <<>>
    BY <1>2, <1>3 DEF Holds, Running, Passed, Event
<1>7. Exclusive'
    BY <1>6 DEF IInv, Exclusive
<1>8. LedgerOK'
    BY <1>1 DEF IInv, LedgerOK
<1>9. TurnsOK'
    BY <1>1, <1>6 DEF IInv, TurnsOK, Fits, RowsFit, PartFits, Claimed
<1>10. LateOK'
    BY <1>1, <1>6 DEF IInv, LateOK, Live
<1> QED  BY <1>4, <1>5, <1>7, <1>8, <1>9, <1>10 DEF IInv

LEMMA DeadlineStep ==
    ASSUME IInv, NEW t \in Turns, Deadline(t)
    PROVE  IInv'
<1>1. turn \in [Turns -> TurnRecord]
      /\ UNCHANGED <<pending, ledger, message, said, calls, late, allowed, upsets>>
    BY DEF IInv, Typed, Deadline
<1>2. PICK r \in TurnRecord :
        /\ turn' = [turn EXCEPT ![t] = r]
        /\ r.event = turn[t].event /\ r.step = turn[t].step /\ r.acted = turn[t].acted
        /\ r.ok = turn[t].ok /\ r.rows = turn[t].rows /\ r.part = turn[t].part
    <2>1. [turn[t] EXCEPT !.ended = TRUE] \in TurnRecord /\ turn[t] \in TurnRecord
        BY <1>1 DEF TurnRecord
    <2> QED  BY <2>1 DEF Deadline, TurnRecord
<1>3. \A u \in Turns : /\ turn'[u] \in TurnRecord
                       /\ turn'[u].event = turn[u].event /\ turn'[u].step = turn[u].step
                       /\ turn'[u].acted = turn[u].acted /\ turn'[u].ok = turn[u].ok
                       /\ turn'[u].rows = turn[u].rows /\ turn'[u].part = turn[u].part
    BY <1>1, <1>2 DEF TurnRecord
<1>4. turn' \in [Turns -> TurnRecord]
    BY <1>1, <1>2
<1>5. Typed'
    BY <1>1, <1>4 DEF IInv, Typed
<1>6. SlotsOK'
    BY <1>1, <1>3, SlotsStay DEF IInv, Running, Event
<1>7. Exclusive'
    BY <1>3 DEF IInv, Exclusive, Holds, Running, Event
<1>8. LedgerOK'
    BY <1>1 DEF IInv, LedgerOK
<1>9. TurnsOK'
    BY <1>1, <1>3 DEF IInv, TurnsOK, Fits, RowsFit, PartFits, Claimed, Holds, Running
<1>10. LateOK'
    BY <1>1, <1>3 DEF IInv, LateOK, Live, Passed, Event
<1> QED  BY <1>5, <1>6, <1>7, <1>8, <1>9, <1>10 DEF IInv

\* Plans that are cancelled and messages that lose their text.
LEMMA Clearing ==
    ASSUME IInv, UNCHANGED <<turn, pending, said, calls, late>>,
           ledger' \in [Events -> Seq(Statuses)],
           \A e \in Events : /\ Len(ledger'[e]) = Len(ledger[e])
                             /\ \A i \in DOMAIN ledger[e] : ledger'[e][i] \in {ledger[e][i], "cancelled"},
           message' \in [Events -> {"none", "live", "purged"}],
           \A e \in Events : message'[e] = message[e] \/ (message[e] = "live" /\ message'[e] = "purged"),
           allowed' \in [Conversations -> BOOLEAN], upsets' \in 0..MaxUpsets
    PROVE  IInv'
<1>1. turn \in [Turns -> TurnRecord] /\ ledger \in [Events -> Seq(Statuses)]
    BY DEF IInv, Typed
<1>2. \A e \in Events : DOMAIN ledger'[e] = DOMAIN ledger[e]
    <2> SUFFICES ASSUME NEW e \in Events  PROVE DOMAIN ledger'[e] = DOMAIN ledger[e]
        OBVIOUS
    <2>1. ledger[e] \in Seq(Statuses) /\ ledger'[e] \in Seq(Statuses)
        BY <1>1
    <2> QED  BY <2>1
<1>3. Typed'
    BY DEF IInv, Typed
<1>4. \A t \in Turns : /\ Running(t)' <=> Running(t)
                       /\ Event(t)' = Event(t) /\ Event(t) \in Events
                       /\ Holds(t)' <=> Holds(t)
                       /\ Passed(t)' <=> Passed(t)
    BY <1>1 DEF Running, Holds, Passed, Event, TurnRecord
<1>5. SlotsOK'
    BY <1>4, SlotsStay DEF IInv
<1>6. Exclusive'
    BY <1>4 DEF IInv, Exclusive
<1>7. LedgerOK'
    <2> SUFFICES ASSUME NEW e \in Events, NEW i \in Parts
                 PROVE  /\ i > 1 /\ calls[e][i] = 1 => calls[e][i - 1] = 1
                        /\ i \notin DOMAIN ledger'[e] => calls[e][i] = 0
                        /\ i \in DOMAIN ledger'[e] =>
                            /\ ledger'[e][i] \in {"pending", "no_reply"} => calls[e][i] = 0
                            /\ ledger'[e][i] \in {"sent", "archived"} => calls[e][i] = 1
        BY DEF LedgerOK
    <2>1. /\ i > 1 /\ calls[e][i] = 1 => calls[e][i - 1] = 1
          /\ i \notin DOMAIN ledger[e] => calls[e][i] = 0
        BY DEF IInv, LedgerOK
    <2>2. CASE i \in DOMAIN ledger[e]
        <3>1. ledger'[e][i] = ledger[e][i] \/ ledger'[e][i] = "cancelled"
            BY <2>2
        <3> QED  BY <1>2, <2>1, <2>2, <3>1 DEF IInv, LedgerOK
    <2> QED  BY <1>2, <2>1, <2>2
<1>8. TurnsOK'
    <2> SUFFICES ASSUME NEW t \in Turns, Holds(t)  PROVE Fits(turn[t])'
        BY <1>4 DEF IInv, TurnsOK
    <2>1. Fits(turn[t]) /\ turn[t].event \in Events /\ turn[t].event = Event(t)
        BY <1>1 DEF IInv, TurnsOK, TurnRecord, Event
    <2>2. RowsFit(turn[t])'
        BY <2>1 DEF Fits, RowsFit
    <2>3. PartFits(turn[t])'
        <3>1. Claimed(turn[t]) => turn[t].part \in DOMAIN ledger[turn[t].event]
            BY <2>1 DEF Fits, PartFits, Claimed
        <3>2. Claimed(turn[t])' <=> Claimed(turn[t])
            BY DEF Claimed
        <3> QED  BY <1>2, <2>1, <3>1, <3>2 DEF Fits, PartFits
    <2> QED  BY <2>2, <2>3 DEF Fits
<1>9. LateOK'
    BY <1>4 DEF IInv, LateOK, Live
<1> QED  BY <1>3, <1>5, <1>6, <1>7, <1>8, <1>9 DEF IInv

LEMMA UpsetStep ==
    ASSUME IInv, (\E c \in Conversations : Flip(c)) \/ (\E e \in Private : PurgeExpired(e)) \/ Clear
    PROVE  IInv'
<1>1. Typed /\ upsets' \in 0..MaxUpsets
    BY BoundsAssumption DEF IInv, Typed, Flip, PurgeExpired, Clear, Upset
<1>2. /\ UNCHANGED <<turn, pending, said, calls, late>>
      /\ allowed' \in [Conversations -> BOOLEAN]
    BY <1>1 DEF Typed, Flip, PurgeExpired, Clear
<1>3. /\ message' \in [Events -> {"none", "live", "purged"}]
      /\ \A e \in Events : message'[e] = message[e] \/ (message[e] = "live" /\ message'[e] = "purged")
    BY <1>1, EventsAssumption DEF Typed, Flip, PurgeExpired, Clear, Purged
<1>4. /\ ledger' \in [Events -> Seq(Statuses)]
      /\ \A e \in Events : /\ Len(ledger'[e]) = Len(ledger[e])
                            /\ \A i \in DOMAIN ledger[e] : ledger'[e][i] \in {ledger[e][i], "cancelled"}
    <2>1. CASE UNCHANGED ledger
        BY <1>1, <2>1 DEF Typed
    <2>2. CASE ledger' = Plans
        <3> SUFFICES ASSUME NEW e \in Events
                     PROVE  /\ ledger'[e] \in Seq(Statuses) /\ Len(ledger'[e]) = Len(ledger[e])
                            /\ \A i \in DOMAIN ledger[e] : ledger'[e][i] \in {ledger[e][i], "cancelled"}
            BY <2>2 DEF Plans
        <3>1. ledger[e] \in Seq(Statuses)
            BY <1>1 DEF Typed
        <3>2. CASE e \in Private
            <4>1. ledger'[e] = [i \in DOMAIN ledger[e] |-> "cancelled"]
                BY <2>2, <3>2 DEF Plans
            <4>2. DOMAIN ledger[e] = 1..Len(ledger[e]) /\ Len(ledger[e]) \in Nat
                BY <3>1
            <4>3. ledger'[e] = [i \in 1..Len(ledger[e]) |-> "cancelled"] /\ "cancelled" \in Statuses
                BY <4>1, <4>2 DEF Statuses
            <4> QED  BY <4>2, <4>3
        <3>3. CASE e \notin Private
            BY <2>2, <3>1, <3>3 DEF Plans
        <3> QED  BY <3>2, <3>3
    <2> QED  BY <2>1, <2>2 DEF Flip, PurgeExpired, Clear
<1> QED  BY <1>1, <1>2, <1>3, <1>4, Clearing

LEMMA CrashStep ==
    ASSUME IInv, Crash
    PROVE  IInv'
<1>1. turn \in [Turns -> TurnRecord] /\ UNCHANGED <<ledger, message, said, calls, late, allowed>>
      /\ upsets' \in 0..MaxUpsets
    BY BoundsAssumption DEF IInv, Typed, Crash, Upset
<1>2. \A t \in Turns : ~Running(t)' /\ ~Holds(t)' /\ ~Passed(t)' /\ turn'[t].step # "lock"
    BY <1>1, NoTurns DEF Crash, Running, Holds, Passed
<1>3. /\ turn' \in [Turns -> TurnRecord]
      /\ pending' = [c \in Conversations \cup {Others} |-> 0]
    BY <1>1, NoTurns DEF Crash, IInv, Typed
<1>4. Typed'
    BY <1>1, <1>3 DEF IInv, Typed
<1>5. SlotsOK'
    <2>1. \A c \in Conversations : In(c)' = {}
        BY <1>2 DEF In
    <2>2. PerConversation \in Nat /\ AtOnce \in Nat /\ Cardinality({}) = 0
        BY BoundsAssumption, FS_EmptySet
    <2>3. Admitted' = 0
        BY <1>3 DEF Admitted, Conversations
    <2>4. \A c \in Conversations : pending'[c] = 0
        BY <1>3
    <2> QED  BY <2>1, <2>2, <2>3, <2>4 DEF SlotsOK
<1>6. Exclusive' /\ TurnsOK'
    BY <1>2 DEF Exclusive, TurnsOK
<1>7. LedgerOK'
    BY <1>1 DEF IInv, LedgerOK
<1>8. LateOK'
    BY <1>1, <1>2 DEF IInv, LateOK
<1> QED  BY <1>4, <1>5, <1>6, <1>7, <1>8 DEF IInv

-----------------------------------------------------------------------------
(* The steps of a turn.                                                         *)

\* What every step may use: the types, and for a turn that holds the lock what it knows and
\* what the ledger says of its calls.
LEMMA Types ==
    ASSUME IInv
    PROVE  /\ turn \in [Turns -> TurnRecord] /\ ledger \in [Events -> Seq(Statuses)]
           /\ calls \in [Events -> [Parts -> {0, 1}]] /\ said \in [Events -> SUBSET Parts]
           /\ message \in [Events -> {"none", "live", "purged"}]
           /\ allowed \in [Conversations -> BOOLEAN] /\ upsets \in 0..MaxUpsets
BY DEF IInv, Typed

LEMMA Holding ==
    ASSUME IInv, NEW t \in Turns, Holds(t)
    PROVE  /\ turn[t] \in TurnRecord /\ Event(t) = turn[t].event /\ Event(t) \in Events
           /\ turn[t].part \in Parts /\ turn[t].rows \in Seq(Statuses)
           /\ RowsFit(turn[t]) /\ PartFits(turn[t])
BY DEF IInv, Typed, TurnRecord, Event, TurnsOK, Fits

LEMMA PlanOf ==
    ASSUME IInv, NEW e \in Events
    PROVE  /\ ledger[e] \in Seq(Statuses) /\ Len(ledger[e]) <= MaxParts
           /\ DOMAIN ledger[e] \subseteq Parts
           /\ \A i \in DOMAIN ledger[e] :
               /\ ledger[e][i] \in {"pending", "no_reply"} => calls[e][i] = 0
               /\ ledger[e][i] \in {"sent", "archived"} => calls[e][i] = 1
<1>1. ledger[e] \in Seq(Statuses) /\ Len(ledger[e]) <= MaxParts
    BY DEF IInv, Typed
<1>2. DOMAIN ledger[e] \subseteq Parts
    BY <1>1, BoundsAssumption DEF Parts
<1>3. \A i \in DOMAIN ledger[e] :
        /\ ledger[e][i] \in {"pending", "no_reply"} => calls[e][i] = 0
        /\ ledger[e][i] \in {"sent", "archived"} => calls[e][i] = 1
    BY <1>2 DEF IInv, LedgerOK
<1> QED  BY <1>1, <1>2, <1>3

\* A step that changes its turn only.
LEMMA TurnThinks ==
    ASSUME IInv, NEW t \in Turns, NEW r \in TurnRecord,
           turn' = [turn EXCEPT ![t] = r], r.event = Event(t), r.step \notin {"absent", "gone", "lock"},
           \/ Holds(t)
           \/ turn[t].step = "lock" /\ \A u \in Turns : Holds(u) => Of(Event(u)) # Of(Event(t)),
           UNCHANGED <<pending, calls, late, ledger, message, said, allowed>>, upsets' \in 0..MaxUpsets,
           Fits(r), ~(r.step = "preflight" /\ r.acted /\ r.ok)
    PROVE  IInv'
<1>1. Event(t) \in Events
    BY DEF IInv, Typed, TurnRecord, Event
<1>2. /\ ledger[Event(t)] \in Seq(Statuses) /\ Len(ledger[Event(t)]) <= MaxParts
      /\ \A i \in DOMAIN ledger[Event(t)] :
            /\ ledger[Event(t)][i] \in {"pending", "no_reply"} => calls[Event(t)][i] = 0
            /\ ledger[Event(t)][i] \in {"sent", "archived"} => calls[Event(t)][i] = 1
    BY <1>1, PlanOf
<1>3. ledger' = [ledger EXCEPT ![Event(t)] = ledger[Event(t)]]
    BY DEF IInv, Typed
<1>4. /\ message' \in [Events -> {"none", "live", "purged"}] /\ said' \in [Events -> SUBSET Parts]
      /\ allowed' \in [Conversations -> BOOLEAN]
      /\ \A e \in Events : message[e] # "none" => message'[e] = message[e]
    BY DEF IInv, Typed
<1>5. Fits(r)'
    BY DEF Fits, RowsFit, PartFits, Claimed
<1>6. PICK plan \in Seq(Statuses) : plan = ledger[Event(t)]
    BY <1>2
<1>7. /\ ledger' = [ledger EXCEPT ![Event(t)] = plan] /\ Len(plan) <= MaxParts
      /\ ledger[Event(t)] # <<>> => Len(plan) = Len(ledger[Event(t)])
      /\ \A i \in DOMAIN plan :
            /\ plan[i] \in {"pending", "no_reply"} => calls[Event(t)][i] = 0
            /\ plan[i] \in {"sent", "archived"} => calls[Event(t)][i] = 1
    BY <1>2, <1>3, <1>6
<1>8. UNCHANGED <<pending, calls, late>>
    OBVIOUS
<1>9. (r.step = "preflight" /\ r.acted /\ r.ok) => Passed(t) \/ Live(Event(t))
    OBVIOUS
<1> QED  BY ONLY IInv, t \in Turns, r \in TurnRecord, turn' = [turn EXCEPT ![t] = r],
           r.event = Event(t), r.step \notin {"absent", "gone", "lock"},
           \/ Holds(t)
           \/ turn[t].step = "lock" /\ \A u \in Turns : Holds(u) => Of(Event(u)) # Of(Event(t)),
           upsets' \in 0..MaxUpsets, <1>4, <1>5, <1>6, <1>7, <1>8, <1>9, TurnGoes

Rest == <<pending, calls, late, allowed, upsets>>

\* A thread that leaves the plan as it is.
LEMMA ActedAside ==
    ASSUME IInv, NEW t \in Turns, Holds(t), ~turn[t].acted,
           turn[t].step \notin {"claim", "undo"},
           NEW ok \in BOOLEAN, Acts(t, ok, turn[t].rows), UNCHANGED Rest, UNCHANGED ledger,
           message' \in [Events -> {"none", "live", "purged"}],
           \A e \in Events : message[e] # "none" => message'[e] = message[e],
           said' \in [Events -> SUBSET Parts],
           turn[t].step = "preflight" /\ ok => Live(Event(t))
    PROVE  IInv'
<1>1. turn[t].rows \in Seq(Statuses) /\ RowsFit(turn[t]) /\ PartFits(turn[t]) /\ Event(t) \in Events
      /\ Event(t) = turn[t].event
    BY Holding
<1>2. PICK r \in TurnRecord :
        /\ turn' = [turn EXCEPT ![t] = r] /\ r.event = Event(t) /\ r.step = turn[t].step
        /\ r.acted = TRUE /\ r.ok = ok /\ r.rows = turn[t].rows /\ r.part = turn[t].part
    <2>1. turn[t] \in TurnRecord
        BY Holding
    <2>2. [turn[t] EXCEPT !.acted = TRUE, !.ok = ok, !.rows = turn[t].rows] \in TurnRecord
        BY <2>1 DEF TurnRecord
    <2> QED  BY <1>1, <2>1, <2>2 DEF Acts, TurnRecord
<1>3. ledger' = [ledger EXCEPT ![Event(t)] = ledger[Event(t)]]
    BY Types
<1>4. Fits(r)'
    <2>1. UNCHANGED <<ledger, calls>>
        BY DEF Rest
    <2>2. RowsFit(r)'
        BY <1>1, <1>2, <2>1 DEF RowsFit
    <2>3. Claimed(r) => Claimed(turn[t])
        BY <1>2 DEF Claimed
    <2>4. Claimed(r)' <=> Claimed(r)
        BY DEF Claimed
    <2>5. PartFits(r)'
        BY <1>1, <1>2, <2>1, <2>3, <2>4 DEF PartFits
    <2> QED  BY <2>2, <2>5 DEF Fits
<1>5. r.step \notin {"absent", "gone", "lock"}
    BY <1>2 DEF Holds, Running
<1>6. UNCHANGED <<pending, calls, late>> /\ allowed' \in [Conversations -> BOOLEAN]
      /\ upsets' \in 0..MaxUpsets
    BY Types DEF Rest
<1>7. /\ ledger[Event(t)] \in Seq(Statuses) /\ Len(ledger[Event(t)]) <= MaxParts
      /\ \A i \in DOMAIN ledger[Event(t)] :
            /\ ledger[Event(t)][i] \in {"pending", "no_reply"} => calls[Event(t)][i] = 0
            /\ ledger[Event(t)][i] \in {"sent", "archived"} => calls[Event(t)][i] = 1
    BY <1>1, PlanOf
<1> QED  BY <1>2, <1>3, <1>4, <1>5, <1>6, <1>7, TurnGoes

LEMMA TransitionStep ==
    ASSUME IInv, NEW t \in Turns, Holds(t), ~turn[t].acted,
           turn[t].step \in {"claim", "undo", "sent", "unknown", "archived"},
           NEW before \in Statuses, NEW after \in Statuses, Transition(t, before, after), UNCHANGED Rest,
           after \in {"pending", "no_reply"} => calls[Event(t)][turn[t].part] = 0,
           after \in {"sent", "archived"} => calls[Event(t)][turn[t].part] = 1,
           turn[t].step = "claim" => before = "pending" /\ after = "sending"
    PROVE  IInv'
<1> DEFINE e == Event(t)
           i == turn[t].part
           plan == IF Row(t) = before THEN [ledger[e] EXCEPT ![i] = after] ELSE ledger[e]
<1>1. /\ turn[t].rows \in Seq(Statuses) /\ RowsFit(turn[t]) /\ e = turn[t].event /\ e \in Events
      /\ i \in DOMAIN ledger[e] /\ (i > 1 => calls[e][i - 1] = 1) /\ Row(t) = ledger[e][i]
      /\ (turn[t].step \in Past => calls[e][i] = 1)
    <2>1. /\ turn[t].rows \in Seq(Statuses) /\ RowsFit(turn[t]) /\ e = turn[t].event /\ e \in Events
          /\ PartFits(turn[t])
        BY Holding
    <2> QED  BY <2>1 DEF PartFits, Past, Row
<1>2. /\ ledger[e] \in Seq(Statuses) /\ Len(ledger[e]) <= MaxParts
      /\ \A j \in DOMAIN ledger[e] :
            /\ ledger[e][j] \in {"pending", "no_reply"} => calls[e][j] = 0
            /\ ledger[e][j] \in {"sent", "archived"} => calls[e][j] = 1
    BY <1>1, PlanOf
<1>3. ledger' = [ledger EXCEPT ![e] = plan]
    BY <1>1, Types DEF Transition
<1>4. /\ plan \in Seq(Statuses) /\ Len(plan) = Len(ledger[e]) /\ DOMAIN plan = DOMAIN ledger[e]
      /\ \A j \in DOMAIN ledger[e] : plan[j] = IF j = i /\ Row(t) = before THEN after ELSE ledger[e][j]
    <2>1. CASE Row(t) = before
        BY <1>1, <1>2, <2>1
    <2>2. CASE Row(t) # before
        BY <1>1, <1>2, <2>2
    <2> QED  BY <2>1, <2>2
<1>5. PICK r \in TurnRecord :
        /\ turn' = [turn EXCEPT ![t] = r] /\ r.event = e /\ r.step = turn[t].step
        /\ r.acted = TRUE /\ (r.ok = TRUE => Row(t) = before) /\ r.rows = turn[t].rows
        /\ r.part = i
    <2> DEFINE ok == Row(t) = before
    <2>1. ok \in BOOLEAN /\ Acts(t, ok, turn[t].rows) /\ (ok = TRUE => Row(t) = before)
        BY DEF Transition
    <2> HIDE DEF ok
    <2>2. PICK r \in TurnRecord :
            /\ turn' = [turn EXCEPT ![t] = r] /\ r.event = e /\ r.step = turn[t].step
            /\ r.acted = TRUE /\ r.ok = ok /\ r.rows = turn[t].rows /\ r.part = i
        <3>1. turn[t] \in TurnRecord
            BY Holding
        <3>2. [turn[t] EXCEPT !.acted = TRUE, !.ok = ok, !.rows = turn[t].rows] \in TurnRecord
            BY <2>1, <3>1 DEF TurnRecord
        <3> QED  BY <1>1, <2>1, <3>1, <3>2 DEF Acts, TurnRecord
    <2> QED  BY <2>1, <2>2
<1>6. ledger'[e] = plan /\ UNCHANGED <<pending, calls, late, message, said, allowed, upsets>>
    BY <1>1, <1>3, Types DEF Rest, Transition, Keeps
<1> HIDE DEF plan, e, i
<1>7. \A j \in DOMAIN plan :
        /\ plan[j] \in {"pending", "no_reply"} => calls[e][j] = 0
        /\ plan[j] \in {"sent", "archived"} => calls[e][j] = 1
    <2> SUFFICES ASSUME NEW j \in DOMAIN plan
                 PROVE  /\ plan[j] \in {"pending", "no_reply"} => calls[e][j] = 0
                        /\ plan[j] \in {"sent", "archived"} => calls[e][j] = 1
        OBVIOUS
    <2>1. CASE j = i /\ Row(t) = before
        <3>1. plan[j] = after
            BY <1>4, <2>1
        <3> QED  BY <2>1, <3>1 DEF e, i
    <2>2. CASE ~(j = i /\ Row(t) = before)
        BY <1>2, <1>4, <2>2
    <2> QED  BY <2>1, <2>2
<1>8. RowsFit(r)'
    BY <1>1, <1>4, <1>5, <1>6 DEF RowsFit
<1>9. PartFits(r)'
    <2>1. (r.part \in DOMAIN ledger'[e]) /\ (r.part > 1 => calls'[e][r.part - 1] = 1)
        BY <1>1, <1>4, <1>5, <1>6
    <2>2. Claimed(r) => plan[i] = "sending" /\ calls[e][i] = 0
        <3> SUFFICES ASSUME Claimed(r)  PROVE plan[i] = "sending" /\ calls[e][i] = 0
            OBVIOUS
        <3>1. turn[t].step = "claim" /\ Row(t) = before
            BY <1>5 DEF Claimed, TurnRecord
        <3>2. plan[i] = "sending" /\ ledger[e][i] = "pending"
            BY <1>1, <1>4, <3>1
        <3> QED  BY <1>1, <1>2, <3>2
    <2>3. r.step \in Past => calls[e][i] = 1
        BY <1>1, <1>5
    <2>4. Claimed(r)' <=> Claimed(r)
        BY DEF Claimed
    <2> QED  BY <1>5, <1>6, <2>1, <2>2, <2>3, <2>4 DEF PartFits
<1>10. /\ r.step \notin {"absent", "gone", "lock"} /\ r.step # "preflight"
    BY <1>5
<1>11. Fits(r)'
    BY <1>8, <1>9 DEF Fits
<1>12. /\ message' \in [Events -> {"none", "live", "purged"}] /\ said' \in [Events -> SUBSET Parts]
       /\ allowed' \in [Conversations -> BOOLEAN] /\ upsets' \in 0..MaxUpsets
       /\ \A x \in Events : message[x] # "none" => message'[x] = message[x]
    BY <1>6, Types
<1>13. Len(plan) <= MaxParts /\ Len(plan) = Len(ledger[e]) /\ plan \in Seq(Statuses)
    BY <1>2, <1>4
<1> QED  BY <1>3, <1>5, <1>6, <1>7, <1>10, <1>11, <1>12, <1>13, TurnGoes DEF e

\* The rows are read again, or a plan is made where there is none.
LEMMA RowsStep ==
    ASSUME IInv, NEW t \in Turns, Holds(t), turn[t].step \in {"parts", "silence", "plan"},
           NEW plan \in Seq(Statuses), NEW rows \in Seq(Statuses), Acts(t, TRUE, rows), UNCHANGED Rest,
           Keeps, ledger' = [ledger EXCEPT ![Event(t)] = plan], Len(plan) <= MaxParts,
           ledger[Event(t)] # <<>> => plan = ledger[Event(t)],
           ledger[Event(t)] = <<>> =>
               \A i \in DOMAIN plan : plan[i] \notin {"sent", "archived"},
           rows # <<>> => rows = plan
    PROVE  IInv'
<1> DEFINE e == Event(t)
<1>1. /\ turn[t] \in TurnRecord /\ e = turn[t].event /\ e \in Events
      /\ ledger[e] \in Seq(Statuses) /\ ledger \in [Events -> Seq(Statuses)]
    BY Holding, Types
<1>2. \A i \in DOMAIN plan : /\ plan[i] \in {"pending", "no_reply"} => calls[e][i] = 0
                             /\ plan[i] \in {"sent", "archived"} => calls[e][i] = 1
    <2>1. CASE ledger[e] = <<>>
        <3>1. \A i \in Parts : calls[e][i] = 0
            <4>1. \A i \in Parts : i \notin DOMAIN ledger[e]
                BY <2>1
            <4> QED  BY <1>1, <4>1 DEF IInv, LedgerOK
        <3>2. DOMAIN plan \subseteq Parts
            BY BoundsAssumption DEF Parts
        <3> QED  BY <2>1, <3>1, <3>2
    <2>2. CASE ledger[e] # <<>>
        BY <1>1, <2>2, PlanOf
    <2> QED  BY <2>1, <2>2
<1>3. PICK r \in TurnRecord :
        /\ turn' = [turn EXCEPT ![t] = r] /\ r.event = e /\ r.step = turn[t].step
        /\ r.rows = rows
    <2>1. [turn[t] EXCEPT !.acted = TRUE, !.ok = TRUE, !.rows = rows] \in TurnRecord
        BY <1>1 DEF TurnRecord
    <2> QED  BY <1>1, <2>1 DEF Acts, TurnRecord
<1>4. ledger'[e] = plan /\ UNCHANGED <<pending, calls, late, message, said, allowed, upsets>>
    BY <1>1 DEF Rest, Keeps
<1>5. RowsFit(r)'
    BY <1>2, <1>3, <1>4 DEF RowsFit
<1>6. PartFits(r)' /\ r.step \notin {"absent", "gone", "lock", "preflight"}
    BY <1>3 DEF PartFits, Claimed, Past
<1>7. Fits(r)'
    BY <1>5, <1>6 DEF Fits
<1>8. /\ message' \in [Events -> {"none", "live", "purged"}] /\ said' \in [Events -> SUBSET Parts]
      /\ allowed' \in [Conversations -> BOOLEAN] /\ upsets' \in 0..MaxUpsets
      /\ \A x \in Events : message[x] # "none" => message'[x] = message[x]
    BY <1>4, Types
<1>9. ledger[e] # <<>> => Len(plan) = Len(ledger[e])
    OBVIOUS
<1>10. UNCHANGED <<pending, calls, late>>
    BY <1>4
<1> QED  BY <1>2, <1>3, <1>6, <1>7, <1>8, <1>9, <1>10, TurnGoes

LEMMA ReadStep ==
    ASSUME IInv, NEW t \in Turns, Holds(t), turn[t].step = "parts", ReadParts(t), UNCHANGED Rest
    PROVE  IInv'
<1>1. PICK plan \in Seq(Statuses) : plan = ledger[Event(t)]
    BY Holding, PlanOf
<1>2. ledger' = [ledger EXCEPT ![Event(t)] = plan]
    BY <1>1, Types DEF ReadParts
<1>3. Len(plan) <= MaxParts
    BY <1>1, Holding, PlanOf
<1>4. ledger[Event(t)] = <<>> => \A i \in DOMAIN plan : plan[i] \notin {"sent", "archived"}
    BY <1>1
<1> QED  BY <1>1, <1>2, <1>3, <1>4, RowsStep DEF ReadParts

LEMMA PlanStep ==
    ASSUME IInv, NEW t \in Turns, Holds(t), turn[t].step \in {"silence", "plan"},
           NEW statuses \in Seq(Statuses), Len(statuses) <= MaxParts,
           \A i \in DOMAIN statuses : statuses[i] \in {"pending", "no_reply"},
           Plan(t, statuses), UNCHANGED Rest
    PROVE  IInv'
<1> DEFINE e == Event(t)
<1>1. ledger[e] \in Seq(Statuses) /\ Len(ledger[e]) <= MaxParts
    BY Holding, PlanOf
<1>2. PICK made \in Seq(Statuses) : made = IF ledger[e] = <<>> THEN statuses ELSE ledger[e]
    BY <1>1
<1>3. /\ ledger' = IF Live(e) THEN [ledger EXCEPT ![e] = made] ELSE ledger
      /\ Acts(t, TRUE, IF Live(e) THEN made ELSE <<>>) /\ Keeps
    BY <1>2 DEF Plan
<1>4. CASE Live(e)
    <2>1. ledger' = [ledger EXCEPT ![e] = made] /\ Acts(t, TRUE, made)
        BY <1>3, <1>4
    <2>2. /\ Len(made) <= MaxParts /\ (ledger[e] # <<>> => made = ledger[e])
          /\ (ledger[e] = <<>> => \A i \in DOMAIN made : made[i] \notin {"sent", "archived"})
        BY <1>1, <1>2
    <2> QED  BY <1>3, <2>1, <2>2, RowsStep
<1>5. CASE ~Live(e)
    <2>1. PICK plan \in Seq(Statuses) : plan = ledger[e]
        BY <1>1
    <2>2. ledger' = [ledger EXCEPT ![e] = plan] /\ <<>> \in Seq(Statuses)
        <3>1. ledger' = ledger
            BY <1>3, <1>5
        <3> QED  BY <2>1, <3>1, Types
    <2>3. Acts(t, TRUE, <<>>)
        BY <1>3, <1>5
    <2>4. /\ Len(plan) <= MaxParts /\ (ledger[e] # <<>> => plan = ledger[e])
          /\ (ledger[e] = <<>> => \A i \in DOMAIN plan : plan[i] \notin {"sent", "archived"})
        BY <1>1, <2>1
    <2> QED  BY <1>3, <2>2, <2>3, <2>4, RowsStep
<1> QED  BY <1>4, <1>5

\* The private message is kept, its image described or its state read; the reply is kept.
LEMMA AsideStep ==
    ASSUME IInv, NEW t \in Turns, Holds(t), ~turn[t].acted, UNCHANGED Rest,
           \/ turn[t].step = "append" /\ AppendUser(t)
           \/ turn[t].step = "describe" /\ Describe(t)
           \/ turn[t].step \in {"check", "preflight"} /\ CheckLive(t)
           \/ turn[t].step = "persist" /\ (Persist(t) \/ ArchiveReply(t))
    PROVE  IInv'
<1>1. Event(t) \in Events /\ turn[t].part \in Parts
    BY Holding
<1>2. /\ message \in [Events -> {"none", "live", "purged"}] /\ said \in [Events -> SUBSET Parts]
      /\ turn[t].step \notin {"claim", "undo"}
    BY Types
<1>3. CASE turn[t].step = "append" /\ AppendUser(t)
    <2>1. /\ message' \in [Events -> {"none", "live", "purged"}] /\ said' \in [Events -> SUBSET Parts]
          /\ \A e \in Events : message[e] # "none" => message'[e] = message[e]
          /\ UNCHANGED ledger
        BY <1>1, <1>2, <1>3 DEF AppendUser
    <2> DEFINE ok == Open(t) /\ (message[Event(t)] = "none" \/ (Live(Event(t)) /\ (said[Event(t)] = {} \/ Saved(t))))
    <2>2. Acts(t, ok, turn[t].rows) /\ ok \in BOOLEAN
        BY <1>3 DEF AppendUser
    <2> HIDE DEF ok
    <2> QED  BY <1>2, <1>3, <2>1, <2>2, ActedAside
<1>4. CASE turn[t].step = "describe" /\ Describe(t)
    <2>1. PICK same \in BOOLEAN : Acts(t, same /\ Live(Event(t)), turn[t].rows)
        BY <1>4 DEF Describe
    <2> DEFINE ok == same /\ Live(Event(t))
    <2>2. Acts(t, ok, turn[t].rows) /\ ok \in BOOLEAN
        BY <2>1
    <2>3. /\ message' \in [Events -> {"none", "live", "purged"}] /\ said' \in [Events -> SUBSET Parts]
          /\ UNCHANGED <<ledger, message>>
        BY <1>2, <1>4 DEF Describe, Keeps
    <2> HIDE DEF ok
    <2> QED  BY <1>2, <1>4, <2>2, <2>3, ActedAside
<1>5. CASE turn[t].step \in {"check", "preflight"} /\ CheckLive(t)
    <2> DEFINE ok == Live(Event(t))
    <2>1. Acts(t, ok, turn[t].rows) /\ ok \in BOOLEAN
        BY <1>5 DEF CheckLive, Live
    <2>2. /\ message' \in [Events -> {"none", "live", "purged"}] /\ said' \in [Events -> SUBSET Parts]
          /\ UNCHANGED <<ledger, message>>
        BY <1>2, <1>5 DEF CheckLive, Keeps
    <2>3. ok => Live(Event(t))
        OBVIOUS
    <2> HIDE DEF ok
    <2> QED  BY <1>2, <1>5, <2>1, <2>2, <2>3, ActedAside
<1>6. CASE turn[t].step = "persist" /\ (Persist(t) \/ ArchiveReply(t))
    <2>1. PICK ok \in BOOLEAN : Acts(t, ok, turn[t].rows)
        BY <1>6 DEF Persist, ArchiveReply, Live
    <2>2. /\ message' \in [Events -> {"none", "live", "purged"}] /\ said' \in [Events -> SUBSET Parts]
          /\ UNCHANGED <<ledger, message>>
        BY <1>1, <1>2, <1>6 DEF Persist, ArchiveReply
    <2> QED  BY <1>2, <1>6, <2>1, <2>2, ActedAside
<1> QED  BY <1>3, <1>4, <1>5, <1>6

\* A transition of the ledger fits what was called.
LEMMA MovesStep ==
    ASSUME IInv, NEW t \in Turns, Holds(t), ~turn[t].acted, UNCHANGED Rest,
           \/ turn[t].step = "claim" /\ Transition(t, "pending", "sending")
           \/ turn[t].step = "undo" /\ Transition(t, "sending", "pending")
           \/ turn[t].step = "sent" /\ Transition(t, "sending", "sent")
           \/ turn[t].step = "unknown" /\ Transition(t, "sending", "unknown")
           \/ turn[t].step = "archived" /\ Transition(t, "sent", "archived")
    PROVE  IInv'
<1>1. PartFits(turn[t]) /\ Event(t) = turn[t].event
    BY Holding
<1>2. /\ turn[t].step = "undo" => calls[Event(t)][turn[t].part] = 0
      /\ turn[t].step \in Past => calls[Event(t)][turn[t].part] = 1
    BY <1>1 DEF PartFits, Claimed
<1>3. {"pending", "sending", "sent", "unknown", "archived"} \subseteq Statuses
    BY DEF Statuses
<1>4. CASE turn[t].step = "claim" /\ Transition(t, "pending", "sending")
    BY <1>3, <1>4, TransitionStep
<1>5. CASE turn[t].step = "undo" /\ Transition(t, "sending", "pending")
    BY <1>2, <1>3, <1>5, TransitionStep
<1>6. CASE turn[t].step = "sent" /\ Transition(t, "sending", "sent")
    BY <1>2, <1>3, <1>6, TransitionStep DEF Past
<1>7. CASE turn[t].step = "unknown" /\ Transition(t, "sending", "unknown")
    BY <1>2, <1>3, <1>7, TransitionStep
<1>8. CASE turn[t].step = "archived" /\ Transition(t, "sent", "archived")
    BY <1>2, <1>3, <1>8, TransitionStep DEF Past
<1> QED  BY <1>4, <1>5, <1>6, <1>7, <1>8

LEMMA ActStep ==
    ASSUME IInv, NEW t \in Turns, Act(t)
    PROVE  IInv'
<1>1. turn[t].step \in Threaded /\ ~turn[t].acted /\ Holds(t) /\ UNCHANGED Rest
    BY DEF Act, Holds, Running, Threaded, Rest
<1>2. CASE turn[t].step = "parts"
    BY <1>1, <1>2, ReadStep DEF Act
<1>3. CASE turn[t].step \in {"append", "describe", "check", "preflight", "persist"}
    <2>1. \/ turn[t].step = "append" /\ AppendUser(t)
          \/ turn[t].step = "describe" /\ Describe(t)
          \/ turn[t].step \in {"check", "preflight"} /\ CheckLive(t)
          \/ turn[t].step = "persist" /\ (Persist(t) \/ ArchiveReply(t))
        BY <1>3 DEF Act
    <2> QED  BY <1>1, <2>1, AsideStep
<1>4. CASE turn[t].step = "silence"
    <2>1. Plan(t, <<"no_reply">>)
        BY <1>4 DEF Act
    <2>2. PICK statuses \in Seq(Statuses) : statuses = <<"no_reply">>
        <3>1. "no_reply" \in Statuses
            BY DEF Statuses
        <3>2. <<"no_reply">> \in Seq(Statuses)
            BY <3>1
        <3> QED  BY <3>2
    <2>3. Len(statuses) <= MaxParts /\ \A i \in DOMAIN statuses : statuses[i] \in {"pending", "no_reply"}
        <3>1. Len(statuses) = 1 /\ DOMAIN statuses = {1} /\ statuses[1] = "no_reply"
            BY <2>2
        <3>2. 1 <= MaxParts
            BY BoundsAssumption
        <3> QED  BY <3>1, <3>2
    <2>4. Plan(t, statuses)
        BY <2>1, <2>2
    <2> QED  BY <1>1, <1>4, <2>3, <2>4, PlanStep
<1>5. CASE turn[t].step = "plan"
    <2>1. Plan(t, [i \in 1..turn[t].want |-> "pending"])
        BY <1>5 DEF Act
    <2>2. turn[t].want \in 0..MaxParts
        BY Types DEF TurnRecord
    <2>3. PICK statuses : statuses = [i \in 1..turn[t].want |-> "pending"]
        OBVIOUS
    <2>4. /\ statuses \in Seq(Statuses) /\ Len(statuses) = turn[t].want
          /\ \A i \in DOMAIN statuses : statuses[i] \in {"pending", "no_reply"}
        BY <2>2, <2>3 DEF Statuses
    <2>5. Len(statuses) <= MaxParts
        BY <2>2, <2>4, BoundsAssumption
    <2>6. Plan(t, statuses)
        BY <2>1, <2>3
    <2> QED  BY <1>1, <1>5, <2>4, <2>5, <2>6, PlanStep
<1>6. CASE turn[t].step \in {"claim", "undo", "sent", "unknown", "archived"}
    <2>1. \/ turn[t].step = "claim" /\ Transition(t, "pending", "sending")
          \/ turn[t].step = "undo" /\ Transition(t, "sending", "pending")
          \/ turn[t].step = "sent" /\ Transition(t, "sending", "sent")
          \/ turn[t].step = "unknown" /\ Transition(t, "sending", "unknown")
          \/ turn[t].step = "archived" /\ Transition(t, "sent", "archived")
        BY <1>6 DEF Act
    <2> QED  BY <1>1, <2>1, MovesStep
<1> QED  BY <1>1, <1>2, <1>3, <1>4, <1>5, <1>6 DEF Threaded

-----------------------------------------------------------------------------
(* How a turn goes on.                                                          *)

\* The steps a turn goes to without a claim and before any call.
Free == {"parts", "append", "describe", "check", "silence", "plan", "see", "think"}
\* A turn goes to a step that needs no more than what it has.
LEMMA GoesStep ==
    ASSUME IInv, NEW t \in Turns, Holds(t), NEW step \in Free \cup {"preflight", "undo"} \cup Past,
           Goes(t, step), UNCHANGED <<ledger, message, said, allowed, calls, late>>,
           upsets' \in 0..MaxUpsets,
           step \in {"preflight", "undo"} => Claimed(turn[t]),
           step \in Past => turn[t].step \in Past
    PROVE  IInv'
<1>1. /\ turn[t] \in TurnRecord /\ Event(t) = turn[t].event
      /\ RowsFit(turn[t]) /\ PartFits(turn[t])
    BY Holding
<1>2. PICK r \in TurnRecord :
        /\ turn' = [turn EXCEPT ![t] = r] /\ r.event = Event(t) /\ r.step = step
        /\ r.acted = FALSE /\ r.ok = FALSE /\ r.rows = turn[t].rows /\ r.part = turn[t].part
    <2>1. [turn[t] EXCEPT !.step = step, !.acted = FALSE, !.ok = FALSE] \in TurnRecord
        BY <1>1 DEF TurnRecord, Threaded, Waits, Free, Past
    <2> QED  BY <1>1, <2>1 DEF Goes, TurnRecord
<1>3. Claimed(turn[t]) => turn[t].step \in {"claim", "preflight", "undo"}
    BY DEF Claimed
<1>4. RowsFit(r)
    BY <1>1, <1>2 DEF RowsFit
<1>5. PartFits(r)
    <2>1. Claimed(r) => step \in {"preflight", "undo"}
        BY <1>2 DEF Claimed
    <2>2. r.step \in {"claim", "preflight", "undo"} \cup Past =>
            turn[t].step \in {"claim", "preflight", "undo"} \cup Past
        BY <1>2, <1>3 DEF Free, Past
    <2> QED  BY <1>1, <1>2, <2>1, <2>2 DEF PartFits
<1>6. Fits(r) /\ r.step \notin {"absent", "gone", "lock"}
    BY <1>2, <1>4, <1>5 DEF Fits, Free, Past
<1>7. UNCHANGED pending /\ r.ok = FALSE
    BY <1>2 DEF Goes
<1>8. UNCHANGED <<pending, calls, late, ledger, message, said, allowed>>
      /\ ~(r.step = "preflight" /\ r.acted /\ r.ok)
    BY <1>7
<1> QED  BY <1>2, <1>6, <1>8, TurnThinks

\* A turn that takes the lock has read nothing yet.
LEMMA LockStep ==
    ASSUME IInv, NEW t \in Turns, Lock(t)
    PROVE  IInv'
<1>1. /\ turn[t].step = "lock" /\ Running(t) /\ \A u \in Turns : Holds(u) => Of(Event(u)) # Of(Event(t))
      /\ UNCHANGED <<ledger, message, said, calls, late, allowed, upsets>>
    BY DEF Lock, Running
<1>2. allowed' \in [Conversations -> BOOLEAN] /\ upsets' \in 0..MaxUpsets
    BY <1>1, Types
<1>3. CASE Ends(t)
    BY <1>1, <1>2, <1>3, TurnEnds
<1>4. CASE Goes(t, "parts")
    <2>1. turn[t] \in TurnRecord /\ turn[t].rows = <<>>
        BY <1>1, Types DEF IInv, TurnsOK
    <2>2. PICK r \in TurnRecord :
            /\ turn' = [turn EXCEPT ![t] = r] /\ r.event = Event(t) /\ r.step = "parts"
            /\ r.rows = <<>>
        <3>1. [turn[t] EXCEPT !.step = "parts", !.acted = FALSE, !.ok = FALSE] \in TurnRecord
            BY <2>1 DEF TurnRecord, Threaded
        <3> QED  BY <1>4, <2>1, <3>1 DEF Goes, TurnRecord, Event
    <2>3. Fits(r)
        BY <2>2 DEF Fits, RowsFit, PartFits, Claimed, Past
    <2>4. UNCHANGED <<pending, calls, late, ledger, message, said, allowed>>
        BY <1>1, <1>4 DEF Goes
    <2> QED  BY <1>1, <1>2, <2>2, <2>3, <2>4, TurnThinks
<1> QED  BY <1>3, <1>4 DEF Lock

\* What is decided is checked, recorded or planned.
LEMMA DecidesStep ==
    ASSUME IInv, NEW t \in Turns, Holds(t), NEW plan \in {"reply", "notice", "silence"}, NEW n \in Parts,
           Decides(t, plan, n), UNCHANGED <<ledger, message, said, calls, late, allowed, upsets>>
    PROVE  IInv'
<1>1. /\ turn[t] \in TurnRecord /\ Event(t) = turn[t].event
      /\ RowsFit(turn[t]) /\ PartFits(turn[t])
    BY Holding
<1>2. PICK step \in {"check", "silence", "plan"} :
        turn' = [turn EXCEPT ![t] =
            [@ EXCEPT !.plan = plan, !.want = n, !.acted = FALSE, !.ok = FALSE, !.step = step]]
    <2>1. PICK step \in {"check", "silence", "plan"} :
            step = CASE Event(t) \in Private -> "check"
                     [] plan = "silence" -> "silence"
                     [] OTHER -> "plan"
        OBVIOUS
    <2> QED  BY <2>1 DEF Decides
<1>3. PICK r \in TurnRecord :
        /\ turn' = [turn EXCEPT ![t] = r] /\ r.event = Event(t) /\ r.step = step
        /\ r.rows = turn[t].rows
    <2>1. n \in 0..MaxParts
        BY BoundsAssumption DEF Parts
    <2>2. [turn[t] EXCEPT !.plan = plan, !.want = n, !.acted = FALSE, !.ok = FALSE, !.step = step]
            \in TurnRecord
        BY <1>1, <2>1 DEF TurnRecord, Threaded
    <2> QED  BY <1>1, <1>2, <2>2 DEF TurnRecord
<1>4. Fits(r) /\ r.step \notin {"absent", "gone", "lock"}
    BY <1>1, <1>3 DEF Fits, RowsFit, PartFits, Claimed, Past
<1>5. UNCHANGED <<pending, calls, late, ledger, message, said, allowed>> /\ r.step # "preflight"
      /\ upsets' \in 0..MaxUpsets
    BY <1>3, Types DEF Decides
<1> QED  BY <1>3, <1>4, <1>5, TurnThinks

\* The first number of a set.
LEMMA FirstOf ==
    ASSUME NEW S \in SUBSET Nat, S # {}
    PROVE  \E i \in S : \A j \in S : i <= j
<1>1. PICK i \in S : \A j \in S : <<j, i>> \notin OpToRel(<, Nat)
    BY NatLessThanWellFounded, WFMin
<1>2. ASSUME NEW j \in S  PROVE i <= j
    <2>1. <<j, i>> \in Nat \X Nat
        OBVIOUS
    <2>2. ~ (j < i)
        BY <1>1, <2>1 DEF OpToRel
    <2> QED  BY <2>2
<1> QED  BY <1>2

\* The next part is one whose predecessor was sent.
LEMMA NextStep ==
    ASSUME IInv, NEW t \in Turns, Holds(t), NEW i \in Nat \ {0}, NextPart(t, i),
           i > 1 /\ turn[t].rows # <<>> => calls[Event(t)][i - 1] = 1,
           UNCHANGED <<ledger, message, said, calls, late, allowed, upsets>>
    PROVE  IInv'
<1> DEFINE e == Event(t)
           rows == turn[t].rows
           rest == {j \in i..Len(rows) : rows[j] # "archived"}
           j == CHOOSE k \in rest : \A l \in rest : k <= l
<1>1. /\ turn[t] \in TurnRecord /\ e = turn[t].event /\ e \in Events /\ rows \in Seq(Statuses)
      /\ RowsFit(turn[t]) /\ Running(t)
    BY Holding DEF Holds
<1>2. allowed' \in [Conversations -> BOOLEAN] /\ upsets' \in 0..MaxUpsets
    BY Types
<1>3. CASE Ends(t)
    BY <1>1, <1>2, <1>3, TurnEnds
<1>4. CASE ~Ends(t)
    <2>1. /\ rest # {} /\ rows[j] \in {"pending", "sent"}
          /\ turn' = [turn EXCEPT ![t] =
                [@ EXCEPT !.part = j, !.acted = FALSE, !.ok = FALSE,
                          !.step = IF rows[j] = "sent" THEN "persist" ELSE "claim"]]
          /\ UNCHANGED pending
        BY <1>4 DEF NextPart
    <2>2. rest \in SUBSET Nat
        BY <1>1
    <2>3. j \in rest /\ \A l \in rest : j <= l
        BY <2>1, <2>2, FirstOf
    <2>4. PICK p : p = j
        OBVIOUS
    <2>5. p \in i..Len(rows) /\ rows[p] \in {"pending", "sent"} /\ \A l \in i..(p - 1) : rows[l] = "archived"
        <3>1. \A l \in rest : p <= l
            BY <2>3, <2>4
        <3>2. p \in i..Len(rows) /\ rows[p] \in {"pending", "sent"}
            BY <2>1, <2>3, <2>4
        <3> QED  BY <1>1, <3>1, <3>2
    <2>6. /\ Len(rows) = Len(ledger[e]) /\ p \in DOMAIN ledger[e] /\ p \in Parts /\ p \in DOMAIN rows
          /\ \A l \in DOMAIN rows : rows[l] \in {"sent", "archived"} => calls[e][l] = 1
        <3>1. rows # <<>> /\ p \in DOMAIN rows
            BY <1>1, <2>5
        <3>2. Len(rows) = Len(ledger[e])
              /\ \A l \in DOMAIN rows : rows[l] \in {"sent", "archived"} => calls[e][l] = 1
            BY <1>1, <3>1 DEF RowsFit
        <3>3. ledger[e] \in Seq(Statuses) /\ DOMAIN ledger[e] \subseteq Parts
            BY <1>1, PlanOf
        <3> QED  BY <1>1, <3>1, <3>2, <3>3
    <2> HIDE DEF j, rest
    <2>7. p > 1 => calls[e][p - 1] = 1
        <3>1. CASE p = i
            BY <1>1, <2>6, <3>1
        <3>2. CASE p # i
            <4>1. p - 1 \in i..(p - 1) /\ p - 1 \in DOMAIN rows
                BY <1>1, <2>5, <2>6, <3>2
            <4> QED  BY <2>5, <2>6, <4>1
        <3> QED  BY <3>1, <3>2
    <2>8. PICK r \in TurnRecord :
            /\ turn' = [turn EXCEPT ![t] = r] /\ r.event = e
            /\ r.step = (IF rows[p] = "sent" THEN "persist" ELSE "claim") /\ r.acted = FALSE
            /\ r.rows = rows /\ r.part = p
        <3>1. PICK step \in {"persist", "claim"} : step = IF rows[p] = "sent" THEN "persist" ELSE "claim"
            OBVIOUS
        <3>2. [turn[t] EXCEPT !.part = p, !.acted = FALSE, !.ok = FALSE, !.step = step] \in TurnRecord
            BY <1>1, <2>6 DEF TurnRecord, Threaded
        <3>3. turn' = [turn EXCEPT ![t] =
                [turn[t] EXCEPT !.part = p, !.acted = FALSE, !.ok = FALSE, !.step = step]]
            BY <2>1, <2>4, <3>1
        <3> QED  BY <1>1, <3>1, <3>2, <3>3 DEF TurnRecord
    <2>9. RowsFit(r)
        BY <1>1, <2>8 DEF RowsFit
    <2>10. PartFits(r)
        BY <2>6, <2>7, <2>8 DEF PartFits, Claimed, Past
    <2>11. Fits(r) /\ r.step \notin {"absent", "gone", "lock"} /\ r.step # "preflight"
        BY <2>8, <2>9, <2>10 DEF Fits
    <2>12. UNCHANGED <<pending, calls, late, ledger, message, said, allowed>>
        BY <2>1
    <2> QED  BY <1>2, <2>8, <2>11, <2>12, TurnThinks
<1> QED  BY <1>3, <1>4

\* The work that leads to a plan ends or goes to a step that is free.
LEMMA FreeStep ==
    ASSUME IInv, NEW t \in Turns, Holds(t), Ends(t) \/ \E step \in Free : Goes(t, step),
           UNCHANGED <<ledger, message, said, calls, late, allowed, upsets>>
    PROVE  IInv'
<1>1. allowed' \in [Conversations -> BOOLEAN] /\ upsets' \in 0..MaxUpsets /\ Running(t)
    BY Types DEF Holds
<1>2. CASE Ends(t)
    BY <1>1, <1>2, TurnEnds
<1>3. ASSUME NEW step \in Free, Goes(t, step)  PROVE IInv'
    <2>1. step \notin {"preflight", "undo"} \cup Past
        BY DEF Free, Past
    <2> QED  BY <1>1, <1>3, <2>1, GoesStep
<1> QED  BY <1>2, <1>3

LEMMA Ways ==
    ASSUME NEW t \in Turns, AfterParts(t) \/ Checks(t) \/ AfterCheck(t)
    PROVE  Ends(t) \/ \E step \in Free : Goes(t, step)
<1>1. {"append", "see", "check", "silence", "plan", "think"} \subseteq Free
    BY DEF Free
<1>2. AfterCheck(t) => \E step \in Free : Goes(t, step)
    BY <1>1 DEF AfterCheck
<1>3. Checks(t) => \E step \in Free : Goes(t, step)
    BY <1>1, <1>2 DEF Checks
<1>4. AfterParts(t) => Ends(t) \/ \E step \in Free : Goes(t, step)
    BY <1>1, <1>3 DEF AfterParts
<1> QED  BY <1>2, <1>3, <1>4

\* A turn that is cancelled undoes its own claim, or leaves a call it has begun unknown.
LEMMA CancelledStep ==
    ASSUME IInv, NEW t \in Turns, Running(t), turn[t].step = "claim" => turn[t].acted, Cancelled(t),
           UNCHANGED <<ledger, message, said, calls, late, allowed, upsets>>
    PROVE  IInv'
<1>1. allowed' \in [Conversations -> BOOLEAN] /\ upsets' \in 0..MaxUpsets
    BY Types
<1>2. CASE turn[t].step = "call"
    <2>1. Goes(t, "unknown") /\ Holds(t) /\ "unknown" \in Past /\ turn[t].step \in Past
        BY <1>2 DEF Cancelled, Holds, Past
    <2> QED  BY <1>1, <2>1, GoesStep
<1>3. CASE turn[t].step = "preflight" \/ (turn[t].step = "claim" /\ turn[t].ok)
    <2>1. Goes(t, "undo") /\ Holds(t) /\ Claimed(turn[t]) /\ "undo" \notin Past
        BY <1>3 DEF Cancelled, Holds, Claimed, Past
    <2> QED  BY <1>1, <2>1, GoesStep
<1>4. CASE Ends(t)
    BY <1>1, <1>4, TurnEnds
<1> QED  BY <1>2, <1>3, <1>4 DEF Cancelled

LEMMA ProceedsStep ==
    ASSUME IInv, NEW t \in Turns, turn[t].step \in Threaded, turn[t].acted, Proceeds(t),
           UNCHANGED <<ledger, message, said, allowed, upsets>>
    PROVE  IInv'
<1>1. Holds(t) /\ Running(t)
    BY DEF Threaded, Holds, Running
<1>2. allowed' \in [Conversations -> BOOLEAN] /\ upsets' \in 0..MaxUpsets
    BY Types
<1>3. CASE Ends(t) /\ Quiet
    BY <1>1, <1>2, <1>3, TurnEnds DEF Quiet
<1>4. ASSUME Ends(t) \/ \E step \in Free : Goes(t, step), Quiet  PROVE IInv'
    BY <1>1, <1>4, FreeStep DEF Quiet
<1>5. CASE turn[t].step \in {"parts", "append", "describe", "check"}
    <2>1. {"see", "check"} \subseteq Free
        BY DEF Free
    <2>2. (Ends(t) \/ \E step \in Free : Goes(t, step)) /\ Quiet
        BY <1>5, <2>1, Ways DEF Proceeds
    <2> QED  BY <1>4, <2>2
<1>6. CASE turn[t].step \in {"plan", "archived"}
    <2>1. turn[t].step = "plan" => NextPart(t, 1) /\ Quiet
        BY DEF Proceeds
    <2>2. turn[t].step = "archived" => NextPart(t, turn[t].part + 1) /\ Quiet
        BY DEF Proceeds
    <2>3. CASE turn[t].step = "plan"
        BY <1>1, <2>1, <2>3, NextStep DEF Quiet
    <2>4. CASE turn[t].step = "archived"
        <3>1. PICK i : i = turn[t].part + 1
            OBVIOUS
        <3>2. i \in Nat \ {0} /\ i - 1 = turn[t].part
            BY <1>1, <3>1, Holding, BoundsAssumption DEF Parts
        <3>3. calls[Event(t)][i - 1] = 1
            BY <1>1, <2>4, <3>2, Holding DEF PartFits, Past
        <3> QED  BY <1>1, <2>2, <2>4, <3>1, <3>2, <3>3, NextStep DEF Quiet
    <2> QED  BY <1>6, <2>3, <2>4
<1>7. CASE turn[t].step \in {"claim", "preflight"}
    <2>1. \/ Ends(t) /\ Quiet
          \/ Claimed(turn[t]) /\ (Goes(t, "undo") \/ Goes(t, "preflight")) /\ Quiet
          \/ Claimed(turn[t]) /\ Calls(t) /\ (Event(t) \in Private => Passed(t))
        <3>1. CASE turn[t].step = "claim"
            <4>1. IF ~turn[t].ok THEN Ends(t) /\ Quiet
                  ELSE IF ~Open(t) THEN Goes(t, "undo") /\ Quiet
                  ELSE IF Event(t) \in Private THEN Goes(t, "preflight") /\ Quiet ELSE Calls(t)
                BY <3>1 DEF Proceeds
            <4>2. turn[t].ok => Claimed(turn[t])
                BY <3>1 DEF Claimed
            <4> QED  BY <4>1, <4>2
        <3>2. CASE turn[t].step = "preflight"
            <4>1. IF turn[t].ok /\ Open(t) THEN Calls(t) ELSE Goes(t, "undo") /\ Quiet
                BY <3>2 DEF Proceeds
            <4>2. Claimed(turn[t]) /\ (turn[t].ok => Passed(t))
                BY <3>2 DEF Claimed, Passed
            <4> QED  BY <4>1, <4>2
        <3> QED  BY <1>7, <3>1, <3>2
    <2>2. CASE Claimed(turn[t]) /\ Calls(t) /\ (Event(t) \in Private => Passed(t))
        BY <1>1, <1>7, <2>2, TurnCalls
    <2>3. CASE Claimed(turn[t]) /\ (Goes(t, "undo") \/ Goes(t, "preflight")) /\ Quiet
        <3>1. "undo" \notin Past /\ "preflight" \notin Past
            BY DEF Past
        <3> QED  BY <1>1, <1>2, <2>3, <3>1, GoesStep DEF Quiet
    <2> QED  BY <1>3, <2>1, <2>2, <2>3
<1>8. CASE turn[t].step \in {"sent", "persist"}
    <2>1. (Ends(t) \/ Goes(t, "archived") \/ Goes(t, "persist")) /\ Quiet
        BY <1>8 DEF Proceeds
    <2>2. turn[t].step \in Past /\ {"archived", "persist"} \subseteq Past
        BY <1>8 DEF Past
    <2>3. CASE (Goes(t, "archived") \/ Goes(t, "persist")) /\ Quiet
        BY <1>1, <1>2, <2>2, <2>3, GoesStep DEF Quiet
    <2> QED  BY <1>3, <2>1, <2>3
<1>9. CASE turn[t].step \in {"silence", "undo", "unknown"}
    BY <1>3, <1>9 DEF Proceeds
<1> QED  BY <1>5, <1>6, <1>7, <1>8, <1>9 DEF Threaded

LEMMA GoOnStep ==
    ASSUME IInv, NEW t \in Turns, GoOn(t)
    PROVE  IInv'
<1>1. turn[t].step \in Threaded /\ turn[t].acted /\ Running(t)
      /\ UNCHANGED <<ledger, message, said, allowed, upsets>>
    BY DEF GoOn, Threaded, Running
<1>2. CASE Cancelled(t) /\ Quiet
    BY <1>1, <1>2, CancelledStep DEF Quiet
<1>3. CASE Proceeds(t)
    BY <1>1, <1>3, ProceedsStep
<1> QED  BY <1>2, <1>3 DEF GoOn

LEMMA StopStep ==
    ASSUME IInv, NEW t \in Turns, Stop(t)
    PROVE  IInv'
<1>1. Running(t) /\ turn[t].step # "claim" /\ Cancelled(t)
      /\ UNCHANGED <<ledger, message, said, calls, late, allowed, upsets>>
    BY DEF Stop, Waits, Running
<1> QED  BY <1>1, CancelledStep

LEMMA SeeStep ==
    ASSUME IInv, NEW t \in Turns, See(t)
    PROVE  IInv'
<1>1. Holds(t) /\ Running(t) /\ UNCHANGED <<ledger, message, said, calls, late, allowed, upsets>>
    BY DEF See, Holds, Running
<1>2. CASE Decides(t, "notice", 1)
    <2>1. 1 \in Parts
        BY BoundsAssumption DEF Parts
    <2> QED  BY <1>1, <1>2, <2>1, DecidesStep
<1>3. CASE Ends(t) \/ Checks(t) \/ Goes(t, "describe")
    <2>1. "describe" \in Free
        BY DEF Free
    <2>2. Ends(t) \/ \E step \in Free : Goes(t, step)
        BY <1>3, <2>1, Ways
    <2> QED  BY <1>1, <2>2, FreeStep
<1> QED  BY <1>2, <1>3 DEF See, SeePrivate, SeeGroup

LEMMA ThinkStep ==
    ASSUME IInv, NEW t \in Turns, Think(t)
    PROVE  IInv'
<1>1. Holds(t) /\ Running(t) /\ UNCHANGED <<ledger, message, said, calls, late, allowed, upsets>>
    BY DEF Think, Holds, Running
<1>2. 1 \in Parts
    BY BoundsAssumption DEF Parts
<1>3. ASSUME NEW n \in Parts, NEW plan \in {"reply", "notice", "silence"}, Decides(t, plan, n)
      PROVE  IInv'
    BY <1>1, <1>3, DecidesStep
<1>4. CASE Ends(t)
    BY <1>1, <1>4, FreeStep
<1> QED  BY <1>2, <1>3, <1>4 DEF Think

LEMMA AnswerStep ==
    ASSUME IInv, NEW t \in Turns, Answer(t)
    PROVE  IInv'
<1>1. Holds(t) /\ turn[t].step \in Past /\ {"sent", "unknown"} \subseteq Past
      /\ UNCHANGED <<ledger, message, said, calls, late, allowed>>
    BY DEF Answer, Holds, Running, Past
<1>2. upsets' \in 0..MaxUpsets
    BY Types, BoundsAssumption DEF Answer
<1>3. Goes(t, "sent") \/ Goes(t, "unknown")
    BY DEF Answer
<1>4. {"sent", "unknown"} \cap {"preflight", "undo"} = {}
    OBVIOUS
<1> QED  BY <1>1, <1>2, <1>3, <1>4, GoesStep

-----------------------------------------------------------------------------
(* The invariant.                                                               *)

LEMMA Initially == Init => IInv
<1> SUFFICES ASSUME Init  PROVE IInv
    OBVIOUS
<1>1. \A t \in Turns : turn[t] = Absent /\ turn[t] \in TurnRecord /\ turn[t].step = "absent"
    BY NoTurns DEF Init
<1>2. PICK n \in AtOnce - 2..AtOnce - 1 :
        pending = [c \in Conversations \cup {Others} |-> IF c = Others THEN n ELSE 0]
    BY DEF Init
<1>3. AtOnce \in Nat /\ AtOnce > 1 /\ n \in Nat /\ n <= AtOnce /\ PerConversation \in Nat
      /\ MaxUpsets \in Nat /\ MaxParts \in Nat
    BY BoundsAssumption
<1>4. pending[Others] = n /\ (\A c \in Conversations : pending[c] = 0) /\ Conversations = {"private", "group"}
    BY <1>2 DEF Conversations, Others
<1>5. Typed
    <2>1. turn \in [Turns -> TurnRecord]
        BY <1>1 DEF Init
    <2>2. pending \in [Conversations \cup {Others} -> Nat]
        BY <1>2, <1>3
    <2>3. <<>> \in Seq(Statuses) /\ Len(<<>>) = 0
        OBVIOUS
    <2>4. /\ ledger \in [Events -> Seq(Statuses)]
          /\ \A e \in Events : Len(ledger[e]) <= MaxParts
        BY <1>3, <2>3 DEF Init
    <2> QED  BY <1>3, <2>1, <2>2, <2>4 DEF Init, Typed
<1>6. SlotsOK
    <2>1. \A c \in Conversations : In(c) = {}
        BY <1>1 DEF In, Running
    <2>2. Admitted = n
        BY <1>3, <1>4 DEF Admitted
    <2> QED  BY <1>3, <1>4, <2>1, <2>2, FS_EmptySet DEF SlotsOK
<1>7. Exclusive /\ TurnsOK
    BY <1>1 DEF Exclusive, TurnsOK, Holds, Running
<1>8. LedgerOK
    <2>1. \A e \in Events : DOMAIN ledger[e] = {}
        BY DEF Init
    <2>2. \A e \in Events, i \in Parts : calls[e][i] = 0
        BY DEF Init
    <2> QED  BY <2>1, <2>2 DEF LedgerOK
<1>9. LateOK
    BY <1>1 DEF Init, LateOK, Passed
<1> QED  BY <1>5, <1>6, <1>7, <1>8, <1>9 DEF IInv

LEMMA Preserved == IInv /\ [Next]_vars => IInv'
<1> SUFFICES ASSUME IInv, [Next]_vars  PROVE IInv'
    OBVIOUS
<1>1. ASSUME NEW t \in Turns, NEW e \in Events, Arrive(t, e)  PROVE IInv'
    BY <1>1, ArriveStep
<1>2. ASSUME NEW t \in Turns, Step(t)  PROVE IInv'
    BY <1>2, ActStep, GoOnStep, StopStep, LockStep DEF Step
<1>3. ASSUME NEW t \in Turns, Deadline(t) \/ See(t) \/ Think(t) \/ Answer(t)  PROVE IInv'
    BY <1>3, DeadlineStep, SeeStep, ThinkStep, AnswerStep
<1>4. ASSUME (\E c \in Conversations : Flip(c)) \/ (\E e \in Private : PurgeExpired(e)) \/ Clear  PROVE IInv'
    BY <1>4, UpsetStep
<1>5. CASE Crash
    BY <1>5, CrashStep
<1>6. CASE UNCHANGED vars
    <2> USE <1>6 DEF vars, IInv
    <2>1. Typed'
        BY DEF Typed
    <2>2. SlotsOK'
        BY SlotsStay DEF Running, Event
    <2>3. Exclusive' /\ LedgerOK'
        BY DEF Exclusive, Holds, Running, Event, LedgerOK
    <2>4. TurnsOK'
        BY DEF TurnsOK, Holds, Running, Fits, RowsFit, PartFits, Claimed
    <2>5. LateOK'
        BY DEF LateOK, Passed, Event, Live
    <2> QED  BY <2>1, <2>2, <2>3, <2>4, <2>5
<1> QED  BY <1>1, <1>2, <1>3, <1>4, <1>5, <1>6 DEF Next

\* The slots are those of the turns that run, one turn of a conversation holds its lock,
\* the ledger is true of the calls, and what a turn knows of its reply holds.
THEOREM Inductive == Spec => []IInv
BY Initially, Preserved, PTL DEF Spec

\* However often a message comes, however its turns overlap and wherever they are cut off,
\* no part of its reply is sent twice or before the one it follows.
THEOREM Once == Spec => []PartsAreSafe
<1>1. IInv => TypeOK
    <2> SUFFICES ASSUME IInv  PROVE TypeOK
        OBVIOUS
    <2>1. \A t \in Turns :
            /\ turn[t].event \in Events
            /\ turn[t].step \in Threaded \cup Waits \cup {"absent", "gone"}
            /\ {turn[t].acted, turn[t].ok, turn[t].ended} \subseteq BOOLEAN
            /\ turn[t].rows \in Seq(Statuses) /\ turn[t].part \in Parts
            /\ turn[t].want \in 0..MaxParts /\ turn[t].plan \in {"none", "reply", "notice", "silence"}
        BY Types DEF TurnRecord
    <2>2. /\ \A c \in Conversations : pending[c] \in 0..PerConversation
          /\ pending[Others] \in 0..AtOnce /\ Admitted <= AtOnce
        <3>1. /\ pending["private"] \in Nat /\ pending["group"] \in Nat /\ pending[Others] \in Nat
              /\ \A c \in Conversations : pending[c] \in Nat /\ pending[c] <= PerConversation
              /\ pending["private"] + pending["group"] + pending[Others] <= AtOnce
            BY DEF IInv, Typed, SlotsOK, Admitted, Conversations
        <3>2. PerConversation \in Nat /\ AtOnce \in Nat
            BY BoundsAssumption
        <3> QED  BY <3>1, <3>2 DEF Admitted
    <2>3. calls \in [Events -> [Parts -> 0..2]]
        <3>1. \A e \in Events : calls[e] \in [Parts -> 0..2]
            BY Types
        <3> QED  BY <3>1, Types
    <2> QED  BY <2>1, <2>2, <2>3 DEF IInv, Typed, TypeOK
<1>2. IInv => PartsAreSafe
    <2> SUFFICES ASSUME IInv  PROVE PartsAreSafe
        OBVIOUS
    <2>1. \A e \in Events, i \in Parts : calls[e][i] \in {0, 1}
        BY Types
    <2>2. \A e \in Events, i \in Parts : calls[e][i] <= 1
        BY <2>1
    <2> QED  BY <1>1, <2>2 DEF IInv, LedgerOK, PartsAreSafe
<1> QED  BY <1>2, Inductive, PTL

\* A thread writes for a message that is purged neither a reply nor over a cancelled part.
LEMMA ActClears ==
    ASSUME IInv, NEW t \in Turns, Act(t), NEW e \in Private, message[e] = "purged"
    PROVE  /\ message'[e] = "purged" /\ said'[e] = said[e]
           /\ \A i \in DOMAIN ledger[e] : ledger[e][i] = "cancelled" => ledger'[e][i] = "cancelled"
<1> DEFINE Clears == /\ message'[e] = "purged" /\ said'[e] = said[e]
                     /\ \A i \in DOMAIN ledger[e] :
                          ledger[e][i] = "cancelled" => ledger'[e][i] = "cancelled"
<1>1. /\ turn[t].step \in Threaded /\ e \in Events /\ Event(t) \in Events
      /\ ledger \in [Events -> Seq(Statuses)] /\ ~Live(e)
      /\ message \in [Events -> {"none", "live", "purged"}] /\ said \in [Events -> SUBSET Parts]
    BY Types, EventsAssumption DEF Act, Live, TurnRecord, Event
<1>2. ASSUME NEW before \in Statuses \ {"cancelled"}, NEW after, Transition(t, before, after)
      PROVE  Clears
    <2>1. UNCHANGED <<message, said>>
        BY <1>2 DEF Transition, Keeps
    <2>2. CASE Row(t) = before /\ Event(t) = e
        <3>1. ledger' = [ledger EXCEPT ![e] = [ledger[e] EXCEPT ![turn[t].part] = after]]
            BY <1>2, <2>2 DEF Transition
        <3>2. ledger'[e] = [ledger[e] EXCEPT ![turn[t].part] = after]
            BY <1>1, <3>1
        <3>3. ledger[e][turn[t].part] # "cancelled"
            BY <2>2 DEF Row
        <3> QED  BY <1>1, <2>1, <3>2, <3>3
    <2>3. CASE ~(Row(t) = before /\ Event(t) = e)
        <3>1. ledger'[e] = ledger[e]
            BY <1>1, <1>2, <2>3 DEF Transition
        <3> QED  BY <2>1, <3>1
    <2> QED  BY <2>2, <2>3
<1>3. ASSUME NEW statuses, Plan(t, statuses)  PROVE Clears
    <2>1. UNCHANGED <<message, said>>
        BY <1>3 DEF Plan, Keeps
    <2>2. ledger'[e] = ledger[e]
        BY <1>1, <1>3 DEF Plan
    <2> QED  BY <2>1, <2>2
<1>4. CASE turn[t].step \in {"parts", "append", "describe", "check", "preflight"}
    BY <1>1, <1>4 DEF Act, ReadParts, AppendUser, Describe, CheckLive, Keeps
<1>5. CASE turn[t].step = "silence"
    BY <1>3, <1>5 DEF Act
<1>6. CASE turn[t].step = "plan"
    BY <1>3, <1>6 DEF Act
<1>7. CASE turn[t].step \in {"claim", "undo", "sent", "unknown", "archived"}
    <2>1. \E before \in Statuses \ {"cancelled"} : \E after : Transition(t, before, after)
        BY <1>7 DEF Act, Statuses
    <2> QED  BY <1>2, <2>1
<1>8. CASE turn[t].step = "persist"
    <2>1. UNCHANGED <<ledger, message>>
        BY <1>8 DEF Act, Persist, ArchiveReply
    <2>2. said'[e] = said[e]
        BY <1>1, <1>8 DEF Act, Persist, ArchiveReply
    <2> QED  BY <2>1, <2>2
<1>9. \/ turn[t].step \in {"parts", "append", "describe", "check", "preflight"}
      \/ turn[t].step = "silence" \/ turn[t].step = "plan" \/ turn[t].step = "persist"
      \/ turn[t].step \in {"claim", "undo", "sent", "unknown", "archived"}
    BY ONLY <1>1 DEF Threaded
<1> QED  BY ONLY <1>4, <1>5, <1>6, <1>7, <1>8, <1>9

\* What is cleared or purged stays so: whatever its turns still do, no reply to it is kept
\* and no cancelled part taken up, and at most one call begins after the text has gone.
THEOREM Cleared == Spec => ClearedIsCleared
<1> DEFINE Late == \A e \in Events : late'[e] <= 1
           Clears == \A e \in Private : message[e] = "purged" =>
                        /\ message'[e] = "purged" /\ said'[e] = said[e]
                        /\ \A i \in DOMAIN ledger[e] :
                            ledger[e][i] = "cancelled" => ledger'[e][i] = "cancelled"
<1>1. IInv' => Late
    BY DEF IInv, Typed
<1>2. ASSUME IInv, [Next]_vars  PROVE Clears
    <2> SUFFICES ASSUME NEW e \in Private, message[e] = "purged"
                 PROVE  /\ message'[e] = "purged" /\ said'[e] = said[e]
                        /\ \A i \in DOMAIN ledger[e] :
                            ledger[e][i] = "cancelled" => ledger'[e][i] = "cancelled"
        OBVIOUS
    <2>1. e \in Events /\ message \in [Events -> {"none", "live", "purged"}]
          /\ ledger \in [Events -> Seq(Statuses)]
        BY <1>2, Types, EventsAssumption
    <2>2. ASSUME NEW t \in Turns, Act(t)
          PROVE  /\ message'[e] = "purged" /\ said'[e] = said[e]
                 /\ \A i \in DOMAIN ledger[e] :
                     ledger[e][i] = "cancelled" => ledger'[e][i] = "cancelled"
        BY <1>2, <2>2, ActClears
    <2>3. CASE \E t \in Turns : \/ \E x \in Events : Arrive(t, x)
                                \/ GoOn(t) \/ Stop(t) \/ Lock(t) \/ Deadline(t) \/ See(t) \/ Think(t)
                                \/ Answer(t)
        <3>1. UNCHANGED <<ledger, message, said>>
            BY <2>3 DEF Arrive, GoOn, Stop, Lock, Deadline, See, Think, Answer
        <3> QED  BY <3>1
    <2>4. CASE \E c \in Conversations : Flip(c)
        BY <2>4 DEF Flip
    <2>5. CASE \E x \in Private : PurgeExpired(x)
        BY <2>1, <2>5 DEF PurgeExpired
    <2>6. CASE Clear
        <3>1. message'[e] = "purged" /\ UNCHANGED said
            BY <2>1, <2>6 DEF Clear, Purged
        <3>2. ledger'[e] = [i \in DOMAIN ledger[e] |-> "cancelled"]
            BY <2>1, <2>6 DEF Clear, Plans
        <3> QED  BY <3>1, <3>2
    <2>7. CASE Crash
        BY <2>7 DEF Crash
    <2>8. CASE UNCHANGED vars
        BY <2>8 DEF vars
    <2> QED  BY <1>2, <2>2, <2>3, <2>4, <2>5, <2>6, <2>7, <2>8 DEF Next, Step
<1>3. IInv /\ IInv' /\ [Next]_vars => [Late /\ Clears]_vars
    BY <1>1, <1>2
<1> QED  BY <1>3, Inductive, PTL DEF Spec, ClearedIsCleared

=============================================================================
