-------------------------- MODULE Outboxes_proofs --------------------------
(* The two outboxes of the bot.  That of the deduction policy delivers what     *)
(* Reminders promises, for every set of events and questions, every lease,      *)
(* limit and chunk size, and every mixture of faults.  The notices that the     *)
(* departure monitor puts into its own are true, in a group of any size, and    *)
(* nobody is recorded as gone without one.                                      *)
EXTENDS PolicyOutbox, Departures, FiniteSetTheorems, TLAPS

(* What a row is by itself: its attempt tells its state, only a row that failed *)
(* carries an error before it is claimed, and a row that is sent was delivered. *)
RowOK(r) ==
    /\ r.attempt = "sending" <=> r.status = "sending" /\ r.error = "none"
    /\ r.attempt = "sent" => r.status = "sent"
    /\ r.status = "failed" => r.error = "some"
    /\ r.status \in {"none", "pending"} => r.attempt = "none" /\ r.error = "none"
RowsOK == \A k \in Keys : RowOK(row[k]) /\ (row[k].status = "sent" => k \in told)

(* What the loop has in hand is leased to it, missed rows with the error that    *)
(* made them missed and the others without; what has gone out is delivered.     *)
HandsOK ==
    /\ \A k \in todo \cup chunk : row[k].status = "sending" /\ (row[k].error = "some" <=> at = "missed")
    /\ todo \cap chunk = {}
    /\ todo # {} \/ chunk # {} => at \in {"missed", "single"}
    /\ chunk \ rest \subseteq told
    /\ at = "single" => \A k, l \in chunk : k = l

(* A reminder that has not been asked for has no row.                            *)
UnaskedOK ==
    /\ \A a \in Actions : action[a].status = "none" => action[a].asked = 0
    /\ \A k \in Keys : IsReminder(k) /\ k[2] > action[k[1]].asked => row[k] = NoRow

IInv == TypeOK /\ RowsOK /\ HandsOK /\ UnaskedOK

-----------------------------------------------------------------------------
(* Keys and rows.                                                                *)

LEMMA KeyParts ==
    ASSUME NEW k \in Keys
    PROVE  /\ IsReminder(k) => k[1] \in Actions /\ k[2] \in 1..MaxReminders
           /\ ~ IsReminder(k) => k[1] \in Announced /\ k[2] = 0
<1>1. CASE k \in Announced \X {0}
    BY <1>1 DEF IsReminder
<1>2. CASE k \in Actions \X (1..MaxReminders)
    BY <1>2, LimitsAssumption DEF IsReminder
<1> QED  BY <1>1, <1>2 DEF Keys

LEMMA Bounds ==
    /\ 0 \in 0..Lease /\ 0 \in 0..Retry /\ Retry \in 0..Retry
    /\ 0 \in 0..Hour /\ 0 \in 0..MaxReminders /\ 0 \in 0..MaxReplays /\ 0 \in 0..(Hour - 1)
BY TimesAssumption, LimitsAssumption

LEMMA NoRowFacts ==
    NoRow \in Row /\ RowOK(NoRow)
BY Bounds DEF NoRow, Row, RowOK

LEMMA QueuedFacts ==
    ASSUME NEW e \in Events \cup {NoEvent}
    PROVE  /\ Queued(e) \in Row /\ Queued(e).status = "pending" /\ Queued(e).cause = e
           /\ RowOK(Queued(e))
BY Bounds DEF NoRow, Row, RowOK, Queued

\* Taking back a lapsed lease.
LEMMA ReclaimedFacts ==
    ASSUME TypeOK, RowsOK, NEW k \in Keys
    PROVE  /\ Reclaimed(k) \in Row
           /\ RowOK(Reclaimed(k))
           /\ Reclaimed(k).cause = row[k].cause
           /\ Reclaimed(k).status # row[k].status
                => row[k].status = "sending" /\ Reclaimed(k).status = "failed"
           /\ row[k].attempt \notin {"none", "sending"} \/ row[k].status = "failed"
                => Reclaimed(k).attempt = row[k].attempt
           /\ row[k] = NoRow => Reclaimed(k) = NoRow
<1> USE Bounds
<1>1. row[k] \in Row /\ RowOK(row[k])
    BY DEF TypeOK, RowsOK
<1>2. CASE k \in Sending /\ row[k].age = Lease /\ row[k].error = "some"
    <2> DEFINE r == [row[k] EXCEPT !.status = "failed", !.age = 0]
    <2>1. r \in Row /\ RowOK(r)
        BY <1>1, <1>2 DEF Row, RowOK, Sending
    <2>2. r.cause = row[k].cause /\ r.status = "failed" /\ r.attempt = row[k].attempt
        BY <1>1 DEF Row
    <2>3. Reclaimed(k) = r
        BY <1>2 DEF Reclaimed
    <2>4. row[k].status = "sending" /\ row[k] # NoRow
        BY <1>2 DEF Sending, NoRow
    <2> HIDE DEF r
    <2> QED  BY <2>1, <2>2, <2>3, <2>4
<1>3. CASE k \in Sending /\ row[k].age = Lease /\ row[k].error = "none"
    <2> DEFINE r == [row[k] EXCEPT !.status = "failed", !.error = "some", !.wait = 0, !.age = 0,
                                   !.attempt = "lease_expired"]
    <2>1. r \in Row /\ RowOK(r)
        BY <1>1, <1>3 DEF Row, RowOK, Sending
    <2>2. r.cause = row[k].cause /\ r.status = "failed"
        BY <1>1 DEF Row
    <2>3. Reclaimed(k) = r
        BY <1>3 DEF Reclaimed
    <2>4. row[k].status = "sending" /\ row[k] # NoRow /\ row[k].attempt = "sending"
        BY <1>1, <1>3 DEF Sending, NoRow, RowOK
    <2> HIDE DEF r
    <2> QED  BY <2>1, <2>2, <2>3, <2>4
<1>4. CASE ~ (k \in Sending /\ row[k].age = Lease)
    <2>1. Reclaimed(k) = row[k]
        BY <1>4 DEF Reclaimed
    <2> QED  BY <1>1, <2>1
<1>5. row[k].error \in {"none", "some"}
    BY <1>1 DEF Row
<1> QED  BY <1>2, <1>3, <1>4, <1>5

\* A row in hand that is given back, or whose delivery is over.
LEMMA EndedFacts ==
    ASSUME TypeOK, RowsOK, NEW k \in Keys, row[k].status = "sending",
           NEW status \in {"sent", "failed", "cancelled"}
    PROVE  /\ Ended(k, status) \in Row /\ RowOK(Ended(k, status))
           /\ Ended(k, status).status = status /\ Ended(k, status).cause = row[k].cause
           /\ [Ended(k, status) EXCEPT !.wait = Retry] \in Row
           /\ RowOK([Ended(k, status) EXCEPT !.wait = Retry])
           /\ [Ended(k, status) EXCEPT !.wait = Retry].status = status
           /\ [Ended(k, status) EXCEPT !.wait = Retry].cause = row[k].cause
<1> USE Bounds
<1>1. row[k] \in Row
    BY DEF TypeOK
<1> QED  BY <1>1 DEF Ended, Row, RowOK

LEMMA AcknowledgedFacts ==
    ASSUME TypeOK, RowsOK, NEW k \in Keys, row[k].status = "sending", row[k].error = "some"
    PROVE  /\ Acknowledged(k) \in Row /\ RowOK(Acknowledged(k))
           /\ Acknowledged(k).status = (IF Valid(k) THEN "sent" ELSE "cancelled")
           /\ Acknowledged(k).cause = row[k].cause
           /\ Acknowledged(k).attempt = row[k].attempt
<1> USE Bounds
<1>1. row[k] \in Row /\ RowOK(row[k])
    BY DEF TypeOK, RowsOK
<1> QED  BY <1>1 DEF Acknowledged, Row, RowOK

LEMMA RestoredFacts ==
    ASSUME TypeOK, RowsOK, NEW k \in Keys, row[k].status = "sending", row[k].error = "some"
    PROVE  LET r == [row[k] EXCEPT !.status = "failed", !.age = 0] IN
           /\ r \in Row /\ RowOK(r)
           /\ r.status = "failed" /\ r.cause = row[k].cause /\ r.attempt = row[k].attempt
<1> USE Bounds
<1>1. row[k] \in Row /\ RowOK(row[k])
    BY DEF TypeOK, RowsOK
<1> QED  BY <1>1 DEF Row, RowOK

-----------------------------------------------------------------------------
(* Steps that leave what the notices say alone: each row makes one of a few moves.*)

RowMoves(k) ==
    /\ row'[k].cause = row[k].cause
    /\ \/ row'[k].status = row[k].status
       \/ row[k].status \in {"pending", "failed"} /\ row'[k].status \in {"failed", "sending"}
       \/ row[k].status = "sending" /\ row'[k].status = "failed"
       \/ row[k].status = "sending" /\ row'[k].status = "sent" /\ k \in told
       \/ row[k].status = "sending" /\ row'[k].status = "cancelled" /\ ~ Valid(k)
    /\ row[k] = NoRow => row'[k] = NoRow
    /\ row[k].attempt \notin {"none", "sending"} \/ row[k].status = "failed"
            => row'[k].attempt = row[k].attempt
RowSteps ==
    /\ row' \in [Keys -> Row]
    /\ \A k \in Keys : RowOK(row'[k]) /\ RowMoves(k)

\* What the body of AttemptIsFinal says of a step.
AttemptStays ==
    \A k \in Keys :
        row[k].attempt \notin {"none", "sending"} \/ row[k].status = "failed"
            => row'[k].attempt = row[k].attempt

Quiet ==
    /\ open' = open /\ event' = event
    /\ action' \in [Actions -> Action]
    /\ \A a \in Actions : /\ action'[a].status = action[a].status
                          /\ action'[a].cause = action[a].cause
                          /\ action'[a].asked = action[a].asked
CallSteps ==
    \/ batch' = batch /\ told' = told
    \/ /\ batch = {} /\ open /\ row' = row /\ told' = told
       /\ batch' \subseteq {k \in Keys : Valid(k) /\ row[k].status = "sending"}
    \/ batch # {} /\ batch' = {} /\ told' \in {told, told \cup batch}

LEMMA RowsUnchanged ==
    ASSUME IInv, row' = row
    PROVE  RowSteps
BY DEF IInv, TypeOK, RowsOK, RowSteps, RowMoves

LEMMA QuietRows ==
    ASSUME IInv, RowSteps, Quiet, CallSteps
    PROVE  RowsOK' /\ UnaskedOK' /\ AttemptStays /\ told' \in SUBSET Keys
<1>1. told \subseteq told' /\ told' \in SUBSET Keys
    BY DEF CallSteps, IInv, TypeOK
<1>2. RowsOK'
    BY <1>1 DEF RowsOK, RowSteps, RowMoves, IInv
<1>3. UnaskedOK'
    BY KeyParts DEF UnaskedOK, RowSteps, RowMoves, IInv, Quiet
<1>4. AttemptStays
    BY DEF AttemptStays, RowSteps, RowMoves
<1> QED  BY <1>1, <1>2, <1>3, <1>4

LEMMA QuietServes ==
    ASSUME IInv, RowSteps, Quiet, CallSteps
    PROVE  Delivery!Serve
<1>1. \A k \in Keys : Valid(k)' <=> Valid(k)
    <2> SUFFICES ASSUME NEW k \in Keys PROVE Valid(k)' <=> Valid(k)
        OBVIOUS
    <2>1. row'[k].cause = row[k].cause /\ (row'[k].status = "none" <=> row[k].status = "none")
        BY DEF RowSteps, RowMoves
    <2>2. CASE IsReminder(k)
        <3>1. k[1] \in Actions
            BY <2>2, KeyParts
        <3> QED  BY <2>1, <3>1 DEF Valid, Quiet, OpenActions, IsReminder
    <2>3. CASE ~ IsReminder(k)
        BY <2>1, <2>3 DEF Valid, Quiet, IsReminder
    <2> QED  BY <2>2, <2>3
<1>2. Live' = Live
    BY <1>1 DEF Live
<1>3. ASSUME NEW k \in Keys
      PROVE  \/ StateOf(k)' = StateOf(k)
             \/ StateOf(k) = "waiting" /\ StateOf(k)' = "taken"
             \/ StateOf(k) = "taken" /\ StateOf(k)' = "waiting"
             \/ StateOf(k) = "taken" /\ StateOf(k)' = "sent" /\ k \in told
             \/ StateOf(k) = "taken" /\ StateOf(k)' = "cancelled" /\ k \notin Live
    <2>1. RowMoves(k)
        BY DEF RowSteps
    <2> QED  BY <2>1 DEF RowMoves, StateOf, Live
<1> DEFINE s == [k \in Keys |-> StateOf(k)]
<1>4. \A k \in Keys : Delivery!Moves(k)
    BY <1>3 DEF Delivery!Moves
<1>5. Delivery!Calls
    <2>1. CASE batch' = batch /\ told' = told
        BY <2>1 DEF Delivery!Calls
    <2>2. CASE /\ batch = {} /\ open /\ row' = row /\ told' = told
               /\ batch' \subseteq {k \in Keys : Valid(k) /\ row[k].status = "sending"}
        <3>1. batch' \subseteq {n \in Live : s[n] = "taken"}
            BY <2>2 DEF Live, StateOf
        <3>2. s' = s
            BY <2>2 DEF StateOf
        <3> QED  BY <2>2, <3>1, <3>2 DEF Delivery!Calls
    <2>3. CASE batch # {} /\ batch' = {} /\ told' \in {told, told \cup batch}
        BY <2>3 DEF Delivery!Calls
    <2> QED  BY <2>1, <2>2, <2>3 DEF CallSteps
<1> QED  BY <1>2, <1>4, <1>5 DEF Delivery!Serve, Quiet

-----------------------------------------------------------------------------
(* The steps of the loop, one by one.                                            *)

\* What a quiet step has to show.
Step == RowSteps /\ Quiet /\ CallSteps /\ HandsOK' /\ TypeOK'

LEMMA QuietUnchanged ==
    ASSUME TypeOK, UNCHANGED <<open, event, action>>
    PROVE  Quiet
BY DEF Quiet, TypeOK

LEMMA EarlierFacts ==
    ASSUME NEW m \in Nat, NEW n \in 0..m
    PROVE  Earlier(n) \in 0..m /\ Earlier(0) = 0
BY DEF Earlier

LEMMA ClockStep ==
    ASSUME IInv, Clock
    PROVE  Step
<1> USE DEF IInv
<1>1. ASSUME NEW k \in Keys
      PROVE  row'[k] \in Row /\ RowOK(row'[k]) /\ RowMoves(k) /\ row'[k].error = row[k].error
                /\ row'[k].status = row[k].status
    <2> DEFINE w == Earlier(row[k].wait)
               g == IF k \in Sending /\ row[k].age < Lease THEN row[k].age + 1 ELSE row[k].age
    <2>1. row[k] \in Row /\ RowOK(row[k])
        BY DEF TypeOK, RowsOK
    <2>2. w \in 0..Retry
        <3>1. row[k].wait \in 0..Retry
            BY <2>1 DEF Row
        <3> QED  BY <3>1, EarlierFacts, TimesAssumption
    <2>3. g \in 0..Lease
        <3>1. row[k].age \in 0..Lease
            BY <2>1 DEF Row
        <3> QED  BY <3>1, TimesAssumption
    <2>4. row'[k] = [row[k] EXCEPT !.wait = w, !.age = g]
        BY DEF Clock
    <2>5. row[k] = NoRow => w = 0 /\ g = 0
        <3> SUFFICES ASSUME row[k] = NoRow PROVE w = 0 /\ g = 0
            OBVIOUS
        <3>1. row[k].wait = 0 /\ row[k].age = 0 /\ row[k].status = "none"
            BY DEF NoRow
        <3>2. w = 0
            BY <3>1, Earlier(0) = 0 DEF Earlier
        <3>3. k \notin Sending
            BY <3>1 DEF Sending
        <3>4. g = 0
            BY <3>1, <3>3
        <3> QED  BY <3>2, <3>4
    <2> HIDE DEF w, g
    <2>6. row'[k] \in Row /\ RowOK(row'[k])
        BY <2>1, <2>2, <2>3, <2>4 DEF Row, RowOK
    <2>7. /\ row'[k].cause = row[k].cause /\ row'[k].status = row[k].status
          /\ row'[k].attempt = row[k].attempt /\ row'[k].error = row[k].error
        BY <2>1, <2>4 DEF Row
    <2>8. row[k] = NoRow => row'[k] = NoRow
        <3> SUFFICES ASSUME row[k] = NoRow PROVE row'[k] = NoRow
            OBVIOUS
        <3>1. row'[k] = [NoRow EXCEPT !.wait = 0, !.age = 0]
            BY <2>4, <2>5
        <3> QED  BY <3>1 DEF NoRow
    <2>9. RowMoves(k)
        BY <2>7, <2>8 DEF RowMoves
    <2> QED  BY <2>6, <2>7, <2>9
<1>2. RowSteps
    BY <1>1 DEF RowSteps, Clock
<1>3. ASSUME NEW a \in Actions
      PROVE  /\ action'[a] \in Action /\ action'[a].status = action[a].status
             /\ action'[a].cause = action[a].cause /\ action'[a].asked = action[a].asked
    <2>1. action[a] \in Action
        BY DEF TypeOK
    <2>2. Earlier(action[a].remind) \in 0..Hour
        <3>1. action[a].remind \in 0..Hour
            BY <2>1 DEF Action
        <3> QED  BY <3>1, EarlierFacts, TimesAssumption
    <2>3. action'[a] = [action[a] EXCEPT !.remind = Earlier(action[a].remind)]
        BY DEF Clock
    <2> QED  BY <2>1, <2>2, <2>3 DEF Action
<1>4. Quiet
    BY <1>3 DEF Quiet, Clock, world
<1>5. CallSteps
    BY DEF CallSteps, Clock
<1>6. HandsOK'
    BY DEF HandsOK, Clock
<1>7. minute' \in 0..(Hour - 1) /\ slots' \in SUBSET (Events \cup {NoEvent})
    <2>1. minute \in Nat /\ Hour \in Nat \ {0}
        BY TimesAssumption DEF TypeOK
    <2>2. (minute + 1) % Hour \in 0..(Hour - 1)
        BY <2>1
    <2> QED  BY <2>2 DEF Clock, TypeOK
<1>8. TypeOK'
    BY <1>2, <1>4, <1>7 DEF TypeOK, RowSteps, Quiet, Clock, world, Places
<1> QED  BY <1>2, <1>4, <1>5, <1>6, <1>8 DEF Step

LEMMA DeferStep ==
    ASSUME IInv, Defer
    PROVE  Step
<1> USE DEF IInv
<1>1. ASSUME NEW k \in Keys
      PROVE  row'[k] \in Row /\ RowOK(row'[k]) /\ RowMoves(k)
    <2>1. row[k] \in Row /\ RowOK(row[k])
        BY DEF TypeOK, RowsOK
    <2>2. CASE row[k].status = "pending" /\ row[k].wait = 0
        <3> DEFINE r == [row[k] EXCEPT !.status = "failed", !.error = "some"]
        <3>1. row'[k] = r
            BY <2>2 DEF Defer
        <3>2. r \in Row /\ RowOK(r) /\ r.cause = row[k].cause /\ r.status = "failed"
                /\ r.attempt = row[k].attempt
            BY <2>1, <2>2 DEF Row, RowOK
        <3>3. row[k] # NoRow
            BY <2>2 DEF NoRow
        <3> HIDE DEF r
        <3> QED  BY <2>2, <3>1, <3>2, <3>3 DEF RowMoves
    <2>3. CASE ~ (row[k].status = "pending" /\ row[k].wait = 0)
        <3>1. row'[k] = row[k]
            BY <2>3 DEF Defer
        <3> QED  BY <2>1, <3>1 DEF RowMoves
    <2> QED  BY <2>2, <2>3
<1>2. RowSteps
    BY <1>1 DEF RowSteps, Defer
<1>3. Quiet /\ CallSteps
    BY QuietUnchanged DEF Defer, world, policy, CallSteps
<1>4. HandsOK'
    BY DEF HandsOK, Defer
<1>5. TypeOK'
    BY <1>2, <1>3 DEF TypeOK, RowSteps, Quiet, Defer, world, policy, clock, Places
<1> QED  BY <1>2, <1>3, <1>4, <1>5 DEF Step

LEMMA ClaimMissedStep ==
    ASSUME IInv, ClaimMissed
    PROVE  Step
<1> USE DEF IInv
<1>1. PICK S \in SUBSET Keys :
            /\ S \subseteq Missed
            /\ row' = [k \in Keys |-> IF k \in S THEN [Reclaimed(k) EXCEPT !.status = "sending", !.age = 0]
                                               ELSE Reclaimed(k)]
            /\ todo' = S
    BY DEF ClaimMissed, Choices, Missed
<1>2. ASSUME NEW k \in Keys
      PROVE  /\ row'[k] \in Row /\ RowOK(row'[k]) /\ RowMoves(k)
             /\ k \in S => row'[k].status = "sending" /\ row'[k].error = "some"
    <2> DEFINE q == Reclaimed(k)
    <2>1. /\ q \in Row /\ RowOK(q) /\ q.cause = row[k].cause
          /\ q.status # row[k].status => row[k].status = "sending" /\ q.status = "failed"
          /\ row[k].attempt \notin {"none", "sending"} \/ row[k].status = "failed"
                => q.attempt = row[k].attempt
          /\ row[k] = NoRow => q = NoRow
        BY ReclaimedFacts
    <2>2. CASE k \in S
        <3>1. row'[k] = [q EXCEPT !.status = "sending", !.age = 0] /\ q.status = "failed"
            BY <1>1, <2>2 DEF Missed
        <3> DEFINE r == [q EXCEPT !.status = "sending", !.age = 0]
        <3> HIDE DEF q
        <3>2. /\ r \in Row /\ RowOK(r) /\ r.cause = q.cause /\ r.status = "sending"
              /\ r.attempt = q.attempt /\ r.error = "some"
            BY <2>1, <3>1, Bounds DEF Row, RowOK
        <3>3. q # NoRow
            BY <3>1 DEF NoRow
        <3> HIDE DEF r
        <3> QED  BY <2>1, <3>1, <3>2, <3>3 DEF RowMoves, r
    <2>3. CASE k \notin S
        <3>1. row'[k] = q
            BY <1>1, <2>3
        <3> HIDE DEF q
        <3> QED  BY <2>1, <2>3, <3>1 DEF RowMoves
    <2> QED  BY <2>2, <2>3
<1>3. RowSteps
    BY <1>1, <1>2 DEF RowSteps
<1>4. Quiet /\ CallSteps
    BY QuietUnchanged DEF ClaimMissed, world, policy, CallSteps
<1>5. HandsOK'
    BY <1>1, <1>2 DEF HandsOK, ClaimMissed
<1>6. TypeOK'
    BY <1>1, <1>3, <1>4 DEF TypeOK, RowSteps, Quiet, ClaimMissed, world, policy, clock, Places
<1> QED  BY <1>3, <1>4, <1>5, <1>6 DEF Step

LEMMA ClaimPendingStep ==
    ASSUME IInv, ClaimPending
    PROVE  Step
<1> USE DEF IInv
<1>1. PICK S \in SUBSET Keys :
            /\ \A k \in S : IsPending(k)
            /\ row' = [k \in Keys |->
                        IF k \in S
                        THEN [Reclaimed(k) EXCEPT !.status = "sending", !.attempt = "sending", !.age = 0]
                        ELSE Reclaimed(k)]
            /\ todo' = S
    BY DEF ClaimPending, Choices
<1>2. ASSUME NEW k \in Keys
      PROVE  /\ row'[k] \in Row /\ RowOK(row'[k]) /\ RowMoves(k)
             /\ k \in S => row'[k].status = "sending" /\ row'[k].error = "none"
    <2> DEFINE q == Reclaimed(k)
    <2>1. /\ q \in Row /\ RowOK(q) /\ q.cause = row[k].cause
          /\ q.status # row[k].status => row[k].status = "sending" /\ q.status = "failed"
          /\ row[k].attempt \notin {"none", "sending"} \/ row[k].status = "failed"
                => q.attempt = row[k].attempt
          /\ row[k] = NoRow => q = NoRow
        BY ReclaimedFacts
    <2>2. CASE k \in S
        <3> DEFINE r == [q EXCEPT !.status = "sending", !.attempt = "sending", !.age = 0]
        <3>1. row'[k] = r /\ q.status = "pending"
            BY <1>1, <2>2 DEF IsPending
        <3> HIDE DEF q
        <3>2. /\ r \in Row /\ RowOK(r) /\ r.cause = q.cause /\ r.status = "sending"
              /\ r.error = "none"
            BY <2>1, <3>1, Bounds DEF Row, RowOK
        <3>3. q # NoRow /\ row[k].status = "pending" /\ row[k].attempt = "none"
            <4>1. row[k].status = "pending" /\ RowOK(row[k])
                BY <2>1, <3>1 DEF RowsOK
            <4> QED  BY <3>1, <4>1 DEF NoRow, RowOK
        <3> HIDE DEF r
        <3> QED  BY <2>1, <3>1, <3>2, <3>3 DEF RowMoves
    <2>3. CASE k \notin S
        <3>1. row'[k] = q
            BY <1>1, <2>3
        <3> HIDE DEF q
        <3> QED  BY <2>1, <2>3, <3>1 DEF RowMoves
    <2> QED  BY <2>2, <2>3
<1>3. RowSteps
    BY <1>1, <1>2 DEF RowSteps
<1>4. Quiet /\ CallSteps
    BY QuietUnchanged DEF ClaimPending, world, policy, CallSteps
<1>5. HandsOK'
    BY <1>1, <1>2 DEF HandsOK, ClaimPending
<1>6. TypeOK'
    BY <1>1, <1>3, <1>4 DEF TypeOK, RowSteps, Quiet, ClaimPending, world, policy, clock, Places
<1> QED  BY <1>3, <1>4, <1>5, <1>6 DEF Step

LEMMA StartChunkStep ==
    ASSUME IInv, StartChunk
    PROVE  Step
<1> USE DEF IInv
<1>1. PICK S \in SUBSET todo :
            /\ todo' = todo \ S
            /\ chunk' = {k \in S : Valid(k)}
            /\ rest' = chunk'
            /\ row' = [k \in Keys |-> IF k \in S /\ ~ Valid(k)
                                      THEN [row[k] EXCEPT !.status = "cancelled", !.error = "some", !.age = 0]
                                      ELSE row[k]]
    BY DEF StartChunk
<1>2. at = "missed" /\ chunk = {} /\ rest = {} /\ batch = {}
    BY DEF StartChunk, TypeOK
<1>3. ASSUME NEW k \in Keys
      PROVE  row'[k] \in Row /\ RowOK(row'[k]) /\ RowMoves(k)
    <2>1. row[k] \in Row /\ RowOK(row[k])
        BY DEF TypeOK, RowsOK
    <2>2. CASE k \in S /\ ~ Valid(k)
        <3> DEFINE r == [row[k] EXCEPT !.status = "cancelled", !.error = "some", !.age = 0]
        <3>1. row'[k] = r
            BY <1>1, <2>2
        <3>2. row[k].status = "sending" /\ row[k].error = "some"
            BY <1>2, <2>2 DEF HandsOK
        <3>3. /\ r \in Row /\ RowOK(r) /\ r.cause = row[k].cause /\ r.status = "cancelled"
              /\ r.attempt = row[k].attempt
            BY <2>1, <3>2, Bounds DEF Row, RowOK
        <3>4. row[k] # NoRow
            BY <3>2 DEF NoRow
        <3> HIDE DEF r
        <3> QED  BY <2>2, <3>1, <3>2, <3>3, <3>4 DEF RowMoves
    <2>3. CASE ~ (k \in S /\ ~ Valid(k))
        <3>1. row'[k] = row[k]
            BY <1>1, <2>3
        <3> QED  BY <2>1, <3>1 DEF RowMoves
    <2> QED  BY <2>2, <2>3
<1>4. RowSteps
    BY <1>1, <1>3 DEF RowSteps
<1>5. Quiet /\ CallSteps
    BY QuietUnchanged DEF StartChunk, world, policy, CallSteps
<1>6. HandsOK'
    <2>1. ASSUME NEW k \in todo' \cup chunk'
          PROVE  k \in todo /\ row'[k] = row[k]
        <3>1. k \in todo /\ ~ (k \in S /\ ~ Valid(k))
            BY <1>1
        <3>2. k \in Keys
            BY <3>1 DEF TypeOK
        <3> QED  BY <1>1, <3>1, <3>2
    <2>2. \A k \in todo' \cup chunk' : row'[k].status = "sending" /\ row'[k].error = "some"
        BY <1>2, <2>1 DEF HandsOK
    <2>3. todo' \cap chunk' = {} /\ chunk' \ rest' = {} /\ at' = "missed"
        BY <1>1, <1>2 DEF StartChunk
    <2> QED  BY <2>2, <2>3 DEF HandsOK
<1>7. TypeOK'
    BY <1>1, <1>2, <1>4, <1>5 DEF TypeOK, RowSteps, Quiet, StartChunk, world, policy, clock, Places
<1> QED  BY <1>4, <1>5, <1>6, <1>7 DEF Step

\* Giving a chunk back, after a failed call or a second look.
LEMMA RestoredSteps ==
    ASSUME IInv, at = "missed", row' = Restored
    PROVE  RowSteps /\ \A k \in Keys \ chunk : row'[k] = row[k]
<1> USE DEF IInv
<1>1. ASSUME NEW k \in Keys
      PROVE  row'[k] \in Row /\ RowOK(row'[k]) /\ RowMoves(k)
    <2>1. row[k] \in Row /\ RowOK(row[k])
        BY DEF TypeOK, RowsOK
    <2>2. CASE k \in chunk
        <3> DEFINE r == [row[k] EXCEPT !.status = "failed", !.age = 0]
        <3>1. row'[k] = r
            BY <2>2 DEF Restored
        <3>2. row[k].status = "sending" /\ row[k].error = "some"
            BY <2>2 DEF HandsOK
        <3>3. /\ r \in Row /\ RowOK(r) /\ r.cause = row[k].cause /\ r.status = "failed"
              /\ r.attempt = row[k].attempt
            BY <3>2, RestoredFacts
        <3>4. row[k] # NoRow
            BY <3>2 DEF NoRow
        <3> HIDE DEF r
        <3> QED  BY <3>1, <3>2, <3>3, <3>4 DEF RowMoves
    <2>3. CASE k \notin chunk
        <3>1. row'[k] = row[k]
            BY <2>3 DEF Restored
        <3> QED  BY <2>1, <3>1 DEF RowMoves
    <2> QED  BY <2>2, <2>3
<1> QED  BY <1>1 DEF RowSteps, Restored

LEMMA AbandonStep ==
    ASSUME IInv, Abandon
    PROVE  Step
<1> USE DEF IInv
<1>1. RowSteps /\ \A k \in Keys \ chunk : row'[k] = row[k]
    BY RestoredSteps DEF Abandon
<1>2. Quiet /\ CallSteps
    BY QuietUnchanged DEF Abandon, world, policy, CallSteps
<1>3. HandsOK'
    <2>1. \A k \in todo' \cup chunk' : k \in todo /\ row'[k] = row[k]
        BY <1>1 DEF TypeOK, HandsOK, Abandon
    <2> QED  BY <2>1 DEF HandsOK, Abandon
<1>4. TypeOK'
    BY <1>1, <1>2 DEF TypeOK, RowSteps, Quiet, Abandon, world, policy, clock, Places
<1> QED  BY <1>1, <1>2, <1>3, <1>4 DEF Step

LEMMA ForwardStep ==
    ASSUME IInv, Forward
    PROVE  Step
<1> USE DEF IInv
<1>1. RowSteps
    BY RowsUnchanged DEF Forward
<1>2. Quiet
    BY QuietUnchanged DEF Forward, world, policy
<1>3. CallSteps
    <2>1. \A k \in chunk : k \in Keys /\ Valid(k) /\ row[k].status = "sending"
        BY DEF TypeOK, HandsOK, Forward, Sendable
    <2> QED  BY <2>1 DEF CallSteps, Forward, Sendable, TypeOK
<1>4. HandsOK'
    BY DEF HandsOK, Forward
<1>5. TypeOK'
    BY <1>1, <1>2 DEF TypeOK, RowSteps, Quiet, Forward, world, policy, clock, Places
<1> QED  BY <1>1, <1>2, <1>3, <1>4, <1>5 DEF Step

LEMMA CallReturnsStep ==
    ASSUME IInv, CallReturns
    PROVE  Step
<1> USE DEF IInv
<1>1. RowSteps
    BY RowsUnchanged DEF CallReturns
<1>2. Quiet
    BY QuietUnchanged DEF CallReturns, world, policy
<1>3. CallSteps
    BY DEF CallSteps, CallReturns
<1>4. HandsOK'
    BY DEF HandsOK, CallReturns
<1>5. TypeOK'
    BY <1>1, <1>2 DEF TypeOK, RowSteps, Quiet, CallReturns, world, policy, clock, Places
<1> QED  BY <1>1, <1>2, <1>3, <1>4, <1>5 DEF Step

LEMMA AcknowledgeChunkStep ==
    ASSUME IInv, AcknowledgeChunk
    PROVE  Step
<1> USE DEF IInv
<1>1. ASSUME NEW k \in Keys
      PROVE  row'[k] \in Row /\ RowOK(row'[k]) /\ RowMoves(k)
    <2>1. row[k] \in Row /\ RowOK(row[k])
        BY DEF TypeOK, RowsOK
    <2>2. CASE k \in chunk
        <3>1. row'[k] = Acknowledged(k)
            BY <2>2 DEF AcknowledgeChunk
        <3>2. row[k].status = "sending" /\ row[k].error = "some" /\ k \in told
            BY <2>2 DEF HandsOK, AcknowledgeChunk
        <3>3. /\ Acknowledged(k) \in Row /\ RowOK(Acknowledged(k))
              /\ Acknowledged(k).status = (IF Valid(k) THEN "sent" ELSE "cancelled")
              /\ Acknowledged(k).cause = row[k].cause
              /\ Acknowledged(k).attempt = row[k].attempt
            BY <3>2, AcknowledgedFacts
        <3>4. row[k] # NoRow
            BY <3>2 DEF NoRow
        <3> QED  BY <3>1, <3>2, <3>3, <3>4 DEF RowMoves
    <2>3. CASE k \notin chunk
        <3>1. row'[k] = row[k]
            BY <2>3 DEF AcknowledgeChunk
        <3> QED  BY <2>1, <3>1 DEF RowMoves
    <2> QED  BY <2>2, <2>3
<1>2. RowSteps
    BY <1>1 DEF RowSteps, AcknowledgeChunk
<1>3. Quiet /\ CallSteps
    BY QuietUnchanged DEF AcknowledgeChunk, world, policy, CallSteps
<1>4. HandsOK'
    <2>1. \A k \in todo' \cup chunk' : k \in todo /\ row'[k] = row[k]
        BY DEF TypeOK, HandsOK, AcknowledgeChunk
    <2> QED  BY <2>1 DEF HandsOK, AcknowledgeChunk
<1>5. TypeOK'
    BY <1>2, <1>3 DEF TypeOK, RowSteps, Quiet, AcknowledgeChunk, world, policy, clock, Places
<1> QED  BY <1>2, <1>3, <1>4, <1>5 DEF Step

\* One row that was sent alone is over: what is left is the rest of the tick.
LEMMA EndedSteps ==
    ASSUME IInv, NEW D \in SUBSET Keys, NEW status \in {"sent", "failed", "cancelled"},
           \A k \in D : row[k].status = "sending" /\ row[k].error = "none",
           status = "sent" => D \subseteq told,
           status = "cancelled" => D \cap Live = {},
           row' \in [Keys -> Row],
           \A k \in Keys \ D : row'[k] = row[k],
           \A k \in D : row'[k] \in {Ended(k, status), [Ended(k, status) EXCEPT !.wait = Retry]}
    PROVE  RowSteps
<1> USE DEF IInv
<1>1. ASSUME NEW k \in Keys
      PROVE  RowOK(row'[k]) /\ RowMoves(k)
    <2>1. row[k] \in Row /\ RowOK(row[k])
        BY DEF TypeOK, RowsOK
    <2>2. CASE k \in D
        <3>1. row[k].status = "sending" /\ row[k].attempt = "sending" /\ row[k] # NoRow
            BY <2>1, <2>2 DEF RowOK, NoRow
        <3>2. RowOK(row'[k]) /\ row'[k].status = status /\ row'[k].cause = row[k].cause
            <4> DEFINE e == Ended(k, status)
                       f == [Ended(k, status) EXCEPT !.wait = Retry]
            <4>1. /\ RowOK(e) /\ e.status = status /\ e.cause = row[k].cause
                  /\ RowOK(f) /\ f.status = status /\ f.cause = row[k].cause
                BY <3>1, EndedFacts
            <4>2. row'[k] = e \/ row'[k] = f
                BY <2>2
            <4> HIDE DEF e, f
            <4> QED  BY <4>1, <4>2
        <3> QED  BY <2>2, <3>1, <3>2 DEF RowMoves, Live
    <2>3. CASE k \notin D
        <3>1. row'[k] = row[k]
            BY <2>3
        <3> QED  BY <2>1, <3>1 DEF RowMoves
    <2> QED  BY <2>2, <2>3
<1> QED  BY <1>1 DEF RowSteps

LEMMA CancelSingleStep ==
    ASSUME IInv, NEW k \in Keys, CancelSingle(k)
    PROVE  Step
<1> USE DEF IInv
<1>1. at = "single" /\ row[k].status = "sending" /\ row[k].error = "none"
    <2>1. row[k] \in Row
        BY DEF TypeOK
    <2> QED  BY <2>1 DEF CancelSingle, HandsOK, Row
<1>2. row' = [row EXCEPT ![k] = Ended(k, "cancelled")] /\ Ended(k, "cancelled") \in Row
    BY <1>1, EndedFacts DEF CancelSingle
<1>3. RowSteps
    <2>1. row' \in [Keys -> Row] /\ row'[k] = Ended(k, "cancelled")
            /\ \A l \in Keys \ {k} : row'[l] = row[l]
        BY <1>2 DEF TypeOK
    <2> DEFINE D == {k}
               status == "cancelled"
    <2>2. /\ D \in SUBSET Keys /\ status \in {"sent", "failed", "cancelled"}
          /\ \A l \in D : row[l].status = "sending" /\ row[l].error = "none"
          /\ status = "sent" => D \subseteq told
          /\ status = "cancelled" => D \cap Live = {}
        BY <1>1 DEF CancelSingle, Live
    <2>3. /\ \A l \in Keys \ D : row'[l] = row[l]
          /\ \A l \in D : row'[l] = Ended(l, status)
        BY <2>1
    <2> HIDE DEF D, status
    <2> QED  BY <2>1, <2>2, <2>3, EndedSteps
<1>4. Quiet /\ CallSteps
    BY QuietUnchanged DEF CancelSingle, world, policy, CallSteps
<1>5. HandsOK'
    <2>1. \A l \in todo' \cup chunk' : l \in todo /\ row'[l] = row[l]
        BY <1>2 DEF TypeOK, HandsOK, CancelSingle
    <2> QED  BY <2>1 DEF HandsOK, CancelSingle
<1>6. TypeOK'
    BY <1>3, <1>4 DEF TypeOK, RowSteps, Quiet, CancelSingle, world, policy, clock, Places
<1> QED  BY <1>3, <1>4, <1>5, <1>6 DEF Step

LEMMA HoldSingleStep ==
    ASSUME IInv, NEW k \in Keys, HoldSingle(k)
    PROVE  Step
<1> USE DEF IInv
<1>1. at = "single" /\ row[k].status = "sending" /\ row[k].error = "none"
    <2>1. row[k] \in Row
        BY DEF TypeOK
    <2> QED  BY <2>1 DEF HoldSingle, HandsOK, Row
<1>2. row' = [row EXCEPT ![k] = Ended(k, "failed")] /\ Ended(k, "failed") \in Row
    BY <1>1, EndedFacts DEF HoldSingle
<1>3. RowSteps
    <2>1. row' \in [Keys -> Row] /\ row'[k] = Ended(k, "failed")
            /\ \A l \in Keys \ {k} : row'[l] = row[l]
        BY <1>2 DEF TypeOK
    <2> DEFINE D == {k}
               status == "failed"
    <2>2. /\ D \in SUBSET Keys /\ status \in {"sent", "failed", "cancelled"}
          /\ \A l \in D : row[l].status = "sending" /\ row[l].error = "none"
          /\ status = "sent" => D \subseteq told
          /\ status = "cancelled" => D \cap Live = {}
        BY <1>1
    <2>3. /\ \A l \in Keys \ D : row'[l] = row[l]
          /\ \A l \in D : row'[l] = Ended(l, status)
        BY <2>1
    <2> HIDE DEF D, status
    <2> QED  BY <2>1, <2>2, <2>3, EndedSteps
<1>4. Quiet /\ CallSteps
    BY QuietUnchanged DEF HoldSingle, world, policy, CallSteps
<1>5. HandsOK'
    <2>1. \A l \in todo' \cup chunk' : l \in todo /\ row'[l] = row[l]
        BY <1>2 DEF TypeOK, HandsOK, HoldSingle
    <2> QED  BY <2>1 DEF HandsOK, HoldSingle
<1>6. TypeOK'
    BY <1>3, <1>4 DEF TypeOK, RowSteps, Quiet, HoldSingle, world, policy, clock, Places
<1> QED  BY <1>3, <1>4, <1>5, <1>6 DEF Step

LEMMA SendSingleStep ==
    ASSUME IInv, NEW k \in Keys, SendSingle(k)
    PROVE  Step
<1> USE DEF IInv
<1>1. RowSteps
    BY RowsUnchanged DEF SendSingle
<1>2. Quiet
    BY QuietUnchanged DEF SendSingle, world, policy
<1>3. chunk = {} /\ rest = {} /\ batch = {}
    BY DEF SendSingle, TypeOK
<1>4. CallSteps
    <2>1. row[k].status = "sending" /\ Valid(k)
        BY DEF HandsOK, SendSingle
    <2> QED  BY <1>3, <2>1 DEF CallSteps, SendSingle
<1>5. HandsOK'
    BY <1>3 DEF HandsOK, SendSingle
<1>6. TypeOK'
    BY <1>1, <1>2 DEF TypeOK, RowSteps, Quiet, SendSingle, world, policy, clock, Places
<1> QED  BY <1>1, <1>2, <1>4, <1>5, <1>6 DEF Step

LEMMA AcknowledgeSingleStep ==
    ASSUME IInv, AcknowledgeSingle
    PROVE  Step
<1> USE DEF IInv
<1>1. /\ chunk \subseteq told /\ at = "single" /\ batch = {}
      /\ \A k \in chunk : row[k].status = "sending" /\ row[k].error = "none"
    <2>1. \A k \in chunk : row[k] \in Row
        BY DEF TypeOK
    <2> QED  BY <2>1 DEF HandsOK, AcknowledgeSingle, Row, TypeOK
<1>2. \A k \in chunk : Ended(k, "sent") \in Row
    BY <1>1, EndedFacts DEF TypeOK
<1>3. RowSteps
    <2>1. /\ row' \in [Keys -> Row]
          /\ \A k \in Keys \ chunk : row'[k] = row[k]
          /\ \A k \in chunk : row'[k] = Ended(k, "sent")
        BY <1>2 DEF TypeOK, AcknowledgeSingle
    <2> DEFINE status == "sent"
    <2>2. /\ chunk \in SUBSET Keys /\ status \in {"sent", "failed", "cancelled"}
          /\ chunk \subseteq told /\ status # "cancelled"
        BY <1>1 DEF TypeOK
    <2>3. \A k \in chunk : row'[k] = Ended(k, status)
        BY <2>1
    <2> HIDE DEF status
    <2> QED  BY <1>1, <2>1, <2>2, <2>3, EndedSteps
<1>4. Quiet /\ CallSteps
    BY QuietUnchanged DEF AcknowledgeSingle, world, policy, CallSteps
<1>5. HandsOK'
    <2>1. \A l \in todo' \cup chunk' : l \in todo /\ row'[l] = row[l]
        BY DEF TypeOK, HandsOK, AcknowledgeSingle
    <2> QED  BY <2>1 DEF HandsOK, AcknowledgeSingle
<1>6. TypeOK'
    BY <1>3, <1>4 DEF TypeOK, RowSteps, Quiet, AcknowledgeSingle, world, policy, clock, Places
<1> QED  BY <1>3, <1>4, <1>5, <1>6 DEF Step

LEMMA EndTickStep ==
    ASSUME IInv, EndTick
    PROVE  Step
<1> USE DEF IInv
<1>1. RowSteps
    BY RowsUnchanged DEF EndTick
<1>2. Quiet /\ CallSteps
    BY QuietUnchanged DEF EndTick, world, policy, CallSteps
<1>3. HandsOK'
    BY DEF HandsOK, EndTick
<1>4. TypeOK'
    BY <1>1, <1>2 DEF TypeOK, RowSteps, Quiet, EndTick, world, policy, clock, Places
<1> QED  BY <1>1, <1>2, <1>3, <1>4 DEF Step

LEMMA CallFailsStep ==
    ASSUME IInv, CallFails
    PROVE  Step
<1> USE DEF IInv
<1>1. RowSteps /\ \A k \in Keys \ chunk : row'[k] = row[k]
    <2>1. CASE at = "missed"
        BY <2>1, RestoredSteps DEF CallFails
    <2>2. CASE at # "missed"
        <3>1. row' = [k \in Keys |-> IF k \in chunk
                                     THEN [Ended(k, "failed") EXCEPT !.wait = Retry] ELSE row[k]]
            BY <2>2 DEF CallFails
        <3>2. \A k \in chunk : row[k].status = "sending" /\ row[k].error = "none"
            <4>1. \A k \in chunk : row[k] \in Row
                BY DEF TypeOK
            <4> QED  BY <2>2, <4>1 DEF HandsOK, Row
        <3>3. \A k \in chunk : [Ended(k, "failed") EXCEPT !.wait = Retry] \in Row
            BY <3>2, EndedFacts DEF TypeOK
        <3>4. /\ row' \in [Keys -> Row]
              /\ \A k \in Keys \ chunk : row'[k] = row[k]
              /\ \A k \in chunk : row'[k] = [Ended(k, "failed") EXCEPT !.wait = Retry]
            BY <3>1, <3>3 DEF TypeOK
        <3> DEFINE status == "failed"
        <3>5. /\ chunk \in SUBSET Keys /\ status \in {"sent", "failed", "cancelled"}
              /\ status # "sent" /\ status # "cancelled"
            BY DEF TypeOK
        <3>6. \A k \in chunk : row'[k] = [Ended(k, status) EXCEPT !.wait = Retry]
            BY <3>4
        <3> HIDE DEF status
        <3> QED  BY <3>2, <3>4, <3>5, <3>6, EndedSteps
    <2> QED  BY <2>1, <2>2
<1>2. Quiet /\ CallSteps
    BY QuietUnchanged DEF CallFails, world, policy, CallSteps, Arrived
<1>3. HandsOK'
    <2>1. \A k \in todo' \cup chunk' : k \in todo /\ row'[k] = row[k]
        BY <1>1 DEF TypeOK, HandsOK, CallFails
    <2> QED  BY <2>1 DEF HandsOK, CallFails
<1>4. TypeOK'
    BY <1>1, <1>2 DEF TypeOK, RowSteps, Quiet, CallFails, world, policy, clock, Places, Arrived
<1> QED  BY <1>1, <1>2, <1>3, <1>4 DEF Step

LEMMA InterruptStep ==
    ASSUME IInv, Interrupt
    PROVE  Step
<1> USE DEF IInv
<1>1. RowSteps
    BY RowsUnchanged DEF Interrupt
<1>2. Quiet /\ CallSteps
    BY QuietUnchanged DEF Interrupt, world, policy, CallSteps, Arrived
<1>3. HandsOK'
    BY DEF HandsOK, Interrupt
<1>4. TypeOK'
    BY <1>1, <1>2 DEF TypeOK, RowSteps, Quiet, Interrupt, world, policy, clock, Places, Arrived
<1> QED  BY <1>1, <1>2, <1>3, <1>4 DEF Step

-----------------------------------------------------------------------------
(* The steps that change what the notices say, or post new ones.                 *)

Outside ==
    /\ UNCHANGED <<row, clock, loop, told>>
    /\ open' \in BOOLEAN /\ healthy' \in BOOLEAN
    /\ event' \in [Events -> {"none", "effective", "void"}]
    /\ action' \in [Actions -> Action]
    /\ checkpoint' \in [event : Events \cup {NoEvent}, open : SUBSET Actions]
    /\ replays' \in 0..MaxReplays
    /\ \A a \in Actions : /\ action'[a].asked = action[a].asked
                          /\ action'[a].status = "none" => action[a].status = "none"

LEMMA OutsideFacts ==
    ASSUME IInv, Outside
    PROVE  IInv' /\ AttemptStays /\ Delivery!Environment
<1> USE DEF IInv
<1>1. TypeOK'
    BY DEF TypeOK, Outside, clock, loop
<1>2. RowsOK' /\ HandsOK' /\ AttemptStays
    BY DEF RowsOK, HandsOK, AttemptStays, Outside, loop
<1>3. UnaskedOK'
    BY KeyParts DEF UnaskedOK, Outside
<1>4. Delivery!Environment
    <2>1. Live' \in SUBSET Keys
        BY DEF Live
    <2>2. [k \in Keys |-> StateOf(k)]' = [k \in Keys |-> StateOf(k)]
        BY DEF StateOf, Outside
    <2> QED  BY <2>1, <2>2 DEF Delivery!Environment, Outside, loop
<1> QED  BY <1>1, <1>2, <1>3, <1>4

LEMMA SurroundingsStep ==
    ASSUME IInv, Surroundings
    PROVE  Outside
<1> USE DEF IInv
<1>1. CASE Switch
    BY <1>1 DEF Switch, Outside, TypeOK, policy
<1>2. ASSUME NEW e \in Events, Raise(e)
      PROVE  Outside
    BY <1>2 DEF Raise, Outside, TypeOK, world
<1>3. ASSUME NEW e \in Events, Resolve(e)
      PROVE  Outside
    BY <1>3 DEF Resolve, Outside, TypeOK, world, OpenActions
<1>4. ASSUME NEW a \in Actions, Decide(a)
      PROVE  Outside
    <2>1. action[a] \in Action /\ action' = [action EXCEPT ![a] = [action[a] EXCEPT !.status = "closed"]]
        BY <1>4 DEF Decide, TypeOK
    <2>2. /\ [action[a] EXCEPT !.status = "closed"] \in Action
          /\ [action[a] EXCEPT !.status = "closed"].asked = action[a].asked
          /\ [action[a] EXCEPT !.status = "closed"].status = "closed"
        BY <2>1 DEF Action
    <2> QED  BY <1>4, <2>1, <2>2 DEF Decide, Outside, TypeOK, world
<1>5. ASSUME NEW a \in Actions, NEW e \in Events, Ask(a, e)
      PROVE  Outside
    <2> DEFINE q == [NoAction EXCEPT !.status = "pending", !.cause = e]
    <2>1. action' = [action EXCEPT ![a] = q]
        BY <1>5 DEF Ask
    <2>2. q \in Action /\ q.asked = 0 /\ q.status = "pending"
        BY Bounds DEF Action, NoAction
    <2>3. action[a].asked = 0
        BY <1>5 DEF UnaskedOK, Ask
    <2> HIDE DEF q
    <2>4. /\ action' \in [Actions -> Action]
          /\ \A b \in Actions : /\ action'[b].asked = action[b].asked
                                /\ action'[b].status = "none" => action[b].status = "none"
        <3>1. action'[a] = q /\ \A b \in Actions \ {a} : action'[b] = action[b]
            BY <2>1 DEF TypeOK
        <3> QED  BY <2>1, <2>2, <2>3, <3>1 DEF TypeOK
    <2>5. event' \in [Events -> {"none", "effective", "void"}]
        BY <1>5 DEF Ask, TypeOK
    <2> QED  BY <1>5, <2>4, <2>5 DEF Ask, Outside, TypeOK, world
<1>6. ASSUME NEW withdrawn, Replay(withdrawn)
      PROVE  Outside
    <2>1. ASSUME NEW a \in Actions
          PROVE  /\ Replayed(a) \in Action /\ Replayed(a).asked = action[a].asked
                 /\ Replayed(a).status = "none" => action[a].status = "none"
        <3>1. action[a] \in Action /\ checkpoint.event \in Events \cup {NoEvent}
            BY DEF TypeOK
        <3> QED  BY <3>1 DEF Replayed, Action
    <2>2. event' \in [Events -> {"none", "effective", "void"}]
        BY <1>6 DEF Replay, TypeOK
    <2>3. replays' \in 0..MaxReplays
        BY <1>6, LimitsAssumption DEF Replay, TypeOK
    <2> QED  BY <1>6, <2>1, <2>2, <2>3 DEF Replay, Outside, TypeOK, world
<1> QED  BY <1>1, <1>2, <1>3, <1>4, <1>5, <1>6 DEF Surroundings

\* A row is posted where there was none.
LEMMA QueuedRowFacts ==
    ASSUME IInv, NEW k \in Keys
    PROVE  \/ QueuedRow(k) = row[k]
           \/ /\ row[k].status = "none" /\ row[k].attempt = "none"
              /\ QueuedRow(k) \in Row /\ QueuedRow(k).status = "pending" /\ RowOK(QueuedRow(k))
              /\ IsReminder(k) => k[1] \in Due /\ k[2] = action[k[1]].asked + 1
<1> USE DEF IInv
<1>1. CASE IsReminder(k) /\ k[1] \in Reminded /\ k[2] = action[k[1]].asked + 1
    <2>1. k[1] \in Actions /\ k[1] \in Due
        BY <1>1 DEF Reminded, Due, OpenActions
    <2>2. action[k[1]].cause \in Events \cup {NoEvent} /\ action[k[1]].asked \in 0..MaxReminders
        BY <2>1 DEF TypeOK, Action
    <2>3. QueuedRow(k) = Queued(action[k[1]].cause)
        BY <1>1 DEF QueuedRow
    <2>4. row[k] = NoRow
        <3>1. k[2] > action[k[1]].asked
            BY <1>1, <2>2, LimitsAssumption
        <3> QED  BY <1>1, <3>1 DEF UnaskedOK
    <2> QED  BY <1>1, <2>1, <2>2, <2>3, <2>4, QueuedFacts DEF NoRow
<1>2. CASE ~ IsReminder(k) /\ k[1] \in Unannounced
    <2>1. k[1] \in Events /\ k = <<k[1], 0>>
        BY <1>2, EventsAssumption DEF Unannounced, Keys, IsReminder
    <2>2. QueuedRow(k) = Queued(k[1])
        BY <1>2 DEF QueuedRow
    <2>3. row[k].status = "none" /\ row[k].attempt = "none"
        BY <1>2, <2>1 DEF Unannounced, RowsOK, RowOK
    <2> QED  BY <1>2, <2>1, <2>2, <2>3, QueuedFacts
<1> QED  BY <1>1, <1>2 DEF QueuedRow

LEMMA MaintainStep ==
    ASSUME IInv, Maintain
    PROVE  IInv' /\ AttemptStays /\ Delivery!Post
<1> USE DEF IInv
<1>1. \A k \in Keys : row'[k] = QueuedRow(k)
    BY DEF Maintain
<1>2. ASSUME NEW k \in Keys
      PROVE  /\ row'[k] \in Row /\ RowOK(row'[k])
             /\ row'[k].status = "sent" => k \in told
    BY <1>1, QueuedRowFacts DEF TypeOK, RowsOK
<1>3. ASSUME NEW a \in Actions
      PROVE  /\ action'[a] \in Action /\ action'[a].status = action[a].status
             /\ a \in Due => action'[a].asked = action[a].asked + 1
             /\ a \notin Due => action'[a] = action[a]
    <2>1. action[a] \in Action
        BY DEF TypeOK
    <2>2. CASE a \in Due
        <3> DEFINE n == action[a].asked + 1
        <3>1. action'[a] = [action[a] EXCEPT !.remind = Hour, !.asked = n]
            BY <2>2 DEF Maintain
        <3>2. n \in 0..MaxReminders /\ Hour \in 0..Hour
            BY <2>1, <2>2, LimitsAssumption, TimesAssumption DEF Due, Action
        <3> HIDE DEF n
        <3>3. action'[a] \in Action /\ action'[a].status = action[a].status /\ action'[a].asked = n
            BY <2>1, <3>1, <3>2 DEF Action
        <3> QED  BY <2>2, <3>3 DEF n
    <2>3. CASE a \notin Due
        BY <2>1, <2>3 DEF Maintain
    <2> QED  BY <2>2, <2>3
<1>4. TypeOK'
    <2>1. slots' \in SUBSET (Events \cup {NoEvent})
        <3>1. \A a \in Due : action[a] \in Action
            BY DEF TypeOK, Due, OpenActions
        <3>2. \A a \in Due : action[a].cause \in Events \cup {NoEvent}
            BY <3>1 DEF Action
        <3> DEFINE C == {action[a].cause : a \in Due}
        <3>3. C \subseteq Events \cup {NoEvent}
            BY <3>2
        <3>4. slots' = slots \cup C /\ slots \subseteq Events \cup {NoEvent}
            BY DEF Maintain, TypeOK
        <3> HIDE DEF C
        <3> QED  BY <3>3, <3>4
    <2>2. row' \in [Keys -> Row] /\ action' \in [Actions -> Action]
        BY <1>2, <1>3 DEF Maintain
    <2> QED  BY <2>1, <2>2 DEF TypeOK, Maintain, world, Places
<1>5. RowsOK'
    BY <1>2 DEF RowsOK, Maintain
<1>6. HandsOK'
    BY DEF HandsOK, Maintain
<1>7. UnaskedOK'
    <2>1. ASSUME NEW a \in Actions, action'[a].status = "none"
          PROVE  action'[a].asked = 0
        <3>1. a \notin Due
            BY <1>3, <2>1 DEF Due, OpenActions
        <3> QED  BY <1>3, <2>1, <3>1 DEF UnaskedOK
    <2>2. ASSUME NEW k \in Keys, IsReminder(k), k[2] > action'[k[1]].asked
          PROVE  row'[k] = NoRow
        <3>1. k[1] \in Actions /\ k[2] \in Nat /\ action[k[1]].asked \in Nat
            BY <2>2, KeyParts, LimitsAssumption DEF TypeOK, Action
        <3>2. QueuedRow(k) = row[k] /\ k[2] > action[k[1]].asked
            BY <1>3, <2>2, <3>1, QueuedRowFacts
        <3> QED  BY <1>1, <2>2, <3>2 DEF UnaskedOK
    <2> QED  BY <2>1, <2>2 DEF UnaskedOK
<1>8. AttemptStays
    <2> SUFFICES ASSUME NEW k \in Keys,
                        row[k].attempt \notin {"none", "sending"} \/ row[k].status = "failed"
                 PROVE  row'[k].attempt = row[k].attempt
        BY DEF AttemptStays
    <2> QED  BY <1>1, QueuedRowFacts
<1>9. Delivery!Post
    <2> DEFINE s == [k \in Keys |-> StateOf(k)]
    <2>1. Live' \in SUBSET Keys /\ DOMAIN s' = Keys
        BY DEF Live
    <2>2. ASSUME NEW k \in Keys, s'[k] # s[k]
          PROVE  s[k] = "none" /\ s'[k] = "waiting"
        BY <1>1, <2>2, QueuedRowFacts DEF StateOf
    <2> QED  BY <2>1, <2>2 DEF Delivery!Post, Maintain, world
<1> QED  BY <1>4, <1>5, <1>6, <1>7, <1>8, <1>9

-----------------------------------------------------------------------------
(* The theorems.                                                                 *)

LEMMA Started ==
    ASSUME Init
    PROVE  IInv /\ Delivery!Init
<1>1. TypeOK
    <2>1. NoAction \in Action
        BY Bounds DEF NoAction, Action
    <2>2. open \in BOOLEAN /\ healthy \in BOOLEAN
        BY LimitsAssumption DEF Init
    <2> QED  BY <2>1, <2>2, NoRowFacts, Bounds DEF Init, TypeOK, Places
<1>2. RowsOK
    BY NoRowFacts DEF Init, RowsOK, NoRow
<1>3. HandsOK /\ UnaskedOK
    BY KeyParts DEF Init, HandsOK, UnaskedOK, NoAction
<1>4. Delivery!Init
    BY DEF Init, Delivery!Init, Live, Valid, StateOf, NoRow
<1> QED  BY <1>1, <1>2, <1>3, <1>4 DEF IInv

LEMMA LoopStep ==
    ASSUME IInv, Loop \/ CallFails \/ Interrupt, ~ Maintain
    PROVE  Step
<1>1. CASE Single
    <2>1. PICK k \in Keys : CancelSingle(k) \/ HoldSingle(k) \/ SendSingle(k)
        BY <1>1 DEF Single
    <2> QED  BY <2>1, CancelSingleStep, HoldSingleStep, SendSingleStep
<1> QED
    BY <1>1, ClockStep, DeferStep, ClaimMissedStep, StartChunkStep, ForwardStep, AbandonStep,
       AcknowledgeChunkStep, ClaimPendingStep, AcknowledgeSingleStep, CallReturnsStep,
       EndTickStep, CallFailsStep, InterruptStep DEF Loop

\* Every step keeps the invariant and is a step, or none, of Reminders.
LEMMA NextStep ==
    ASSUME IInv, [Next]_vars
    PROVE  IInv' /\ AttemptStays /\ [Delivery!Next]_(Delivery!rvars)
<1>1. CASE Surroundings
    BY <1>1, SurroundingsStep, OutsideFacts DEF Delivery!Next
<1>2. CASE Maintain
    BY <1>2, MaintainStep DEF Delivery!Next
<1>3. CASE (Loop \/ CallFails \/ Interrupt) /\ ~ Maintain
    <2>1. Step
        BY <1>3, LoopStep
    <2> QED  BY <2>1, QuietRows, QuietServes DEF Step, IInv, Delivery!Next
<1>4. CASE UNCHANGED vars
    <2>1. IInv' /\ AttemptStays
        BY <1>4 DEF vars, world, policy, clock, loop, IInv, TypeOK, RowsOK, HandsOK,
                   UnaskedOK, AttemptStays
    <2>2. Live' = Live /\ [k \in Keys |-> StateOf(k)]' = [k \in Keys |-> StateOf(k)]
        BY <1>4 DEF vars, world, policy, Live, Valid, OpenActions, StateOf
    <2> QED  BY <1>4, <2>1, <2>2 DEF vars, world, loop, Delivery!rvars
<1> QED  BY <1>1, <1>2, <1>3, <1>4 DEF Next

\* The inductive invariant holds throughout.
THEOREM Inductive == Spec => []IInv
<1>1. Init => IInv
    BY Started
<1>2. IInv /\ [Next]_vars => IInv'
    BY NextStep
<1> QED  BY <1>1, <1>2, PTL DEF Spec

\* The variables keep their types.
THEOREM Typing == Spec => []TypeOK
<1>1. IInv => TypeOK
    BY DEF IInv
<1> QED  BY <1>1, Inductive, PTL

\* The history of attempts agrees with the rows, and what is marked as sent has
\* reached the group.
THEOREM Attempts == Spec => []AttemptsAgree
<1>1. IInv => AttemptsAgree
    BY DEF IInv, RowsOK, RowOK, AttemptsAgree
<1> QED  BY <1>1, Inductive, PTL

\* The loop works on rows it has leased only.
THEOREM Held == Spec => []HeldIsLeased
<1>1. IInv => HeldIsLeased
    BY DEF IInv, TypeOK, HandsOK, HeldIsLeased, Sending
<1> QED  BY <1>1, Inductive, PTL

\* All of it: what holds of the rows of the outbox in every state.
THEOREM OutboxRows == Spec => []RowsAgree
<1> QED  BY Typing, Attempts, Held, PTL DEF RowsAgree

\* The result of an attempt is final.
THEOREM Final == Spec => AttemptIsFinal
<1>1. IInv /\ [Next]_vars =>
        [\A k \in Keys :
            row[k].attempt \notin {"none", "sending"} \/ row[k].status = "failed"
                => row'[k].attempt = row[k].attempt]_vars
    BY NextStep DEF AttemptStays
<1> QED  BY <1>1, Inductive, PTL DEF Spec, AttemptIsFinal

\* The outbox implements what Reminders promises.
THEOREM Refinement == Spec => Delivers
<1>1. Init => Delivery!Init
    BY Started
<1>2. IInv /\ [Next]_vars => [Delivery!Next]_(Delivery!rvars)
    BY NextStep
<1> QED  BY <1>1, <1>2, Inductive, PTL DEF Spec, Delivers, Delivery!Spec
-----------------------------------------------------------------------------
(* The departure monitor: what its variables hold.                              *)

TaskType ==
    [kind : {"none", "sync", "decrease", "increase"}, step : Steps, list : SUBSET Users,
     whole : BOOLEAN, key : Key \cup {None}, after : BOOLEAN]
CandidateType ==
    [from : SUBSET Users, to : SUBSET Users, confirmations : 0..(Confirmations - 1),
     back : SUBSET Users]
GroupOK ==
    /\ now \in Times /\ present \subseteq Users /\ moves \in 0..MaxMoves
    /\ left \in [Users -> SUBSET Times] /\ events \subseteq Event
    /\ \A e \in events : e.kind = "leave" => e.time \in left[e.user]
FaultsOK ==
    /\ enabled \in BOOLEAN /\ upsets \in 0..MaxUpsets /\ short \in 0..MaxShort
    /\ synced \in BOOLEAN /\ exported \in BOOLEAN /\ streak \in Nat /\ doubted \subseteq Users
MembersOK ==
    /\ member \in [Users -> Member]
    /\ \A u \in Users : member[u].active => member[u].missing < Threshold
CandidateOK == candidate \in CandidateType
TaskOK == task \in TaskType
OutboxOK ==
    /\ DOMAIN outbox \subseteq Key
    /\ outbox \in [DOMAIN outbox -> {"pending", "leased", "delivered"}]
    /\ arrived \subseteq DOMAIN outbox
    /\ \A k \in DOMAIN outbox : outbox[k] = "delivered" => k \in arrived
    /\ task.step = "send" => task.key \in DOMAIN outbox
Typed == GroupOK /\ FaultsOK /\ MembersOK /\ CandidateOK /\ TaskOK /\ OutboxOK

Before(L, t) == {s \in L : s < t}
\* A departure of the user has no notice yet.
Unnoticed(u) == Cardinality(Rows(u)) < Cardinality(left[u])
\* No one is back within the second, and who is not known was only noticed by events.
Dated(u) == left[u] \subseteq 0..now /\ (u \in present => now \notin left[u])
Stranger(u) ==
    ~member[u].known =>
        ~member[u].active /\ \A k \in Rows(u) : k.type = "leave" /\ k.time \in left[u]
\* What the snapshot holds of a stay: the notices are of earlier ones, and a member who is
\* away, or whom more lists have missed than were cut short in a row, has left unnoticed.
Stay(u) ==
    member[u].active =>
        /\ member[u].episode <= now
        /\ Cardinality(Rows(u)) <= Cardinality(Before(left[u], member[u].episode))
        /\ u \notin present => Unnoticed(u)
        /\ Unnoticed(u) \/ member[u].missing <= streak
\* What the list in hand says: a complete one misses who is away.
Listed(u) ==
    /\ u \in task.list /\ task.step \in {"info", "save"} =>
        /\ Cardinality(Rows(u)) <= Cardinality(Before(left[u], now))
        /\ u \notin present => Unnoticed(u)
    /\ task.step = "info" /\ task.whole /\ member[u].active /\ u \notin task.list => Unnoticed(u)
\* What the candidate of the fuse says of those who have stayed since its first list.
Watched(u) == member[u].active /\ u \in candidate.from \ (candidate.to \cup candidate.back)
Fused(u) == Watched(u) => Unnoticed(u) \/ candidate.confirmations <= streak
Counted(u) == Cardinality(Rows(u)) <= Cardinality(left[u])
Honest(u) == Counted(u) /\ Stay(u) /\ Listed(u) /\ Fused(u)
Truthful ==
    /\ \A u \in Users : Dated(u) /\ Stranger(u)
    /\ \A u \in Users \ doubted : Honest(u)
MonitorInv == Typed /\ Truthful
-----------------------------------------------------------------------------
(* Types.                                                                       *)

LEMMA TypedShows == Typed => MonitorTypeOK
    BY DEF Typed, MonitorTypeOK, GroupOK, FaultsOK, MembersOK, CandidateOK, TaskOK, OutboxOK,
           TaskType, CandidateType

\* A step between two tasks leaves the store alone; a step of one, the group.
LEMMA GroupStays == ASSUME GroupOK, UNCHANGED group, events' \subseteq events PROVE GroupOK'
    BY DEF GroupOK, group
LEMMA MembersStay == ASSUME MembersOK, UNCHANGED member PROVE MembersOK'
    BY DEF MembersOK
LEMMA OutboxStays ==
    ASSUME OutboxOK, UNCHANGED <<outbox, arrived>>, task'.step # "send" \/ UNCHANGED task
    PROVE  OutboxOK'
    BY DEF OutboxOK
LEMMA FaultsStay ==
    ASSUME FaultsOK, UNCHANGED <<exported, streak, doubted>>, UNCHANGED faults \/ Upset
    PROVE  FaultsOK'
    BY BoundsAssumption DEF FaultsOK, faults, Upset
LEMMA CandidateStays == ASSUME CandidateOK, UNCHANGED candidate \/ candidate' = NoCandidate
                        PROVE  CandidateOK'
    BY BoundsAssumption DEF CandidateOK, CandidateType, NoCandidate
\* A task goes on, or ends.
LEMMA TaskGoesOn ==
    ASSUME TaskOK,
           NEW s \in Steps, NEW l \in SUBSET Users, NEW k \in Key \cup {None}, NEW a \in BOOLEAN
    PROVE  /\ UNCHANGED task => TaskOK'
           /\ Ends => TaskOK' /\ task'.step = "idle" /\ task'.list = {}
           /\ task' = [task EXCEPT !.step = s] => TaskOK' /\ task'.step = s /\ task'.list = task.list
           /\ \A w \in BOOLEAN : task' = [task EXCEPT !.step = s, !.list = l, !.whole = w]
                => TaskOK' /\ task'.step = s /\ task'.list = l /\ task'.whole = w
           /\ task' = [task EXCEPT !.step = s, !.key = k]
                => TaskOK' /\ task'.step = s /\ task'.key = k /\ task'.list = task.list
           /\ task' = [task EXCEPT !.step = s, !.after = a]
                => TaskOK' /\ task'.step = s /\ task'.list = task.list
<1> USE DEF TaskOK, TaskType
<1>1. UNCHANGED task => TaskOK'
    OBVIOUS
<1>2. Ends => TaskOK' /\ task'.step = "idle" /\ task'.list = {}
    BY DEF Ends, Idle, Steps
<1>3. task' = [task EXCEPT !.step = s] => TaskOK' /\ task'.step = s /\ task'.list = task.list
    OBVIOUS
<1>4. ASSUME NEW w \in BOOLEAN, task' = [task EXCEPT !.step = s, !.list = l, !.whole = w]
      PROVE  TaskOK' /\ task'.step = s /\ task'.list = l /\ task'.whole = w
    <2>1. PICK n \in TaskType : n = [task EXCEPT !.step = s]
        OBVIOUS
    <2>2. PICK m \in TaskType : m = [n EXCEPT !.list = l]
        OBVIOUS
    <2>3. task' = [m EXCEPT !.whole = w]
        BY <1>4, <2>1, <2>2
    <2>4. m.step = s /\ m.list = l
        BY <2>1, <2>2
    <2> QED  BY <2>3, <2>4
<1>5. task' = [task EXCEPT !.step = s, !.key = k]
        => TaskOK' /\ task'.step = s /\ task'.key = k /\ task'.list = task.list
    OBVIOUS
<1>6. task' = [task EXCEPT !.step = s, !.after = a]
        => TaskOK' /\ task'.step = s /\ task'.list = task.list
    OBVIOUS
<1> QED  BY <1>1, <1>2, <1>3, <1>4, <1>5, <1>6
\* The list that is fetched is that of the group, unless it is cut short.
LEMMA Fetched ==
    ASSUME GroupOK, FetchList
    PROVE  \E l \in SUBSET Users, w \in BOOLEAN :
                /\ task' = [task EXCEPT !.step = "info", !.list = l, !.whole = w]
                /\ l \subseteq present /\ (w => l = present)
<1>1. CASE task' = [task EXCEPT !.step = "info", !.list = present, !.whole = TRUE]
    <2>1. present \in SUBSET Users /\ TRUE \in BOOLEAN
        BY DEF GroupOK
    <2> QED  BY <1>1, <2>1
<1>2. ASSUME NEW u \in present,
             task' = [task EXCEPT !.step = "info", !.list = {u}, !.whole = FALSE]
      PROVE  \E l \in SUBSET Users, w \in BOOLEAN :
                /\ task' = [task EXCEPT !.step = "info", !.list = l, !.whole = w]
                /\ l \subseteq present /\ (w => l = present)
    <2>1. {u} \in SUBSET Users /\ {u} \subseteq present /\ FALSE \in BOOLEAN
        BY DEF GroupOK
    <2> QED  BY <1>2, <2>1
<1> QED  BY <1>1, <1>2 DEF FetchList
LEMMA SettleKeeps ==
    ASSUME OutboxOK, NEW k \in DOMAIN outbox, NEW s \in {"pending", "leased", "delivered"},
           outbox' = [outbox EXCEPT ![k] = s], arrived' \in {arrived, arrived \cup {k}},
           s = "delivered" => k \in arrived',
           task'.step = "send" => task'.key \in DOMAIN outbox
    PROVE  OutboxOK' /\ DOMAIN outbox' = DOMAIN outbox
    BY DEF OutboxOK

LEMMA ClaimTyped == ASSUME Typed, Claim PROVE Typed' /\ DOMAIN outbox' = DOMAIN outbox
<1> USE DEF Typed
<1>1. GroupOK' /\ FaultsOK' /\ MembersOK' /\ CandidateOK'
    BY GroupStays, FaultsStay, MembersStay, CandidateStays DEF Claim, group, history
<1>2. ASSUME Onward, UNCHANGED <<outbox, arrived>> PROVE TaskOK' /\ OutboxOK'
    <2>1. TaskOK' /\ task'.step # "send"
        BY <1>2, TaskGoesOn DEF Onward, Steps
    <2> QED  BY <1>2, <2>1, OutboxStays
<1>3. ASSUME NEW k \in Claimable, outbox' = [outbox EXCEPT ![k] = "leased"], UNCHANGED arrived,
             task' = [task EXCEPT !.step = "send", !.key = k]
      PROVE  TaskOK' /\ OutboxOK' /\ DOMAIN outbox' = DOMAIN outbox
    <2>1. k \in DOMAIN outbox /\ k \in Key
        BY DEF Claimable, OutboxOK
    <2>2. TaskOK' /\ task'.key = k
        BY <1>3, <2>1, TaskGoesOn DEF Steps
    <2> QED  BY <1>3, <2>1, <2>2, SettleKeeps
<1> QED  BY <1>1, <1>2, <1>3 DEF Claim, history

LEMMA SendTyped ==
    ASSUME Typed, (\E a \in BOOLEAN : Send(a)) \/ SendFails
    PROVE  Typed' /\ DOMAIN outbox' = DOMAIN outbox
<1> USE DEF Typed
<1>1. GroupOK' /\ FaultsOK' /\ MembersOK' /\ CandidateOK'
    BY GroupStays, FaultsStay, MembersStay, CandidateStays DEF Send, SendFails, group, history
<1>2. TaskOK' /\ task'.step # "send"
    BY TaskGoesOn DEF Send, SendFails, Onward, Steps
<1>3. task.key \in DOMAIN outbox
    BY DEF Send, SendFails, OutboxOK
<1>4. PICK s \in {"pending", "delivered"} :
        /\ outbox' = [outbox EXCEPT ![task.key] = s]
        /\ arrived' \in {arrived, arrived \cup {task.key}}
        /\ s = "delivered" => task.key \in arrived'
    BY DEF Send, SendFails, Settles, history
<1>5. OutboxOK' /\ DOMAIN outbox' = DOMAIN outbox
    BY <1>2, <1>3, <1>4, SettleKeeps
<1> QED  BY <1>1, <1>2, <1>5

LEMMA LapseTyped == ASSUME Typed, Lapse PROVE Typed' /\ DOMAIN outbox' = DOMAIN outbox
<1> USE DEF Typed
<1>1. GroupOK' /\ FaultsOK' /\ MembersOK' /\ CandidateOK' /\ TaskOK'
    BY GroupStays, FaultsStay, MembersStay, CandidateStays DEF Lapse, group, history, TaskOK
<1>2. PICK k \in DOMAIN outbox : outbox' = [outbox EXCEPT ![k] = "pending"]
    BY DEF Lapse
<1>3. OutboxOK' /\ DOMAIN outbox' = DOMAIN outbox
    <2>1. UNCHANGED <<arrived, task>>
        BY DEF Lapse, history
    <2> QED  BY <1>2, <2>1, SettleKeeps DEF OutboxOK
<1> QED  BY <1>1, <1>3

\* The steps of a task that leave the store alone, and what befalls the bot.
LEMMA QuietTyped ==
    ASSUME Typed,
           \/ StartSync \/ Export \/ AskMember \/ ListFails \/ Flip \/ Crash \/ FetchList
           \/ \E e \in events : HandleIncrease(e)
           \/ UNCHANGED monitor
    PROVE  Typed' /\ UNCHANGED <<outbox, member, group, streak, doubted>>
<1> USE DEF Typed
<1>1. UNCHANGED <<outbox, arrived, member, group, streak, doubted>> /\ events' \subseteq events
    <2> USE DEF store, history
    <2>1. CASE StartSync \/ Export \/ AskMember \/ ListFails \/ Flip
        BY <2>1 DEF StartSync, Export, AskMember, ListFails, Flip
    <2>2. CASE Crash \/ FetchList \/ (\E e \in events : HandleIncrease(e)) \/ UNCHANGED monitor
        BY <2>2 DEF Crash, FetchList, HandleIncrease, monitor
    <2> QED  BY <2>1, <2>2
<1>2. UNCHANGED candidate \/ candidate' = NoCandidate
    BY DEF StartSync, Export, AskMember, ListFails, Flip, Crash, FetchList, HandleIncrease,
           monitor, store
<1>3. GroupOK' /\ MembersOK' /\ CandidateOK'
    BY <1>1, <1>2, GroupStays, MembersStay, CandidateStays
<1>4. FaultsOK'
    <2>1. exported' \in BOOLEAN
        BY DEF FaultsOK, store, StartSync, Export, AskMember, ListFails, Flip, Crash, FetchList,
               HandleIncrease, monitor
    <2>2. CASE StartSync \/ Flip \/ FetchList
        <3>1. CASE StartSync
            <4>1. synced' \in BOOLEAN
                BY <3>1 DEF StartSync
            <4>2. UNCHANGED <<enabled, upsets, short>>
                BY <3>1 DEF StartSync
            <4> QED  BY <1>1, <2>1, <4>1, <4>2 DEF FaultsOK
        <3>2. CASE Flip
            <4>1. enabled' \in BOOLEAN
                BY <3>2 DEF Flip
            <4>2. UNCHANGED <<synced, short>> /\ upsets' = upsets + 1 /\ upsets < MaxUpsets
                BY <3>2 DEF Flip
            <4> QED  BY <1>1, <2>1, <4>1, <4>2, BoundsAssumption DEF FaultsOK
        <3>3. CASE FetchList
            <4>1. UNCHANGED <<enabled, upsets, synced>>
                BY <3>3 DEF FetchList, faults
            <4>2. short' \in {short} \/ (short < MaxShort /\ short' = short + 1)
                BY <3>3 DEF FetchList, faults
            <4> QED  BY <1>1, <2>1, <4>1, <4>2, BoundsAssumption DEF FaultsOK
        <3> QED  BY <2>2, <3>1, <3>2, <3>3
    <2>3. CASE ~(StartSync \/ Flip \/ FetchList)
        <3>1. UNCHANGED faults \/ Upset
            BY <2>3 DEF Export, AskMember, ListFails, Crash, HandleIncrease, monitor, Upset, faults
        <3> QED  BY <1>1, <2>1, <3>1, BoundsAssumption DEF FaultsOK, faults, Upset
    <2> QED  BY <2>2, <2>3
<1>5. TaskOK' /\ (task'.step # "send" \/ UNCHANGED task)
    <2>1. CASE StartSync
        BY <2>1 DEF StartSync, TaskOK, TaskType, Idle, Steps
    <2>2. CASE Export
        <3>1. Goes("deliver") \/ Ends
            BY <2>2 DEF Export
        <3> QED  BY <3>1, TaskGoesOn DEF Goes, Steps
    <2>3. CASE AskMember
        <3>1. Goes("save") \/ Ends
            BY <2>3 DEF AskMember
        <3> QED  BY <3>1, TaskGoesOn DEF Goes, Steps
    <2>4. CASE ListFails \/ Crash
        BY <2>4, TaskGoesOn DEF ListFails, Crash, Steps
    <2>5. CASE FetchList
        <3>1. PICK l \in SUBSET Users, w \in BOOLEAN :
                task' = [task EXCEPT !.step = "info", !.list = l, !.whole = w]
            BY <2>5, Fetched
        <3> QED  BY <3>1, TaskGoesOn DEF Steps
    <2>6. ASSUME NEW e \in events, HandleIncrease(e) PROVE TaskOK' /\ (task'.step # "send" \/ UNCHANGED task)
        BY <2>6 DEF HandleIncrease, TaskOK, TaskType, Idle, Steps, GroupOK, Event
    <2>7. CASE Flip \/ UNCHANGED monitor
        BY <2>7 DEF Flip, monitor, TaskOK
    <2> QED  BY <2>1, <2>2, <2>3, <2>4, <2>5, <2>6, <2>7
<1>6. OutboxOK'
    BY <1>1, <1>5, OutboxStays
<1> QED  BY <1>1, <1>3, <1>4, <1>5, <1>6

LEMMA EnsuredTyped ==
    ASSUME OutboxOK, NEW keys \in SUBSET Key, outbox' = Ensured(keys), UNCHANGED arrived,
           task'.step # "send"
    PROVE  OutboxOK' /\ DOMAIN outbox' = DOMAIN outbox \cup keys
    BY DEF OutboxOK, Ensured

\* A record that changes: a list misses a member, for the last time or not.
MissedOnce(m) == [m EXCEPT !.missing = @ + 1]
Departed(m) == [m EXCEPT !.active = FALSE, !.missing = @ + 1]
LEMMA RecordChanges ==
    ASSUME NEW m \in Member
    PROVE  /\ Gone(m) \in Member /\ ~Gone(m).active /\ Gone(m).known = m.known
           /\ m.missing < Threshold => MissedOnce(m) \in Member /\ Departed(m) \in Member
           /\ MissedOnce(m).active = m.active /\ MissedOnce(m).known = m.known
           /\ MissedOnce(m).missing = m.missing + 1 /\ MissedOnce(m).episode = m.episode
           /\ Departed(m).active = FALSE /\ Departed(m).known = m.known
           /\ Departed(m).missing = m.missing + 1 /\ Departed(m).episode = m.episode
<1>4. PICK n \in Member : n = [m EXCEPT !.active = FALSE]
    BY DEF Member
<1>1. Gone(m) \in Member /\ ~Gone(m).active /\ Gone(m).known = m.known
    <2>1. Gone(m) = [n EXCEPT !.missing = 0]
        BY <1>4 DEF Gone
    <2>2. [n EXCEPT !.missing = 0] \in Member
        BY BoundsAssumption DEF Member
    <2>3. ~Gone(m).active /\ Gone(m).known = m.known
        BY DEF Member, Gone
    <2> QED  BY <2>1, <2>2, <2>3
<1>2. ASSUME m.missing < Threshold
      PROVE  MissedOnce(m) \in Member
    BY <1>2, BoundsAssumption DEF Member, MissedOnce
<1>3. ASSUME m.missing < Threshold
      PROVE  Departed(m) \in Member
    <2>1. Departed(m) = [n EXCEPT !.missing = m.missing + 1]
        BY <1>4 DEF Departed
    <2>2. m.missing + 1 \in 0..Threshold
        BY <1>3, BoundsAssumption DEF Member
    <2> QED  BY <2>1, <2>2 DEF Member
<1> QED  BY <1>1, <1>2, <1>3 DEF Member, MissedOnce, Departed

\* What an event does that is believed.
Marked(e) ==
    /\ e.kind = "leave" /\ KeyOf(e) \notin DOMAIN outbox /\ ~Stale(e) /\ ~Closed(e.user)
    /\ member' = [member EXCEPT ![e.user] = Gone(@)]
    /\ DOMAIN outbox' = DOMAIN outbox \cup {KeyOf(e)}
LEMMA DecreaseTyped ==
    ASSUME Typed, NEW e \in events, HandleDecrease(e)
    PROVE  /\ Typed' /\ UNCHANGED <<group, candidate, doubted, streak>> /\ events' \subseteq events
           /\ (UNCHANGED member /\ DOMAIN outbox' = DOMAIN outbox) \/ Marked(e)
           /\ UNCHANGED task \/ task'.step = "deliver"
<1> USE DEF Typed
<1>1. UNCHANGED <<group, faults, history, candidate, exported, doubted, streak, arrived>> /\ events' \subseteq events
    BY DEF HandleDecrease, MarkLeft, store, history, faults
<1>2. GroupOK' /\ FaultsOK' /\ CandidateOK'
    BY <1>1, GroupStays, FaultsStay, CandidateStays
<1>3. CASE UNCHANGED <<store, task>>
    <2>1. TaskOK' /\ MembersOK' /\ OutboxOK'
        BY <1>1, <1>3, MembersStay, OutboxStays DEF TaskOK, store
    <2> QED  BY <1>1, <1>2, <1>3, <2>1 DEF store
<1>4. CASE UNCHANGED store /\ task' = [Idle EXCEPT !.kind = "decrease", !.step = "deliver"]
    <2>1. TaskOK' /\ task'.step = "deliver"
        BY <1>4 DEF Idle, TaskOK, TaskType, Steps
    <2>2. MembersOK' /\ OutboxOK'
        BY <1>1, <1>4, <2>1, MembersStay, OutboxStays DEF store
    <2> QED  BY <1>1, <1>2, <1>4, <2>1, <2>2 DEF store
<1>5. CASE /\ MarkLeft(e) /\ task' = [Idle EXCEPT !.kind = "decrease", !.step = "deliver"]
           /\ KeyOf(e) \notin DOMAIN outbox /\ ~Stale(e) /\ ~Closed(e.user)
    <2>1. TaskOK' /\ task'.step = "deliver"
        BY <1>5 DEF Idle, TaskOK, TaskType, Steps
    <2>2. KeyOf(e) \in Key /\ e.user \in Users
        BY DEF KeyOf, Key, GroupOK, Event
    <2>3. OutboxOK' /\ DOMAIN outbox' = DOMAIN outbox \cup {KeyOf(e)}
        BY <1>1, <1>5, <2>1, <2>2, EnsuredTyped DEF MarkLeft
    <2>4. member' = [member EXCEPT ![e.user] = Gone(@)]
        BY <1>5 DEF MarkLeft
    <2>5. MembersOK'
        <3>1. member[e.user] \in Member /\ member \in [Users -> Member]
            BY <2>2 DEF MembersOK
        <3>2. Gone(member[e.user]) \in Member /\ ~Gone(member[e.user]).active
            BY <3>1, RecordChanges
        <3> QED  BY <2>2, <2>4, <3>1, <3>2 DEF MembersOK
    <2>6. Marked(e)
        BY <1>5, <2>3, <2>4 DEF Marked, HandleDecrease
    <2> QED  BY <1>1, <1>2, <2>1, <2>3, <2>5, <2>6
<1> QED  BY <1>3, <1>4, <1>5 DEF HandleDecrease

LEMMA SeenTyped ==
    ASSUME MembersOK, now \in Times, NEW list \in SUBSET Users
    PROVE  /\ Upserted(list) \in [Users -> Member]
           /\ \A u \in Users : u \notin list => Upserted(list)[u] = member[u]
           /\ \A u \in list :
                /\ Upserted(list)[u].known /\ Upserted(list)[u].active
                /\ Upserted(list)[u].missing = 0
                /\ Upserted(list)[u].episode = IF member[u].active THEN member[u].episode ELSE now
    BY BoundsAssumption DEF MembersOK, Upserted, Seen, Member
LEMMA UpsertTyped ==
    ASSUME Typed, UpsertMember
    PROVE  /\ Typed' /\ UNCHANGED <<group, doubted, streak, outbox, events>> /\ task'.step = "idle"
           /\ \/ UNCHANGED <<member, candidate>>
              \/ /\ member' = Upserted(task.list)
                 /\ candidate' = [candidate EXCEPT
                                    !.back = @ \cup ((task.list \cap candidate.from) \ Active)]
<1> USE DEF Typed
<1>1. UNCHANGED <<group, faults, history, exported, doubted, streak, arrived, outbox, events>>
    BY DEF UpsertMember, history, faults
<1>2. GroupOK' /\ FaultsOK'
    BY <1>1, GroupStays, FaultsStay
<1>3. TaskOK' /\ task'.step = "idle"
    BY DEF UpsertMember, Ends, Idle, TaskOK, TaskType, Steps
<1>4. OutboxOK'
    BY <1>1, <1>3, OutboxStays
<1>5. CASE UNCHANGED <<member, candidate>>
    BY <1>1, <1>2, <1>3, <1>4, <1>5, MembersStay, CandidateStays
<1>6. CASE /\ member' = Upserted(task.list)
           /\ candidate' = [candidate EXCEPT
                              !.back = @ \cup ((task.list \cap candidate.from) \ Active)]
    <2>1. task.list \in SUBSET Users /\ now \in Times
        BY DEF TaskOK, TaskType, GroupOK
    <2>2. MembersOK'
        BY <1>6, <2>1, SeenTyped, BoundsAssumption DEF MembersOK
    <2>3. CandidateOK'
        <3>1. PICK b : /\ b = candidate.back \cup ((task.list \cap candidate.from) \ Active)
                       /\ candidate' = [candidate EXCEPT !.back = b]
            BY <1>6
        <3>2. b \in SUBSET Users
            BY <2>1, <3>1 DEF CandidateOK, CandidateType
        <3> QED  BY <3>1, <3>2 DEF CandidateOK, CandidateType
    <2> QED  BY <1>1, <1>2, <1>3, <1>4, <1>6, <2>2, <2>3
<1> QED  BY <1>5, <1>6 DEF UpsertMember

LEMMA TickTyped ==
    ASSUME Typed, Tick
    PROVE  /\ Typed' /\ now' = now + 1 /\ now' \in Times
           /\ UNCHANGED <<present, left, events, streak, task, candidate, member, outbox, doubted>>
<1> USE DEF Typed
<1>1. UNCHANGED <<present, moves, left, events, enabled, upsets, short, store, task, history>>
    BY DEF Tick
<1>2. now' = now + 1 /\ now' \in Times /\ synced' = FALSE
    BY BoundsAssumption DEF Tick, GroupOK, Times
<1> QED  BY <1>1, <1>2 DEF store, history, GroupOK, FaultsOK, MembersOK, CandidateOK, TaskOK, OutboxOK

LEMMA MovesTyped ==
    ASSUME Typed, NEW u \in Users, Leave(u) \/ Join(u)
    PROVE  /\ Typed'
           /\ UNCHANGED <<now, streak, task, candidate, member, outbox, doubted>>
<1> USE DEF Typed
<1>1. /\ UNCHANGED <<now, faults, store, task, history>> /\ moves' \in 0..MaxMoves
      /\ left' \in [Users -> SUBSET Times]
      /\ \A v \in Users : left[v] \subseteq left'[v]
    BY BoundsAssumption DEF Leave, Join, Moves, GroupOK, Times
<1>2. PICK kind \in {"leave", "join"} :
        /\ events' = events \cup {[kind |-> kind, user |-> u, time |-> now]}
        /\ kind = "leave" => now \in left'[u]
    BY DEF Leave, Join, Moves, GroupOK
<1>3. present' \subseteq Users
    BY DEF Leave, Join, GroupOK
<1>4. events' \subseteq Event
    BY <1>2 DEF GroupOK, Event
<1>5. \A e \in events' : e.kind = "leave" => e.time \in left'[e.user]
    BY <1>1, <1>2 DEF GroupOK, Event
<1>6. GroupOK'
    BY <1>1, <1>3, <1>4, <1>5 DEF GroupOK
<1> QED  BY <1>1, <1>6 DEF faults, store, history, FaultsOK, MembersOK, CandidateOK, TaskOK, OutboxOK

\* What a list does to the store, if it is believed.
Replaced == Active = {} /\ ReplaceSnapshot(task.list) /\ TakesIn /\ UNCHANGED doubted
Fusing ==
    /\ Fuse(task.list) /\ candidate' = Observed(task.list) /\ UNCHANGED <<member, outbox, doubted>>
    /\ streak' = IF task.whole THEN streak ELSE streak + 1
Large == Cardinality(Active \ task.list) > SafeMissing
Reconciled(t) ==
    /\ ~Fuse(task.list) /\ t = IF Large THEN 1 ELSE Threshold
    /\ Reconcile(task.list, t) /\ TakesIn
    /\ doubted' = doubted \cup Uncertain(task.list, t)
Dropped == UNCHANGED <<member, outbox, streak, doubted>> /\ candidate' \in {candidate, NoCandidate}

LEMMA FetchInfoShows ==
    ASSUME FetchInfo
    PROVE  /\ UNCHANGED <<group, events, faults, exported, arrived>> /\ task.step = "info"
           /\ Ends \/ (\E d \in BOOLEAN : Then(d))
           /\ Dropped \/ Replaced \/ Fusing \/ (\E t : Reconciled(t))
<1>1. UNCHANGED <<group, events, faults, exported, arrived>> /\ task.step = "info"
    BY DEF FetchInfo
<1>2. CASE ApplyList(task.list)
    <2>1. Ends \/ (\E d \in BOOLEAN : Then(d))
        BY <1>2 DEF ApplyList
    <2>2. Replaced \/ Fusing \/ (\E t : Reconciled(t))
        BY <1>2 DEF ApplyList, Replaced, Fusing, Reconciled, Large
    <2> QED  BY <1>1, <2>1, <2>2
<1>3. CASE Ends /\ Dropped
    BY <1>1, <1>3
<1> QED  BY <1>2, <1>3 DEF FetchInfo, Dropped

LEMMA ObservedTyped ==
    ASSUME CandidateOK, Fuse(task.list), task.list \in SUBSET Users
    PROVE  Observed(task.list) \in CandidateType
<1>1. CASE candidate.from = Active /\ candidate.to = task.list
    <2>1. PICK c : c = candidate.confirmations + 1 /\ Observed(task.list) = [candidate EXCEPT !.confirmations = c]
        BY <1>1 DEF Observed
    <2>2. c \in 0..(Confirmations - 1)
        BY <2>1, BoundsAssumption DEF Fuse, CandidateOK, CandidateType
    <2> QED  BY <2>1, <2>2 DEF CandidateOK, CandidateType
<1>2. CASE ~(candidate.from = Active /\ candidate.to = task.list)
    <2>1. Observed(task.list) = [from |-> Active, to |-> task.list, confirmations |-> 1, back |-> {}]
        BY <1>2 DEF Observed
    <2>2. 1 \in 0..(Confirmations - 1)
        BY <2>1, BoundsAssumption DEF Fuse
    <2> QED  BY <2>1, <2>2 DEF CandidateType, Active
<1> QED  BY <1>1, <1>2

\* A reconciliation, member by member.
LEMMA Reconciles ==
    ASSUME Typed, NEW t, Reconciled(t)
    PROVE  /\ t \in 1..Threshold
           /\ DOMAIN outbox' = DOMAIN outbox \cup
                {[user |-> u, type |-> "reconcile", time |-> now] : u \in Confirmed(task.list, t)}
           /\ member' \in [Users -> Member] /\ candidate' = NoCandidate
           /\ \A u \in Users :
                /\ u \in task.list => member'[u] = Upserted(task.list)[u]
                /\ u \notin task.list /\ ~member[u].active => member'[u] = member[u]
                /\ u \notin task.list /\ member[u].active =>
                    /\ member'[u].missing = member[u].missing + 1 /\ member'[u].known = member[u].known
                    /\ member'[u].episode = member[u].episode
                    /\ member'[u].active <=> ~(member[u].missing + 1 >= t)
<1> USE DEF Typed
<1>1. t \in 1..Threshold
    BY BoundsAssumption DEF Reconciled
<1>2. task.list \in SUBSET Users /\ now \in Times
    BY DEF TaskOK, TaskType, GroupOK
<1>3. ASSUME NEW u \in Users
      PROVE  /\ member'[u] \in Member
             /\ u \in task.list => member'[u] = Upserted(task.list)[u]
             /\ u \notin task.list /\ ~member[u].active => member'[u] = member[u]
             /\ u \notin task.list /\ member[u].active =>
                 /\ member'[u].missing = member[u].missing + 1 /\ member'[u].known = member[u].known
                 /\ member'[u].episode = member[u].episode
                 /\ member'[u].active <=> ~(member[u].missing + 1 >= t)
    <2>1. /\ Upserted(task.list)[u] \in Member
          /\ u \notin task.list => Upserted(task.list)[u] = member[u]
        BY <1>2, SeenTyped
    <2>2. member[u] \in Member /\ (member[u].active => member[u].missing < Threshold)
        BY DEF MembersOK
    <2>3. CASE u \in Confirmed(task.list, t)
        <3>1. member'[u] = Departed(member[u])
            BY <2>3 DEF Reconciled, Reconcile, Departed
        <3>2. u \notin task.list /\ member[u].active /\ member[u].missing + 1 >= t
            BY <2>3 DEF Confirmed, Active
        <3>3. /\ member'[u] \in Member /\ member'[u].active = FALSE
              /\ member'[u].known = member[u].known /\ member'[u].missing = member[u].missing + 1
              /\ member'[u].episode = member[u].episode
            <4>1. member[u] \in Member /\ member[u].missing < Threshold
                BY <2>2, <3>2
            <4> QED  BY ONLY <3>1, <4>1, RecordChanges
        <3> QED  BY <3>2, <3>3
    <2>4. CASE u \in Active \ (task.list \cup Confirmed(task.list, t))
        <3>1. member'[u] = MissedOnce(member[u])
            BY <2>4 DEF Reconciled, Reconcile, MissedOnce
        <3>2. u \notin task.list /\ member[u].active /\ ~(member[u].missing + 1 >= t)
            BY <2>4 DEF Confirmed, Active
        <3>3. /\ member'[u] \in Member /\ member'[u].active = member[u].active
              /\ member'[u].known = member[u].known /\ member'[u].missing = member[u].missing + 1
              /\ member'[u].episode = member[u].episode
            <4>1. member[u] \in Member /\ member[u].missing < Threshold
                BY <2>2, <3>2
            <4> QED  BY ONLY <3>1, <4>1, RecordChanges
        <3> QED  BY <3>2, <3>3
    <2>5. CASE u \notin Confirmed(task.list, t) /\ u \notin Active \ (task.list \cup Confirmed(task.list, t))
        <3>1. member'[u] = Upserted(task.list)[u]
            BY <2>5 DEF Reconciled, Reconcile
        <3>2. u \in task.list \/ ~member[u].active
            BY <2>5 DEF Active
        <3> QED  BY <2>1, <3>1, <3>2
    <2> QED  BY <2>3, <2>4, <2>5
<1>4. member' \in [Users -> Member]
    <2>1. \A u \in Users : member'[u] \in Member
        BY <1>3
    <2> QED  BY <2>1 DEF Reconciled, Reconcile
<1>5. DOMAIN outbox' = DOMAIN outbox \cup
                {[user |-> u, type |-> "reconcile", time |-> now] : u \in Confirmed(task.list, t)}
    BY DEF Reconciled, Reconcile, Ensured
<1> QED  BY <1>1, <1>3, <1>4, <1>5 DEF Reconciled, Reconcile

LEMMA FetchInfoTyped ==
    ASSUME Typed, FetchInfo PROVE Typed' /\ task'.step \notin {"info", "save"}
<1> USE DEF Typed
<1>1. /\ UNCHANGED <<group, events, faults, exported, arrived>> /\ task.step = "info"
      /\ Ends \/ (\E d \in BOOLEAN : Then(d))
      /\ Dropped \/ Replaced \/ Fusing \/ (\E t : Reconciled(t))
    BY FetchInfoShows
<1>2. TaskOK' /\ task'.step \notin {"info", "save", "send"}
    BY <1>1, TaskGoesOn DEF Then, Steps
<1>3. GroupOK' /\ FaultsOK'
    <2>1. doubted' \subseteq Users
        BY <1>1 DEF FaultsOK, Dropped, Replaced, Fusing, Reconciled, Uncertain, Confirmed, Active
    <2>2. streak' \in Nat
        BY <1>1 DEF FaultsOK, Dropped, Replaced, Fusing, Reconciled, TakesIn
    <2> QED  BY <1>1, <2>1, <2>2, GroupStays DEF FaultsOK, faults
<1>4. task.list \in SUBSET Users /\ now \in Times
    BY DEF TaskOK, TaskType, GroupOK
<1>5. CASE Dropped
    BY <1>1, <1>2, <1>3, <1>5, MembersStay, OutboxStays, CandidateStays DEF Dropped
<1>6. CASE Replaced
    <2>1. MembersOK'
        BY <1>4, <1>6, SeenTyped, BoundsAssumption DEF Replaced, ReplaceSnapshot, MembersOK
    <2> QED  BY <1>1, <1>2, <1>3, <1>6, <2>1, OutboxStays, CandidateStays DEF Replaced, ReplaceSnapshot
<1>7. CASE Fusing
    <2>1. CandidateOK'
        BY <1>4, <1>7, ObservedTyped DEF Fusing, CandidateOK
    <2> QED  BY <1>1, <1>2, <1>3, <1>7, <2>1, OutboxStays, MembersStay DEF Fusing
<1>8. ASSUME NEW t, Reconciled(t) PROVE Typed'
    <2>1. CandidateOK'
        BY <1>8, Reconciles, CandidateStays
    <2>2. OutboxOK'
        <3> DEFINE keys == {[user |-> u, type |-> "reconcile", time |-> now] : u \in Confirmed(task.list, t)}
        <3>1. keys \in SUBSET Key /\ outbox' = Ensured(keys)
            <4>1. Confirmed(task.list, t) \subseteq Users
                BY DEF Confirmed, Active
            <4>2. keys \in SUBSET Key
                BY <1>4, <4>1 DEF Key
            <4> QED  BY <1>8, <4>2 DEF Reconciled, Reconcile
        <3> HIDE DEF keys
        <3> QED  BY <1>1, <1>2, <3>1, EnsuredTyped
    <2>3. MembersOK'
        <3>1. member' \in [Users -> Member]
            BY <1>8, Reconciles
        <3>2. ASSUME NEW u \in Users, member'[u].active PROVE member'[u].missing < Threshold
            <4>1. CASE u \in task.list
                <5>1. member'[u].missing = 0
                    <6>1. member'[u] = Upserted(task.list)[u]
                        BY <1>8, <4>1, Reconciles
                    <6> QED  BY <1>4, <4>1, <6>1, SeenTyped
                <5> QED  BY <5>1, BoundsAssumption
            <4>2. CASE u \notin task.list /\ member[u].active
                <5>1. member'[u].missing = member[u].missing + 1 /\ ~(member[u].missing + 1 >= t)
                    BY <1>8, <3>2, <4>2, Reconciles
                <5>2. t \in 1..Threshold
                    BY <1>8, Reconciles
                <5>3. member[u].missing \in Nat
                    BY BoundsAssumption DEF MembersOK, Member
                <5> QED  BY <5>1, <5>2, <5>3, BoundsAssumption
            <4>3. CASE u \notin task.list /\ ~member[u].active
                BY <1>8, <3>2, <4>3, Reconciles
            <4> QED  BY <4>1, <4>2, <4>3
        <3> QED  BY <3>1, <3>2 DEF MembersOK
    <2> QED  BY <1>2, <1>3, <2>1, <2>2, <2>3
<1> QED  BY <1>1, <1>2, <1>5, <1>6, <1>7, <1>8
-----------------------------------------------------------------------------
(* Counting.                                                                    *)

LEMMA TimesCount ==
    ASSUME NEW L \in SUBSET Times
    PROVE  /\ IsFiniteSet(L) /\ Cardinality(L) \in Nat
           /\ \A t : /\ IsFiniteSet(Before(L, t)) /\ Cardinality(Before(L, t)) \in Nat
                    /\ Cardinality(Before(L, t)) <= Cardinality(L)
<1>1. IsFiniteSet(Times)
    BY FS_Interval, BoundsAssumption DEF Times
<1>2. IsFiniteSet(L)
    BY <1>1, FS_Subset
<1>3. Cardinality(L) \in Nat
    BY <1>2, FS_CardinalityType
<1>4. ASSUME NEW t PROVE /\ IsFiniteSet(Before(L, t)) /\ Cardinality(Before(L, t)) \in Nat
                         /\ Cardinality(Before(L, t)) <= Cardinality(L)
    <2>1. Before(L, t) \in SUBSET L
        BY DEF Before
    <2>2. IsFiniteSet(Before(L, t)) /\ Cardinality(Before(L, t)) <= Cardinality(L)
        BY <1>2, <2>1, FS_Subset
    <2> QED  BY <2>2, FS_CardinalityType
<1> QED  BY <1>2, <1>3, <1>4

LEMMA RowsCount ==
    ASSUME Typed, NEW u \in Users
    PROVE  /\ IsFiniteSet(Rows(u)) /\ Cardinality(Rows(u)) \in Nat
           /\ IsFiniteSet(left[u]) /\ Cardinality(left[u]) \in Nat
           /\ \A t : /\ Cardinality(Before(left[u], t)) \in Nat
                    /\ Cardinality(Before(left[u], t)) <= Cardinality(left[u])
<1>1. IsFiniteSet(Times)
    BY FS_Interval, BoundsAssumption DEF Times
<1>2. IsFiniteSet(Rows(u))
    <2> DEFINE T == {"leave", "reconcile"} \X Times
               f == [k \in Rows(u) |-> <<k.type, k.time>>]
    <2>1. IsFiniteSet({"leave", "reconcile"})
        <3>1. IsFiniteSet({"leave"})
            BY FS_Singleton
        <3>2. IsFiniteSet({"leave"} \cup {"reconcile"})
            BY <3>1, FS_AddElement
        <3>3. {"leave"} \cup {"reconcile"} = {"leave", "reconcile"}
            OBVIOUS
        <3> QED  BY <3>2, <3>3
    <2>2. IsFiniteSet(T)
        BY <1>1, <2>1, FS_Product
    <2>3. Rows(u) \subseteq Key
        BY DEF Rows, Typed, OutboxOK
    <2>4. f \in Injection(Rows(u), T)
        <3>1. f \in [Rows(u) -> T]
            BY <2>3 DEF Key
        <3>2. \A x, y \in Rows(u) : f[x] = f[y] => x = y
            BY <2>3 DEF Key, Rows
        <3> QED  BY <3>1, <3>2 DEF Injection, IsInjective
    <2> HIDE DEF f, T
    <2> QED  BY <2>2, <2>4, FS_Injection
<1>3. left[u] \in SUBSET Times
    BY DEF Typed, GroupOK
<1>4. Cardinality(Rows(u)) \in Nat
    BY <1>2, FS_CardinalityType
<1> QED  BY <1>2, <1>3, <1>4, TimesCount

\* Events carry the second of the departure, so no two of a user tell of the same one.
LEMMA EventsCount ==
    ASSUME NEW u, NEW R \in SUBSET Key, NEW L, IsFiniteSet(L),
           \A k \in R : k.user = u /\ k.type = "leave" /\ k.time \in L
    PROVE  Cardinality(R) <= Cardinality(L)
<1> DEFINE f == [k \in R |-> k.time]
<1>1. f \in [R -> L]
    OBVIOUS
<1>2. \A x, y \in R : f[x] = f[y] => x = y
    BY DEF Key
<1>3. f \in Injection(R, L)
    BY <1>1, <1>2 DEF Injection, IsInjective
<1> HIDE DEF f
<1> QED  BY <1>3, FS_Injection

\* One more notice, one more departure.
LEMMA OneMore ==
    ASSUME NEW S, NEW x, IsFiniteSet(S), x \notin S
    PROVE  Cardinality(S \cup {x}) = Cardinality(S) + 1
    BY FS_AddElement
LEMMA FewerBefore ==
    ASSUME Typed, NEW u \in Users, NEW t, NEW s \in left[u], ~(s < t)
    PROVE  Cardinality(Before(left[u], t)) < Cardinality(left[u])
<1>1. Before(left[u], t) \in SUBSET left[u] /\ Before(left[u], t) # left[u]
    BY DEF Before
<1>2. /\ IsFiniteSet(left[u]) /\ Cardinality(left[u]) \in Nat
      /\ Cardinality(Before(left[u], t)) \in Nat /\ Cardinality(Before(left[u], t)) <= Cardinality(left[u])
    BY RowsCount
<1>3. Cardinality(left[u]) # Cardinality(Before(left[u], t))
    BY <1>1, <1>2, FS_Subset
<1> QED  BY <1>2, <1>3
-----------------------------------------------------------------------------
(* The steps.                                                                   *)

Unmoved ==
    /\ UNCHANGED <<now, present, left, member, doubted>> /\ DOMAIN outbox' = DOMAIN outbox
    /\ streak' = streak /\ candidate' \in {candidate, NoCandidate}
    /\ \/ task'.step \notin {"info", "save"}
       \/ task'.step = task.step /\ task'.list = task.list /\ task'.whole = task.whole
LEMMA QuietTruth == ASSUME Truthful, Unmoved PROVE Truthful'
<1>1. \A u \in Users : Rows(u)' = Rows(u)
    BY DEF Unmoved, Rows
<1>2. \A u \in Users : Dated(u)' /\ Stranger(u)'
    BY <1>1 DEF Truthful, Unmoved, Dated, Stranger
<1>3. ASSUME NEW u \in Users \ doubted PROVE Honest(u)'
    <2>1. Honest(u) /\ Rows(u)' = Rows(u) /\ (Unnoticed(u)' <=> Unnoticed(u))
        BY <1>1 DEF Truthful, Unmoved, Unnoticed, Before
    <2>2. Counted(u)' /\ Stay(u)'
        BY <2>1 DEF Honest, Unmoved, Counted, Stay
    <2>3. Listed(u)'
        BY <2>1 DEF Honest, Unmoved, Listed
    <2>4. Fused(u)'
        BY <2>1 DEF Honest, Unmoved, Fused, Watched, NoCandidate
    <2> QED  BY <2>2, <2>3, <2>4 DEF Honest
<1> QED  BY <1>2, <1>3 DEF Truthful, Unmoved

\* What is counted is a number.
LEMMA Numbers ==
    ASSUME Typed
    PROVE  /\ now \in Nat /\ streak \in Nat /\ candidate.confirmations \in Nat
           /\ \A u \in Users : /\ member[u].missing \in Nat /\ member[u].episode \in Nat
                               /\ left[u] \subseteq Nat /\ member[u] \in Member
<1>1. now \in Nat /\ streak \in Nat
    BY BoundsAssumption DEF Typed, GroupOK, FaultsOK, Times
<1>2. candidate.confirmations \in Nat
    BY BoundsAssumption DEF Typed, CandidateOK, CandidateType
<1>3. \A u \in Users : member[u].missing \in Nat /\ member[u].episode \in Nat /\ member[u] \in Member
    BY BoundsAssumption DEF Typed, MembersOK, Member, Times
<1>4. \A u \in Users : left[u] \subseteq Nat
    BY BoundsAssumption DEF Typed, GroupOK, Times
<1> QED  BY <1>1, <1>2, <1>3, <1>4

\* Who is in the group has left before this second, if ever.
LEMMA PresentEarlier ==
    ASSUME Typed, NEW u \in Users, Dated(u), u \in present
    PROVE  Before(left[u], now) = left[u]
    BY Numbers DEF Dated, Before

LEMMA FetchListTruth == ASSUME MonitorInv, FetchList PROVE Truthful'
<1> USE DEF MonitorInv
<1>1. /\ UNCHANGED <<now, present, left, member, streak, doubted, outbox, candidate>>
      /\ task'.step = "info" /\ task'.list \subseteq present
      /\ task'.whole => task'.list = present
    <2>1. UNCHANGED <<now, present, left, member, streak, doubted, outbox, candidate>>
        BY DEF FetchList, group, store, history
    <2>2. PICK l \in SUBSET Users, w \in BOOLEAN :
            /\ task' = [task EXCEPT !.step = "info", !.list = l, !.whole = w]
            /\ l \subseteq present /\ (w => l = present)
        BY Fetched DEF Typed
    <2>3. task'.step = "info" /\ task'.list = l /\ task'.whole = w
        BY <2>2, TaskGoesOn DEF Typed, Steps
    <2> QED  BY <2>1, <2>2, <2>3
<1>2. /\ \A u \in Users : Rows(u)' = Rows(u) /\ (Unnoticed(u)' <=> Unnoticed(u))
    BY <1>1 DEF Rows, Unnoticed, Before
<1>3. \A u \in Users : Dated(u)' /\ Stranger(u)'
    BY <1>1, <1>2 DEF Truthful, Dated, Stranger
<1>4. ASSUME NEW u \in Users \ doubted PROVE Honest(u)'
    <2>1. Honest(u) /\ Dated(u) /\ u \in Users
        BY DEF Truthful
    <2>2. Counted(u)' /\ Stay(u)' /\ Fused(u)'
        BY <1>1, <1>2, <2>1 DEF Honest, Counted, Stay, Fused, Watched
    <2>3. Listed(u)'
        <3>1. ASSUME u \in task'.list
              PROVE  u \in present /\ Cardinality(Rows(u)) <= Cardinality(Before(left[u], now))
            <4>1. u \in present
                BY <1>1, <3>1
            <4> QED  BY <2>1, <4>1, PresentEarlier DEF Honest, Counted
        <3>2. ASSUME member[u].active, task'.whole, u \notin task'.list PROVE Unnoticed(u)
            BY <1>1, <2>1, <3>2 DEF Honest, Stay
        <3> QED  BY <1>1, <1>2, <3>1, <3>2 DEF Listed
    <2> QED  BY <2>2, <2>3 DEF Honest
<1> QED  BY <1>1, <1>3, <1>4 DEF Truthful

LEMMA AskTruth == ASSUME MonitorInv, AskMember PROVE Truthful'
<1> USE DEF MonitorInv
<1>1. UNCHANGED <<now, present, left, member, doubted, outbox, candidate>> /\ streak' = streak
    BY DEF AskMember, group, store, history
<1>2. \/ task'.step \notin {"info", "save"}
      \/ task'.step = "save" /\ task'.list = task.list /\ task.list \subseteq present
    BY DEF AskMember, Goes, Ends, Idle, Typed, TaskOK, TaskType
<1>3. CASE task'.step \notin {"info", "save"}
    BY <1>1, <1>3, QuietTruth DEF Unmoved
<1>4. CASE task'.step = "save" /\ task'.list = task.list /\ task.list \subseteq present
    <2>1. /\ \A u \in Users : Rows(u)' = Rows(u) /\ (Unnoticed(u)' <=> Unnoticed(u))
        BY <1>1 DEF Rows, Unnoticed, Before
    <2>2. \A u \in Users : Dated(u)' /\ Stranger(u)'
        BY <1>1, <2>1 DEF Truthful, Dated, Stranger
    <2>3. ASSUME NEW u \in Users \ doubted PROVE Honest(u)'
        <3>1. Honest(u) /\ Dated(u) /\ u \in Users
            BY DEF Truthful
        <3>2. Counted(u)' /\ Stay(u)' /\ Fused(u)'
            BY <1>1, <1>4, <2>1, <3>1 DEF Honest, Counted, Stay, Fused, Watched
        <3>3. u \in task.list => u \in present /\ Cardinality(Rows(u)) <= Cardinality(Before(left[u], now))
            BY <1>4, <3>1, PresentEarlier DEF Honest, Counted
        <3>4. Listed(u)'
            BY <1>1, <1>4, <2>1, <3>3 DEF Listed
        <3> QED  BY <3>2, <3>4 DEF Honest
    <2> QED  BY <1>1, <2>2, <2>3 DEF Truthful
<1> QED  BY <1>2, <1>3, <1>4


\* Time passes, people come and go.
Passes ==
    /\ UNCHANGED <<member, outbox, candidate, doubted, streak, task>> /\ now' \in Nat /\ now <= now'
    /\ \A u \in Users : left[u] \subseteq left'[u] /\ Dated(u)'
    /\ \A u \in Users \ doubted : u \in present /\ u \notin present' => Unnoticed(u)'
LEMMA PassesTruth == ASSUME MonitorInv, Typed', Passes PROVE Truthful'
<1> USE DEF MonitorInv
<1>1. ASSUME NEW u \in Users, NEW t \in Nat, NEW s \in Nat, t <= s
      PROVE  Cardinality(Before(left[u], t)) <= Cardinality(Before(left'[u], s))
    <2>1. left'[u] \in SUBSET Times /\ left[u] \subseteq left'[u] /\ left[u] \subseteq Nat
        BY Numbers DEF Passes, Typed, GroupOK
    <2>2. Before(left[u], t) \in SUBSET Before(left'[u], s)
        BY <1>1, <2>1 DEF Before
    <2>3. IsFiniteSet(Before(left'[u], s))
        BY <2>1, TimesCount
    <2> QED  BY <2>2, <2>3, FS_Subset
<1>2. ASSUME NEW u \in Users
      PROVE  /\ Rows(u)' = Rows(u) /\ (Unnoticed(u) => Unnoticed(u)') /\ (Counted(u) => Counted(u)')
             /\ Stranger(u)'
    <2>1. Rows(u)' = Rows(u) /\ left[u] \subseteq left'[u] /\ left'[u] \in SUBSET Times
        BY DEF Passes, Rows, Typed, GroupOK
    <2>2. IsFiniteSet(left'[u]) /\ Cardinality(left'[u]) \in Nat
        BY <2>1, TimesCount
    <2>3. Cardinality(left[u]) \in Nat /\ Cardinality(Rows(u)) \in Nat
        BY RowsCount
    <2>4. Cardinality(left[u]) <= Cardinality(left'[u])
        BY <2>1, <2>2, FS_Subset
    <2>5. Unnoticed(u) => Unnoticed(u)'
        BY <2>1, <2>2, <2>3, <2>4 DEF Unnoticed
    <2>6. Counted(u) => Counted(u)'
        BY <2>1, <2>2, <2>3, <2>4 DEF Counted
    <2>7. Stranger(u)'
        BY <2>1 DEF Truthful, Stranger, Passes
    <2> QED  BY <2>1, <2>5, <2>6, <2>7
<1>3. ASSUME NEW u \in Users \ doubted PROVE Honest(u)'
    <2>1. Honest(u) /\ u \in Users
        BY DEF Truthful
    <2>2. u \in present /\ u \notin present' => Unnoticed(u)'
        BY DEF Passes
    <2>3. Rows(u)' = Rows(u) /\ (Unnoticed(u) => Unnoticed(u)') /\ Counted(u)'
        BY <1>2, <2>1 DEF Honest
    <2>4. /\ member[u].episode \in Nat /\ now \in Nat /\ now' \in Nat /\ now <= now'
          /\ left[u] \in SUBSET Times /\ left'[u] \in SUBSET Times
        BY Numbers DEF Passes, Typed, GroupOK
    <2>5. /\ Cardinality(Rows(u)) \in Nat
          /\ \A t : /\ Cardinality(Before(left[u], t)) \in Nat
                   /\ Cardinality(Before(left'[u], t)) \in Nat
        BY <2>1, <2>4, RowsCount, TimesCount
    <2>6. Stay(u)'
        <3>1. Cardinality(Before(left[u], member[u].episode))
                <= Cardinality(Before(left'[u], member[u].episode))
            BY <1>1, <2>1, <2>4
        <3>2. member[u].active =>
                Cardinality(Rows(u)) <= Cardinality(Before(left'[u], member[u].episode))
            BY <2>1, <2>5, <3>1 DEF Honest, Stay
        <3>3. member[u].active => member[u].episode <= now'
            BY <2>1, <2>4 DEF Honest, Stay
        <3> QED  BY <2>1, <2>2, <2>3, <3>2, <3>3 DEF Honest, Stay, Passes
    <2>7. Listed(u)'
        <3>1. Cardinality(Before(left[u], now)) <= Cardinality(Before(left'[u], now'))
            BY <1>1, <2>1, <2>4
        <3>2. Cardinality(Rows(u)) <= Cardinality(Before(left[u], now))
                => Cardinality(Rows(u)) <= Cardinality(Before(left'[u], now'))
            BY <2>5, <3>1
        <3> QED  BY <2>1, <2>2, <2>3, <3>2 DEF Honest, Listed, Passes
    <2>8. Fused(u)'
        BY <2>1, <2>3 DEF Honest, Fused, Watched, Passes
    <2> QED  BY <2>3, <2>6, <2>7, <2>8 DEF Honest
<1> QED  BY <1>2, <1>3 DEF Truthful, Passes

LEMMA TickTruth == ASSUME MonitorInv, Tick PROVE Typed' /\ Truthful'
<1>1. /\ Typed' /\ now' = now + 1 /\ now' \in Nat /\ now \in Nat
      /\ UNCHANGED <<present, left, events, streak, task, candidate, member, outbox, doubted>>
    BY TickTyped, Numbers DEF MonitorInv
<1>2. \A u \in Users : Dated(u)'
    <2>1. \A u \in Users : Dated(u) /\ left[u] \subseteq Nat
        BY Numbers DEF MonitorInv, Truthful
    <2> QED  BY <1>1, <2>1 DEF Dated
<1>3. Passes
    BY <1>1, <1>2 DEF Passes
<1> QED  BY <1>1, <1>3, PassesTruth

LEMMA MovesTruth ==
    ASSUME MonitorInv, NEW v \in Users, Leave(v) \/ Join(v) PROVE Typed' /\ Truthful'
<1> USE DEF MonitorInv
<1>1. Typed' /\ UNCHANGED <<now, streak, task, candidate, member, outbox, doubted>> /\ now \in Nat
    BY MovesTyped, Numbers
<1>2. CASE Leave(v)
    <2>1. /\ v \in present /\ present' = present \ {v} /\ left' = [left EXCEPT ![v] = @ \cup {now}]
          /\ left \in [Users -> SUBSET Times]
        BY <1>2 DEF Leave, Typed, GroupOK
    <2>2. \A u \in Users : left[u] \subseteq left'[u] /\ (u # v => left'[u] = left[u])
        BY <2>1
    <2>3. left'[v] = left[v] \cup {now} /\ now \notin left[v]
        BY <2>1 DEF Truthful, Dated
    <2>4. \A u \in Users : Dated(u)'
        <3>1. \A u \in Users : Dated(u)
            BY DEF Truthful
        <3> QED  BY <1>1, <2>1, <2>2, <2>3, <3>1 DEF Dated
    <2>5. ASSUME v \notin doubted PROVE Unnoticed(v)'
        <3>1. Cardinality(left'[v]) = Cardinality(left[v]) + 1
            BY <2>3, RowsCount, OneMore
        <3>2. Counted(v) /\ Rows(v)' = Rows(v)
            BY <1>1, <2>5 DEF Truthful, Honest, Rows
        <3>3. Cardinality(Rows(v)) \in Nat /\ Cardinality(left[v]) \in Nat
            BY RowsCount
        <3> QED  BY <3>1, <3>2, <3>3 DEF Counted, Unnoticed
    <2>6. Passes
        BY <1>1, <2>1, <2>2, <2>4, <2>5 DEF Passes
    <2> QED  BY <1>1, <2>6, PassesTruth
<1>3. CASE Join(v)
    <2>1. now \notin left[v] /\ present' = present \cup {v} /\ UNCHANGED left
        BY <1>3 DEF Join
    <2>2. \A u \in Users : Dated(u)'
        <3>1. \A u \in Users : Dated(u)
            BY DEF Truthful
        <3> QED  BY <1>1, <2>1, <3>1 DEF Dated
    <2>3. Passes
        BY <1>1, <2>1, <2>2 DEF Passes
    <2> QED  BY <1>1, <2>3, PassesTruth
<1> QED  BY <1>2, <1>3

\* An event that is believed takes one departure to its one notice.
LEMMA MarkedTruth ==
    ASSUME MonitorInv, Typed', NEW e \in events, Marked(e), task'.step = "deliver",
           UNCHANGED <<now, present, left, candidate, doubted, streak>>
    PROVE  Truthful'
<1> USE DEF MonitorInv
<1> DEFINE v == e.user
<1>1. /\ v \in Users /\ e.time \in left[v] /\ KeyOf(e) \in Key /\ KeyOf(e) \notin DOMAIN outbox
      /\ KeyOf(e).user = v /\ KeyOf(e).type = "leave" /\ KeyOf(e).time = e.time
    BY DEF Marked, KeyOf, Key, Typed, GroupOK, Event
<1>2. /\ Rows(v)' = Rows(v) \cup {KeyOf(e)} /\ KeyOf(e) \notin Rows(v)
      /\ \A u \in Users : u # v => Rows(u)' = Rows(u) /\ member'[u] = member[u]
    BY <1>1 DEF Marked, Rows, Typed, MembersOK
<1>3. member'[v] = Gone(member[v]) /\ member[v] \in Member
    BY <1>1 DEF Marked, Typed, MembersOK
<1>4. ~member'[v].active /\ member'[v].known = member[v].known
    <2>1. /\ ~Gone(member[v]).active /\ Gone(member[v]).known = member[v].known
        BY <1>3, RecordChanges
    <2> QED  BY ONLY <1>3, <2>1
<1> HIDE DEF v
<1>5. \A u \in Users : Dated(u)'
    BY DEF Truthful, Dated
<1>6. \A u \in Users : Stranger(u)'
    <2>1. \A u \in Users : Stranger(u)
        BY DEF Truthful
    <2>2. Stranger(v)'
        BY <1>1, <1>2, <1>4, <2>1 DEF Stranger
    <2> QED  BY <1>2, <2>1, <2>2 DEF Stranger
<1>7. ASSUME v \notin doubted PROVE Counted(v)'
    <2>1. /\ IsFiniteSet(Rows(v)) /\ Cardinality(Rows(v)) \in Nat /\ Cardinality(left[v]) \in Nat
          /\ IsFiniteSet(left[v])
        BY <1>1, RowsCount
    <2>2. Cardinality(Rows(v)') = Cardinality(Rows(v)) + 1
        BY <1>2, <2>1, OneMore
    <2>3. CASE member[v].active
        <3>1. ~(e.time < member[v].episode)
            BY <2>3 DEF Marked, Stale, v
        <3>2. Cardinality(Before(left[v], member[v].episode)) < Cardinality(left[v])
            BY <1>1, <3>1, FewerBefore
        <3>3. Cardinality(Rows(v)) <= Cardinality(Before(left[v], member[v].episode))
            BY <1>1, <1>7, <2>3 DEF Truthful, Honest, Stay
        <3>4. Cardinality(Before(left[v], member[v].episode)) \in Nat
            BY <1>1, RowsCount
        <3> QED  BY <2>1, <2>2, <3>2, <3>3, <3>4 DEF Counted
    <2>4. CASE ~member[v].active /\ member[v].known
        <3>1. Rows(v) = {}
            BY <2>4 DEF Marked, Closed, v
        <3>2. Cardinality(Rows(v)) = 0 /\ Cardinality(left[v]) # 0
            BY <1>1, <2>1, <3>1, FS_EmptySet
        <3> QED  BY <2>1, <2>2, <3>2 DEF Counted
    <2>5. CASE ~member[v].known
        <3>1. \A k \in Rows(v) : k.type = "leave" /\ k.time \in left[v]
            BY <1>1, <2>5 DEF Truthful, Stranger
        <3>2. Rows(v)' \in SUBSET Key
            BY <1>1, <1>2 DEF Rows, Typed, OutboxOK
        <3>3. \A k \in Rows(v)' : k.user = v /\ k.type = "leave" /\ k.time \in left[v]
            BY <1>1, <1>2, <3>1 DEF Rows
        <3>4. Cardinality(Rows(v)') <= Cardinality(left[v])
            BY <2>1, <3>2, <3>3, EventsCount
        <3> QED  BY <3>4 DEF Counted
    <2> QED  BY <2>3, <2>4, <2>5
<1>8. ASSUME NEW u \in Users \ doubted PROVE Honest(u)'
    <2>1. CASE u = v
        <3>1. Counted(u)'
            BY <1>7, <1>8, <2>1
        <3>2. Stay(u)' /\ Listed(u)' /\ Fused(u)'
            BY <1>4, <2>1 DEF Stay, Listed, Fused, Watched
        <3> QED  BY <3>1, <3>2 DEF Honest
    <2>2. CASE u # v
        <3>1. Honest(u) /\ Rows(u)' = Rows(u) /\ member'[u] = member[u] /\ (Unnoticed(u)' <=> Unnoticed(u))
            BY <1>2, <2>2 DEF Truthful, Unnoticed
        <3> QED  BY <3>1 DEF Honest, Counted, Stay, Listed, Fused, Watched
    <2> QED  BY <2>1, <2>2
<1> QED  BY <1>5, <1>6, <1>8 DEF Truthful

\* Who is seen begins a stay before which all his notices are.
LEMMA SeenStays ==
    ASSUME MonitorInv, Typed', NEW u \in Users \ doubted, u \in task.list, task.step \in {"info", "save"},
           member'[u] = Upserted(task.list)[u], Rows(u)' = Rows(u),
           UNCHANGED <<now, present, left>>
    PROVE  Counted(u)' /\ Stay(u)' /\ member'[u].active /\ member'[u].known /\ member'[u].missing = 0
<1> USE DEF MonitorInv
<1>1. Honest(u) /\ u \in Users
    BY DEF Truthful
<1>2. /\ task.list \in SUBSET Users /\ now \in Times /\ MembersOK /\ now \in Nat
      /\ streak' \in Nat
    BY Numbers DEF Typed, TaskOK, TaskType, GroupOK, FaultsOK
<1>3. /\ member'[u].known /\ member'[u].active /\ member'[u].missing = 0
      /\ member'[u].episode = IF member[u].active THEN member[u].episode ELSE now
    BY <1>2, SeenTyped
<1>4. Unnoticed(u)' <=> Unnoticed(u)
    BY DEF Unnoticed
<1>5. Stay(u)'
    BY <1>1, <1>2, <1>3, <1>4 DEF Honest, Stay, Listed
<1> QED  BY <1>1, <1>3, <1>5 DEF Honest, Counted

LEMMA UpsertTruth == ASSUME MonitorInv, UpsertMember PROVE Typed' /\ Truthful'
<1> USE DEF MonitorInv
<1>1. /\ Typed' /\ UNCHANGED <<now, present, left, doubted, streak, outbox, events>>
      /\ task'.step = "idle" /\ task.step = "save"
      /\ \/ UNCHANGED <<member, candidate>>
         \/ /\ member' = Upserted(task.list)
            /\ candidate' = [candidate EXCEPT
                               !.back = @ \cup ((task.list \cap candidate.from) \ Active)]
    BY UpsertTyped DEF group, UpsertMember
<1>2. CASE UNCHANGED <<member, candidate>>
    BY <1>1, <1>2, QuietTruth DEF Unmoved
<1>3. CASE /\ member' = Upserted(task.list)
           /\ candidate' = [candidate EXCEPT
                               !.back = @ \cup ((task.list \cap candidate.from) \ Active)]
    <2>1. \A u \in Users : Rows(u)' = Rows(u) /\ (Unnoticed(u)' <=> Unnoticed(u))
        BY <1>1 DEF Rows, Unnoticed
    <2>2. task.list \in SUBSET Users /\ now \in Times /\ MembersOK
        BY DEF Typed, TaskOK, TaskType, GroupOK
    <2>3. /\ \A u \in Users : u \notin task.list => member'[u] = member[u]
          /\ \A u \in task.list : member'[u].known /\ member'[u].active
        BY <1>3, <2>2, SeenTyped
    <2>4. \A u \in Users : Dated(u)'
        BY <1>1 DEF Truthful, Dated
    <2>5. \A u \in Users : Stranger(u)'
        <3>1. \A u \in Users : Stranger(u)
            BY DEF Truthful
        <3> QED  BY <1>1, <2>1, <2>3, <3>1 DEF Stranger
    <2>6. ASSUME NEW u \in Users \ doubted PROVE Honest(u)'
        <3>1. Honest(u)
            BY DEF Truthful
        <3>2. Counted(u)' /\ Stay(u)'
            <4>1. CASE u \in task.list
                BY <1>1, <1>3, <2>1, <4>1, SeenStays
            <4>2. CASE u \notin task.list
                BY <1>1, <2>1, <2>3, <3>1, <4>2 DEF Honest, Counted, Stay
            <4> QED  BY <4>1, <4>2
        <3>3. Listed(u)'
            BY <1>1 DEF Listed
        <3>4. /\ candidate'.from = candidate.from /\ candidate'.to = candidate.to
              /\ candidate'.confirmations = candidate.confirmations
              /\ candidate'.back = candidate.back \cup ((task.list \cap candidate.from) \ Active)
            BY <1>3 DEF Typed, CandidateOK, CandidateType
        <3>5. Watched(u)' => Watched(u)
            BY <2>3, <3>4 DEF Watched, Active
        <3>6. Fused(u)'
            BY <1>1, <2>1, <3>1, <3>4, <3>5 DEF Honest, Fused
        <3> QED  BY <3>2, <3>3, <3>6 DEF Honest
    <2> QED  BY <1>1, <2>4, <2>5, <2>6 DEF Truthful
<1> QED  BY <1>1, <1>2, <1>3

\* A list that is believed records a departure for certain only where there is one without
\* a notice: it is complete, or more lists have missed the member than were cut short.
LEMMA ConfirmedLeft ==
    ASSUME MonitorInv, NEW t, Reconciled(t),
           NEW u \in Users \ doubted', u \in Confirmed(task.list, t), task.step = "info"
    PROVE  Unnoticed(u)
<1> USE DEF MonitorInv
<1>1. /\ u \in Users \ doubted /\ u \in Active /\ u \notin task.list /\ member[u].active
      /\ u \notin Uncertain(task.list, t)
    BY DEF Reconciled, Confirmed, Active
<1>2. Honest(u)
    BY <1>1 DEF Truthful
<1>3. /\ streak \in Nat /\ candidate.confirmations \in Nat /\ member[u].missing \in Nat
      /\ Threshold \in Nat /\ Confirmations \in Nat
    BY Numbers, BoundsAssumption
<1>4. /\ ~(Large /\ u \in Observed(task.list).back)
      /\ task.whole \/ ~(streak + 1 >= IF Large THEN Confirmations ELSE Threshold)
    BY <1>1 DEF Uncertain, Large
<1>5. CASE task.whole
    BY <1>1, <1>2, <1>5 DEF Honest, Listed
<1>6. CASE ~task.whole /\ ~Large
    <2>1. member[u].missing + 1 >= Threshold
        BY <1>6 DEF Reconciled, Confirmed
    <2>2. Unnoticed(u) \/ member[u].missing <= streak
        BY <1>1, <1>2 DEF Honest, Stay
    <2> QED  BY <1>3, <1>4, <1>6, <2>1, <2>2
<1>7. CASE ~task.whole /\ Large
    <2>1. u \notin Observed(task.list).back /\ ~(streak + 1 >= Confirmations)
        BY <1>4, <1>7
    <2>2. ~(Observed(task.list).confirmations < Confirmations)
        BY <1>7 DEF Reconciled, Fuse, Large
    <2>3. CASE candidate.from = Active /\ candidate.to = task.list
        <3>1. /\ Observed(task.list).back = candidate.back
              /\ Observed(task.list).confirmations = candidate.confirmations + 1
            BY <2>3 DEF Observed, Typed, CandidateOK, CandidateType
        <3>2. Watched(u)
            BY <1>1, <2>1, <2>3, <3>1 DEF Watched
        <3>3. Unnoticed(u) \/ candidate.confirmations <= streak
            BY <1>2, <3>2 DEF Honest, Fused
        <3> QED  BY <1>3, <2>1, <2>2, <3>1, <3>3
    <2>4. CASE ~(candidate.from = Active /\ candidate.to = task.list)
        <3>1. Observed(task.list).confirmations = 1
            BY <2>4 DEF Observed
        <3> QED  BY <1>3, <2>1, <2>2, <3>1
    <2> QED  BY <2>3, <2>4
<1> QED  BY <1>5, <1>6, <1>7

LEMMA ReconciledTruth ==
    ASSUME MonitorInv, Typed', NEW t, Reconciled(t),
           task.step = "info", task'.step \notin {"info", "save"},
           UNCHANGED <<now, present, left>>
    PROVE  Truthful'
<1> USE DEF MonitorInv
<1>1. /\ \A u \in Users : ~(u \in Confirmed(task.list, t)) => Rows(u)' = Rows(u)
      /\ \A u \in Confirmed(task.list, t) :
            Rows(u)' = Rows(u) \cup {[user |-> u, type |-> "reconcile", time |-> now]}
    <2>1. DOMAIN outbox' = DOMAIN outbox \cup
                {[user |-> u, type |-> "reconcile", time |-> now] : u \in Confirmed(task.list, t)}
        BY Reconciles
    <2> QED  BY <2>1 DEF Rows
<1>2. candidate' = NoCandidate
    BY Reconciles
<1>3. \A u \in Users :
        /\ u \in task.list => member'[u] = Upserted(task.list)[u]
        /\ u \notin task.list /\ ~member[u].active => member'[u] = member[u]
        /\ u \notin task.list /\ member[u].active =>
            /\ member'[u].missing = member[u].missing + 1 /\ member'[u].known = member[u].known
            /\ member'[u].episode = member[u].episode
            /\ member'[u].active <=> ~(member[u].missing + 1 >= t)
    BY Reconciles
<1>4. \A u : u \in Confirmed(task.list, t)
                <=> u \in Users /\ member[u].active /\ u \notin task.list /\ member[u].missing + 1 >= t
    BY DEF Confirmed, Active
<1>5. task.list \in SUBSET Users /\ now \in Times /\ MembersOK
    BY DEF Typed, TaskOK, TaskType, GroupOK
<1>6. \A u \in Users : Dated(u)'
    BY DEF Truthful, Dated
<1>7. ASSUME NEW u \in Users PROVE Stranger(u)'
    <2>1. Stranger(u)
        BY DEF Truthful
    <2>2. CASE u \in task.list
        <3>1. member'[u].known
            BY <1>3, <1>5, <2>2, SeenTyped
        <3> QED  BY <3>1 DEF Stranger
    <2>3. CASE u \notin task.list /\ ~member[u].active
        <3>1. member'[u] = member[u] /\ Rows(u)' = Rows(u)
            BY <1>1, <1>3, <1>4, <2>3
        <3> QED  BY <2>1, <3>1 DEF Stranger
    <2>4. CASE u \notin task.list /\ member[u].active
        <3>1. member'[u].known
            BY <1>3, <2>1, <2>4 DEF Stranger
        <3> QED  BY <3>1 DEF Stranger
    <2> QED  BY <2>2, <2>3, <2>4
<1>8. ASSUME NEW u \in Users \ doubted' PROVE Honest(u)'
    <2>1. u \in Users \ doubted
        BY DEF Reconciled
    <2>2. Honest(u)
        BY <2>1 DEF Truthful
    <2>3. Listed(u)' /\ Fused(u)'
        BY <1>2 DEF Listed, Fused, Watched, NoCandidate
    <2>4. CASE u \in task.list
        <3>1. Rows(u)' = Rows(u) /\ member'[u] = Upserted(task.list)[u]
            BY <1>1, <1>3, <1>4, <2>1, <2>4
        <3>2. Counted(u)' /\ Stay(u)'
            BY <2>1, <2>4, <3>1, SeenStays
        <3> QED  BY <2>3, <3>2 DEF Honest
    <2>5. CASE u \notin task.list /\ ~member[u].active
        <3>1. member'[u] = member[u] /\ Rows(u)' = Rows(u)
            BY <1>1, <1>3, <1>4, <2>1, <2>5
        <3> QED  BY <2>2, <2>3, <2>5, <3>1 DEF Honest, Counted, Stay
    <2>6. CASE u \notin task.list /\ member[u].active /\ ~(u \in Confirmed(task.list, t))
        <3>1. /\ Rows(u)' = Rows(u) /\ member'[u].missing = member[u].missing + 1
              /\ member'[u].episode = member[u].episode
            BY <1>1, <1>3, <2>1, <2>6
        <3>2. Unnoticed(u)' <=> Unnoticed(u)
            BY <3>1 DEF Unnoticed
        <3>3. Unnoticed(u) \/ member[u].missing + 1 <= streak'
            <4>1. CASE task.whole
                BY <2>2, <2>6, <4>1 DEF Honest, Listed
            <4>2. CASE ~task.whole
                <5>1. streak' = streak + 1 /\ streak \in Nat /\ member[u].missing \in Nat
                    BY <2>1, <4>2, Numbers DEF Reconciled, TakesIn
                <5> QED  BY <2>2, <2>6, <5>1 DEF Honest, Stay
            <4> QED  BY <4>1, <4>2
        <3>4. Stay(u)'
            BY <2>2, <2>6, <3>1, <3>2, <3>3 DEF Honest, Stay
        <3>5. Counted(u)'
            BY <2>2, <3>1 DEF Honest, Counted
        <3> QED  BY <2>3, <3>4, <3>5 DEF Honest
    <2>7. CASE u \in Confirmed(task.list, t)
        <3>1. Unnoticed(u)
            BY <2>7, ConfirmedLeft
        <3>2. ~member'[u].active
            BY <1>3, <1>4, <2>1, <2>7
        <3>3. Counted(u)'
            <4> DEFINE k == [user |-> u, type |-> "reconcile", time |-> now]
            <4>1. Rows(u)' = Rows(u) \cup {k}
                BY <1>1, <2>7
            <4> HIDE DEF k
            <4>2. /\ IsFiniteSet(Rows(u)) /\ Cardinality(Rows(u)) \in Nat
                  /\ Cardinality(left[u]) \in Nat
                BY <2>1, RowsCount
            <4>3. Cardinality(Rows(u)') <= Cardinality(Rows(u)) + 1
                <5>1. CASE k \in Rows(u)
                    <6>1. Rows(u)' = Rows(u)
                        BY <4>1, <5>1
                    <6> QED  BY <4>2, <6>1
                <5>2. CASE k \notin Rows(u)
                    <6>1. Cardinality(Rows(u) \cup {k}) = Cardinality(Rows(u)) + 1
                        BY <4>2, <5>2, OneMore
                    <6> QED  BY <4>1, <4>2, <6>1
                <5> QED  BY <5>1, <5>2
            <4>4. Cardinality(Rows(u)') \in Nat
                <5>1. IsFiniteSet(Rows(u) \cup {k})
                    BY <4>2, FS_AddElement
                <5> QED  BY <4>1, <5>1, FS_CardinalityType
            <4> QED  BY <3>1, <4>2, <4>3, <4>4 DEF Unnoticed, Counted
        <3>4. Stay(u)'
            BY <3>2 DEF Stay
        <3> QED  BY <2>3, <3>3, <3>4 DEF Honest
    <2> QED  BY <1>4, <2>4, <2>5, <2>6, <2>7
<1> QED  BY <1>6, <1>7, <1>8 DEF Truthful

LEMMA FetchInfoTruth ==
    ASSUME MonitorInv, FetchInfo
    PROVE  Typed' /\ Truthful'
<1> USE DEF MonitorInv
<1>1. Typed' /\ task'.step \notin {"info", "save"}
    BY FetchInfoTyped
<1>2. /\ UNCHANGED <<now, present, left>> /\ task.step = "info"
      /\ Dropped \/ Replaced \/ Fusing \/ (\E t : Reconciled(t))
    BY FetchInfoShows DEF group
<1>3. CASE Dropped
    BY <1>1, <1>2, <1>3, QuietTruth DEF Dropped, Unmoved
<1>4. CASE Replaced
    <2>1. \A u \in Users : Rows(u)' = Rows(u) /\ ~member[u].active
        BY <1>4 DEF Replaced, ReplaceSnapshot, Rows, Active
    <2>2. task.list \in SUBSET Users /\ now \in Times /\ MembersOK
        BY DEF Typed, TaskOK, TaskType, GroupOK
    <2>3. /\ \A u \in Users : member'[u] = Upserted(task.list)[u]
          /\ \A u \in Users : u \notin task.list => member'[u] = member[u]
          /\ \A u \in task.list : member'[u].known
        BY <1>4, <2>2, SeenTyped DEF Replaced, ReplaceSnapshot
    <2>4. \A u \in Users : Dated(u)' /\ Stranger(u)'
        <3>1. \A u \in Users : Dated(u) /\ Stranger(u)
            BY DEF Truthful
        <3> QED  BY <1>2, <2>1, <2>3, <3>1 DEF Dated, Stranger
    <2>5. ASSUME NEW u \in Users \ doubted PROVE Honest(u)'
        <3>1. Honest(u)
            BY DEF Truthful
        <3>2. candidate' = NoCandidate
            BY <1>4 DEF Replaced, ReplaceSnapshot
        <3>3. Listed(u)' /\ Fused(u)'
            BY <1>1, <3>2 DEF Listed, Fused, Watched, NoCandidate
        <3>4. Counted(u)' /\ Stay(u)'
            <4>1. CASE u \in task.list
                BY <1>1, <1>2, <2>1, <2>3, <4>1, SeenStays
            <4>2. CASE u \notin task.list
                BY <1>2, <2>1, <2>3, <3>1, <4>2 DEF Honest, Counted, Stay
            <4> QED  BY <4>1, <4>2
        <3> QED  BY <3>3, <3>4 DEF Honest
    <2> QED  BY <1>1, <1>4, <2>4, <2>5 DEF Truthful, Replaced
<1>5. CASE Fusing
    <2>1. /\ UNCHANGED <<member, outbox, doubted>> /\ candidate' = Observed(task.list)
          /\ streak' = (IF task.whole THEN streak ELSE streak + 1) /\ streak \in Nat
        BY <1>5, Numbers DEF Fusing
    <2>2. \A u \in Users : Rows(u)' = Rows(u) /\ (Unnoticed(u)' <=> Unnoticed(u))
        BY <1>2, <2>1 DEF Rows, Unnoticed
    <2>3. \A u \in Users : Dated(u)' /\ Stranger(u)'
        BY <1>2, <2>1, <2>2 DEF Truthful, Dated, Stranger
    <2>4. ASSUME NEW u \in Users \ doubted PROVE Honest(u)'
        <3>1. Honest(u) /\ u \in Users
            BY DEF Truthful
        <3>2. Counted(u)' /\ Listed(u)'
            BY <1>1, <1>2, <2>1, <2>2, <3>1 DEF Honest, Counted, Listed
        <3>5. Stay(u)'
            <4>1. member[u].missing \in Nat
                BY <3>1, Numbers
            <4> QED  BY <1>2, <2>1, <2>2, <3>1, <4>1 DEF Honest, Stay
        <3>3. ASSUME Watched(u)'
              PROVE  Unnoticed(u) \/ candidate'.confirmations <= streak'
            <4>1. candidate'.to = task.list /\ u \notin task.list /\ member[u].active
                BY <2>1, <3>3 DEF Watched, Observed, Typed, CandidateOK, CandidateType
            <4>2. CASE task.whole
                BY <1>2, <3>1, <4>1, <4>2 DEF Honest, Listed
            <4>3. CASE ~task.whole /\ candidate.from = Active /\ candidate.to = task.list
                <5>1. /\ candidate'.from = candidate.from /\ candidate'.to = candidate.to
                      /\ candidate'.back = candidate.back
                      /\ candidate'.confirmations = candidate.confirmations + 1
                    BY <2>1, <4>3 DEF Observed, Typed, CandidateOK, CandidateType
                <5>2. Watched(u)
                    BY <2>1, <3>3, <5>1 DEF Watched
                <5>3. candidate.confirmations \in Nat
                    BY Numbers
                <5> QED  BY <2>1, <3>1, <4>3, <5>1, <5>2, <5>3 DEF Honest, Fused
            <4>4. CASE ~task.whole /\ ~(candidate.from = Active /\ candidate.to = task.list)
                <5>1. candidate'.confirmations = 1
                    BY <2>1, <4>4 DEF Observed
                <5> QED  BY <2>1, <4>4, <5>1
            <4> QED  BY <4>2, <4>3, <4>4
        <3>4. Fused(u)'
            BY <1>1, <1>2, <2>2, <3>1, <3>3 DEF Fused
        <3> QED  BY <3>2, <3>4, <3>5 DEF Honest
    <2> QED  BY <1>1, <2>1, <2>3, <2>4 DEF Truthful
<1>6. ASSUME NEW t, Reconciled(t) PROVE Truthful'
    BY <1>1, <1>2, <1>6, ReconciledTruth
<1> QED  BY <1>1, <1>2, <1>3, <1>4, <1>5, <1>6
-----------------------------------------------------------------------------
(* The specification.                                                           *)

LEMMA MonitorStarts == MonitorInit => MonitorInv
<1> SUFFICES ASSUME MonitorInit PROVE MonitorInv
    OBVIOUS
<1>1. /\ now = 0 /\ present = Members /\ moves = 0 /\ left = [u \in Users |-> {}]
      /\ events = {} /\ enabled = TRUE /\ upsets = 0 /\ short = 0 /\ synced = FALSE
      /\ exported \in BOOLEAN /\ outbox = [k \in {} |-> "pending"] /\ candidate = NoCandidate
      /\ task = Idle /\ arrived = {} /\ streak = 0 /\ doubted = {}
    BY DEF MonitorInit
<1>2. PICK first \in BOOLEAN :
        member = [u \in Users |-> [Unknown EXCEPT !.known = ~first /\ u \in Members,
                                                  !.active = ~first /\ u \in Members]]
    BY DEF MonitorInit
<1>3. ASSUME NEW u \in Users
      PROVE  /\ member[u] \in Member /\ member[u].missing = 0 /\ member[u].episode = 0
             /\ member[u].active = member[u].known
             /\ member[u].active => u \in Members
    <2>1. PICK b \in BOOLEAN : b = (~first /\ u \in Members)
        OBVIOUS
    <2>2. PICK m : m = [Unknown EXCEPT !.known = b]
        OBVIOUS
    <2>3. m = [known |-> b, active |-> FALSE, missing |-> 0, episode |-> 0]
        BY <2>2 DEF Unknown
    <2>4. member[u] = [Unknown EXCEPT !.known = b, !.active = b]
        BY <1>2, <2>1
    <2>5. [Unknown EXCEPT !.known = b, !.active = b] = [m EXCEPT !.active = b]
        BY <2>2
    <2>6. [m EXCEPT !.active = b] = [known |-> b, active |-> b, missing |-> 0, episode |-> 0]
        BY <2>3
    <2>7. member[u] = [known |-> b, active |-> b, missing |-> 0, episode |-> 0]
        BY <2>4, <2>5, <2>6
    <2>8. 0 \in Times /\ 0 \in 0..Threshold
        BY BoundsAssumption DEF Times
    <2>9. member[u] \in Member
        BY <2>7, <2>8 DEF Member
    <2>10. /\ member[u].missing = 0 /\ member[u].episode = 0
           /\ member[u].active = b /\ member[u].known = b
        BY <2>7
    <2> QED  BY <2>1, <2>9, <2>10
<1>4. Typed
    <2>1. GroupOK
        BY <1>1, UsersAssumption, BoundsAssumption DEF GroupOK, Times
    <2>2. FaultsOK
        <3>1. /\ enabled \in BOOLEAN /\ synced \in BOOLEAN /\ exported \in BOOLEAN
              /\ doubted \subseteq Users /\ streak \in Nat
            BY <1>1
        <3>2. upsets \in 0..MaxUpsets /\ short \in 0..MaxShort
            BY <1>1, BoundsAssumption
        <3> QED  BY <3>1, <3>2 DEF FaultsOK
    <2>5. CandidateOK
        BY <1>1, BoundsAssumption DEF CandidateOK, CandidateType, NoCandidate
    <2>3. MembersOK
        <3>1. member = [u \in Users |-> member[u]]
            BY <1>2
        <3>2. member \in [Users -> Member]
            BY <1>3, <3>1
        <3>3. \A u \in Users : member[u].missing < Threshold
            BY <1>3, BoundsAssumption
        <3> QED  BY <3>2, <3>3 DEF MembersOK
    <2>4. TaskOK /\ OutboxOK
        BY <1>1 DEF TaskOK, TaskType, Idle, Steps, OutboxOK
    <2> QED  BY <2>1, <2>2, <2>3, <2>4, <2>5 DEF Typed
<1>5. ASSUME NEW u \in Users PROVE Dated(u) /\ Stranger(u) /\ Honest(u)
    <2>1. Rows(u) = {} /\ left[u] = {} /\ Before(left[u], member[u].episode) = {}
        BY <1>1 DEF Rows, Before
    <2>2. Cardinality({}) = 0
        BY FS_EmptySet
    <2>3. Dated(u) /\ Stranger(u)
        BY <1>3, <2>1 DEF Dated, Stranger
    <2>4. Counted(u) /\ Listed(u)
        BY <1>1, <2>1, <2>2 DEF Counted, Listed, Idle
    <2>6. Fused(u)
        BY <1>1 DEF Fused, Watched, NoCandidate
    <2>5. Stay(u)
        <3>1. member[u].episode <= now /\ (Unnoticed(u) \/ member[u].missing <= streak)
            BY <1>1, <1>3
        <3>2. Cardinality(Rows(u)) <= Cardinality(Before(left[u], member[u].episode))
            BY <2>1, <2>2
        <3>3. member[u].active /\ u \notin present => Unnoticed(u)
            BY <1>1, <1>3
        <3> QED  BY <3>1, <3>2, <3>3 DEF Stay
    <2> QED  BY <2>3, <2>4, <2>5, <2>6 DEF Honest
<1> QED  BY <1>1, <1>4, <1>5 DEF MonitorInv, Truthful

LEMMA MonitorSteps == Typed /\ [MonitorNext]_monitor => Typed'
<1> SUFFICES ASSUME Typed, [MonitorNext]_monitor PROVE Typed'
    OBVIOUS
<1>1. CASE Claim
    BY <1>1, ClaimTyped
<1>2. CASE (\E a \in BOOLEAN : Send(a)) \/ SendFails
    BY <1>2, SendTyped
<1>3. CASE Lapse
    BY <1>3, LapseTyped
<1>4. CASE \/ StartSync \/ Export \/ AskMember \/ ListFails \/ Flip \/ Crash \/ FetchList
           \/ \E e \in events : HandleIncrease(e)
           \/ UNCHANGED monitor
    BY <1>4, QuietTyped
<1>5. CASE \E e \in events : HandleDecrease(e)
    BY <1>5, DecreaseTyped
<1>6. CASE UpsertMember
    BY <1>6, UpsertTyped
<1>7. CASE Tick
    BY <1>7, TickTyped
<1>8. CASE \E u \in Users : Leave(u) \/ Join(u)
    BY <1>8, MovesTyped
<1>9. CASE FetchInfo
    BY <1>9, FetchInfoTyped
<1> QED  BY <1>1, <1>2, <1>3, <1>4, <1>5, <1>6, <1>7, <1>8, <1>9 DEF MonitorNext, TaskStep

\* The steps that tell nothing new of anyone.
LEMMA QuietSteps ==
    ASSUME MonitorInv,
           \/ Claim \/ (\E a \in BOOLEAN : Send(a)) \/ SendFails \/ Lapse
           \/ StartSync \/ Export \/ ListFails \/ Flip \/ Crash
           \/ \E e \in events : HandleIncrease(e)
           \/ UNCHANGED monitor
    PROVE  Unmoved
<1> USE DEF MonitorInv
<1>1. DOMAIN outbox' = DOMAIN outbox
    <2>1. CASE Claim \/ (\E a \in BOOLEAN : Send(a)) \/ SendFails \/ Lapse
        BY <2>1, ClaimTyped, SendTyped, LapseTyped
    <2>2. CASE ~(Claim \/ (\E a \in BOOLEAN : Send(a)) \/ SendFails \/ Lapse)
        <3>1. UNCHANGED outbox
            BY <2>2, QuietTyped
        <3> QED  BY <3>1
    <2> QED  BY <2>1, <2>2
<1>2. UNCHANGED <<now, present, left, member, doubted>>
    BY DEF Claim, Send, SendFails, Lapse, StartSync, Export, ListFails, Flip, Crash, HandleIncrease,
           monitor, group, store, history
<1>3. streak' = streak
    BY DEF Claim, Send, SendFails, Lapse, StartSync, Export, ListFails, Flip, Crash, HandleIncrease,
           monitor, history
<1>4. candidate' \in {candidate, NoCandidate}
    BY DEF Claim, Send, SendFails, Lapse, StartSync, Export, ListFails, Flip, Crash, HandleIncrease,
           monitor, store
<1>5. \/ task'.step \notin {"info", "save"}
      \/ task'.step = task.step /\ task'.list = task.list /\ task'.whole = task.whole
    <2> USE DEF Typed, TaskOK, TaskType
    <2>5. Onward => task'.step \notin {"info", "save"}
        <3>1. Onward => task' = [task EXCEPT !.step = "list", !.key = None] \/ Ends
            BY DEF Onward
        <3>2. task' = [task EXCEPT !.step = "list", !.key = None] => task'.step = "list"
            OBVIOUS
        <3> QED  BY <3>1, <3>2 DEF Ends, Idle
    <2>6. Ends => task'.step \notin {"info", "save"}
        BY DEF Ends, Idle
    <2>1. CASE Claim
        <3>1. Onward \/ \E k : task' = [task EXCEPT !.step = "send", !.key = k]
            BY <2>1 DEF Claim
        <3> QED  BY <2>5, <3>1
    <2>7. CASE (\E a \in BOOLEAN : Send(a)) \/ SendFails
        <3>1. Onward \/ task' = [task EXCEPT !.step = "deliver", !.key = None]
            BY <2>7 DEF Send, SendFails
        <3> QED  BY <2>5, <3>1
    <2>2. CASE StartSync \/ Export \/ ListFails \/ Crash
        <3>1. \/ Ends \/ Goes("deliver")
              \/ task' = [Idle EXCEPT !.kind = "sync", !.step = "deliver"]
            BY <2>2 DEF StartSync, Export, ListFails, Crash
        <3>2. Goes("deliver") => task'.step = "deliver"
            BY DEF Goes
        <3> QED  BY <2>6, <3>1, <3>2 DEF Idle
    <2>3. CASE Lapse \/ Flip \/ UNCHANGED monitor
        BY <2>3 DEF Lapse, Flip, monitor
    <2>4. CASE \E e \in events : HandleIncrease(e)
        BY <2>4 DEF HandleIncrease, Idle
    <2> QED  BY <2>1, <2>2, <2>3, <2>4, <2>7
<1> QED  BY <1>1, <1>2, <1>3, <1>4, <1>5 DEF Unmoved

LEMMA TruthSteps == MonitorInv /\ [MonitorNext]_monitor => MonitorInv'
<1> SUFFICES ASSUME MonitorInv, [MonitorNext]_monitor PROVE MonitorInv'
    OBVIOUS
<1>1. Typed'
    BY MonitorSteps DEF MonitorInv
<1>2. CASE \/ Claim \/ (\E a \in BOOLEAN : Send(a)) \/ SendFails \/ Lapse
           \/ StartSync \/ Export \/ ListFails \/ Flip \/ Crash
           \/ \E e \in events : HandleIncrease(e)
           \/ UNCHANGED monitor
    BY <1>1, <1>2, QuietSteps, QuietTruth DEF MonitorInv
<1>3. CASE FetchList \/ AskMember
    BY <1>1, <1>3, FetchListTruth, AskTruth DEF MonitorInv
<1>4. ASSUME NEW e \in events, HandleDecrease(e) PROVE Truthful'
    <2>1. /\ UNCHANGED <<group, candidate, doubted, streak>>
          /\ (UNCHANGED member /\ DOMAIN outbox' = DOMAIN outbox) \/ Marked(e)
          /\ UNCHANGED task \/ task'.step = "deliver"
        BY <1>4, DecreaseTyped DEF MonitorInv
    <2>2. UNCHANGED <<now, present, left, candidate, doubted, streak>>
        BY <2>1 DEF group
    <2>3. CASE UNCHANGED member /\ DOMAIN outbox' = DOMAIN outbox
        BY <2>1, <2>2, <2>3, QuietTruth DEF Unmoved, MonitorInv
    <2>4. CASE Marked(e)
        <3>1. task'.step = "deliver"
            <4>1. KeyOf(e) \in DOMAIN outbox' /\ KeyOf(e) \notin DOMAIN outbox
                BY <2>4 DEF Marked
            <4>2. ~UNCHANGED store
                BY <4>1 DEF store
            <4> QED  BY <1>4, <4>2 DEF HandleDecrease, Idle
        <3> QED  BY <1>1, <2>2, <2>4, <3>1, MarkedTruth
    <2> QED  BY <2>1, <2>3, <2>4
<1>5. CASE UpsertMember \/ Tick
    BY <1>5, UpsertTruth, TickTruth DEF MonitorInv
<1>6. CASE \E u \in Users : Leave(u) \/ Join(u)
    BY <1>6, MovesTruth DEF MonitorInv
<1>7. CASE FetchInfo
    BY <1>7, FetchInfoTruth DEF MonitorInv
<1> QED  BY <1>1, <1>2, <1>3, <1>4, <1>5, <1>6, <1>7 DEF MonitorInv, MonitorNext, TaskStep

\* The variables of the departure monitor have their types, whatever the platform does.
THEOREM MonitorTypes == MonitorSpec => []MonitorTypeOK
<1>1. MonitorInit => Typed
    BY MonitorStarts DEF MonitorInv
<1> QED  BY <1>1, MonitorSteps, TypedShows, PTL DEF MonitorSpec

\* No departure is made up or reported twice, in a group of any size and at any length of
\* the run, however many lists are cut short: only as many of them in a row as the monitor
\* asks for, or lists from before a stay, put a member in doubt.
THEOREM MonitorNoticesAreTrue == MonitorSpec => []NoticesAreTrue
<1>1. MonitorInv => NoticesAreTrue
    BY TypedShows DEF MonitorInv, Truthful, Honest, Counted, NoticesAreTrue, Typed, OutboxOK
<1> QED  BY <1>1, MonitorStarts, TruthSteps, PTL DEF MonitorSpec
-----------------------------------------------------------------------------
(* A notice for everyone who is recorded as gone.  The key of a notice has the  *)
(* second of the list, so two lists of one second must not both record someone  *)
(* who was back in between.  Before the last second of the model only one       *)
(* synchronisation begins in each; in the last, those who are back have stayed, *)
(* so that only lists that were cut short in a row record them: the doubted.    *)

Again(u) == [user |-> u, type |-> "reconcile", time |-> now] \in DOMAIN outbox
\* The task in hand has a list still to apply.
Lists ==
    \/ task.step \in {"list", "info"}
    \/ task.kind = "sync" /\ task.step \in {"deliver", "send"} /\ ~task.after
\* No list of this second has missed whoever was recorded in it.
Unmissed(u) == candidate.confirmations = 0 /\ (member[u].active => member[u].missing = 0)
Early(u) ==
    /\ ~synced => ~Lists
    /\ ~synced \/ Lists => Unmissed(u)
Late(u) ==
    /\ member[u].active => u \in present /\ member[u].missing <= streak
    /\ task.step \in {"info", "save"} /\ u \in task.list => u \in present
    /\ task.step = "info" /\ task.whole /\ member[u].active => u \in task.list
    /\ u \in candidate.from \ candidate.to => u \in present /\ candidate.confirmations <= streak
Once(u) == Again(u) => IF now < MaxTime THEN Early(u) ELSE Late(u)
OnceASecond ==
    /\ \A k \in DOMAIN outbox : k.type = "reconcile" => k.time <= now
    /\ \A u \in Users : Once(u)
NoticeInv == Typed /\ OnceASecond

\* A step that takes no list in hand, applies none and records none.
Aside ==
    /\ UNCHANGED <<now, present, synced, streak>>
    /\ \A k \in DOMAIN outbox' : k \in DOMAIN outbox \/ k.type = "leave"
    /\ \A u \in Users : member'[u] = member[u] \/ ~member'[u].active
    /\ candidate' \in {candidate, NoCandidate}
    /\ Lists' => Lists
    /\ \/ task'.step \notin {"info", "save"}
       \/ task'.step = task.step /\ task'.list = task.list /\ task'.whole = task.whole
LEMMA AsideKeeps == ASSUME NoticeInv, Aside PROVE OnceASecond'
<1> USE DEF NoticeInv, Aside
<1>1. \A k \in DOMAIN outbox' : k.type = "reconcile" => k \in DOMAIN outbox /\ k.time <= now'
    BY DEF OnceASecond
<1>2. ASSUME NEW u \in Users, Again(u)' PROVE IF now' < MaxTime THEN Early(u)' ELSE Late(u)'
    <2>1. Again(u)
        BY <1>1, <1>2 DEF Again
    <2>2. IF now < MaxTime THEN Early(u) ELSE Late(u)
        BY <2>1 DEF OnceASecond, Once
    <2>3. candidate'.confirmations \in {0, candidate.confirmations}
        BY DEF NoCandidate
    <2>4. CASE now < MaxTime
        BY <2>2, <2>3, <2>4 DEF Early, Unmissed
    <2>5. CASE ~(now < MaxTime)
        <3>1. UNCHANGED candidate \/ candidate'.from = {}
            BY DEF NoCandidate
        <3> QED  BY <2>2, <2>5, <3>1 DEF Late
    <2> QED  BY <2>4, <2>5
<1> QED  BY <1>1, <1>2 DEF OnceASecond, Once

LEMMA OnwardLists ==
    ASSUME TaskOK, Onward, task.step \in {"deliver", "send"}
    PROVE  (Lists' => Lists) /\ task'.step \notin {"info", "save"}
<1>1. CASE task.kind = "sync" /\ ~task.after
    <2>1. task' = [task EXCEPT !.step = "list", !.key = None]
        BY <1>1 DEF Onward
    <2>2. task'.step = "list"
        BY <2>1 DEF TaskOK, TaskType
    <2> QED  BY <1>1, <2>2 DEF Lists
<1>2. CASE ~(task.kind = "sync" /\ ~task.after)
    BY <1>2 DEF Onward, Ends, Idle, Lists
<1> QED  BY <1>1, <1>2

LEMMA AsideSteps ==
    ASSUME Typed,
           \/ Claim \/ (\E a \in BOOLEAN : Send(a)) \/ SendFails \/ Lapse
           \/ Export \/ ListFails \/ Flip \/ Crash
           \/ \E e \in events : HandleIncrease(e)
           \/ UNCHANGED monitor
    PROVE  Aside
<1> USE DEF Typed
<1>1. DOMAIN outbox' = DOMAIN outbox
    <2>1. CASE Claim \/ (\E a \in BOOLEAN : Send(a)) \/ SendFails \/ Lapse
        BY <2>1, ClaimTyped, SendTyped, LapseTyped
    <2>2. CASE ~(Claim \/ (\E a \in BOOLEAN : Send(a)) \/ SendFails \/ Lapse)
        <3>1. UNCHANGED outbox
            BY <2>2, QuietTyped
        <3> QED  BY <3>1
    <2> QED  BY <2>1, <2>2
<1>2. UNCHANGED <<now, present, member>>
    BY DEF Claim, Send, SendFails, Lapse, Export, ListFails, Flip, Crash, HandleIncrease,
           monitor, group, store, history
<1>3. UNCHANGED <<streak, synced>>
    BY DEF Claim, Send, SendFails, Lapse, Export, ListFails, Flip, Crash, HandleIncrease,
           monitor, faults, history, Upset
<1>4. candidate' \in {candidate, NoCandidate}
    BY DEF Claim, Send, SendFails, Lapse, Export, ListFails, Flip, Crash, HandleIncrease,
           monitor, store
<1>5. /\ Lists' => Lists
      /\ \/ task'.step \notin {"info", "save"}
         \/ task'.step = task.step /\ task'.list = task.list /\ task'.whole = task.whole
    <2> USE DEF TaskOK, TaskType
    <2>1. Ends => ~Lists' /\ task'.step \notin {"info", "save"}
        BY DEF Ends, Idle, Lists
    <2>2. CASE Claim
        <3>1. task.step = "deliver"
            BY <2>2 DEF Claim
        <3>2. ASSUME NEW k, task' = [task EXCEPT !.step = "send", !.key = k]
              PROVE  task'.step = "send" /\ task'.kind = task.kind /\ task'.after = task.after
            BY <3>2
        <3>3. Onward \/ \E k : task' = [task EXCEPT !.step = "send", !.key = k]
            BY <2>2 DEF Claim
        <3> QED  BY <3>1, <3>2, <3>3, OnwardLists DEF Lists
    <2>3. CASE (\E a \in BOOLEAN : Send(a)) \/ SendFails
        <3>1. task.step = "send"
            BY <2>3 DEF Send, SendFails
        <3>2. Onward \/ task' = [task EXCEPT !.step = "deliver", !.key = None]
            BY <2>3 DEF Send, SendFails
        <3>3. task' = [task EXCEPT !.step = "deliver", !.key = None]
                => task'.step = "deliver" /\ task'.kind = task.kind /\ task'.after = task.after
            OBVIOUS
        <3> QED  BY <3>1, <3>2, <3>3, OnwardLists DEF Lists
    <2>4. CASE Export
        <3>1. Goes("deliver") /\ task.after => task'.step = "deliver" /\ task'.after
            BY DEF Goes
        <3>2. Ends \/ (Goes("deliver") /\ task.after)
            BY <2>4 DEF Export
        <3> QED  BY <2>1, <3>1, <3>2 DEF Lists
    <2>5. CASE ListFails \/ Crash
        BY <2>1, <2>5 DEF ListFails, Crash
    <2>6. CASE Lapse \/ Flip \/ UNCHANGED monitor
        BY <2>6 DEF Lapse, Flip, monitor, Lists
    <2>7. CASE \E e \in events : HandleIncrease(e)
        <3>1. UNCHANGED task \/ task'.step = "ask"
            BY <2>7 DEF HandleIncrease, Idle
        <3> QED  BY <3>1 DEF Lists
    <2> QED  BY <2>2, <2>3, <2>4, <2>5, <2>6, <2>7
<1> QED  BY <1>1, <1>2, <1>3, <1>4, <1>5 DEF Aside

\* The events that are believed, the lists that are fetched, the members that are asked about.
LEMMA DecreaseAside ==
    ASSUME Typed, NEW e \in events, HandleDecrease(e)
    PROVE  Aside
<1> USE DEF Typed
<1>1. UNCHANGED <<now, present, synced, streak, candidate>>
    BY DEF HandleDecrease, MarkLeft, group, faults, store, history
<1>2. UNCHANGED task \/ task' = [Idle EXCEPT !.kind = "decrease", !.step = "deliver"]
    BY DEF HandleDecrease
<1>3. /\ Lists' => Lists
      /\ \/ task'.step \notin {"info", "save"}
         \/ task'.step = task.step /\ task'.list = task.list /\ task'.whole = task.whole
    BY <1>2 DEF Lists, Idle
<1>4. (UNCHANGED member /\ DOMAIN outbox' = DOMAIN outbox) \/ Marked(e)
    BY DecreaseTyped
<1>5. CASE Marked(e)
    <2>1. e.user \in Users /\ member \in [Users -> Member]
        BY DEF GroupOK, Event, MembersOK
    <2>2. \A u \in Users : member'[u] = member[u] \/ ~member'[u].active
        BY <1>5, <2>1, RecordChanges DEF Marked
    <2>3. KeyOf(e).type = "leave"
        BY DEF KeyOf
    <2> QED  BY <1>1, <1>3, <1>5, <2>2, <2>3 DEF Aside, Marked
<1>6. CASE UNCHANGED member /\ DOMAIN outbox' = DOMAIN outbox
    BY <1>1, <1>3, <1>6 DEF Aside
<1> QED  BY <1>4, <1>5, <1>6

LEMMA StartOnce == ASSUME NoticeInv, StartSync PROVE OnceASecond'
<1> USE DEF NoticeInv
<1>1. UNCHANGED <<now, present, member, outbox, candidate, streak>> /\ ~synced
      /\ synced' = (now < MaxTime)
    BY DEF StartSync, group, store, history
<1>2. task'.step = "deliver"
    BY DEF StartSync, Idle
<1> QED  BY <1>1, <1>2 DEF OnceASecond, Once, Again, Early, Late, Unmissed

LEMMA FetchListOnce == ASSUME NoticeInv, FetchList PROVE OnceASecond'
<1> USE DEF NoticeInv, Typed
<1>1. UNCHANGED <<now, present, member, outbox, candidate, synced, streak>> /\ task.step = "list"
    BY DEF FetchList, group, store, faults, history
<1>2. PICK l \in SUBSET Users, w \in BOOLEAN :
        /\ task' = [task EXCEPT !.step = "info", !.list = l, !.whole = w]
        /\ l \subseteq present /\ (w => l = present)
    BY Fetched
<1>3. task'.step = "info" /\ task'.list = l /\ task'.whole = w /\ Lists
    BY <1>1, <1>2, TaskGoesOn DEF Lists, Steps
<1>4. ASSUME NEW u \in Users, Again(u), ~(now < MaxTime) PROVE Late(u)'
    BY <1>1, <1>2, <1>3, <1>4 DEF OnceASecond, Once, Late
<1>5. ASSUME NEW u \in Users, Again(u), now < MaxTime PROVE Early(u)'
    BY <1>1, <1>3, <1>5 DEF OnceASecond, Once, Early, Unmissed
<1> QED  BY <1>1, <1>4, <1>5 DEF OnceASecond, Once, Again

LEMMA AskOnce == ASSUME NoticeInv, AskMember PROVE OnceASecond'
<1> USE DEF NoticeInv, Typed
<1>1. UNCHANGED <<now, present, member, outbox, candidate, synced, streak>> /\ task.step = "ask"
    BY DEF AskMember, group, store, faults, history, Upset
<1>2. \/ task'.step = "save" /\ task'.list = task.list /\ task.list \subseteq present
      \/ task'.step = "idle"
    BY DEF AskMember, Goes, Ends, Idle, TaskOK, TaskType
<1> QED  BY <1>1, <1>2 DEF OnceASecond, Once, Again, Early, Late, Unmissed, Lists

LEMMA UpsertOnce == ASSUME NoticeInv, UpsertMember PROVE OnceASecond'
<1> USE DEF NoticeInv, Typed
<1>1. UNCHANGED <<now, present, outbox, synced, streak>> /\ task.step = "save"
    BY DEF UpsertMember, group, faults, history
<1>2. task'.step = "idle" /\ ~Lists'
    BY UpsertTyped DEF Lists
<1>3. /\ candidate'.from = candidate.from /\ candidate'.to = candidate.to
      /\ candidate'.confirmations = candidate.confirmations
    BY UpsertTyped DEF CandidateOK, CandidateType
<1>4. ASSUME NEW u \in Users
      PROVE  member'[u] = member[u] \/ (u \in task.list /\ member'[u].missing = 0)
    <2>1. task.list \in SUBSET Users /\ now \in Times
        BY DEF TaskOK, TaskType, GroupOK
    <2> QED  BY <2>1, UpsertTyped, SeenTyped
<1>5. streak \in Nat
    BY BoundsAssumption DEF FaultsOK
<1>6. ASSUME NEW u \in Users, Again(u), ~(now < MaxTime) PROVE Late(u)'
    BY <1>1, <1>2, <1>3, <1>4, <1>5, <1>6 DEF OnceASecond, Once, Late
<1>7. ASSUME NEW u \in Users, Again(u), now < MaxTime PROVE Early(u)'
    BY <1>1, <1>2, <1>3, <1>4, <1>7 DEF OnceASecond, Once, Early, Unmissed
<1> QED  BY <1>1, <1>6, <1>7 DEF OnceASecond, Once, Again

LEMMA GroupOnce ==
    ASSUME NoticeInv, Tick \/ \E u \in Users : Leave(u) \/ Join(u)
    PROVE  OnceASecond'
<1> USE DEF NoticeInv
<1>1. CASE Tick
    <2>1. now' = now + 1 /\ UNCHANGED outbox
        BY <1>1, TickTyped
    <2>2. now \in Int /\ \A k \in DOMAIN outbox : k.time \in Int
        BY DEF Typed, GroupOK, OutboxOK, Key, Times
    <2>3. ASSUME NEW u \in Users, NEW k \in DOMAIN outbox,
                 k = [user |-> u, type |-> "reconcile", time |-> now + 1]
          PROVE  FALSE
        BY <2>2, <2>3 DEF OnceASecond
    <2>4. \A k \in DOMAIN outbox : k.type = "reconcile" => k.time <= now + 1
        BY <2>2 DEF OnceASecond
    <2> QED  BY <2>1, <2>3, <2>4 DEF OnceASecond, Once, Again
<1>2. ASSUME NEW v \in Users, Leave(v) \/ Join(v) PROVE OnceASecond'
    <2>1. UNCHANGED <<now, streak, synced, task, candidate, member, outbox>> /\ now < MaxTime
        BY <1>2, MovesTyped DEF Leave, Join, Moves, faults, history, NoticeInv
    <2> QED  BY <2>1 DEF OnceASecond, Once, Again, Early, Unmissed, Lists
<1> QED  BY <1>1, <1>2

\* No list records anyone twice in a second, unless as many have been cut short.
LEMMA RecordedOnce ==
    ASSUME NoticeInv, 1 < Threshold, 1 < Confirmations,
           task.step = "info", NEW t, Reconciled(t), NEW u \in Confirmed(task.list, t), Again(u)
    PROVE  ~(now < MaxTime) /\ u \in Uncertain(task.list, t)
<1> USE DEF NoticeInv, Typed
<1>1. /\ u \in Users /\ member[u].active /\ u \notin task.list
      /\ member[u].missing + 1 >= t /\ member[u].missing \in Nat
    <2>1. u \in Users /\ member[u].active /\ u \notin task.list /\ member[u].missing + 1 >= t
        BY DEF Confirmed, Active
    <2>2. member[u] \in Member
        BY <2>1 DEF MembersOK
    <2> QED  BY <2>1, <2>2 DEF Member
<1>2. Large => Observed(task.list).confirmations >= Confirmations
    <2>1. Observed(task.list).confirmations \in Nat
        BY DEF Observed, CandidateOK, CandidateType
    <2> QED  BY <2>1, BoundsAssumption DEF Reconciled, Fuse, Large
<1>3. \/ Observed(task.list).confirmations = 1
      \/ /\ Observed(task.list).confirmations = candidate.confirmations + 1
         /\ candidate.from = Active /\ candidate.to = task.list
    BY DEF Observed, CandidateOK, CandidateType
<1>4. t = IF Large THEN 1 ELSE Threshold
    BY DEF Reconciled
<1>5. /\ streak \in Nat /\ candidate.confirmations \in Nat
      /\ {Threshold, Confirmations} \subseteq Nat
    BY BoundsAssumption DEF FaultsOK, CandidateOK, CandidateType
<1>6. ~(now < MaxTime)
    <2> SUFFICES ASSUME now < MaxTime PROVE FALSE
        OBVIOUS
    <2>1. candidate.confirmations = 0 /\ member[u].missing = 0
        BY <1>1 DEF OnceASecond, Once, Early, Lists, Unmissed
    <2>2. ~Large
        BY <1>2, <1>3, <1>5, <2>1
    <2> QED  BY <1>1, <1>4, <1>5, <2>1, <2>2
<1>7. Late(u)
    BY <1>1, <1>6 DEF OnceASecond, Once
<1>8. ~task.whole /\ member[u].missing <= streak
    BY <1>1, <1>7 DEF Late
<1>9. streak + 1 >= IF Large THEN Confirmations ELSE Threshold
    <2>1. CASE Large
        <3>1. /\ Observed(task.list).confirmations = candidate.confirmations + 1
              /\ candidate.from = Active /\ candidate.to = task.list
            BY <1>2, <1>3, <1>5, <2>1
        <3>2. u \in candidate.from \ candidate.to
            BY <1>1, <3>1 DEF Active
        <3>3. candidate.confirmations <= streak
            BY <1>7, <3>2 DEF Late
        <3> QED  BY <1>2, <1>5, <2>1, <3>1, <3>3
    <2>2. CASE ~Large
        BY <1>1, <1>4, <1>5, <1>8, <2>2
    <2> QED  BY <2>1, <2>2
<1> QED  BY <1>6, <1>8, <1>9 DEF Uncertain, Large

LEMMA FetchInfoOnce == ASSUME NoticeInv, Typed', FetchInfo PROVE OnceASecond'
<1> USE DEF NoticeInv, Typed
<1>1. /\ UNCHANGED <<now, present, synced>> /\ task.step = "info"
      /\ Ends \/ (\E d \in BOOLEAN : Then(d))
      /\ Dropped \/ Replaced \/ Fusing \/ (\E t : Reconciled(t))
    BY FetchInfoShows DEF group, faults
<1>2. ~Lists' /\ task'.step \notin {"info", "save"}
    <2>1. Ends => ~Lists' /\ task'.step \notin {"info", "save"}
        BY DEF Ends, Idle, Lists
    <2>2. ASSUME NEW d \in BOOLEAN, task' = [task EXCEPT !.step = "export", !.after = d]
          PROVE  task'.step = "export"
        BY <2>2 DEF TaskOK, TaskType
    <2>3. ASSUME task' = [task EXCEPT !.step = "deliver", !.after = TRUE]
          PROVE  task'.step = "deliver" /\ task'.after
        BY <2>3 DEF TaskOK, TaskType
    <2> QED  BY <1>1, <2>1, <2>2, <2>3 DEF Then, Lists
<1>3. \A k \in DOMAIN outbox' : k.type = "reconcile" =>
            \/ k \in DOMAIN outbox
            \/ \E t : Reconciled(t) /\ \E u \in Confirmed(task.list, t) :
                    k = [user |-> u, type |-> "reconcile", time |-> now]
    <2>1. CASE UNCHANGED outbox
        BY <2>1
    <2>2. ASSUME NEW t, Reconciled(t)
          PROVE  \A k \in DOMAIN outbox' : k.type = "reconcile" =>
                    \/ k \in DOMAIN outbox
                    \/ \E u \in Confirmed(task.list, t) :
                            k = [user |-> u, type |-> "reconcile", time |-> now]
        <3>1. DOMAIN outbox' = DOMAIN outbox \cup
                {[user |-> u, type |-> "reconcile", time |-> now] : u \in Confirmed(task.list, t)}
            BY <2>2, Reconciles
        <3> QED  BY <3>1
    <2> QED  BY <1>1, <2>1, <2>2 DEF Dropped, Replaced, ReplaceSnapshot, Fusing
<1>4. now \in Int
    BY DEF GroupOK, Times
<1>5. \A k \in DOMAIN outbox' : k.type = "reconcile" => k.time <= now'
    BY <1>1, <1>3, <1>4 DEF OnceASecond
\* Who is recorded now is away, with no candidate.
<1>6. ASSUME NEW u \in Users, Again(u)', ~Again(u)
      PROVE  ~member'[u].active /\ candidate' = NoCandidate
    <2>1. PICK t : Reconciled(t) /\ \E v \in Confirmed(task.list, t) :
            [user |-> u, type |-> "reconcile", time |-> now]
                = [user |-> v, type |-> "reconcile", time |-> now]
        BY <1>1, <1>3, <1>6 DEF Again
    <2>2. u \in Confirmed(task.list, t)
        BY <2>1
    <2>3. u \in Active \ task.list /\ member[u].missing + 1 >= t
        BY <2>2 DEF Confirmed
    <2> QED  BY <2>1, <2>3, Reconciles DEF Active
<1>7. ASSUME NEW u \in Users, Again(u)', now' < MaxTime PROVE Early(u)'
    <2>1. CASE Again(u)
        <3>1. synced'
            BY <1>1, <1>7, <2>1 DEF OnceASecond, Once, Early, Lists
        <3> QED  BY <1>2, <3>1 DEF Early
    <2>2. CASE ~Again(u)
        BY <1>2, <1>6, <1>7, <2>2 DEF Early, Unmissed, NoCandidate
    <2> QED  BY <2>1, <2>2
\* Who has been recorded and is back is missed by short lists only.
<1>8. ASSUME NEW u \in Users, Again(u), ~(now < MaxTime) PROVE Late(u)'
    <2>1. /\ Late(u) /\ streak \in Nat /\ streak' \in Nat /\ candidate.confirmations \in Nat
          /\ task.list \in SUBSET Users /\ now \in Times /\ member[u].missing \in Nat
        <3>1. member[u] \in Member
            BY DEF MembersOK
        <3> QED  BY <1>8, <3>1, BoundsAssumption
                 DEF OnceASecond, Once, FaultsOK, CandidateOK, CandidateType, TaskOK, TaskType,
                     GroupOK, Member
    <2>2. member'[u].active => u \in present /\ member'[u].missing <= streak'
        <3>1. u \in task.list => u \in present
            BY <1>1, <2>1 DEF Late
        <3>2. member[u].active => u \in present /\ member[u].missing <= streak
            BY <2>1 DEF Late
        <3>3. member[u].active /\ u \notin task.list => ~task.whole
            BY <1>1, <2>1 DEF Late
        <3>4. Upserted(task.list)[u] = IF u \in task.list THEN Seen(member[u]) ELSE member[u]
            BY DEF Upserted
        <3>5. Seen(member[u]).missing = 0
            BY DEF Seen
        <3>6. CASE Replaced
            <4>1. ~member[u].active /\ member'[u] = Upserted(task.list)[u]
                BY <3>6 DEF Replaced, ReplaceSnapshot, Active, Upserted
            <4> QED  BY <2>1, <3>1, <3>4, <3>5, <4>1
        <3>7. ASSUME NEW t, Reconciled(t)
              PROVE  member'[u].active => u \in present /\ member'[u].missing <= streak'
            <4>1. CASE u \in task.list
                <5>1. member'[u] = Upserted(task.list)[u]
                    BY <3>7, <4>1, Reconciles
                <5> QED  BY <2>1, <3>1, <3>4, <3>5, <4>1, <5>1
            <4>2. CASE u \notin task.list /\ ~member[u].active
                BY <3>7, <4>2, Reconciles
            <4>3. CASE u \notin task.list /\ member[u].active
                <5>1. streak' = streak + 1
                    BY <3>3, <3>7, <4>3 DEF Reconciled, TakesIn
                <5>2. member'[u].missing = member[u].missing + 1
                    BY <3>7, <4>3, Reconciles
                <5> QED  BY <2>1, <3>2, <4>3, <5>1, <5>2
            <4> QED  BY <4>1, <4>2, <4>3
        <3>8. CASE Dropped
            BY <3>2, <3>8 DEF Dropped
        <3>9. CASE Fusing
            <4>1. UNCHANGED member /\ (streak' = streak \/ streak' = streak + 1)
                BY <3>9 DEF Fusing
            <4> QED  BY <2>1, <3>2, <4>1
        <3> QED  BY <1>1, <3>6, <3>7, <3>8, <3>9
    <2>3. u \in candidate'.from \ candidate'.to => u \in present /\ candidate'.confirmations <= streak'
        <3>1. CASE candidate' = NoCandidate
            BY <3>1 DEF NoCandidate
        <3>2. CASE UNCHANGED <<candidate, streak>>
            BY <2>1, <3>2 DEF Late
        <3>3. CASE Fusing
            <4>1. /\ candidate' = Observed(task.list)
                  /\ streak' = IF task.whole THEN streak ELSE streak + 1
                BY <3>3 DEF Fusing
            <4>2. candidate'.from = Active /\ candidate'.to = task.list
                BY <4>1 DEF Observed, CandidateOK, CandidateType
            <4>3. \/ candidate'.confirmations = 1
                  \/ /\ candidate'.confirmations = candidate.confirmations + 1
                     /\ candidate.from = Active /\ candidate.to = task.list
                BY <4>1 DEF Observed, CandidateOK, CandidateType
            <4>4. ASSUME u \in Active \ task.list PROVE u \in present /\ streak' = streak + 1
                BY <1>1, <2>1, <4>1, <4>4 DEF Late, Active
            <4>5. u \in candidate.from \ candidate.to => candidate.confirmations <= streak
                BY <2>1 DEF Late
            <4> QED  BY <2>1, <4>2, <4>3, <4>4, <4>5
        <3>4. candidate' = NoCandidate \/ UNCHANGED <<candidate, streak>> \/ Fusing
            BY <1>1, Reconciles DEF Dropped, Replaced, ReplaceSnapshot
        <3> QED  BY <3>1, <3>2, <3>3, <3>4
    <2> QED  BY <1>1, <1>2, <2>2, <2>3 DEF Late
<1>9. ASSUME NEW u \in Users, Again(u)', ~(now' < MaxTime) PROVE Late(u)'
    <2>1. CASE Again(u)
        BY <1>1, <1>8, <1>9, <2>1
    <2>2. CASE ~Again(u)
        BY <1>2, <1>6, <1>9, <2>2 DEF Late, NoCandidate
    <2> QED  BY <2>1, <2>2
<1> QED  BY <1>5, <1>7, <1>9 DEF OnceASecond, Once

LEMMA NoticeStarts == MonitorInit => NoticeInv
<1> SUFFICES ASSUME MonitorInit PROVE NoticeInv
    OBVIOUS
<1>1. Typed
    BY MonitorStarts DEF MonitorInv
<1>2. DOMAIN outbox = {}
    BY DEF MonitorInit
<1> QED  BY <1>1, <1>2 DEF NoticeInv, OnceASecond, Once, Again

LEMMA NoticeSteps == NoticeInv /\ [MonitorNext]_monitor => NoticeInv'
<1> SUFFICES ASSUME NoticeInv, [MonitorNext]_monitor PROVE NoticeInv'
    OBVIOUS
<1>1. Typed /\ Typed'
    BY MonitorSteps DEF NoticeInv
<1>2. CASE \/ Claim \/ (\E a \in BOOLEAN : Send(a)) \/ SendFails \/ Lapse
           \/ Export \/ ListFails \/ Flip \/ Crash
           \/ \E e \in events : HandleIncrease(e)
           \/ UNCHANGED monitor
    BY <1>1, <1>2, AsideSteps, AsideKeeps DEF NoticeInv
<1>3. CASE \E e \in events : HandleDecrease(e)
    BY <1>1, <1>3, DecreaseAside, AsideKeeps DEF NoticeInv
<1>4. CASE StartSync \/ FetchList \/ AskMember \/ UpsertMember
    BY <1>1, <1>4, StartOnce, FetchListOnce, AskOnce, UpsertOnce DEF NoticeInv
<1>5. CASE Tick \/ \E u \in Users : Leave(u) \/ Join(u)
    BY <1>1, <1>5, GroupOnce DEF NoticeInv
<1>6. CASE FetchInfo
    BY <1>1, <1>6, FetchInfoOnce DEF NoticeInv
<1> QED  BY <1>2, <1>3, <1>4, <1>5, <1>6 DEF MonitorNext, TaskStep

\* Whoever a step records as gone gets a notice with it.
LEMMA RecordedWithNotice ==
    ASSUME NoticeInv, [MonitorNext]_monitor,
           1 < Threshold, 1 < Confirmations,
           NEW u \in Users, member[u].active, ~member'[u].active, now < MaxTime \/ u \notin doubted'
    PROVE  \E k \in DOMAIN outbox' \ DOMAIN outbox : k.user = u
<1> USE DEF NoticeInv, Typed
<1>1. CASE FetchInfo
    <2>1. task.step = "info" /\ (Dropped \/ Replaced \/ Fusing \/ (\E t : Reconciled(t)))
        BY <1>1, FetchInfoShows
    <2>2. ~(Dropped \/ Fusing)
        BY DEF Dropped, Fusing
    <2>3. ~Replaced
        BY DEF Replaced, Active
    <2>4. PICK t : Reconciled(t)
        BY <2>1, <2>2, <2>3
    <2>5. u \in Confirmed(task.list, t)
        <3>1. task.list \in SUBSET Users /\ now \in Times
            BY DEF TaskOK, TaskType, GroupOK
        <3>2. u \notin task.list
            BY <2>4, <3>1, Reconciles, SeenTyped
        <3> QED  BY <2>4, <3>2, Reconciles DEF Confirmed, Active
    <2>6. ~Again(u)
        BY <2>1, <2>4, <2>5, RecordedOnce DEF Reconciled
    <2>7. [user |-> u, type |-> "reconcile", time |-> now] \in DOMAIN outbox'
        BY <2>4, <2>5, Reconciles
    <2> QED  BY <2>6, <2>7 DEF Again
<1>2. ASSUME NEW e \in events, HandleDecrease(e)
      PROVE  \E k \in DOMAIN outbox' \ DOMAIN outbox : k.user = u
    <2>1. Marked(e)
        BY <1>2, DecreaseTyped
    <2>2. u = e.user
        BY <2>1 DEF Marked, MembersOK
    <2>3. KeyOf(e) \in DOMAIN outbox' \ DOMAIN outbox /\ KeyOf(e).user = u
        BY <2>1, <2>2 DEF Marked, KeyOf
    <2> QED  BY <2>3
<1>3. CASE UpsertMember
    <2>1. task.list \in SUBSET Users /\ now \in Times
        BY DEF TaskOK, TaskType, GroupOK
    <2> QED  BY <1>3, <2>1, UpsertTyped, SeenTyped
<1>4. CASE ~FetchInfo /\ ~UpsertMember /\ ~\E e \in events : HandleDecrease(e)
    <2>1. UNCHANGED member
        BY <1>4 DEF MonitorNext, TaskStep, StartSync, Claim, Send, FetchList, Export, AskMember,
                    ListFails, SendFails, HandleIncrease, Leave, Join, Moves, Tick, Flip,
                    Crash, Lapse, monitor, store
    <2> QED  BY <2>1
<1> QED  BY <1>1, <1>2, <1>3, <1>4

\* Everyone who is recorded as gone has a notice of their own, if a member must be missed,
\* and a crowd be confirmed, more than once (the code has 2 and 3).
THEOREM MonitorGoneHasItsNotice ==
    ASSUME 1 < Threshold, 1 < Confirmations
    PROVE  MonitorSpec => GoneHasItsNotice
<1>1. NoticeInv /\ [MonitorNext]_monitor =>
        [\A u \in Users :
            member[u].active /\ ~member'[u].active /\ (now < MaxTime \/ u \notin doubted')
            => \E k \in DOMAIN outbox' \ DOMAIN outbox : k.user = u]_monitor
    BY RecordedWithNotice
<1> QED  BY <1>1, NoticeStarts, NoticeSteps, PTL DEF MonitorSpec, GoneHasItsNotice
=============================================================================
