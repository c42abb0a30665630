---------------------------- MODULE PolicyOutbox ----------------------------
(* The notification outbox of the deduction policy: the rows that the policy    *)
(* bridge queues and the scheduler sends once a minute                          *)
(* (plugins/violation_record/scheduler.py, policy_bridge.py).                   *)
(*                                                                              *)
(* The maintenance loop runs one tick after the other.  Between two awaits it   *)
(* runs alone, so events, decisions and switches change only while it sleeps or *)
(* waits for the platform; it may be interrupted at every transaction, by a     *)
(* crash, a cancellation or a database error, and then forgets what it was      *)
(* doing while the rows stay as they are.  A tick reads the clock once; times   *)
(* are distances from the present, in ticks.                                    *)
EXTENDS Integers, FiniteSets

CONSTANTS
    Events,         \* policy events
    Announced,      \* those of the types that are announced (a subset)
    Actions,        \* questions to the administrators: ids, in the order of creation
    NoEvent,        \* no event
    Lease,          \* _OUTBOX_LEASE_MINUTES
    Retry,          \* _OUTBOX_RETRY_MINUTES
    Hour,           \* ticks in an hour
    PendingLimit,   \* _OUTBOX_DELIVERY_BATCH
    MissedLimit,    \* _MISSED_CLAIM_LIMIT
    ChunkItems,     \* _MISSED_CHUNK_ITEMS
    Faults,         \* whether calls fail and the loop is interrupted at all
    MaxReminders,   \* bound: reminders of one question
    MaxReplays      \* bound: replays of the member's history

ASSUME EventsAssumption ==
    /\ Announced \subseteq Events /\ NoEvent \notin Events
    /\ Actions \subseteq Nat \ {0}
ASSUME TimesAssumption ==
    /\ Lease \in Nat \ {0} /\ Retry \in Nat /\ Hour \in Nat \ {0}
ASSUME LimitsAssumption ==
    /\ PendingLimit \in Nat \ {0} /\ MissedLimit \in Nat \ {0} /\ ChunkItems \in Nat \ {0}
    /\ Faults \in BOOLEAN
    /\ MaxReminders \in Nat /\ MaxReplays \in Nat

VARIABLES
    open,       \* the business switch
    healthy,    \* a bot is connected, calls succeed and nothing interrupts the loop
    event,      \* whether each event is effective
    action,     \* the questions (v102_pending_actions)
    checkpoint, \* the last resolved review and what was open then
    replays,    \* replays so far
    row,        \* the outbox (v102_notification_outbox)
    minute,     \* tick of the clock hour
    slots,      \* causes that have a reminder of this clock hour
    at,         \* where the maintenance loop is
    todo,       \* rows claimed by this tick and not looked at yet
    chunk,      \* rows being delivered together
    rest,       \* those of them whose text has not gone out yet
    batch,      \* those carried by the call under way
    told        \* rows whose text has reached the group

world == <<open, healthy>>
policy == <<event, action, checkpoint, replays>>
clock == <<minute, slots>>
loop == <<at, todo, chunk, rest, batch>>
vars == <<world, policy, row, clock, loop, told>>

\* The announcement of an event, and the k-th reminder of a question.
Keys == (Announced \X {0}) \cup (Actions \X (1..MaxReminders))
IsReminder(k) == k[2] > 0

Row == [status : {"none", "pending", "sending", "sent", "failed", "cancelled"},
        cause : Events \cup {NoEvent},
        attempt : {"none", "sending", "sent", "failed", "cancelled", "lease_expired"},
        error : {"none", "some"},   \* last_error
        wait : 0..Retry,            \* to scheduled_at
        age : 0..Lease]             \* since updated_at, while sending
NoRow == [status |-> "none", cause |-> NoEvent, attempt |-> "none", error |-> "none",
          wait |-> 0, age |-> 0]
Queued(cause) == [NoRow EXCEPT !.status = "pending", !.cause = cause]

Action == [status : {"none", "pending", "closed"}, cause : Events \cup {NoEvent},
           remind : 0..Hour, asked : 0..MaxReminders]
NoAction == [status |-> "none", cause |-> NoEvent, remind |-> 0, asked |-> 0]
OpenActions == {a \in Actions : action[a].status = "pending"}

Places == {"sleep", "awake", "route", "missed", "single"}
Sending == {k \in Keys : row[k].status = "sending"}
Earlier(n) == IF n > 0 THEN n - 1 ELSE 0

\* As many of D as the limit allows; the code takes the oldest.
Choices(D, limit) ==
    {S \in SUBSET D : IF Cardinality(D) <= limit THEN S = D ELSE Cardinality(S) = limit}

-----------------------------------------------------------------------------
(* The surroundings: they change while the loop sleeps or waits for a call.     *)

Yielding == at \in {"sleep", "awake"} \/ batch # {}

Switch ==
    /\ Yielding
    /\ open' \in BOOLEAN
    /\ healthy' \in (IF Faults THEN BOOLEAN ELSE {TRUE})
    /\ UNCHANGED <<policy, row, clock, loop, told>>

Raise(e) ==
    /\ Yielding
    /\ event[e] = "none"
    /\ event' = [event EXCEPT ![e] = "effective"]
    /\ UNCHANGED <<world, action, checkpoint, replays, row, clock, loop, told>>

\* A question is asked in the transaction of the event that causes it.
Ask(a, e) ==
    /\ Yielding
    /\ event[e] = "none"
    /\ action[a].status = "none"
    /\ \A b \in Actions : b < a => action[b].status # "none"
    /\ event' = [event EXCEPT ![e] = "effective"]
    /\ action' = [action EXCEPT ![a] = [NoAction EXCEPT !.status = "pending", !.cause = e]]
    /\ UNCHANGED <<world, checkpoint, replays, row, clock, loop, told>>

Decide(a) ==
    /\ Yielding
    /\ a \in OpenActions
    /\ action' = [action EXCEPT ![a].status = "closed"]
    /\ UNCHANGED <<world, event, checkpoint, replays, row, clock, loop, told>>

\* A review is resolved: its event keeps the other questions that are open.  (The
\* question about the review itself, which a replay would leave open, is not one
\* of Actions; reviews may be resolved at any time here.)
Resolve(e) ==
    /\ Yielding
    /\ event[e] = "none" /\ e \notin Announced
    /\ event' = [event EXCEPT ![e] = "effective"]
    /\ checkpoint' = [event |-> e, open |-> OpenActions]
    /\ UNCHANGED <<world, action, replays, row, clock, loop, told>>

\* A late or a withdrawn record makes the policy replay the history: the events
\* it will derive again become void, the questions are closed, and those of the
\* last review are reopened with the review's event as their cause.
Replayed(a) ==
    IF a \in checkpoint.open
    THEN [action[a] EXCEPT !.status = "pending", !.cause = checkpoint.event]
    ELSE IF a \in OpenActions THEN [action[a] EXCEPT !.status = "closed"]
    ELSE action[a]
Replay(withdrawn) ==
    /\ Yielding
    /\ replays < MaxReplays
    /\ replays' = replays + 1
    /\ event' = [e \in Events |-> IF event[e] = "effective" /\ e \in Announced \cup withdrawn
                                  THEN "void" ELSE event[e]]
    /\ action' = [a \in Actions |-> Replayed(a)]
    /\ UNCHANGED <<world, checkpoint, row, clock, loop, told>>

\* The loop sleeps for a tick or, after a long call or while the process is
\* down, for longer.
Clock ==
    /\ at \in {"sleep", "awake"}
    /\ at' = "awake"
    /\ row' = [k \in Keys |->
                [row[k] EXCEPT !.wait = Earlier(@),
                               !.age = IF k \in Sending /\ @ < Lease THEN @ + 1 ELSE @]]
    /\ action' = [a \in Actions |-> [action[a] EXCEPT !.remind = Earlier(@)]]
    /\ minute' = (minute + 1) % Hour
    /\ slots' = IF minute' = 0 THEN {} ELSE slots
    /\ UNCHANGED <<world, event, checkpoint, replays, todo, chunk, rest, batch, told>>

-----------------------------------------------------------------------------
(* A tick: queueing, then delivery of the missed rows together, then of the     *)
(* pending ones alone.                                                          *)

Unannounced == {e \in Announced : event[e] = "effective" /\ row[<<e, 0>>].status = "none"}
Due == {a \in OpenActions : action[a].remind = 0 /\ action[a].asked < MaxReminders}
\* The first of several questions of one cause takes the slot of the hour.
Reminded == {a \in Due : /\ action[a].cause \notin slots
                         /\ \A b \in Due : b < a => action[b].cause # action[a].cause}

QueuedRow(k) ==
    IF IsReminder(k)
    THEN IF k[1] \in Reminded /\ k[2] = action[k[1]].asked + 1
         THEN Queued(action[k[1]].cause) ELSE row[k]
    ELSE IF k[1] \in Unannounced THEN Queued(k[1]) ELSE row[k]

Maintain ==
    /\ at = "awake"
    /\ at' = "route"
    /\ row' = [k \in Keys |-> QueuedRow(k)]
    /\ action' = [a \in Actions |->
                    IF a \in Due THEN [action[a] EXCEPT !.remind = Hour, !.asked = @ + 1]
                                 ELSE action[a]]
    /\ slots' = slots \cup {action[a].cause : a \in Due}
    /\ UNCHANGED <<world, event, checkpoint, replays, minute, todo, chunk, rest, batch, told>>

\* The source event holds, and the question of a reminder is open and still
\* the one this event asked.
Valid(k) ==
    /\ row[k].status # "none"
    /\ event[row[k].cause] = "effective"
    /\ IsReminder(k) => k[1] \in OpenActions /\ action[k[1]].cause = row[k].cause

\* The switch is off, or no bot is connected.
Defer ==
    /\ at = "route"
    /\ ~ (open /\ healthy)
    /\ at' = "sleep"
    /\ row' = [k \in Keys |-> IF row[k].status = "pending" /\ row[k].wait = 0
                              THEN [row[k] EXCEPT !.status = "failed", !.error = "some"]
                              ELSE row[k]]
    /\ UNCHANGED <<world, policy, clock, todo, chunk, rest, batch, told>>

\* Variant: only rows that never failed before are taken back.
ReclaimedFirst(k) ==
    IF k \in Sending /\ row[k].age = Lease /\ row[k].error = "none"
    THEN [row[k] EXCEPT !.status = "failed", !.error = "some", !.wait = 0, !.age = 0,
                        !.attempt = "lease_expired"]
    ELSE row[k]
\* Rows whose sender is gone: the first error is kept, and with it the attempt.
Reclaimed(k) ==
    IF k \in Sending /\ row[k].age = Lease
    THEN IF row[k].error = "some"
         THEN [row[k] EXCEPT !.status = "failed", !.age = 0]
         ELSE [row[k] EXCEPT !.status = "failed", !.error = "some", !.wait = 0, !.age = 0,
                             !.attempt = "lease_expired"]
    ELSE row[k]

Missed == {k \in Keys : Reclaimed(k).status = "failed" /\ Reclaimed(k).wait = 0}
ClaimMissed ==
    /\ at = "route"
    /\ open
    /\ at' = "missed"
    /\ \E S \in Choices(Missed, MissedLimit) :
        /\ row' = [k \in Keys |->
                    IF k \in S THEN [Reclaimed(k) EXCEPT !.status = "sending", !.age = 0]
                               ELSE Reclaimed(k)]
        /\ todo' = S
    /\ UNCHANGED <<world, policy, clock, chunk, rest, batch, told>>

\* The claimed rows are delivered in chunks; what is no longer valid is
\* cancelled when its chunk comes up.
StartChunk ==
    /\ at = "missed" /\ chunk = {} /\ todo # {}
    /\ \E S \in SUBSET todo :
        /\ S # {} /\ Cardinality(S) <= ChunkItems
        /\ todo' = todo \ S
        /\ chunk' = {k \in S : Valid(k)}
        /\ rest' = chunk'
        /\ row' = [k \in Keys |-> IF k \in S /\ ~ Valid(k)
                                  THEN [row[k] EXCEPT !.status = "cancelled", !.error = "some", !.age = 0]
                                  ELSE row[k]]
    /\ UNCHANGED <<world, policy, clock, at, batch, told>>

\* _restore_missed_policy_claims(): the rows keep their error and their time.
Restored == [k \in Keys |-> IF k \in chunk
                            THEN [row[k] EXCEPT !.status = "failed", !.age = 0] ELSE row[k]]

\* Variant: only the first message of a chunk is preceded by the second look.
SendableAtFirst == open /\ (rest = chunk => \A k \in chunk : Valid(k))
\* Switch and rows are looked at again before each forwarded message.
Sendable == open /\ \A k \in chunk : Valid(k)

\* The next forwarded message; a row counts for the one that ends its text.
Forward ==
    /\ at = "missed" /\ rest # {} /\ batch = {}
    /\ Sendable
    /\ \E S \in SUBSET rest : S # {} /\ batch' = S
    /\ UNCHANGED <<world, policy, row, clock, at, todo, chunk, rest, told>>

\* ... or the look itself fails.
Abandon ==
    /\ at = "missed" /\ rest # {} /\ batch = {}
    /\ ~ Sendable \/ ~ healthy
    /\ row' = Restored
    /\ chunk' = {} /\ rest' = {}
    /\ UNCHANGED <<world, policy, clock, at, todo, batch, told>>

CallReturns ==
    /\ batch # {}
    /\ told' = told \cup batch
    /\ rest' = rest \ batch
    /\ batch' = {}
    /\ UNCHANGED <<world, policy, row, clock, at, todo, chunk>>

\* The row of a chunk whose messages have all gone out.
Acknowledged(k) ==
    IF Valid(k) THEN [row[k] EXCEPT !.status = "sent", !.error = "none", !.age = 0]
                ELSE [row[k] EXCEPT !.status = "cancelled", !.error = "some", !.age = 0]
AcknowledgeChunk ==
    /\ at = "missed" /\ chunk # {} /\ rest = {}
    /\ row' = [k \in Keys |-> IF k \in chunk THEN Acknowledged(k) ELSE row[k]]
    /\ chunk' = {}
    /\ UNCHANGED <<world, policy, clock, at, todo, rest, batch, told>>

\* Variant: rows that failed are sent alone again.
PendingAndFailed(k) == Reclaimed(k).status \in {"pending", "failed"} /\ Reclaimed(k).wait = 0
IsPending(k) == Reclaimed(k).status = "pending" /\ Reclaimed(k).wait = 0

ClaimPending ==
    /\ at = "missed" /\ todo = {} /\ chunk = {}
    /\ at' = "single"
    /\ \E S \in Choices({k \in Keys : IsPending(k)}, PendingLimit) :
        /\ row' = [k \in Keys |->
                    IF k \in S
                    THEN [Reclaimed(k) EXCEPT !.status = "sending", !.attempt = "sending", !.age = 0]
                    ELSE Reclaimed(k)]
        /\ todo' = S
    /\ UNCHANGED <<world, policy, clock, chunk, rest, batch, told>>

\* Variant: the attempt is not ended with its row.
EndedWithoutAttempt(k, status) ==
    [row[k] EXCEPT !.status = status, !.age = 0,
                   !.error = IF status = "sent" THEN "none" ELSE "some"]
Ended(k, status) ==
    [row[k] EXCEPT !.status = status, !.attempt = status, !.age = 0,
                   !.error = IF status = "sent" THEN "none" ELSE "some"]

\* One row of the pending ones is taken up: cancelled, given up as the switch is
\* off, or sent in a message of its own.
CancelSingle(k) ==
    /\ at = "single" /\ chunk = {} /\ k \in todo
    /\ ~ Valid(k)
    /\ row' = [row EXCEPT ![k] = Ended(k, "cancelled")]
    /\ todo' = todo \ {k}
    /\ UNCHANGED <<world, policy, clock, at, chunk, rest, batch, told>>
HoldSingle(k) ==
    /\ at = "single" /\ chunk = {} /\ k \in todo
    /\ Valid(k) /\ ~ open
    /\ row' = [row EXCEPT ![k] = Ended(k, "failed")]
    /\ todo' = todo \ {k}
    /\ UNCHANGED <<world, policy, clock, at, chunk, rest, batch, told>>
SendSingle(k) ==
    /\ at = "single" /\ chunk = {} /\ k \in todo
    /\ Valid(k) /\ open
    /\ todo' = todo \ {k}
    /\ chunk' = {k} /\ rest' = {k} /\ batch' = {k}
    /\ UNCHANGED <<world, policy, row, clock, at, told>>

AcknowledgeSingle ==
    /\ at = "single" /\ chunk # {} /\ rest = {}
    /\ row' = [k \in Keys |-> IF k \in chunk THEN Ended(k, "sent") ELSE row[k]]
    /\ chunk' = {}
    /\ UNCHANGED <<world, policy, clock, at, todo, rest, batch, told>>

EndTick ==
    /\ at = "single" /\ todo = {} /\ chunk = {}
    /\ at' = "sleep"
    /\ UNCHANGED <<world, policy, row, clock, todo, chunk, rest, batch, told>>

-----------------------------------------------------------------------------
(* Faults.                                                                      *)

\* The call raises; the platform may have taken the message all the same.
Arrived == {told, told \cup batch}
CallFails ==
    /\ batch # {} /\ ~ healthy
    /\ told' \in Arrived
    /\ row' = IF at = "missed" THEN Restored
              ELSE [k \in Keys |-> IF k \in chunk
                                   THEN [Ended(k, "failed") EXCEPT !.wait = Retry] ELSE row[k]]
    /\ chunk' = {} /\ rest' = {} /\ batch' = {}
    /\ UNCHANGED <<world, policy, clock, at, todo>>

\* The process dies, is shut down, or a transaction fails: the tick is over.
Interrupt ==
    /\ at # "sleep" /\ ~ healthy
    /\ at' \in {"sleep", "awake"}
    /\ told' \in Arrived
    /\ todo' = {} /\ chunk' = {} /\ rest' = {} /\ batch' = {}
    /\ UNCHANGED <<world, policy, row, clock>>

-----------------------------------------------------------------------------
Init ==
    /\ open \in BOOLEAN
    /\ healthy \in (IF Faults THEN BOOLEAN ELSE {TRUE})
    /\ event = [e \in Events |-> "none"]
    /\ action = [a \in Actions |-> NoAction]
    /\ checkpoint = [event |-> NoEvent, open |-> {}]
    /\ replays = 0
    /\ row = [k \in Keys |-> NoRow]
    /\ minute = 0 /\ slots = {}
    /\ at = "awake"
    /\ todo = {} /\ chunk = {} /\ rest = {} /\ batch = {}
    /\ told = {}

Surroundings ==
    \/ Switch
    \/ \E e \in Events : Raise(e) \/ Resolve(e)
    \/ Replay({}) \/ \E e \in Events \ {checkpoint.event} : Replay({e})
    \/ \E a \in Actions : Decide(a)
    \/ \E a \in Actions, e \in Events : Ask(a, e)

Single == \E k \in Keys : CancelSingle(k) \/ HoldSingle(k) \/ SendSingle(k)

Loop ==
    \/ Clock \/ Maintain \/ Defer
    \/ ClaimMissed \/ StartChunk \/ Forward \/ Abandon \/ AcknowledgeChunk
    \/ ClaimPending \/ Single \/ AcknowledgeSingle
    \/ CallReturns \/ EndTick

Next == Surroundings \/ Loop \/ CallFails \/ Interrupt

Spec == Init /\ [][Next]_vars

\* The loop is the code's own: it goes on, and its sleep ends.  Nothing obliges
\* the surroundings to act.
FairSpec == Spec /\ WF_vars(Loop) /\ WF_vars(Maintain)

-----------------------------------------------------------------------------
(* Properties.                                                                  *)

TypeOK ==
    /\ open \in BOOLEAN /\ healthy \in BOOLEAN
    /\ event \in [Events -> {"none", "effective", "void"}]
    /\ action \in [Actions -> Action]
    /\ checkpoint \in [event : Events \cup {NoEvent}, open : SUBSET Actions]
    /\ replays \in 0..MaxReplays
    /\ row \in [Keys -> Row]
    /\ minute \in 0..(Hour - 1) /\ slots \in SUBSET (Events \cup {NoEvent})
    /\ at \in Places
    /\ todo \in SUBSET Keys /\ chunk \in SUBSET Keys
    /\ rest \in SUBSET chunk /\ batch \in SUBSET rest
    /\ told \in SUBSET Keys

\* The history of attempts tells what became of a row that was sent alone: an
\* attempt is under way exactly while its row is, a successful one belongs to a
\* row that is sent, and a row that is sent has reached the group.
AttemptsAgree ==
    \A k \in Keys :
        /\ row[k].attempt = "sending" <=> row[k].status = "sending" /\ row[k].error = "none"
        /\ row[k].attempt = "sent" => row[k].status = "sent"
        /\ row[k].status = "sent" => k \in told

\* What the loop works on is leased to it: no row it has in hand is given back
\* or claimed under its feet.
HeldIsLeased == todo \cup chunk \subseteq Sending

\* What holds of the rows in every state: types, attempts that tell what became
\* of their row, and a loop that holds only what is leased to it.
RowsAgree == TypeOK /\ AttemptsAgree /\ HeldIsLeased

\* A row that was sent alone once, or failed, goes out with the missed rows
\* only: the result of an attempt is never overwritten by another attempt.
AttemptIsFinal ==
    [][\A k \in Keys :
        row[k].attempt \notin {"none", "sending"} \/ row[k].status = "failed"
            => row'[k].attempt = row[k].attempt]_vars

\* The outbox as the group sees it.
StateOf(k) ==
    CASE row[k].status \in {"pending", "failed"} -> "waiting"
      [] row[k].status = "sending" -> "taken"
      [] OTHER -> row[k].status
Live == {k \in Keys : Valid(k)}
Delivery == INSTANCE Reminders WITH
    Ids <- Keys, live <- Live, state <- [k \in Keys |-> StateOf(k)], calling <- batch

\* A call carries only what is valid at its start, with the switch on; nothing is
\* marked as sent that did not reach the group, nothing valid is cancelled, and
\* what is sent or cancelled stays so.
Delivers == Delivery!Spec

\* Once the switch stays on, a bot stays connected and nothing fails any more,
\* every row that was ever queued is sent or, being no longer valid, cancelled.
Recovered == <>[](open /\ healthy)
RowsSettle ==
    Recovered => \A k \in Keys :
        (row[k].status # "none") ~> (row[k].status \in {"sent", "cancelled"})
=============================================================================
