--------------------------- MODULE AlertDelivery ---------------------------
(* The durable ledger of keyword alerts and the runs that deliver them          *)
(* (plugins/content_alert/outbox.py, service.py, lifecycle.py).                  *)
(*                                                                              *)
(* Every ledger method is one transaction in a thread; between two of them the  *)
(* switch may go off, a lease may lapse, the caller may be cancelled and the    *)
(* process may die.  A transaction whose caller is cancelled has committed or   *)
(* not.  Times are distances from the present.  Several services on one ledger  *)
(* stand for a process that is replaced while it still runs.                    *)
EXTENDS Integers, Sequences, FiniteSets

CONSTANTS
    Alerts,         \* events, by their key
    Handlers,       \* messages to report: the platform may repeat an event
    AlertOf,        \* the event of each call
    Services,       \* processes on the ledger
    Home,           \* the process of each call
    None,           \* no event, no token, no call
    Capacity,       \* MAX_PENDING_ALERTS
    AttemptLimit,   \* DEFAULT_ATTEMPT_LIMIT
    Lease,          \* LEASE_SECONDS
    MaxDelay,       \* the longest pause before another attempt
    Batch,          \* rows of one pass of the worker
    MaxRestarts,    \* bound: restarts of the processes
    MaxFlips,       \* bound: changes of the switch
    MaxStalls,      \* bound: leases that lapse under their holder
    MaxDecisions    \* bound: decisions of the operator

ASSUME AlertsAssumption ==
    /\ AlertOf \in [Handlers -> Alerts] /\ Home \in [Handlers -> Services]
    /\ None \notin Alerts \cup Services \cup Handlers /\ IsFiniteSet(Services)
ASSUME BoundsAssumption ==
    /\ {Capacity, AttemptLimit, Lease, MaxDelay, Batch} \subseteq Nat \ {0}
    /\ {MaxRestarts, MaxFlips, MaxStalls, MaxDecisions} \subseteq Nat

VARIABLES
    enabled,    \* the runtime switch of the feature
    flips,      \* its changes so far
    accepting,  \* _accepting of each process; FALSE while it is down
    restarts,   \* restarts so far
    place,      \* where each call is
    row,        \* content_alert_outbox
    attempts,   \* content_alert_attempts: how each attempt of a row ended
    worker,     \* the worker task of each process
    run,        \* the delivery that holds the delivery lock of each process
    stalls,     \* leases that have lapsed under their holder
    decisions,  \* decisions of the operator so far
    since,      \* attempts of each row when the operator last decided on it
    proven,     \* rows with a receipt of the platform or of the operator
    risky       \* rows whose message may be in the group: called and not rejected

switch == <<enabled, flips>>
life == <<accepting, restarts>>
ledger == <<row, attempts>>
operator == <<decisions, since>>
known == <<proven, risky>>
vars == <<switch, life, place, ledger, worker, run, stalls, operator, known>>

Statuses == {"none", "pending", "leased", "sending", "delivered", "delivery_unknown", "exhausted"}
Row == [status : Statuses, token : Services \cup {None}, limit : Nat, wait : 0..MaxDelay,
        lease : 0..Lease]
NoRow == [status |-> "none", token |-> None, limit |-> AttemptLimit, wait |-> 0, lease |-> 0]
Freed(r, status, wait) ==
    [r EXCEPT !.status = status, !.token = None, !.lease = 0, !.wait = wait]
Results == {"delivered", "rejected", "delivery_unknown"}

\* by: the call that delivers its own alert, or None for the worker.
Steps == {"idle", "claim", "check", "release", "begin", "gate", "guarded", "abort", "calling",
          "finish"}
Run == [step : Steps, by : Handlers \cup {None}, left : 0..Batch,
        alert : Alerts \cup {None}, outcome : Results \cup {None}]
Idle == [step |-> "idle", by |-> None, left |-> 0, alert |-> None, outcome |-> None]

Open(s) == accepting[s] /\ enabled
Earlier(n) == IF n > 0 THEN n - 1 ELSE 0
Least(m, n) == IF m < n THEN m ELSE n
Backoff(attempt) == Least(MaxDelay, 2 ^ Least(attempt - 1, 6))

-----------------------------------------------------------------------------
(* The ledger.                                                                  *)

Undelivered == {a \in Alerts : row[a].status \notin {"none", "delivered"}}

\* A known event is not queued again, a full ledger refuses.
Enqueues(a) == row[a].status = "none" /\ Cardinality(Undelivered) < Capacity

\* A call that is cancelled meanwhile may have committed, and the platform may
\* repeat its event.
Enqueue(h) ==
    LET a == AlertOf[h] IN
    /\ place[h] = "new" /\ Open(Home[h])
    /\ IF Enqueues(a)
       THEN /\ row' = [row EXCEPT ![a] = [NoRow EXCEPT !.status = "pending"]]
            /\ \E to \in {"queued", "done", "new"} : place' = [place EXCEPT ![h] = to]
       ELSE place' = [place EXCEPT ![h] = "done"] /\ UNCHANGED row
    /\ UNCHANGED <<switch, life, attempts, worker, run, stalls, operator, known>>

Lapsed(a) == row[a].lease = 0
\* Variant: only rows that are being sent are recovered.
RecoveredSending(a) ==
    IF row[a].status = "sending" /\ Lapsed(a) THEN Freed(row[a], "delivery_unknown", row[a].wait)
    ELSE row[a]
\* Nothing was sent of a row that is merely leased; what was being sent is unknown.
Recovered(a) ==
    CASE row[a].status = "leased" /\ Lapsed(a) -> Freed(row[a], "pending", row[a].wait)
      [] row[a].status = "sending" /\ Lapsed(a) -> Freed(row[a], "delivery_unknown", row[a].wait)
      [] OTHER -> row[a]
Closed(seq, outcome) == [seq EXCEPT ![Len(seq)] = outcome]
RecoveredAttempts ==
    [a \in Alerts |-> IF row[a].status = "sending" /\ Lapsed(a)
                      THEN Closed(attempts[a], "delivery_unknown") ELSE attempts[a]]

\* deliver_pending of a call (for its own row) or of a pass of the worker.
StartRun(s, by, left) ==
    run' = IF Open(s) /\ run[s].step = "idle"
           THEN [run EXCEPT ![s] = [Idle EXCEPT !.step = "claim", !.by = by, !.left = left]]
           ELSE run
Deliver(h) ==
    /\ place[h] = "queued"
    /\ StartRun(Home[h], h, 1)
    /\ place' = [place EXCEPT ![h] = IF run' = run THEN "done" ELSE "runs"]
    /\ UNCHANGED <<switch, life, ledger, worker, stalls, operator, known>>

WorkerRecovers(s) ==
    /\ worker[s] = "sleep"
    /\ row' = [a \in Alerts |-> Recovered(a)]
    /\ attempts' = RecoveredAttempts
    /\ worker' = [worker EXCEPT ![s] = "pass"]
    /\ UNCHANGED <<switch, life, place, run, stalls, operator, known>>
WorkerDelivers(s) ==
    /\ worker[s] = "pass"
    /\ StartRun(s, None, Batch)
    /\ worker' = [worker EXCEPT ![s] = IF run' = run THEN "sleep" ELSE "busy"]
    /\ UNCHANGED <<switch, life, place, ledger, stalls, operator, known>>

\* A run ends: the lock is given back and its caller goes on.
EndRun(s) ==
    /\ run' = [run EXCEPT ![s] = Idle]
    /\ IF run[s].by = None
       THEN /\ worker' = [worker EXCEPT ![s] = "sleep"]
            /\ UNCHANGED place
       ELSE place' = [place EXCEPT ![run[s].by] = "done"] /\ UNCHANGED worker
Goes(s, step) ==
    /\ run' = [run EXCEPT ![s].step = step]
    /\ UNCHANGED <<place, worker>>
\* The next row of the batch, if there may be another one.
GoesOn(s) ==
    IF run[s].left > 1 /\ Open(s)
    THEN /\ run' = [run EXCEPT ![s] = [@ EXCEPT !.step = "claim", !.left = run[s].left - 1, !.alert = None,
                                                !.outcome = None]]
         /\ UNCHANGED <<place, worker>>
    ELSE EndRun(s)

\* Rows that are due; the code takes the oldest.
Due(s, rows) ==
    {a \in Alerts : /\ rows[a].status = "pending" /\ rows[a].wait = 0
                    /\ run[s].by = None \/ AlertOf[run[s].by] = a}
Claim(s) ==
    LET rows == [a \in Alerts |-> Recovered(a)] IN
    /\ run[s].step = "claim"
    /\ attempts' = RecoveredAttempts
    /\ IF Due(s, rows) = {}
       THEN row' = rows /\ EndRun(s)
       ELSE /\ \E a \in Due(s, rows) :
                /\ row' = [rows EXCEPT ![a] = [@ EXCEPT !.status = "leased", !.token = s, !.lease = Lease]]
                /\ run' = [run EXCEPT ![s] = [@ EXCEPT !.step = "check", !.alert = a]]
            /\ UNCHANGED <<place, worker>>
    /\ UNCHANGED <<switch, life, stalls, operator, known>>

Check(s) ==
    /\ run[s].step = "check"
    /\ Goes(s, IF Open(s) THEN "begin" ELSE "release")
    /\ UNCHANGED <<switch, life, ledger, stalls, operator, known>>

\* Variant: the token of a row is not compared.
HoldsAny(s, status) == row[run[s].alert].status = status
Holds(s, status) == row[run[s].alert].status = status /\ row[run[s].alert].token = s

Release(s) ==
    LET a == run[s].alert IN
    /\ run[s].step = "release"
    /\ row' = IF Holds(s, "leased") THEN [row EXCEPT ![a] = Freed(@, "pending", 1)] ELSE row
    /\ EndRun(s)
    /\ UNCHANGED <<switch, life, attempts, stalls, operator, known>>

Begins(s) == Holds(s, "leased") /\ row[run[s].alert].lease > 0
BeginSend(s) ==
    LET a == run[s].alert IN
    /\ run[s].step = "begin"
    /\ IF Begins(s)
       THEN /\ row' = [row EXCEPT ![a].status = "sending"]
            /\ attempts' = [attempts EXCEPT ![a] = Append(@, "sending")]
            /\ Goes(s, "gate")
       ELSE GoesOn(s) /\ UNCHANGED ledger
    /\ UNCHANGED <<switch, life, stalls, operator, known>>

\* The gate is judged before the task of the call is made and when it starts.
Gate(s) ==
    /\ run[s].step = "gate"
    /\ Goes(s, IF Open(s) THEN "guarded" ELSE "abort")
    /\ UNCHANGED <<switch, life, ledger, stalls, operator, known>>
Calls(s) == Open(s)
SendGuarded(s) ==
    /\ run[s].step = "guarded"
    /\ Goes(s, IF Calls(s) THEN "calling" ELSE "abort")
    /\ risky' = IF Calls(s) /\ Holds(s, "sending") THEN risky \cup {run[s].alert} ELSE risky
    /\ UNCHANGED <<switch, life, ledger, stalls, operator, proven>>

\* Variant: an aborted attempt counts against the limit.
AbortedCounting(r) == Freed(r, "pending", 1)
Aborted(r) == [Freed(r, "pending", 1) EXCEPT !.limit = @ + 1]
AbortUnsent(s) ==
    LET a == run[s].alert IN
    /\ run[s].step = "abort"
    /\ IF Holds(s, "sending")
       THEN /\ row' = [row EXCEPT ![a] = Aborted(@)]
            /\ attempts' = [attempts EXCEPT ![a] = Closed(@, "not_sent")]
       ELSE UNCHANGED ledger
    /\ EndRun(s)
    /\ UNCHANGED <<switch, life, stalls, operator, known>>

\* Only a refusal and a receipt are certain; the rest may have arrived or not.
OutcomeOf(answer) ==
    CASE answer = "receipt" -> "delivered"
      [] answer = "refusal" -> "rejected"
      [] OTHER -> "delivery_unknown"
Answer(s, answer) ==
    LET a == run[s].alert IN
    /\ run[s].step = "calling"
    /\ run' = [run EXCEPT ![s] = [@ EXCEPT !.step = "finish", !.outcome = OutcomeOf(answer)]]
    /\ proven' = IF answer = "receipt" THEN proven \cup {a} ELSE proven
    /\ risky' = IF answer = "refusal" /\ row[a].token = s THEN risky \ {a} ELSE risky
    /\ UNCHANGED <<switch, life, place, ledger, worker, stalls, operator>>

AfterRejection(r, count) ==
    Freed(r, IF count >= r.limit THEN "exhausted" ELSE "pending", Backoff(count))
FinishedRow(r, outcome, count) ==
    IF outcome = "rejected" THEN AfterRejection(r, count) ELSE Freed(r, outcome, Backoff(count))
Saves(s, outcome) ==
    LET a == run[s].alert IN
    IF Holds(s, "sending")
    THEN /\ row' = [row EXCEPT ![a] = FinishedRow(@, outcome, Len(attempts[a]))]
         /\ attempts' = [attempts EXCEPT ![a] = Closed(@, outcome)]
    ELSE UNCHANGED ledger
Finish(s) ==
    /\ run[s].step = "finish"
    /\ Saves(s, run[s].outcome)
    /\ GoesOn(s)
    /\ UNCHANGED <<switch, life, stalls, operator, known>>

\* The caller is cancelled: a call that may have begun is recorded as unknown, a
\* transaction under way commits or not, and the lease outlives the run.
Interrupted(s) ==
    IF run[s].step \in {"guarded", "calling"} THEN Saves(s, "delivery_unknown")
                                             ELSE UNCHANGED ledger
CancelCall(h) ==
    /\ run[Home[h]].by = h
    /\ Interrupted(Home[h])
    /\ EndRun(Home[h])
    /\ UNCHANGED <<switch, life, stalls, operator, known>>

-----------------------------------------------------------------------------
(* The operator, the switch, the clock and the processes.                       *)

Granted(r, count, status) == [Freed(r, status, 0) EXCEPT !.limit = count + AttemptLimit]
Resolve(a, action) ==
    /\ row[a].status \in {"delivery_unknown", "exhausted"}
    /\ action = "retry" => enabled
    /\ decisions < MaxDecisions
    /\ row' = [row EXCEPT ![a] = Granted(@, Len(attempts[a]),
                                         IF action = "retry" THEN "pending" ELSE "delivered")]
    /\ proven' = IF action = "retry" THEN proven ELSE proven \cup {a}
    /\ risky' = risky \ {a}
    /\ since' = [since EXCEPT ![a] = Len(attempts[a])]
    /\ decisions' = decisions + 1
    /\ UNCHANGED <<switch, life, place, attempts, worker, run, stalls>>

Flip ==
    /\ flips < MaxFlips
    /\ enabled' = ~enabled /\ flips' = flips + 1
    /\ UNCHANGED <<life, place, ledger, worker, run, stalls, operator, known>>

\* Leases that would lapse while the process that holds them is still at work.
Stalled ==
    {a \in Alerts : row[a].lease = 1 /\ \E s \in Services : run[s].alert = a /\ row[a].token = s}
Tick ==
    /\ \E a \in Alerts : row[a].lease > 0 \/ row[a].wait > 0
    /\ stalls + Cardinality(Stalled) <= MaxStalls
    /\ stalls' = stalls + Cardinality(Stalled)
    /\ row' = [a \in Alerts |-> [row[a] EXCEPT !.lease = Earlier(@), !.wait = Earlier(@)]]
    /\ UNCHANGED <<switch, life, place, attempts, worker, run, operator, known>>

\* The shutdown hook: no more calls begin, the worker is cancelled.
Stop(s) ==
    /\ accepting[s] /\ restarts < MaxRestarts
    /\ accepting' = [accepting EXCEPT ![s] = FALSE]
    /\ worker' = [worker EXCEPT ![s] = "none"]
    /\ IF run[s].step # "idle" /\ run[s].by = None
       THEN run' = [run EXCEPT ![s] = Idle] /\ Interrupted(s)
       ELSE UNCHANGED <<run, ledger>>
    /\ UNCHANGED <<switch, restarts, place, stalls, operator, known>>

\* The process ends, at any instant, and is started again; the last start lasts.
Restart(s) ==
    /\ restarts < MaxRestarts
    /\ restarts' = restarts + 1
    /\ accepting' = [accepting EXCEPT ![s] = TRUE]
    /\ worker' = [worker EXCEPT ![s] = "sleep"]
    /\ run' = [run EXCEPT ![s] = Idle]
    /\ place' = [h \in Handlers |-> IF Home[h] = s /\ place[h] # "new" THEN "done" ELSE place[h]]
    /\ UNCHANGED <<switch, ledger, stalls, operator, known>>

Init ==
    /\ enabled = TRUE /\ flips = 0
    /\ accepting = [s \in Services |-> TRUE]
    /\ restarts = 0
    /\ place = [h \in Handlers |-> "new"]
    /\ row = [a \in Alerts |-> NoRow]
    /\ attempts = [a \in Alerts |-> <<>>]
    /\ worker = [s \in Services |-> "sleep"]
    /\ run = [s \in Services |-> Idle]
    /\ stalls = 0 /\ decisions = 0
    /\ since = [a \in Alerts |-> 0]
    /\ proven = {} /\ risky = {}

RunStep(s) ==
    \/ Claim(s) \/ Check(s) \/ Release(s) \/ BeginSend(s) \/ Gate(s) \/ SendGuarded(s)
    \/ AbortUnsent(s) \/ Finish(s)
    \/ \E answer \in {"receipt", "response", "refusal", "lost"} : Answer(s, answer)
WorkerStep(s) == WorkerRecovers(s) \/ WorkerDelivers(s)
Next ==
    \/ \E h \in Handlers : Enqueue(h) \/ Deliver(h) \/ CancelCall(h)
    \/ \E s \in Services : WorkerStep(s) \/ RunStep(s) \/ Stop(s) \/ Restart(s)
    \/ \E a \in Alerts, action \in {"retry", "confirm_delivered"} : Resolve(a, action)
    \/ Flip \/ Tick

\* The event loop and its threads make progress, the clock runs, systemd starts a
\* process that has ended.
Fairness ==
    /\ WF_vars(Tick)
    /\ \A s \in Services :
        WF_vars(WorkerStep(s)) /\ WF_vars(RunStep(s)) /\ WF_vars(~accepting[s] /\ Restart(s))
Spec == Init /\ [][Next]_vars /\ Fairness

-----------------------------------------------------------------------------
(* Correctness.                                                                 *)

\* Every variable has its type.
TypeOK ==
    /\ enabled \in BOOLEAN /\ flips \in 0..MaxFlips
    /\ accepting \in [Services -> BOOLEAN] /\ restarts \in 0..MaxRestarts
    /\ place \in [Handlers -> {"new", "queued", "runs", "done"}]
    /\ row \in [Alerts -> Row]
    /\ \A a \in Alerts : attempts[a] \in Seq(Results \cup {"sending", "not_sent"})
    /\ worker \in [Services -> {"none", "sleep", "pass", "busy"}]
    /\ run \in [Services -> Run]
    /\ stalls \in 0..MaxStalls /\ decisions \in 0..MaxDecisions
    /\ since \in [Alerts -> Nat]
    /\ proven \subseteq Alerts /\ risky \subseteq Alerts

Refusals(a) == {i \in since[a] + 1..Len(attempts[a]) : attempts[a][i] = "rejected"}
Rejected(a) == Cardinality(Refusals(a))
\* What the ledger says of an alert is true (outbox.py, DELIVERY.md): delivered needs a
\* receipt or the operator's word; what may have reached the group is not queued;
\* exactly the automatic attempts that were refused since the operator last decided exhaust
\* a row, attempts that were called off do not count; only the last attempt is open.  (TypeOK
\* is its first conjunct, as in the other modules.)
LedgerTruthful ==
    /\ TypeOK
    /\ \A a \in Alerts :
           /\ row[a].status = "delivered" => a \in proven
           /\ row[a].status \in {"pending", "leased", "exhausted"} => a \notin risky
           /\ Rejected(a) <= AttemptLimit
           /\ row[a].status = "exhausted" <=> Rejected(a) = AttemptLimit /\ row[a].status # "none"
           /\ \A i \in 1..Len(attempts[a]) :
               attempts[a][i] = "sending" <=> i = Len(attempts[a]) /\ row[a].status = "sending"

\* A call to the platform begins with an open gate and never with an alert that an earlier
\* call may have delivered and on which the operator has not decided; a row leaves the
\* hands of its holder through the holder or after its lease.
CallsAreSafe ==
    [][/\ \A s \in Services :
            (run[s].step = "guarded" /\ run'[s].step = "calling")
                => Open(s) /\ (Holds(s, "sending") => run[s].alert \notin risky)
       /\ \A a \in Alerts :
            (row[a].token # None /\ row'[a].token # row[a].token)
                => \/ row[a].lease = 0
                   \/ \E s \in Services : s = row[a].token /\ run[s].alert = a /\ run'[s] # run[s]
      ]_vars

\* Once the switch stays on, every queued alert is delivered or waits for the operator,
\* also when the process that queued it has died.
AlertsSettle ==
    (<>[]enabled) =>
        \A a \in Alerts : row[a].status = "pending"
            ~> row[a].status \in {"delivered", "delivery_unknown", "exhausted"}
=============================================================================
