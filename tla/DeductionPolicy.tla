-------------------------- MODULE DeductionPolicy --------------------------
(* The deduction policy of one member in one group area                        *)
(* (plugins/violation_record/deduction_policy.py): mutes, status changes and   *)
(* administrators' decisions drive cycles that end in a reduction of the       *)
(* member's count, in a question to the administrators, or in a new cycle.     *)
(*                                                                             *)
(* Inputs are handled in the order in which they take effect; an input that    *)
(* arrives after a later one makes the code replay the history and is not      *)
(* modelled here.  A transaction is a Begin step, one step per turn of the     *)
(* loop of settle_due_cycles(), and the step that applies the input; `op` is   *)
(* the transaction under way and nothing else runs until it is idle.           *)
EXTENDS Integers, Sequences, FiniteSets

CONSTANTS
    NormalLen,      \* length of a normal cycle (14 days)
    SlowStep,       \* what each slow level adds to it (7 days)
    ExtendLen,      \* one extension of a slow cycle (7 days)
    StopLen,        \* a manual stop (30 days)
    FinalLen,       \* the observation after a final warning (90 days)
    MaxOps,         \* reductions ever made by the policy (5)
    SlowAt,         \* the count at which a normal cycle becomes slow (3)
    Severities,     \* severities in play, a subset of AllSeverities
    Targets,        \* statuses administrators set, a subset of AllStatus
    Commands,       \* decisions administrators take, a subset of AllCommands
    Baselines,      \* initial counts
    Horizon,        \* bound: the last instant
    MaxMutes,       \* bound: mutes recorded
    MaxCycles       \* bound: cycles after which no status is set

AllSeverities == {"light", "severe", "unknown"}
\* normal, consulted, last warning, and the three terminal statuses
AllStatus == {"ok", "consulted", "warned", "gone"}
AllCommands == {"stop", "clear", "renew", "reject"}
CycleTypes == {"normal", "slow", "stop", "final_warning"}
Actions == {"stop_suggestion", "stop_decision", "duration_review", "remove_member",
            "final_warning_recovery_review"}

ASSUME LengthsAssumption ==
    /\ NormalLen \in Nat \ {0} /\ SlowStep \in Nat /\ ExtendLen \in Nat \ {0}
    /\ StopLen \in Nat \ {0} /\ FinalLen \in Nat \ {0}
ASSUME LimitsAssumption ==
    /\ MaxOps \in Nat \ {0} /\ SlowAt \in Nat \ {0}
    /\ Baselines \subseteq Nat
    /\ Horizon \in Nat /\ MaxMutes \in Nat /\ MaxCycles \in Nat
ASSUME InputsAssumption ==
    /\ Severities \subseteq AllSeverities
    /\ Targets \subseteq AllStatus
    /\ Commands \subseteq AllCommands

VARIABLES
    now,        \* the instant at which inputs take effect
    mutes,      \* the mute records, with the cycle their events are evaluated in
    scope,      \* the member's row and the policy's projection
    op          \* the transaction under way

vars == <<now, mutes, scope, op>>

(* `owner` is evaluation_owner_cycle_id of the record's event, `after` its     *)
(* evaluation_pending_after_cycle_id; 0 when absent.                           *)
Mute == [at : Nat, sev : AllSeverities, owner : Nat, after : Nat]

Cycle == [id : Nat, type : CycleTypes \cup {"none"},
          status : {"none", "active", "pending_decision"},
          start : Nat, due : Nat, light : Nat, severe : Nat, normalLight : Nat,
          slowLight : Nat, extended : BOOLEAN, rejected : BOOLEAN, seq : Nat]
NoCycle == [id |-> 0, type |-> "none", status |-> "none", start |-> 0, due |-> 0,
            light |-> 0, severe |-> 0, normalLight |-> 0, slowLight |-> 0,
            extended |-> FALSE, rejected |-> FALSE, seq |-> 0]

Scope == [status : AllStatus, total : Nat, deduct : Nat, ops : Nat,
          tag : {"none", "slow", "stop"}, slowLevel : Nat, cycle : Cycle,
          reason : {"none", "zero_count", "operation_limit", "terminal_status"},
          pending : SUBSET Actions, last : AllStatus \cup {"none"}, lastCycle : Nat]
Op == [kind : {"idle", "mute", "status", "maintenance"}, to : AllStatus, prev : AllStatus]

Idle == [kind |-> "idle", to |-> "ok", prev |-> "ok"]
Settling == {"normal", "slow"}      \* cycles that can end in a reduction

-----------------------------------------------------------------------------
(* Helpers of the code, each a function from projection to projection.         *)

\* The records up to instant t; the baseline counts from the start.
TotalAt(t) == Cardinality({i \in DOMAIN mutes : mutes[i].at <= t})
\* sync_count_state() through an instant, and over all records.
SyncedAt(s, t) == [s EXCEPT !.total = TotalAt(t)]
Synced(s) == [s EXCEPT !.total = Len(mutes)]
Current(s) == IF s.total > s.deduct THEN s.total - s.deduct ELSE 0

Good(c) ==
    IF c.type = "slow" THEN c.slowLight <= 2 /\ c.severe = 0
                       ELSE c.light <= 1 /\ c.severe = 0

SetNoCycle(s, reason) == [s EXCEPT !.tag = "none", !.cycle = NoCycle, !.reason = reason]
SetTerminal(s) == [s EXCEPT !.cycle = NoCycle, !.reason = "terminal_status"]

Length(type, level) ==
    CASE type = "normal" -> NormalLen
      [] type = "slow" -> NormalLen + SlowStep * level
      [] type = "stop" -> StopLen
      [] type = "final_warning" -> FinalLen
TagOf(type) ==
    CASE type = "normal" -> "none" [] type = "slow" -> "slow" [] OTHER -> "stop"

NewCycle(s, type, at, seq) ==
    LET level == IF type = "slow" THEN s.slowLevel + 1 ELSE s.slowLevel IN
    [s EXCEPT
        !.tag = TagOf(type), !.slowLevel = level, !.reason = "none",
        !.lastCycle = @ + 1,
        !.cycle = [NoCycle EXCEPT !.id = s.lastCycle + 1, !.type = type,
                                  !.status = "active", !.start = at,
                                  !.due = at + Length(type, level), !.seq = seq]]
\* Variant: the operation limit is not looked at.
StartCycleUnlimited(s, type, at, seq) ==
    IF s.status = "gone" THEN SetTerminal(s)
    ELSE IF Current(s) = 0 /\ type = "normal" THEN SetNoCycle(s, "zero_count")
    ELSE NewCycle(s, type, at, seq)
StartCycle(s, type, at, seq) ==
    IF s.status = "gone" THEN SetTerminal(s)
    ELSE IF s.ops >= MaxOps /\ type \in Settling THEN SetNoCycle(s, "operation_limit")
    ELSE IF Current(s) = 0 /\ type = "normal" THEN SetNoCycle(s, "zero_count")
    ELSE NewCycle(s, type, at, seq)

\* The normal cycle that follows a closed one, if there is still something to reduce.
NextNormal(s, at) ==
    IF Current(s) = 0 THEN SetNoCycle(s, "zero_count")
    ELSE IF s.ops >= MaxOps THEN SetNoCycle(s, "operation_limit")
    ELSE StartCycle(s, "normal", at, 0)

EnterSlow(s) ==
    [s EXCEPT !.tag = "slow", !.slowLevel = @ + 1, !.reason = "none",
              !.cycle = [@ EXCEPT !.type = "slow", !.slowLight = 0, !.extended = FALSE,
                                  !.due = s.cycle.start + Length("slow", s.slowLevel + 1)]]

\* One open action of a type: a second request finds the first.
Ask(s, action) == [s EXCEPT !.pending = @ \cup {action}]
Resolve(s, actions) == [s EXCEPT !.pending = @ \ actions]
Await(s) == [s EXCEPT !.cycle.status = "pending_decision"]
CloseCycle(s) == [s EXCEPT !.cycle = NoCycle]

\* All of the amount or none of it; either way at most one operation.
Reduce(s, amount) ==
    IF Current(s) >= amount /\ s.ops < MaxOps
    THEN [s EXCEPT !.deduct = @ + amount, !.ops = @ + 1]
    ELSE s

-----------------------------------------------------------------------------
(* settle_due_cycles(): one turn of its loop, for each type of cycle.          *)

SettleStop(s) == Await(Ask(s, "stop_decision"))

SettleFinal(s) ==
    LET synced == SyncedAt(s, s.cycle.due)
        reduced == Reduce([synced EXCEPT !.status = "consulted"], 2)
        next == NextNormal([CloseCycle(reduced) EXCEPT !.tag = "none"], s.cycle.due)
    IN IF "remove_member" \in s.pending THEN Await(s)
       ELSE IF Current(synced) < 2 THEN Ask(next, "final_warning_recovery_review")
       ELSE next

Extended(c) ==
    [c EXCEPT !.status = "active", !.due = @ + ExtendLen,
              !.light = 0, !.normalLight = 0, !.slowLight = 0, !.severe = 0,
              !.extended = FALSE, !.rejected = FALSE]
\* A rejected suggestion costs the reduction: a normal cycle ends without one, a
\* slow cycle is extended and starts to count anew.
CloseRejected(s) ==
    IF s.cycle.type = "normal"
    THEN StartCycle([CloseCycle(s) EXCEPT !.tag = "none"], "normal", s.cycle.due, 0)
    ELSE [s EXCEPT !.cycle = Extended(@)]

SettleGood(s) ==
    LET reduced == Reduce(SyncedAt(s, s.cycle.due), 1)
    IN NextNormal([CloseCycle(reduced) EXCEPT !.tag = "none"], s.cycle.due)

SettleCycle(s) ==
    IF s.pending \cap {"stop_suggestion", "duration_review"} # {} THEN Await(s)
    ELSE IF s.cycle.rejected THEN CloseRejected(s)
    ELSE IF ~ Good(s.cycle) THEN Await(Ask(s, "stop_suggestion"))
    ELSE SettleGood(s)

SettleTurn(s) ==
    CASE s.cycle.type = "stop" -> SettleStop(s)
      [] s.cycle.type = "final_warning" -> SettleFinal(s)
      [] s.cycle.type \in Settling -> SettleCycle(s)

\* Variants: cycles that already wait are taken again; the maintenance looks for
\* what is due right now.
OverdueInAnyStatus(kind) ==
    /\ scope.cycle.type # "none"
    /\ IF kind = "maintenance" THEN scope.cycle.due <= now ELSE scope.cycle.due < now
OverdueExactly(kind) ==
    /\ scope.cycle.status = "active"
    /\ IF kind = "maintenance" THEN scope.cycle.due = now ELSE scope.cycle.due < now
\* Inputs settle what was due before their instant (effective time - 1 second),
\* maintenance also what is due at it: at the same instant the mute counts first.
Overdue(kind) ==
    /\ scope.cycle.status = "active"
    /\ IF kind = "maintenance" THEN scope.cycle.due <= now ELSE scope.cycle.due < now

Settle ==
    /\ op.kind # "idle"
    /\ Overdue(op.kind)
    /\ scope' = SettleTurn(scope)
    /\ UNCHANGED <<now, mutes, op>>

-----------------------------------------------------------------------------
(* process_violation_record().                                                 *)

\* The stop is over and was bad: what happens now belongs to a later period.
AwaitsBad(s) ==
    /\ s.cycle.type = "stop" /\ s.cycle.status = "pending_decision"
    /\ ~ Good(s.cycle)

One(sev, kind) == IF sev = kind THEN 1 ELSE 0

CountInStop(s, sev) ==
    [s EXCEPT !.cycle.light = @ + One(sev, "light"), !.cycle.severe = @ + One(sev, "severe")]

CountInFinal(s, sev) == Await(Ask(CountInStop(s, sev), "remove_member"))

\* The mute that starts a cycle is not counted in it.
MuteStarts(s, sev) ==
    LET type == IF Current(s) >= SlowAt \/ s.status = "consulted" THEN "slow" ELSE "normal"
        started == StartCycle(s, type, now, 0)
    IN IF sev = "severe" THEN Ask(started, "stop_suggestion") ELSE started

\* The light mutes of the whole cycle and of its slow part are counted apart.
Counted(c, sev) ==
    [c EXCEPT !.light = @ + One(sev, "light"), !.severe = @ + One(sev, "severe"),
              !.normalLight = @ + One(sev, "light"),
              !.slowLight = @ + (IF c.type = "slow" THEN One(sev, "light") ELSE 0)]
MuteCounts(s, sev) ==
    LET slow == s.cycle.type = "slow"
        counted == [s EXCEPT !.cycle = Counted(@, sev)]
        entered == IF ~ slow /\ Current(s) >= SlowAt THEN EnterSlow(counted) ELSE counted
        longer == IF /\ entered.cycle.type = "slow"
                     /\ entered.cycle.slowLight = 2 /\ ~ entered.cycle.extended
                  THEN [entered EXCEPT !.cycle.due = @ + ExtendLen, !.cycle.extended = TRUE]
                  ELSE entered
    IN IF sev = "severe" \/ longer.cycle.normalLight >= 3 \/ longer.cycle.slowLight >= 3
       THEN Ask(longer, "stop_suggestion") ELSE longer

\* A member under a last warning whom the policy had not met gets the
\* observation from the time of the warning, which is before the model starts.
Opened(s) ==
    IF s.cycle.type = "none" /\ s.status = "warned"
    THEN StartCycle(s, "final_warning", 0, 0) ELSE s

AfterMute(s, sev) ==
    IF s.cycle.type = "stop" THEN (IF AwaitsBad(s) THEN s ELSE CountInStop(s, sev))
    ELSE IF s.cycle.type = "final_warning" THEN CountInFinal(s, sev)
    ELSE IF s.ops >= MaxOps THEN SetNoCycle(s, "operation_limit")
    ELSE IF s.cycle.type = "none" THEN MuteStarts(s, sev)
    ELSE MuteCounts(s, sev)

\* The event of a mute in a stop names its cycle, or the cycle after which it
\* will be evaluated.
Marked(m, s) ==
    IF s.cycle.type \notin {"stop", "final_warning"} THEN m
    ELSE IF AwaitsBad(s) THEN [m EXCEPT !.after = s.cycle.id]
    ELSE [m EXCEPT !.owner = s.cycle.id]

BeginMute(sev) ==
    /\ op = Idle
    /\ Len(mutes) < MaxMutes
    /\ mutes' = Append(mutes, [at |-> now, sev |-> sev, owner |-> 0, after |-> 0])
    /\ scope' = [scope EXCEPT !.total = Len(mutes) + 1]
    /\ op' = [Idle EXCEPT !.kind = "mute"]
    /\ UNCHANGED now

ReadyFor(kind) == op.kind = kind /\ ~ Overdue(kind)

ApplyUnknown ==
    /\ ReadyFor("mute")
    /\ mutes[Len(mutes)].sev = "unknown"
    /\ scope' = Ask(Synced(scope), "duration_review")
    /\ op' = Idle
    /\ UNCHANGED <<now, mutes>>

ApplyMute ==
    /\ ReadyFor("mute")
    /\ mutes[Len(mutes)].sev # "unknown"
    /\ LET s == Opened(Synced(scope)) IN
        IF s.status = "gone"
        THEN scope' = SetTerminal(s) /\ UNCHANGED mutes
        ELSE /\ scope' = AfterMute(s, mutes[Len(mutes)].sev)
             /\ mutes' = [mutes EXCEPT ![Len(mutes)] = Marked(@, s)]
    /\ op' = Idle
    /\ UNCHANGED now

-----------------------------------------------------------------------------
(* A status is written with the counts by the service, in a transaction that   *)
(* queues a job; process_status_change() applies the job.                      *)

\* The previous status is the one of the last status event, and without one the
\* row's, which by now is the new one.
BeginStatus(to) ==
    /\ op = Idle
    /\ scope.lastCycle < MaxCycles
    /\ scope' = [Synced(scope) EXCEPT !.status = to]
    /\ op' = [kind |-> "status", to |-> to, prev |-> IF scope.last = "none" THEN to ELSE scope.last]
    /\ UNCHANGED <<now, mutes>>

BecomeGone(s) == SetTerminal(Resolve(s, Actions))
BecomeWarned(s) ==
    StartCycle(Resolve(CloseCycle(s), {"stop_suggestion", "stop_decision"}),
               "final_warning", now, 0)
BecomeConsulted(s) == StartCycle(CloseCycle(s), "slow", now, 0)
Recovering(s) ==
    op.prev # "ok" \/ s.reason = "terminal_status" \/ s.cycle.type = "final_warning"
BecomeOk(s) ==
    IF ~ Recovering(s) THEN s
    ELSE StartCycle(Resolve(CloseCycle(s), {"stop_suggestion", "stop_decision", "remove_member"}),
                    IF Current(s) >= SlowAt THEN "slow" ELSE "normal", now, 0)

ApplyStatus ==
    /\ ReadyFor("status")
    /\ LET s == [scope EXCEPT !.status = op.to, !.last = op.to] IN
        scope' = CASE op.to = "gone" -> BecomeGone(s)
                   [] op.to = "warned" -> BecomeWarned(s)
                   [] op.to = "consulted" -> BecomeConsulted(s)
                   [] op.to = "ok" -> BecomeOk(s)
    /\ op' = Idle
    /\ UNCHANGED <<now, mutes>>

-----------------------------------------------------------------------------
(* The scheduler's maintenance, when there is something to settle.             *)

BeginMaintenance ==
    /\ op = Idle
    /\ Overdue("maintenance")
    /\ op' = [Idle EXCEPT !.kind = "maintenance"]
    /\ UNCHANGED <<now, mutes, scope>>

EndMaintenance ==
    /\ ReadyFor("maintenance")
    /\ op' = Idle
    /\ UNCHANGED <<now, mutes, scope>>

-----------------------------------------------------------------------------
(* The administrators' commands.  They do not settle what is due first.        *)

Decides(command) ==
    /\ op = Idle
    /\ command \in Commands
    /\ scope.status \in {"ok", "consulted"}

StartStop ==
    /\ Decides("stop")
    /\ scope.cycle.type \notin {"stop", "final_warning"}
    /\ scope.lastCycle < MaxCycles
    /\ scope' = StartCycle(Resolve(CloseCycle(scope), {"stop_suggestion"}), "stop", now, 1)
    /\ UNCHANGED <<now, mutes, op>>

StopIsOver == scope.cycle.type = "stop" /\ scope.cycle.status = "pending_decision"

ClearStop ==
    /\ Decides("clear")
    /\ StopIsOver /\ Good(scope.cycle)
    /\ LET reduced == Reduce(Synced(scope), 1)
            closed == [Resolve(CloseCycle(reduced), {"stop_decision"}) EXCEPT !.tag = "none"]
       IN scope' = NextNormal(closed, now)
    /\ UNCHANGED <<now, mutes, op>>

\* Variant: everything that waited is evaluated at once.
TransferredAll(m, old, new) ==
    IF m.after # old.id THEN m ELSE [m EXCEPT !.owner = new.id, !.after = 0]
\* The mutes that waited belong to the next stop up to its end, the later ones
\* wait for the one after it.
Transferred(m, old, new) ==
    IF m.after # old.id THEN m
    ELSE IF m.at <= new.due THEN [m EXCEPT !.owner = new.id, !.after = 0]
    ELSE [m EXCEPT !.after = new.id]

\* Variant: the next stop starts when it is decided.
RenewedNow(s) ==
    StartCycle(Resolve(CloseCycle(s), {"stop_decision"}), "stop", now, s.cycle.seq + 1)
\* The next stop starts where the last one ended, whenever it is decided.
Renewed(s) ==
    StartCycle(Resolve(CloseCycle(s), {"stop_decision"}), "stop", s.cycle.due, s.cycle.seq + 1)

RenewStop ==
    /\ Decides("renew")
    /\ StopIsOver
    /\ LET old == scope.cycle
            next == Renewed(scope)
            Waited(sev) == Cardinality({i \in DOMAIN mutes :
                               /\ mutes[i].after = old.id /\ mutes[i].sev = sev
                               /\ mutes[i].at <= next.cycle.due})
       IN /\ scope' = [next EXCEPT !.cycle.light = Waited("light"),
                                   !.cycle.severe = Waited("severe")]
          /\ mutes' = [i \in DOMAIN mutes |-> Transferred(mutes[i], old, next.cycle)]
    /\ UNCHANGED <<now, op>>

RejectSuggestion ==
    /\ Decides("reject")
    /\ scope.cycle.type \in Settling
    /\ "stop_suggestion" \in scope.pending
    /\ LET rejected == [Resolve(scope, {"stop_suggestion"}) EXCEPT !.cycle.rejected = TRUE]
       IN scope' = IF scope.cycle.status = "pending_decision" THEN CloseRejected(rejected)
                                                              ELSE rejected
    /\ UNCHANGED <<now, mutes, op>>

-----------------------------------------------------------------------------

Tick ==
    /\ op = Idle
    /\ now < Horizon
    /\ now' = now + 1
    /\ UNCHANGED <<mutes, scope, op>>

(* A member the migration gave its first cycle, or one the policy meets for    *)
(* the first time (the counts and the status are from before).                 *)
Fresh(status, n) ==
    [status |-> status, total |-> n, deduct |-> 0, ops |-> 0, tag |-> "none", slowLevel |-> 0,
     cycle |-> NoCycle, reason |-> "none", pending |-> {}, last |-> "none", lastCycle |-> 0]
InitialType(status, n) ==
    IF status = "warned" THEN "final_warning"
    ELSE IF status = "consulted" \/ n >= SlowAt THEN "slow" ELSE "normal"

Init ==
    \E n \in Baselines, status \in Targets \cup {"ok"}, migrated \in BOOLEAN :
        /\ now = 0
        /\ mutes = [i \in 1..n |-> [at |-> 0, sev |-> "light", owner |-> 0, after |-> 0]]
        /\ op = Idle
        /\ scope = IF migrated THEN StartCycle(Fresh(status, n), InitialType(status, n), 0, 0)
                               ELSE Fresh(status, n)

Command == StartStop \/ ClearStop \/ RenewStop \/ RejectSuggestion
Input == (\E sev \in Severities : BeginMute(sev)) \/ (\E to \in Targets : BeginStatus(to))
Apply == ApplyUnknown \/ ApplyMute \/ ApplyStatus \/ EndMaintenance

Next == Tick \/ Input \/ BeginMaintenance \/ Settle \/ Apply \/ Command

Spec == Init /\ [][Next]_vars

(* Time passes, a transaction that began runs to its end, and the scheduler's  *)
(* maintenance gets its turn between two transactions, however many there are  *)
(* (its timer does not depend on them).  Inputs and commands may never come.   *)
Fairness == WF_vars(Tick) /\ WF_vars(Settle) /\ WF_vars(Apply) /\ SF_vars(BeginMaintenance)
FairSpec == Spec /\ Fairness

-----------------------------------------------------------------------------
(* Invariants.                                                                 *)

\* Types of the variables.
TypeOK ==
    /\ now \in Nat
    /\ mutes \in Seq(Mute)
    /\ scope \in Scope
    /\ op \in Op

\* The status decides which cycles a member can be in, and once the policy's
\* operations are used up no cycle that would reduce again is open.  (Between
\* the service's write of a status and the policy's step the two may differ.)
CycleAllowed ==
    /\ scope.cycle.type \in Settling => scope.ops < MaxOps
    /\ op.kind # "status" =>
        /\ scope.cycle.type \in {"normal", "slow", "stop"} => scope.status \in {"ok", "consulted"}
        /\ scope.cycle.type = "final_warning" => scope.status = "warned"

\* The tag shown and queried is the one of the cycle the member is in; without a
\* cycle only a terminal status keeps a tag.
TagMatchesCycle ==
    /\ scope.cycle.type # "none" => scope.tag = TagOf(scope.cycle.type)
    /\ scope.cycle.type = "none" /\ op.kind # "status" /\ scope.status # "gone" => scope.tag = "none"

Asked(s) ==
    /\ s.cycle.type = "stop" => "stop_decision" \in s.pending
    /\ s.cycle.type = "final_warning" => "remove_member" \in s.pending
    /\ s.cycle.type \in Settling => s.pending \cap {"stop_suggestion", "duration_review"} # {}
\* A cycle that waits for the administrators waits for something they are being
\* asked: nothing is stuck in silence.
DecisionIsAsked == scope.cycle.status = "pending_decision" => Asked(scope)

\* Every reduction uses one of the MaxOps operations and takes one or two from
\* the count, and never more than was recorded.
DeductionsAccounted ==
    /\ scope.ops <= MaxOps
    /\ scope.ops <= scope.deduct /\ scope.deduct <= 2 * scope.ops
    /\ scope.deduct <= Len(mutes)

Owned(id, sev) == {i \in DOMAIN mutes : mutes[i].owner = id /\ mutes[i].sev = sev}
\* The counters a stop is judged by are the number of mutes whose events name
\* it, through waits, renewals and transfers.
CountsMatchOwners ==
    scope.cycle.type \in {"stop", "final_warning"} =>
        /\ scope.cycle.light = Cardinality(Owned(scope.cycle.id, "light"))
        /\ scope.cycle.severe = Cardinality(Owned(scope.cycle.id, "severe"))

\* Where the first of a series of stops started.
FirstStart == scope.cycle.start - (scope.cycle.seq - 1) * StopLen
\* While a member is stopped, every mute since the first stop started is
\* evaluated in one of the stops or waits for the one after the present.
NoMuteForgotten ==
    op = Idle /\ scope.cycle.type = "stop" =>
        \A i \in DOMAIN mutes :
            mutes[i].at > FirstStart /\ mutes[i].sev # "unknown" =>
                mutes[i].owner # 0 \/ mutes[i].after = scope.cycle.id

\* A mute waits for a later stop only when it does not lie before the end of the
\* present one: no period is judged without a mute that happened in it.
WaitingIsLater ==
    \A i \in DOMAIN mutes :
        scope.cycle.type = "stop" /\ mutes[i].after = scope.cycle.id => mutes[i].at >= scope.cycle.due

\* What holds of a member in every state: the variables have their types, the
\* cycle fits the status, the tag fits the cycle, a cycle that waits is asked
\* about, and no more is taken off the count than the operations allow.
PolicyIsSound ==
    TypeOK /\ CycleAllowed /\ TagMatchesCycle /\ DecisionIsAsked /\ DeductionsAccounted

\* Every mute of a stopped member is judged in one stop, the right one.
MutesAreJudged == CountsMatchOwners /\ NoMuteForgotten /\ WaitingIsLater

(* Action properties.                                                          *)

\* The stop a mute is evaluated in is decided once.
OwnerIsFinal ==
    [][\A i \in DOMAIN mutes : mutes[i].owner # 0 =>
            mutes'[i].owner = mutes[i].owner /\ mutes'[i].after = 0]_vars

Within(c) == {i \in DOMAIN mutes : c.start < mutes[i].at /\ mutes[i].at <= c.due}
\* An automatic reduction is earned: by the records, and not only by the cycle's
\* counters, the period that ends had no severe mute, none of unknown length and
\* at most two light ones, and a final warning none.
Earns ==
    /\ scope.cycle.due <= now
    /\ Cardinality({i \in Within(scope.cycle) : mutes[i].sev = "light"}) <= 2
    /\ \A i \in Within(scope.cycle) :
        /\ mutes[i].sev # "severe"
        /\ scope.cycle.type = "final_warning" => mutes[i].sev = "unknown"
        /\ scope.cycle.type \in Settling => mutes[i].sev # "unknown"
Reduces == op # Idle /\ scope'.deduct > scope.deduct

\* Renewing moves no endpoint: the k-th stop of a series ends k stop lengths
\* after the series started, and the series is left only by clearing the last
\* stop or by a status.
EndpointsFixed ==
    [][scope.cycle.type = "stop" /\ scope'.cycle.type = "stop" =>
            FirstStart' = FirstStart]_vars

(* Liveness.                                                                   *)

\* Transactions end (the loop of settle_due_cycles() does), and a cycle that is
\* due does not stay as it is: it is settled, extended or put before the
\* administrators.
CycleIsOverdue == scope.cycle.status = "active" /\ scope.cycle.due <= now
CyclesSettle == []<>(op = Idle /\ ~ CycleIsOverdue)
=============================================================================
