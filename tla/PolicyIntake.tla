---------------------------- MODULE PolicyIntake ----------------------------
(* How an administrator's confirmed operation becomes an input of the policy:   *)
(* previews and confirmations (violation_record/service.py, policy_commands.py), *)
(* the bridge that processes committed records and status changes and makes up   *)
(* for what a crash lost (policy_bridge.py), and the reviews that hold an input  *)
(* the policy cannot take (deduction_policy.py: withdrawal, replay, resolution). *)
(* One member in one group area; what cycles and counts do is DeductionPolicy's. *)
(*                                                                              *)
(* A handler runs to its end, but commits in several transactions: task is what  *)
(* it still has to do, and a crash or an error drops it.  A replay applies the   *)
(* effective inputs in the order of their times, so the member's status becomes  *)
(* that of the last; it may clash with a decision that was made.                 *)
EXTENDS Integers, Sequences, FiniteSets

CONSTANTS
    Operators,
    None,           \* the absence of a preview, a suggestion or a checkpoint
    Horizon,        \* bound: the last instant
    MaxRecords,     \* bound: violation records
    MaxJobs,        \* bound: status changes
    MaxPreviews,    \* bound: operations previewed
    MaxUpsets       \* bound: crashes and errors between two transactions

ASSUME NoneAssumption == None \notin Nat /\ None \notin [at : Nat, upto : Nat]
ASSUME IntakeBounds == {Horizon, MaxRecords, MaxJobs, MaxPreviews, MaxUpsets} \subseteq Nat

VARIABLES
    now,
    records,    \* violation_records and the policy's events for each
    jobs,       \* v102_status_bridge_jobs and the status event of each
    status,     \* member_group_states.status: "ok", "consulted" or "gone" (terminal)
    base,       \* the status that a replay starts from, and the jobs it covers
    reviews,    \* pending input_review and replay_review, with the input that caused each
    ask,        \* the pending stop_suggestion: the record behind it, and its generation
    decided,    \* the record behind the decision on the cycle, 0 for no record, None when not made
    held,       \* records whose withdrawal waits for the administrators' review
    checkpoint, \* the last policy_review_resolved: its instant and its record watermark
    pending,    \* pending_operations
    task,       \* what the handler under way still does
    previews, upsets

intake == <<now, records, jobs, status, base, reviews, ask, decided, held, checkpoint, pending,
          task, previews, upsets>>
policy == <<base, reviews, ask, decided, held, checkpoint>>

Times == 0..Horizon
Statuses == {"ok", "consulted", "gone"}
NoTask == [do |-> "idle", left |-> <<>>, claimed |-> 0]
Review(kind, record, job) == [kind |-> kind, record |-> record, job |-> job]
\* _create_pending_action: one pending action of a kind, the first one's cause stays
Ask(pendings, r) == IF \E p \in pendings : p.kind = r.kind THEN pendings ELSE pendings \union {r}
UnderReview == reviews # {}
ReplayReview == \E r \in reviews : r.kind = "replay"

\* the status that the effective status events leave (replay order: time, then the event's id)
Projected(js) ==
    LET Effective == {j \in DOMAIN js : js[j].mark = "applied" /\ j > base.jobs}
        Last == {j \in Effective : \A k \in Effective :
                    js[k].at < js[j].at \/ (js[k].at = js[j].at /\ js[k].event <= js[j].event)}
    IN IF Last = {} THEN base.status ELSE js[CHOOSE j \in Last : TRUE].to

-----------------------------------------------------------------------------
\* replay_member_group: the projection is rebuilt, suggestions are asked anew, or the replay
\* clashes with a decision, is rolled back and asks for a review
Suggested(rs) ==
    {None} \union {[record |-> i, gen |-> IF ask = None THEN 1 ELSE ask.gen + 1] :
                   i \in {k \in DOMAIN rs : rs[k].mark = "applied"}}
Replay(rs, js, rvs, review) ==
    \/ status' = Projected(js) /\ reviews' = rvs
       /\ ask' \in IF decided = None THEN Suggested(rs) ELSE {None}
    \/ decided # None /\ reviews' = Ask(rvs, review) /\ UNCHANGED <<status, ask>>

Mark(i, m) == [records EXCEPT ![i].mark = m]
\* _process_record_isolated and process_violation_record
RecordInput(i) ==
    LET r == records[i] IN
    /\ IF r.out \/ r.kind = "warning" \/ r.mark # "none" \/ UnderReview
       THEN UNCHANGED <<records, status, reviews, ask>>
       ELSE IF r.at > now
       THEN reviews' = Ask(reviews, Review("input", i, 0)) /\ UNCHANGED <<records, status, ask>>
       ELSE /\ records' = Mark(i, "applied")
            /\ IF checkpoint # None /\ r.at < checkpoint.at
               THEN reviews' = Ask(reviews, Review("replay", i, 0)) /\ UNCHANGED <<status, ask>>
               ELSE \/ /\ ask' = IF ask = None /\ decided = None
                                 THEN [record |-> i, gen |-> 0] ELSE ask
                       /\ UNCHANGED <<status, reviews>>
                    \/ r.at < now /\ Replay(records', jobs, reviews, Review("replay", i, 0))
    /\ UNCHANGED <<jobs, base, decided, held, checkpoint>>

\* Variant: what the record brought about stays
VoidedNone(i) == jobs
\* a resolved review has accepted the evidence up to its watermark
Covered(i) == checkpoint # None /\ i <= checkpoint.upto
\* withdraw_violation_record
Voided(i) == [j \in DOMAIN jobs |->
    IF jobs[j].cause = i /\ jobs[j].mark = "applied" THEN [jobs[j] EXCEPT !.mark = "void"] ELSE jobs[j]]
WithdrawInput(i) ==
    LET r == records[i]
        Void == IF r.mark = "applied" THEN "void" ELSE r.mark
        Left == {v \in reviews : v.record # i}
        Again == Review("replay", i, 0)
    IN
    /\ IF r.closed THEN UNCHANGED <<records, jobs, status, reviews, ask, held>>
       ELSE /\ records' = [records EXCEPT ![i] = [@ EXCEPT !.out = TRUE, !.closed = TRUE, !.mark = Void]]
            /\ IF Covered(i) \/ (r.mark # "none" /\ decided = i)
               THEN reviews' = Ask(Left, Again) /\ held' = held \union {i}
                    /\ UNCHANGED <<jobs, status, ask>>
               ELSE UNCHANGED held /\ jobs' = (IF r.mark = "none" THEN jobs ELSE Voided(i))
                    /\ Replay(records', jobs', Left, Again)
    /\ UNCHANGED <<base, decided, checkpoint>>

\* process_status_bridge_jobs, one job: superseded is the older job whose review this one lifts
NextEvent == 1 + Cardinality({k \in DOMAIN jobs : jobs[k].event > 0})
Settle(j, m, superseded) == [k \in DOMAIN jobs |->
    IF k = j THEN [jobs[k] EXCEPT !.st = "applied", !.mark = m,
                                  !.event = IF m = "applied" THEN NextEvent ELSE 0]
    ELSE IF k = superseded THEN [jobs[k] EXCEPT !.st = "applied"] ELSE jobs[k]]
StatusInput(j) ==
    LET job == jobs[j]
        Superseded == {v.job : v \in reviews}
        Kept == IF Superseded = {} THEN 0 ELSE CHOOSE k \in Superseded : TRUE
        Again == Review("replay", 0, j)
    IN
    /\ IF job.cause # 0 /\ records[job.cause].out
       THEN jobs' = Settle(j, "none", 0) /\ UNCHANGED <<status, reviews, ask>>
       ELSE IF job.cause # 0 /\ records[job.cause].mark # "applied"
       THEN jobs' = [jobs EXCEPT ![j].st = "failed"] /\ UNCHANGED <<status, reviews, ask>>
       ELSE IF job.at > now
       THEN /\ jobs' = [jobs EXCEPT ![j].st = "failed"]
            /\ reviews' = Ask(reviews, Review("input", 0, j))
            /\ UNCHANGED <<status, ask>>
       ELSE /\ jobs' = Settle(j, "applied", Kept)
            /\ IF checkpoint # None /\ job.at < checkpoint.at
               THEN reviews' = {Again} /\ UNCHANGED <<status, ask>>
               ELSE \/ Replay(records, jobs', {}, Again) /\ job.at < now
                    \/ /\ status' = Projected(jobs') /\ status' = job.to
                       /\ reviews' = {} /\ ask' \in {ask, None}
    /\ UNCHANGED <<records, base, decided, held, checkpoint>>
\* any review but that of an older status job holds the job back
MayRun(j) == \A v \in reviews : v.kind = "input" /\ v.job \in 1..(j - 1) /\ jobs[j].at <= now

-----------------------------------------------------------------------------
Then(do, left) == task' = [do |-> do, left |-> left, claimed |-> 0]
InOrder(S) == LET n == Cardinality(S) IN
    CHOOSE s \in [1..n -> S] : \A a, b \in 1..n : a < b => s[a] < s[b]
JobsNow == Then("jobs", InOrder({j \in DOMAIN jobs : jobs[j].st \in {"pending", "failed", "lapsed"}}))

\* Variant: the pass looks only for records that no event mentions
UnprocessedNew == {i \in DOMAIN records : records[i].kind = "mute" /\ records[i].mark = "none"
                                          /\ ~records[i].closed}
\* compensate_unprocessed_records
Unprocessed == {i \in DOMAIN records : records[i].kind = "mute" /\
    IF records[i].out THEN ~records[i].closed ELSE records[i].mark = "none"}
Maintain ==
    /\ task = NoTask
    /\ Unprocessed # {} \/ \E j \in DOMAIN jobs : jobs[j].st \in {"pending", "failed", "lapsed"}
    /\ Then("compensate", InOrder(Unprocessed))
    /\ UNCHANGED <<now, records, jobs, status, policy, pending, previews, upsets>>

Input(i) == IF records[i].out THEN WithdrawInput(i) ELSE RecordInput(i)
Compensate ==
    /\ task.do = "compensate"
    /\ IF task.left = <<>> THEN JobsNow /\ UNCHANGED <<records, jobs, status, policy>>
       ELSE Input(Head(task.left)) /\ Then("compensate", Tail(task.left))
    /\ UNCHANGED <<now, pending, previews, upsets>>
Bridge ==
    /\ task.do = "record"
    /\ Input(Head(task.left))
    /\ task' = NoTask
    /\ UNCHANGED <<now, pending, previews, upsets>>
ClaimJob ==
    /\ task.do = "jobs" /\ task.claimed = 0
    /\ IF task.left = <<>> THEN task' = NoTask /\ UNCHANGED jobs
       ELSE LET j == Head(task.left) IN
            IF MayRun(j)
            THEN /\ jobs' = [jobs EXCEPT ![j].st = "processing"]
                 /\ task' = [task EXCEPT !.left = Tail(@), !.claimed = j]
            ELSE task' = [task EXCEPT !.left = Tail(@)] /\ UNCHANGED jobs
    /\ UNCHANGED <<now, records, status, policy, pending, previews, upsets>>
RunJob ==
    /\ task.do = "jobs" /\ task.claimed # 0
    /\ StatusInput(task.claimed)
    /\ task' = [task EXCEPT !.claimed = 0]
    /\ UNCHANGED <<now, pending, previews, upsets>>
\* the lease of a job that nothing works on
Lapse ==
    /\ \E j \in DOMAIN jobs : /\ jobs[j].st = "processing" /\ task.claimed # j
                              /\ jobs' = [jobs EXCEPT ![j].st = "lapsed"]
    /\ UNCHANGED <<now, records, status, policy, pending, task, previews, upsets>>
Upset ==
    /\ task.do \in {"record", "jobs"} /\ upsets < MaxUpsets
    /\ task' = NoTask /\ upsets' = upsets + 1
    /\ UNCHANGED <<now, records, jobs, status, policy, pending, previews>>
Tick ==
    /\ task = NoTask /\ now < Horizon /\ now' = now + 1
    /\ UNCHANGED <<records, jobs, status, policy, pending, task, previews, upsets>>

-----------------------------------------------------------------------------
\* The previews: what each checks, and what it keeps for the confirmation
Causes == {0} \union {i \in DOMAIN records : ~records[i].out}      \* _explicit_causal_record_id
Fingerprint == <<records, jobs, status, reviews, ask, decided>>    \* policy_review_fingerprint
Latest == {i \in DOMAIN records : ~records[i].out /\ \A k \in DOMAIN records :
    records[k].out \/ records[k].at < records[i].at \/ (records[k].at = records[i].at /\ k <= i)}
PreviewCreate == {[do |-> "create", at |-> t, kind |-> k] :
    t \in {t \in Times : status # "gone" /\ Len(records) < MaxRecords}, k \in {"mute", "warning"}}
PreviewConsultation == {[do |-> "status", to |-> s, at |-> t, cause |-> c] :
    s \in {"consulted", "gone"}, t \in {t \in Times : status # "gone"}, c \in Causes}
PreviewStatus == {[do |-> "status", to |-> "gone", at |-> None, cause |-> c] :
    c \in {c \in Causes : \E i \in DOMAIN records : ~records[i].out}}
PreviewUnlock == {[do |-> "status", to |-> "ok", at |-> None, cause |-> 0]}
PreviewWithdraw == {[do |-> "withdraw", record |-> i] : i \in {i \in Latest : status # "gone"}}
PreviewStop == {[do |-> "stop", ask |-> a] : a \in {a \in {ask} : status # "gone" /\ decided = None}}
PreviewReview == {[do |-> "resolve", seen |-> f] : f \in {f \in {Fingerprint} : ReplayReview}}
Preview(o) ==
    /\ task = NoTask /\ previews < MaxPreviews /\ previews' = previews + 1
    /\ \E p \in PreviewCreate \union PreviewConsultation \union PreviewStatus \union PreviewUnlock
                \union PreviewWithdraw \union PreviewStop \union PreviewReview :
        pending' = [pending EXCEPT ![o] = p]
    /\ UNCHANGED <<now, records, jobs, status, policy, task, upsets>>

ConfirmCreate(p) ==      \* _insert_violation, then bridge_violation_record
    /\ p.do = "create" /\ Len(records) < MaxRecords
    /\ records' = Append(records, [at |-> p.at, kind |-> p.kind, out |-> FALSE,
                                   mark |-> "none", closed |-> FALSE])
    /\ Then("record", <<Len(records) + 1>>)
    /\ UNCHANGED <<jobs, status, policy>>
ConfirmWithdraw(p) ==    \* _apply_withdraw, then bridge_withdrawal
    /\ p.do = "withdraw"
    /\ records' = [records EXCEPT ![p.record].out = TRUE]
    /\ Then("record", <<p.record>>)
    /\ UNCHANGED <<jobs, status, policy>>
\* Variant: the record behind the change is not looked at again
StillActiveAny(cause) == TRUE
StillActive(cause) == cause = 0 \/ ~records[cause].out     \* _causal_record_is_active
ConfirmStatus(p) ==      \* _apply_consultation, _apply_status, _apply_unlock
    /\ p.do = "status" /\ Len(jobs) < MaxJobs
    /\ IF StillActive(p.cause)
       THEN LET job == [to |-> p.to, at |-> IF p.at = None THEN now ELSE p.at, cause |-> p.cause,
                        st |-> "pending", mark |-> "none", event |-> 0]
            IN status' = p.to /\ jobs' = Append(jobs, job)
       ELSE UNCHANGED <<status, jobs>>
    /\ task' = [NoTask EXCEPT !.do = "start"]
    /\ UNCHANGED <<records, policy>>
\* Variant: the suggestion behind the decision is not looked at again
StandsAny(p) == TRUE
Stands(p) == p.ask = None \/ p.ask = ask
ConfirmStop(p) ==        \* apply_pending_policy_command and start_manual_stop
    /\ p.do = "stop"
    /\ IF status # "gone" /\ decided = None /\ ~UnderReview /\ Stands(p)
       THEN decided' = (IF p.ask = None THEN 0 ELSE p.ask.record) /\ ask' = None
       ELSE UNCHANGED <<decided, ask>>
    /\ UNCHANGED <<records, jobs, status, base, reviews, held, checkpoint, task>>
Acceptable ==
    /\ \A i \in DOMAIN records : records[i].kind = "mute" /\ ~records[i].out => records[i].at <= now
    /\ \A j \in DOMAIN jobs : jobs[j].st # "applied" => jobs[j].at <= now
ConfirmResolve(p) ==     \* _apply_review_command and resolve_policy_review
    /\ p.do = "resolve"
    /\ IF Cardinality(reviews) = 1 /\ ReplayReview /\ p.seen = Fingerprint /\ Acceptable
       THEN /\ records' = [i \in DOMAIN records |->
                IF ~records[i].out /\ records[i].kind = "mute" /\ records[i].mark = "none"
                THEN [records[i] EXCEPT !.mark = "applied"] ELSE records[i]]
            /\ jobs' = [j \in DOMAIN jobs |-> IF jobs[j].st = "applied" THEN jobs[j]
                ELSE [jobs[j] EXCEPT !.st = "applied", !.mark = "applied", !.event = Len(jobs)]]
            /\ reviews' = {} /\ decided' = None /\ held' = {} /\ ask' \in {ask, None}
            /\ base' = [status |-> status, jobs |-> Len(jobs)]
            /\ checkpoint' = [at |-> now, upto |-> Len(records)]
       ELSE UNCHANGED <<records, jobs, policy>>
    /\ UNCHANGED <<status, task>>
Confirm(o) ==
    /\ task = NoTask /\ pending[o] # None
    /\ pending' = [pending EXCEPT ![o] = None]
    /\ \/ ConfirmCreate(pending[o]) \/ ConfirmWithdraw(pending[o]) \/ ConfirmStatus(pending[o])
       \/ ConfirmStop(pending[o]) \/ ConfirmResolve(pending[o])
    /\ UNCHANGED <<now, previews, upsets>>
\* process_status_bridge_jobs is called once the change is committed
StartJobs ==
    /\ task.do = "start" /\ JobsNow
    /\ UNCHANGED <<now, records, jobs, status, policy, pending, previews, upsets>>

\* a member without records, or with a mute for which a stop is suggested
IntakeInit ==
    /\ now \in Times /\ jobs = <<>> /\ status = "ok"
    /\ \/ records = <<>> /\ ask = None
       \/ /\ records = <<[at |-> now, kind |-> "mute", out |-> FALSE, mark |-> "applied",
                         closed |-> FALSE]>>
          /\ ask = [record |-> 1, gen |-> 0]
    /\ base = [status |-> "ok", jobs |-> 0]
    /\ reviews = {} /\ decided = None /\ held = {} /\ checkpoint = None
    /\ pending = [o \in Operators |-> None] /\ task = NoTask
    /\ previews = 0 /\ upsets = 0
TaskStep == Compensate \/ Bridge \/ ClaimJob \/ RunJob \/ StartJobs
IntakeNext == Maintain \/ TaskStep \/ Lapse \/ Upset \/ Tick \/ \E o \in Operators : Preview(o) \/ Confirm(o)
IntakeSpec == IntakeInit /\ [][IntakeNext]_intake /\ WF_intake(Maintain) /\ WF_intake(TaskStep) /\ WF_intake(Lapse)

-----------------------------------------------------------------------------
\* Every variable has its type; a pending operation is known, and one review of a kind pends.
IntakeTypeOK ==
    /\ now \in Times /\ status \in Statuses /\ base \in [status : Statuses, jobs : 0..MaxJobs]
    /\ \A i \in DOMAIN records : records[i] \in [at : Times, kind : {"mute", "warning"},
        out : BOOLEAN, closed : BOOLEAN, mark : {"none", "applied", "void"}]
    /\ \A j \in DOMAIN jobs : jobs[j] \in [to : Statuses, at : Times, cause : 0..Len(records),
        st : {"pending", "processing", "lapsed", "failed", "applied"},
        mark : {"none", "applied", "void"}, event : 0..MaxJobs]
    /\ \A v, w \in reviews : v.kind = w.kind => v = w
    /\ decided \in {None} \union 0..Len(records) /\ held \subseteq DOMAIN records
    /\ \A o \in Operators : pending[o] = None
        \/ pending[o].do \in {"create", "status", "withdraw", "stop", "resolve"}
    /\ upsets \in 0..MaxUpsets

\* A withdrawn record and what it brought about stay out: its event never takes effect again, and
\* a status change that it is the reason for has none either, unless a review has accepted that
\* change or the withdrawal clashed with what the administrators decided and is put before them,
\* whatever was lost, replayed or made up for (deduction_policy.py:2905-3013).
WithdrawalStands ==
    \A i \in DOMAIN records : records[i].closed =>
        /\ records[i].mark # "applied"
        /\ \A j \in DOMAIN jobs : jobs[j].cause = i /\ jobs[j].mark = "applied" =>
            i \in held \/ j <= base.jobs

\* Nothing is left to process or review.
AllProcessed ==
    /\ task = NoTask /\ reviews = {}
    /\ \A i \in DOMAIN records : records[i].out => records[i].closed
    /\ \A j \in DOMAIN jobs : jobs[j].st = "applied"

\* The member's row follows the commands: once all is processed, its status is that of the last
\* effective status change, though operations were confirmed on stale previews, bridged late, or
\* lost between two transactions (service.py:964-1147).  The variables have their types.
RowFollowsCommands == IntakeTypeOK /\ (AllProcessed => status = Projected(jobs))

\* A stop is decided on evidence that holds: never for a suggestion whose record was withdrawn,
\* however old the preview (policy_commands.py:596-811), unless a crash or an error came between
\* the withdrawal and the policy's processing of it, which leaves the suggestion open
\* (service.py:1032-1046).  A withdrawal that the policy processes with the decision standing,
\* because it came after it or was made up for later, puts the decision before the administrators.
\* The exception to both: a resolved review has covered the record, and its withdrawal asks for
\* another review without lifting the suggestion (deduction_policy.py:807, 2965-2972).
DecisionIsCurrent ==
    /\ [][decided' # decided /\ decided' \in Nat \ {0} =>
            \/ ~records[decided'].out \/ Covered(decided')
            \/ upsets > 0 /\ ~records[decided'].closed]_intake
    /\ [](decided \in Nat \ {0} /\ records[decided].closed => decided \in held \/ Covered(decided))

\* Nothing committed is lost: unless a review waits for the administrators, every mute and every
\* withdrawal reaches the policy, and so does every status change, but for one whose reason is a
\* record that has no policy event (policy_bridge.py:106-153, 327-488).
IntakeSettles == <>[](reviews = {} =>
    /\ \A i \in DOMAIN records : records[i].kind = "mute" =>
        IF records[i].out THEN records[i].closed ELSE records[i].mark = "applied"
    /\ \A j \in DOMAIN jobs : jobs[j].st = "applied"
        \/ (jobs[j].cause # 0 /\ records[jobs[j].cause].kind = "warning"))

\* A withdrawal that clashes with what the administrators decided is kept for their review until they
\* resolve it: "keep the decision, await review" (deduction_policy.py:2989).
ReviewsWait == task = NoTask /\ held # {} => ReplayReview
=============================================================================
