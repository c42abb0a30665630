---------------------------- MODULE MemoryJobs ----------------------------
(* The persistent job queue of the chat memories (plugins/private_memory/    *)
(* jobs.py) and the process that drives it (MemoryJobWorker in the same file, *)
(* started and stopped by plugins/private_memory/lifecycle.py).               *)
(*                                                                            *)
(* One row of the table memory_jobs is one record of `rows`.  A queue method  *)
(* is one SQLite transaction, hence one action, but for claim(): it commits   *)
(* and then reads back each row it took on a connection of its own.  A worker *)
(* is one bot process; its tasks are the coroutines it started for the rows   *)
(* it claimed, each with the snapshot of the row that was read back.  Times   *)
(* are kept as distances from the present: `wait` is next_run_at - now,       *)
(* `lease` is lease_expires_at - now, `age` is now - created_at.              *)
EXTENDS Naturals, FiniteSets

CONSTANTS
    PrivateScopes,      \* conversations of one user with the bot
    GroupScopes,        \* one member in one group
    JobTypes,           \* the job types in play, a subset of AllJobTypes
    Workers,            \* places a bot process can run
    NoOwner,            \* lease_owner IS NULL
    Concurrency,        \* MemoryJobWorker.concurrency
    MaxAttempts,        \* max_attempts
    LeaseTime,          \* lease_seconds
    Backoff,            \* backoff_base_seconds * 2 ** (attempts - 1), by attempts
    Debounce,           \* relationship_debounce_seconds
    MaxWait,            \* relationship_max_wait_seconds
    MemberDelay,        \* member_batch_delay_seconds
    MemberThreshold,    \* member_batch_threshold
    MaxJobs,            \* bound: rows ever inserted
    MaxWatermark,       \* bound: message row ids
    MaxStarts,          \* bound: starts of all the processes together
    MaxBatches          \* bound: claims of a row after which no batch is left

AllJobTypes == {"private_summary", "private_facts", "relationship", "member_facts"}

\* The constructor's checks, and the set of conversations a job can be about.
ASSUME SettingsAssumption ==
    /\ JobTypes \subseteq AllJobTypes
    /\ Concurrency \in Nat \ {0}
    /\ MaxAttempts \in Nat \ {0}
    /\ LeaseTime \in Nat \ {0}
    /\ Backoff \in [1..MaxAttempts -> Nat]
    /\ Debounce \in Nat /\ MaxWait \in Nat /\ Debounce <= MaxWait
    /\ MemberDelay \in Nat
    /\ MemberThreshold \in Nat \ {0}
ASSUME ScopesAssumption == PrivateScopes \cap GroupScopes = {}
ASSUME OwnerAssumption == NoOwner \notin Workers \X Nat
ASSUME BoundsAssumption ==
    MaxJobs \in Nat /\ MaxWatermark \in Nat /\ MaxStarts \in Nat /\ MaxBatches \in Nat

VARIABLES
    rows,       \* the table: row id -> record
    lastId,     \* the AUTOINCREMENT counter
    allowed,    \* what _allowed_job_types() reads from the feature switches
    up,         \* the process is running
    starts,     \* its start number: worker_id is a new uuid at every start
    stopping,   \* the worker was told to stop (_stopping)
    gate,       \* the claim the loop is waiting for: what was read before, rows taken, rows read back
    tasks       \* its live tasks, with the job snapshot each works on

process == <<up, starts, stopping>>
vars == <<rows, lastId, allowed, process, gate, tasks>>

Scopes == PrivateScopes \cup GroupScopes
Terminal == {"succeeded", "failed", "cancelled"}
Status == {"pending", "running"} \cup Terminal
Owners == Workers \X Nat
Ids == 1..lastId

Row == [type : JobTypes, scope : Scopes, through : Nat, count : Nat,
        status : Status, attempts : Nat, claim : Nat,
        owner : Owners \cup {NoOwner}, wait : Nat, lease : Nat, age : Nat]
Task == [id : Nat \ {0}, through : Nat, attempts : Nat, claim : Nat, own : BOOLEAN]
Gate == [types : SUBSET JobTypes, room : 0..Concurrency, claimed : SUBSET Nat, read : SUBSET Task]

\* Row types whose pending rows absorb later messages.
Coalescing == {"private_facts", "relationship", "member_facts"}
\* The scope checks of enqueue(): private types need a private conversation,
\* member_facts a group one.
TypesFor(s) ==
    JobTypes \cap (IF s \in PrivateScopes
                   THEN {"private_summary", "private_facts", "relationship"}
                   ELSE {"relationship", "member_facts"})
\* The feature switches, each with the job types it opens.
Switches == {{"private_summary", "private_facts"}, {"relationship"}, {"member_facts"}}

Before(a, b) == IF a > b THEN a - b ELSE 0          \* the time left until a, b later
Earlier(a, b) == IF a < b THEN a ELSE b
\* Ages are read only up to the larger of the two delays counted from created_at.
OldAge == IF MaxWait > MemberDelay THEN MaxWait ELSE MemberDelay
First(S) == CHOOSE i \in S : \A j \in S : i <= j    \* ORDER BY id LIMIT 1

\* No claim under way.
NoClaim == [types |-> {}, room |-> 0, claimed |-> {}, read |-> {}]
Active(r) == r.status \in {"pending", "running"}
Me(w) == <<w, starts[w]>>

Init ==
    /\ rows = [i \in 1..0 |-> i]
    /\ lastId = 0
    /\ allowed = JobTypes
    /\ up = [w \in Workers |-> FALSE]
    /\ starts = [w \in Workers |-> 0]
    /\ stopping = [w \in Workers |-> FALSE]
    /\ gate = [w \in Workers |-> NoClaim]
    /\ tasks = [w \in Workers |-> {}]

-----------------------------------------------------------------------------
(* enqueue(): a message handler asks for the messages up to `t` to be worked. *)
(* Handlers open a queue object of their own, so stop_intake() on the         *)
(* lifecycle's object does not reach them: the only guard is that a process   *)
(* is there to run the handler.                                               *)

Exact(k, s, t) ==
    {i \in Ids : /\ Active(rows[i])
                 /\ rows[i].type = k /\ rows[i].scope = s /\ rows[i].through = t}
Open(k, s) ==
    {i \in Ids : /\ k \in Coalescing
                 /\ rows[i].status = "pending" /\ rows[i].attempts = 0
                 /\ rows[i].type = k /\ rows[i].scope = s}

\* When a pending row that takes one more message runs: facts at once,
\* relationships after a pause in the conversation but within MaxWait of the
\* first message, member batches when full or MemberDelay after the first one.
CoalescedWait(r, n) ==
    CASE r.type = "relationship" -> Earlier(Debounce, Before(MaxWait, r.age))
      [] r.type = "member_facts" ->
            IF n >= MemberThreshold THEN 0 ELSE Before(MemberDelay, r.age)
      [] OTHER -> 0
FirstWait(k) ==
    CASE k = "relationship" -> Debounce
      [] k = "member_facts" -> MemberDelay
      [] OTHER -> 0

Absorbing(r, t) ==
    [r EXCEPT !.through = t, !.count = @ + 1, !.wait = CoalescedWait(r, r.count + 1)]

Coalesce(k, s, t) ==
    /\ Exact(k, s, t) = {}
    /\ Open(k, s) # {}
    /\ LET i == First(Open(k, s)) IN
        /\ t > rows[i].through
        /\ rows' = [rows EXCEPT ![i] = Absorbing(@, t)]
    /\ UNCHANGED lastId

Insert(k, s, t) ==
    /\ Exact(k, s, t) = {}
    /\ Open(k, s) = {}
    /\ lastId < MaxJobs
    /\ lastId' = lastId + 1
    /\ rows' = [i \in 1..(lastId + 1) |->
                    IF i \in Ids THEN rows[i]
                    ELSE [type |-> k, scope |-> s, through |-> t, count |-> 1,
                          status |-> "pending", attempts |-> 0, claim |-> 0,
                          owner |-> NoOwner, wait |-> FirstWait(k), lease |-> 0,
                          age |-> 0]]

\* The two paths that change no row (the watermark is already queued, or an
\* open row already reaches it) are stuttering steps.
Enqueue(k, s, t) ==
    /\ \E w \in Workers : up[w]
    /\ k \in TypesFor(s)
    /\ Coalesce(k, s, t) \/ Insert(k, s, t)
    /\ UNCHANGED <<allowed, process, gate, tasks>>

-----------------------------------------------------------------------------
(* One turn of the worker's loop: it looks at the stop flag, the switches and *)
(* its free slots, then waits for claim() in a thread.                        *)

Capacity(w) == Before(Concurrency, Cardinality(tasks[w]))

OpenGate(w) ==
    /\ up[w] /\ ~ stopping[w]
    /\ gate[w] = NoClaim
    /\ allowed # {} /\ Capacity(w) > 0
    /\ gate' = [gate EXCEPT ![w] = [NoClaim EXCEPT !.types = allowed, !.room = Capacity(w)]]
    /\ UNCHANGED <<rows, lastId, allowed, process, tasks>>

Busy(s) == \E i \in Ids : rows[i].status = "running" /\ rows[i].scope = s
\* Variant: the attempt about to be made is counted twice.
ClaimableOnce(w, i) ==
    /\ rows[i].status = "pending"
    /\ rows[i].attempts + 1 < MaxAttempts
    /\ rows[i].type \in gate[w].types
Claimable(w, i) ==
    /\ rows[i].status = "pending"
    /\ rows[i].attempts < MaxAttempts
    /\ rows[i].type \in gate[w].types
\* Only the oldest claimable row of a conversation is looked at; when it has to
\* wait, so do the younger ones.
Heads(w) ==
    {i \in Ids : /\ Claimable(w, i)
                 /\ \A j \in Ids : Claimable(w, j) /\ rows[j].scope = rows[i].scope => i <= j}
Runnable(w) == {i \in Heads(w) : ~ Busy(rows[i].scope) /\ rows[i].wait = 0}
Taken(w) == {i \in Runnable(w) : Cardinality({j \in Runnable(w) : j < i}) < gate[w].room}

\* Variant: the claim version stays.
ClaimedUnversioned(w, r) ==
    [r EXCEPT !.status = "running", !.attempts = @ + 1, !.owner = Me(w), !.lease = LeaseTime]
Claimed(w, r) ==
    [r EXCEPT !.status = "running", !.attempts = @ + 1, !.claim = @ + 1,
              !.owner = Me(w), !.lease = LeaseTime]
\* The job as the worker holds it; own: the row read back was running for this process.
Snapshot(w, i) ==
    [id |-> i, through |-> rows[i].through, attempts |-> rows[i].attempts, claim |-> rows[i].claim,
     own |-> rows[i].status = "running" /\ rows[i].owner = Me(w)]

\* claim() takes its rows and commits.
Claim(w) ==
    /\ up[w]
    /\ gate[w].room > 0
    /\ gate' = [gate EXCEPT ![w] = [NoClaim EXCEPT !.claimed = Taken(w)]]
    /\ rows' = [i \in Ids |-> IF i \in Taken(w) THEN Claimed(w, rows[i]) ELSE rows[i]]
    /\ UNCHANGED <<lastId, allowed, process, tasks>>

\* get(), row by row: each as it is by now, another process may have taken it over.  With the last
\* one claim() returns and the loop starts a task per row; a stop that came in the meantime is
\* seen only afterwards.
ReadBack(w) ==
    /\ up[w]
    /\ gate[w].claimed # {}
    /\ LET i == First(gate[w].claimed)
           read == gate[w].read \cup {Snapshot(w, i)}
           left == gate[w].claimed \ {i}
       IN IF left = {}
          THEN /\ tasks' = [tasks EXCEPT ![w] = @ \cup read]
               /\ gate' = [gate EXCEPT ![w] = NoClaim]
          ELSE /\ gate' = [gate EXCEPT ![w] = [NoClaim EXCEPT !.claimed = left, !.read = read]]
               /\ UNCHANGED tasks
    /\ UNCHANGED <<rows, lastId, allowed, process>>

\* A get() raises; the loop only logs the exception.  What was committed stays: rows that run for
\* this process, with no task and no heartbeat.  (An error before the commit changes nothing, and
\* the loop asks again.)
ClaimError(w) ==
    /\ up[w]
    /\ gate[w].claimed # {}
    /\ gate' = [gate EXCEPT ![w] = NoClaim]
    /\ UNCHANGED <<rows, lastId, allowed, process, tasks>>

-----------------------------------------------------------------------------
(* The end of a task.  Every update carries the condition                     *)
(*   status='running' AND lease_owner=? AND claim_version=?                   *)
(* so a task that lost its row changes nothing and simply ends.               *)

Owned(w, t) ==
    /\ rows[t.id].status = "running"
    /\ rows[t.id].owner = Me(w)
    /\ rows[t.id].claim = t.claim

Freed(r, status, wait) ==
    [r EXCEPT !.status = status, !.wait = wait, !.owner = NoOwner, !.lease = 0]

EndTask(w, t, outcome) ==
    /\ up[w] /\ t \in tasks[w]
    /\ tasks' = [tasks EXCEPT ![w] = @ \ {t}]
    /\ rows' = IF Owned(w, t) THEN [rows EXCEPT ![t.id] = outcome] ELSE rows
    /\ UNCHANGED <<lastId, allowed, process, gate>>

Succeed(w, t) == EndTask(w, t, Freed(rows[t.id], "succeeded", 0))

Fail(w, t, retryable) ==
    EndTask(w, t, IF retryable /\ t.attempts < MaxAttempts
                  THEN Freed(rows[t.id], "pending", Backoff[t.attempts])
                  ELSE Freed(rows[t.id], "failed", 0))

\* The processor declined to write (a switch was off, the version had moved).
Defer(w, t) ==
    EndTask(w, t, IF t.attempts >= MaxAttempts
                  THEN Freed(rows[t.id], "failed", 0)
                  ELSE Freed(rows[t.id], "pending", Backoff[t.attempts]))

\* One batch of several was committed: back to the queue, the attempt returned.
\* A batch takes a message at least, and a relationship is one batch.
Continue(w, t) ==
    /\ t.through > 1 /\ rows[t.id].type # "relationship"
    /\ t.claim < MaxBatches
    /\ EndTask(w, t, [Freed(rows[t.id], "pending", 0)
                        EXCEPT !.attempts = Before(rows[t.id].attempts, 1)])

\* The update that should end the task raises; the exception is only logged,
\* the task ends and its heartbeat is cancelled.
FinalizeError(w, t) == EndTask(w, t, rows[t.id])

\* The heartbeat of a live task.
Renew(w, t) ==
    /\ up[w] /\ t \in tasks[w]
    /\ Owned(w, t)
    /\ rows' = [rows EXCEPT ![t.id].lease = LeaseTime]
    /\ UNCHANGED <<lastId, allowed, process, gate, tasks>>

-----------------------------------------------------------------------------
(* The process: startup, shutdown with a bounded drain, crash.                *)

\* recover_expired_leases(), which only the startup hook calls.
Recovered(r) ==
    IF r.status = "running" /\ r.lease = 0
    THEN Freed(r, IF r.attempts >= MaxAttempts THEN "failed" ELSE "pending", 0)
    ELSE r

\* Starts so far, of every process.
Started == Cardinality({n \in Workers \X (1..MaxStarts) : n[2] <= starts[n[1]]})

Start(w) ==
    /\ ~ up[w]
    /\ Started < MaxStarts
    /\ starts' = [starts EXCEPT ![w] = @ + 1]
    /\ up' = [up EXCEPT ![w] = TRUE]
    /\ stopping' = [stopping EXCEPT ![w] = FALSE]
    /\ rows' = [i \in Ids |-> Recovered(rows[i])]
    /\ UNCHANGED <<lastId, allowed, gate, tasks>>

Stop(w) ==
    /\ up[w] /\ ~ stopping[w]
    /\ Started < MaxStarts          \* the last start is not stopped
    /\ stopping' = [stopping EXCEPT ![w] = TRUE]
    /\ UNCHANGED <<rows, lastId, allowed, up, starts, gate, tasks>>

\* The loop saw the stop and no task is left.
Exit(w) ==
    /\ up[w] /\ stopping[w] /\ tasks[w] = {} /\ gate[w] = NoClaim
    /\ up' = [up EXCEPT ![w] = FALSE]
    /\ UNCHANGED <<rows, lastId, allowed, starts, stopping, gate, tasks>>

\* Variant: the cancelled worker keeps its rows.
ReleasedNever(w, r) == r
\* The drain timed out, on its tasks or on a claim: the tasks are cancelled, then
\* release_owned().  A claim still under way is waited for first (Claim and ReadBack,
\* then Cancel); its error replaces the cancellation (ClaimError, then Exit).
Released(w, r) ==
    IF r.status = "running" /\ r.owner = Me(w) THEN Freed(r, "pending", 0) ELSE r

Cancel(w) ==
    /\ up[w] /\ stopping[w] /\ gate[w] = NoClaim
    /\ up' = [up EXCEPT ![w] = FALSE]
    /\ rows' = [i \in Ids |-> Released(w, rows[i])]
    /\ tasks' = [tasks EXCEPT ![w] = {}]
    /\ UNCHANGED <<lastId, allowed, starts, stopping, gate>>

\* The process dies (or release_owned() raises during the cancellation): the
\* rows stay as they are.  The service manager starts it again.
Crash(w) ==
    /\ up[w] /\ Started < MaxStarts
    /\ up' = [up EXCEPT ![w] = FALSE]
    /\ tasks' = [tasks EXCEPT ![w] = {}]
    /\ gate' = [gate EXCEPT ![w] = NoClaim]
    /\ UNCHANGED <<rows, lastId, allowed, starts, stopping>>

-----------------------------------------------------------------------------
(* The rest of the bot, and time.                                             *)

\* Clearing a user's private layers cancels the summary jobs, running ones too.
Clear(s) ==
    /\ \E i \in Ids : rows[i].scope = s /\ rows[i].type = "private_summary" /\ Active(rows[i])
    /\ rows' = [i \in Ids |->
                  IF rows[i].scope = s /\ rows[i].type = "private_summary" /\ Active(rows[i])
                  THEN [rows[i] EXCEPT !.status = "cancelled", !.owner = NoOwner, !.lease = 0]
                  ELSE rows[i]]
    /\ UNCHANGED <<lastId, allowed, process, gate, tasks>>

Toggle(switch) ==
    /\ switch \cap JobTypes # {}
    /\ allowed' = IF switch \cap allowed = {} THEN allowed \cup (switch \cap JobTypes)
                                               ELSE allowed \ switch
    /\ UNCHANGED <<rows, lastId, process, gate, tasks>>

Tick ==
    /\ UNCHANGED <<lastId, allowed, process, gate, tasks>>
    /\ rows' = [i \in Ids |-> [rows[i] EXCEPT !.wait = Before(@, 1), !.lease = Before(@, 1),
                                              !.age = Earlier(@ + 1, OldAge)]]

Finish(w, t) ==
    \/ Succeed(w, t)
    \/ \E retryable \in BOOLEAN : Fail(w, t, retryable)
    \/ Defer(w, t)
    \/ Continue(w, t)

Poll(w) == OpenGate(w) \/ Claim(w) \/ ReadBack(w)
Work == \E w \in Workers :
    \/ Poll(w)
    \/ \E t \in tasks[w] : Finish(w, t) \/ Renew(w, t)
Produce == \E s \in Scopes, k \in JobTypes, t \in 1..MaxWatermark : Enqueue(k, s, t)
Environment ==
    \/ Tick
    \/ \E s \in PrivateScopes : Clear(s)
    \/ \E switch \in Switches : Toggle(switch)
Lifecycle == \E w \in Workers : Start(w) \/ Stop(w) \/ Exit(w) \/ Cancel(w)
Faults == \E w \in Workers : Crash(w) \/ ClaimError(w) \/ \E t \in tasks[w] : FinalizeError(w, t)

Next == Work \/ Produce \/ Environment \/ Lifecycle \/ Faults

Spec == Init /\ [][Next]_vars

-----------------------------------------------------------------------------
(* Fairness.  The clock runs, the worker's loop polls every poll_interval and *)
(* claims what it can, every task ends (the model calls have timeouts), the   *)
(* shutdown drain is bounded and the service manager restarts the process.    *)
(* Nothing obliges a message to arrive, a switch to change, an administrator  *)
(* to clear, a process to stop or crash; nothing forbids any of it either.    *)
Fairness ==
    /\ WF_vars(Tick)
    /\ \A w \in Workers :
        /\ WF_vars(Poll(w))
        /\ WF_vars(Start(w) \/ Exit(w) \/ Cancel(w))
        /\ \A i \in 1..MaxJobs : WF_vars(\E t \in tasks[w] : t.id = i /\ Finish(w, t))

FairSpec == Spec /\ Fairness
-----------------------------------------------------------------------------
(* Invariants.                                                                *)

\* Types of the variables.
TypeOK ==
    /\ lastId \in Nat
    /\ rows \in [Ids -> Row]
    /\ allowed \subseteq JobTypes
    /\ up \in [Workers -> BOOLEAN]
    /\ starts \in [Workers -> Nat]
    /\ stopping \in [Workers -> BOOLEAN]
    /\ gate \in [Workers -> Gate]
    /\ tasks \in [Workers -> SUBSET Task]

\* Two jobs of one conversation are never `running` together, whichever
\* processes claimed them: the claim reads the running keys and one head per
\* key inside its transaction.
OneRunnerPerScope ==
    \A i, j \in Ids :
        rows[i].status = "running" /\ rows[j].status = "running" /\ rows[i].scope = rows[j].scope
            => i = j

\* The queue holds a watermark of a conversation and type at most once (the
\* unique index idx_memory_jobs_active_unique would refuse a second one, and
\* with it the message handler's transaction).
UniqueActive ==
    \A i, j \in Ids :
        i # j /\ Active(rows[i]) /\ Active(rows[j]) =>
            \/ rows[i].type # rows[j].type
            \/ rows[i].scope # rows[j].scope
            \/ rows[i].through # rows[j].through

\* No row is ever tried more than MaxAttempts times, whatever mixture of
\* failures, lapsed leases, releases and continued batches it lived through.
AttemptsBounded ==
    \A i \in Ids : /\ rows[i].attempts <= MaxAttempts
                   /\ rows[i].status = "running" => rows[i].attempts > 0

\* A task that still owns its row works on the row as it is: later messages
\* never move the watermark under a running task, so ending the task does not
\* mark messages as done that its processor never saw.
SnapshotFresh ==
    \A w \in Workers : \A t \in tasks[w] :
        /\ t.id \in Ids
        /\ Owned(w, t) => /\ rows[t.id].through = t.through
                          /\ rows[t.id].attempts = t.attempts

\* A claim is worked by one task: a process never holds the same claim of a row
\* twice, and of two processes that hold it one read the row back too late, when
\* the row was no longer its own.
OneTaskPerClaim ==
    \A v, w \in Workers : \A t \in tasks[v], u \in tasks[w] :
        t.id = u.id /\ t.claim = u.claim /\ (v = w \/ (t.own /\ u.own)) => v = w /\ t = u

\* The pause a conversation is given before a relationship job, and the one a
\* member batch is given to fill, end within the maximum counted from the
\* first message, however many messages keep arriving.
DelayBounded ==
    \A i \in Ids :
        rows[i].status = "pending" /\ rows[i].attempts = 0 =>
            /\ rows[i].type = "relationship" => rows[i].wait <= Before(MaxWait, rows[i].age)
            /\ rows[i].type = "member_facts" => rows[i].wait <= Before(MemberDelay, rows[i].age)

\* What the queue guarantees in every state: rows and tasks as the code declares
\* them, one runner per conversation, no watermark queued twice, bounded attempts,
\* one task per claim, and none that works on a row that moved under it.
QueueIsSafe ==
    /\ TypeOK
    /\ OneRunnerPerScope
    /\ OneTaskPerClaim
    /\ UniqueActive
    /\ AttemptsBounded
    /\ SnapshotFresh

\* A running row has the task of a live process behind it, or a claim under way
\* that will start one.
Attended(i) ==
    /\ rows[i].status = "running"
    /\ \E w \in Workers :
        /\ up[w] /\ rows[i].owner = Me(w)
        /\ \/ i \in gate[w].claimed
           \/ \E t \in tasks[w] \cup gate[w].read : t.id = i /\ t.claim = rows[i].claim
Orphaned(i) == rows[i].status = "running" /\ ~ Attended(i)

(* Action properties.                                                         *)

\* A finished, failed or cancelled row never changes again: the late end of a
\* task whose row was cancelled or taken over is discarded.
TerminalIsFinal ==
    [][\A i \in Ids : rows[i].status \in Terminal =>
            rows'[i].status = rows[i].status /\ rows'[i].through = rows[i].through]_vars

\* A row whose lease is alive is ended or given back only by the task that holds
\* its present claim, by its own process on the way down, or by a clear.
LeaseRespected ==
    [][\A i \in Ids :
        rows[i].status = "running" /\ rows'[i].status # "running" /\ rows[i].lease > 0 =>
            \/ rows'[i].status = "cancelled"
            \/ \E w \in Workers :
                /\ rows[i].owner = Me(w)
                /\ \/ ~ up'[w]
                   \/ \E t \in tasks[w] \ tasks'[w] : t.id = i /\ t.claim = rows[i].claim]_vars

\* Jobs of a conversation are claimed oldest first: a job that waits for its
\* backoff is not overtaken by a younger one.
ClaimedInOrder ==
    [][\A i \in Ids :
        rows[i].status = "pending" /\ rows'[i].status = "running" =>
            \E w \in Workers :
                /\ gate[w] # gate'[w]
                /\ rows'[i].owner = Me(w)
                /\ \A j \in Ids :
                    j < i /\ rows[j].scope = rows[i].scope => ~ Claimable(w, j)]_vars

\* Only a fault orphans a running row: a crash, a last update that raises, or a
\* claim whose rows were committed and could not be read back (jobs.py:322-326,
\* 627-632).  Claims, stops, drains that time out, restarts and clears all leave a
\* task of a live process behind every row that is still running.
OrphansNeedFaults ==
    [][(\E i \in Ids : ~ Orphaned(i) /\ Orphaned(i)') => Faults]_vars

\* How rows may move: ended rows rest, leases and the order of a conversation
\* are respected, and no ordinary step leaves a running row to nobody.
RowsMoveRightly ==
    /\ TerminalIsFinal
    /\ LeaseRespected
    /\ ClaimedInOrder
    /\ OrphansNeedFaults

(* Liveness.                                                                  *)

\* Attempts spent, still pending: no claim ever takes such a row again.
Stranded(i) == rows[i].status = "pending" /\ rows[i].attempts >= MaxAttempts
Settled(i) ==
    \/ rows[i].status \in Terminal
    \/ Stranded(i)
    \/ \E j \in Ids : rows[j].scope = rows[i].scope /\ Orphaned(j)
SwitchesStayOn == <>[](allowed = JobTypes)

\* Once the switches stay on, every job comes to its end, whatever faults,
\* restarts and backoffs it met, save the two cases the code leaves over: a
\* shutdown gave the row back after its last attempt, or a fault orphaned a row
\* of its conversation.  A spent row holds up no other job.
JobsSettle == SwitchesStayOn => <>[](\A i \in Ids : Settled(i))
=============================================================================
