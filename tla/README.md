# Verification of qq-violation-bot

TLA+ models of the QQ bot of this repository, TLC configurations that check them on
small instances, and TLAPS proofs of what matters most for every size. Paths below are
relative to the root of the repository.

## The system

The bot is one NoneBot process (`bot.py`, `plugins/*`) per instance, started by
systemd (`deploy/systemd/qqbot@.service`: `Restart=on-failure`, `RestartSec=5s`), talking to
the chat platform over one websocket and keeping its state in SQLite files. Handlers are
coroutines of one event loop; database work runs in threads, one short transaction at a
time. What is hard is therefore less parallelism inside a transaction than *what happens
between two of them*: an await, a restart, an administrator's message, a clock that passed
a due time, a second process that was started while the first still drains.

| Component | State | Operations | Hard behaviour | What makes it correct |
|---|---|---|---|---|
| memory job queue and worker (`plugins/private_memory/jobs.py`, `lifecycle.py`) | table `memory_jobs`; tasks, stop flag and claim under way of each process | enqueue (deduplicate, coalesce), claim, finish, defer, continue, renew, recover, release; start, stop, drain, cancel | leases that lapse under a live task, crash and early restart, clears under a running job, messages during the shutdown, switches that change during a claim | one job per conversation at a time, in order; a result is accepted only from the holder of the present claim; nothing is lost, nothing tried too often |
| deduction policy (`plugins/violation_record/deduction_policy.py`, `policy_schema.py`) | the member's counts, status, tag and cycle; the open questions; the evaluation of every mute | mutes, status changes, settlement of due cycles, start/clear/renew a stop, reject a suggestion; warnings, withdrawals, late records and their replay | settlement that catches up over several cycles, inputs at the very instant a cycle is due, late decisions, long histories of legal inputs | reductions only where earned and within the limits; every mute judged once in the right period; a member who waits waits for an open question |
| policy bridge (`policy_bridge.py`) | status jobs, reminder times | apply a status job, compensate unprocessed records, maintenance, enqueue reminders | a crash between a record and its event, retries out of order | what was committed reaches the policy; the member's row follows the commands |
| policy outbox (`scheduler.py`, the queueing in `policy_bridge.py`) | `v102_notification_outbox` rows with leases, the history of their attempts | queue announcements and hourly reminders, claim, validity check, send alone or in forwarded chunks, acknowledge, give back, defer, cancel | lost answers, crashes, lapsed leases, a question decided or a history replayed while its reminder is sent | no call begins with an untrue notice, nothing undelivered is marked as sent, every row ends as sent or cancelled |
| policy commands (`policy_commands.py`) | operations awaiting confirmation | preview, confirm, apply | confirmation of a stale preview, several administrators | no decision is taken on evidence that was withdrawn |
| records and status (`service.py`, `db.py`) | violations, member status, pending operations | insert, withdraw, set status, consult | several transactions for one command | withdrawn evidence stays out, whatever is replayed |
| record intake (`matcher.py`, `ai_router.py`, `validators.py`, ...) | none beyond one message | parse, route, format, export | – | – |
| evidence (`evidence_capture.py`, `evidence_store.py`) | captured pictures, batches, binding queue | capture, bind, retry | a record without its evidence | every batch is bound once |
| private memory (`private_memory/store.py`, `processor.py`, `relationship.py`) | messages, summaries, relationship versions, watermarks | compare-and-set writes, clear | a processor that works on cleared data | no cleared text returns; watermarks never pass unread messages |
| member memory (`member_memory/*`) | group messages, facts, versions, batches | batch, extract, merge, delete | a timer against a threshold | each message is worked once |
| memory governance (`memory_governance/*`) | freezes, deletions, retention | clear, freeze, delete over all stores | one store of several fails | nothing survives a deletion |
| content alert (`content_alert/*`) | rules, permits, outbox with leases and attempts | scan, admit, enqueue, deliver, decide | overload, threads that outlive a cancellation, a gate that closes, an unknown outcome of a send | no permit leaks, nothing protected is shown, no silent miss, no blind resend |
| managed catalog (`content_alert/catalog.py`, `scripts/import_content_alert_catalog.py`) | generations, pointer, backups, the bot's snapshot | import, publish, roll back; load, adopt, retry | a crash between two files, a damaged generation, reading while it changes | the pointer is sound, a rollback is exact or refused, the bot catches up |
| departure monitor (`hive_member_monitor/*`) | snapshots, departures, leases | snapshot, mark left, claim, deliver | a member who returns | one notice for each departure |
| random and private chat (`random_chat/*`, `private_chat/*`) | admission counters, conversation locks, delivery ledger | admit, answer in parts, cancel, time out | a turn cancelled in the middle of a part | no part sent twice, no slot lost |
| chat vision (`chat_vision/*`) | picture assets, claims | claim, retry, recover | interrupted claims | attempts are counted once |
| language model gateway (`llm_gateway/*`) | admission counters, active calls | complete, retry, close | closing under active calls | every slot is released, the total time is bounded |
| feature control (`feature_control/*`) | switches and their backup file | change, persist, load | a half-written file | the last acknowledged change survives |
| archive, prompts, search, routing | append-only or none | – | – | – |
| scripts (`scripts/*`) | the database schema and the deployed tree | migrate, deploy, back up, watch | failure between two steps | all or nothing |

Interactions: message handlers call the stores directly and *enqueue* jobs with a queue
object of their own; the lifecycle's worker *claims* them and calls the processors, which
call the language model gateway and write back under a version check. The violation service
*writes* a record or a status and calls the policy through the bridge in the same transaction
(records) or through a queued job (status); the scheduler calls the bridge's maintenance once
a minute, which settles cycles, opens questions and fills the outbox that the scheduler then
sends. Feature switches gate the claims and every delivery.

`PROJECT.json` lists the components with what is modelled of each, the hazards with the line
where each bites, and the definitions with the lines they stand for.

## Modules

| Module | Models | Instances and proofs |
|---|---|---|
| `MemoryJobs` | job queue, workers, lifecycle, crash and restart | `MCMemoryJobs`, `MemoryJobs_proofs` |
| `ScopeMemory` | what the jobs do: messages, facts, summaries, relationships, governance, mirror file | `MCScopeMemory`, `ScopeMemory_proofs` |
| `DeductionPolicy` | one member's life under the policy | `MCDeductionPolicy`, `DeductionPolicy_proofs` |
| `PolicyIntake` | how records, withdrawals, status changes and decisions reach the policy | `MCPolicyIntake`, `CallsAndCommands_proofs` |
| `Reminders` | what the policy's outbox promises the group (abstract) | - |
| `PolicyOutbox` | that outbox and its maintenance loop; implements `Reminders` (`INSTANCE`) | `MCPolicyOutbox`, `Outboxes_proofs` |
| `AlertScans` | content alert up to the hit: admission, rules, matching, disclosure | `MCAlertScans`, `Alerts_proofs` |
| `AlertDelivery` | content alert from the hit on: ledger, delivery, operator | `MCAlertDelivery`, `Alerts_proofs` |
| `ManagedCatalog` | the importer, the published generations and the bot that reads them | `MCManagedCatalog`, `ManagedCatalog_proofs` |
| `Departures` | the departure monitor: snapshots, events, notices | `MCDepartures`, `Outboxes_proofs` |
| `ChatTurns` | a chat turn from its admission to the delivery of its parts | `MCChatTurns`, `ChatTurns_proofs` |
| `GatewayCalls` | calls to the language models, from admission to shutdown | `MCGatewayCalls`, `CallsAndCommands_proofs` |

Three proof modules hold the proofs of two components each, one after the other. The two have nothing in common but the
module, which is why the names of one of them differ (`MonitorSpec`, `IntakeSpec`, `ScanSpec` where the others have `Spec`).

### MemoryJobs

`rows` is the table, one record per row; a method of `MemoryJobQueue` is one SQLite
transaction and one action: `Enqueue` (with the paths `Coalesce` and `Insert`),
`Succeed`, `Fail`, `Defer`, `Continue`, `Renew`, `Recovered` (part of `Start`), `Released`
(part of `Cancel`), and `Clear` for the governance clear. The exception is `claim()`, which commits and then
reads each row back on a connection of its own (`jobs.py:322-326`): `Claim` is the commit, `ReadBack` one
of these reads, and `ClaimError` a read that raises, after which the rows run for a process that has no task for
them (`jobs.py:627-632` only logs it). A worker place is a bot process with
a start number, because `worker_id` is a new uuid at every start. `tasks[w]` are its coroutines
with the snapshot that was read back, `gate[w]` what the loop read before its claim, the rows committed and those read
back so far. A snapshot stays as it was when the row moves on; `own` says whether the row still was the process's own
when it was read (its lease may have lapsed between commit and read, under a process that stalls).

* The loop reads the stop flag, the switches and its free slots (`OpenGate`) and then waits for
  `claim()` in a thread (`Claim`, `ReadBack`): what it read may be stale when the claim commits.
* Times are distances from the present, so that the clock needs no bound: `wait` to
  `next_run_at`, `lease` to `lease_expires_at`, `age` since `created_at`, cut off at the larger of
  the two delays since nothing reads it beyond.
* A message is its watermark; what a processor does is reduced to its verdict.
* Two places (`Workers`) stand for the old process that still drains (or whose host stalled)
  and the new one; `Crash` is a death at any instant, `FinalizeError` a database error in
  the last update of a task, which the worker only logs.
* Bounds: `MaxJobs` rows, `MaxWatermark` messages, `MaxStarts` starts of all the places together,
  `MaxBatches` claims of a row after which no batch is left to continue with (a batch takes a message at least, and a
  relationship is one batch). The last start is
  neither stopped nor crashed, so that liveness speaks of a bot that runs.

`JobsSettle` is stated under faults and names what the code leaves over: a row that was given back
after its last attempt (`Stranded`), and the rows of a conversation in which a fault orphaned a row;
`OrphansNeedFaults` says that nothing else orphans one: the faults are a crash, a failed last update of a task
(`FinalizeError`) and a failed read of what a claim took (`ClaimError`). `OneTaskPerClaim` says of one process that it never
has two tasks for a claim; of two processes it says so of those that read the row back in time.

### DeductionPolicy

One member in one group area. `scope` is the row of `v102_policy_state` with its open cycle and
the set of open questions, `mutes` the records with the evaluation their events carry
(`evaluation_owner_cycle_id`, `evaluation_pending_after_cycle_id`), `op` the transaction under way.

* The helpers of the code (`_start_cycle`, `_enter_slow`, `_apply_reduction`, ...) are
  functions from projection to projection with their early returns; the actions compose them in
  the order of the code.
* A transaction is `BeginMute` / `BeginStatus` / `BeginMaintenance`, one `Settle` step per turn of
  the loop of `settle_due_cycles()`, and an `Apply` step. Nothing runs in between (the
  transaction holds the database), but the loop itself becomes visible, so that its
  termination and each of its turns can be judged. The administrators' commands do not settle
  first and are single steps.
* A change of status is two transactions in the code, the member's row (`service.py:862-875`) and then the policy's
  (`policy_bridge.py:393-471`). `BeginStatus` is the second with the row as the first left it, and nothing runs between the
  two here; what may run, crash or be retried in that gap is in `PolicyIntake`.
* Inputs settle what was due *before* their instant (`effective_at - 1 second`); maintenance also
  what is due *at* it. `Overdue` keeps the difference.
* Inputs take effect in order. Late inputs and their replay, withdrawals and policy reviews are
  in `PolicyIntake`, where the cycles are abstracted.
* The initial states are a member whom the migration gave a cycle and one the policy has not
  met yet, with any count of `Baselines`.
* A unit of time is a week in the runs: normal cycle 2, slow level +1, extension +1. The 30 days of a
  stop become 2 and the 90 days of a final warning 3, which still spans inputs before, at
  and after each endpoint. `Horizon` stops the clock, so those runs may end
  (`CHECK_DEADLOCK FALSE`). `MaxMutes` and `MaxCycles` bound the inputs only.
* `MCDeductionPolicy` adds a history variable, `refused`: once a suggestion was rejected, the judgement starts
  anew inside a period, and reductions cannot be read off the records any more.

### Reminders and PolicyOutbox

`Reminders` is the queue as the group sees it: a notice is posted, waits, is taken up, goes out in a
call, and ends as sent (only if it reached the group) or cancelled (only if it has become untrue); a
call begins with true notices only and with the switch on. `PolicyOutbox` implements it: a row that is
pending or failed waits, one that is being sent is taken, and a notice is true while `Valid` holds.

`row` is the outbox, keyed by the announced event or by question and number of the reminder, together with
the present attempt of the row; `event`, `action` and `checkpoint` are what its validity depends on. `at`, `todo`,
`chunk`, `rest` and `batch` are the local state of `maintenance_tick()`: where it is, the rows it has
claimed and not yet looked at, those of the chunk (or the single row) under way, those whose text is still
to be sent, and those in the call.

* A tick is `Maintain` (queueing), then `Defer` or `ClaimMissed`, one `StartChunk` for each chunk with its
  `Forward`s, each of which may be called off (`Abandon`), return or fail, `AcknowledgeChunk`, then `ClaimPending`
  and `CancelSingle`, `HoldSingle` or `SendSingle` with `AcknowledgeSingle` for each row, and `EndTick`. Each
  action is what runs between two awaits or inside one transaction.
* Events, decisions, replays and switches act only where the loop sleeps or awaits the platform, since
  the loop and the handlers share one thread; `Interrupt` (crash, shutdown, database error) may strike at every
  transaction, and loses what the tick held in memory.
* A failed call may have reached the group (`Arrived`). `healthy` says that a bot is connected and nothing
  fails; it comes and goes.
* A tick reads the clock once, so time passes between ticks only (`Clock`). One unit is a period of the loop
  (60 s). Times are distances from the present, as in `MemoryJobs`.
* A text longer than one forward is counted with the forward that ends it. Which rows share a chunk depends on the
  lengths of their texts: any subset up to `ChunkItems`. The claims take any rows up to their limit where the code
  takes the oldest, and a chunk may be taken in any order.
* The question that asks for a review is not among `Actions`; reviews are resolved at any time. A question is asked by
  an event of its own, and several of them meet in one event through a replay only.
* Left out: the rows of a baseline migration, which are cancelled before they are sent, and the notices of the
  former rules and the weekly report, which are kept in another table.
* Bounds: `MaxReminders` of a question, `MaxReplays` of the history.

### ScopeMemory

What the jobs of `MemoryJobs` do to one conversation, a private chat or a member of a group (`scope`), with the
administrator's commands and the purge of old messages. `live` are the stored messages, `facts` the facts in the
order of their ids, `summary` and `relation` what was drawn from them with version and watermark, `mirror` the file
that shows a member's profile, `work[w]` what a worker holds between two awaits. `writing` are those about to
replace the file, `drawn` the profile each of them has read.

* Each processor is split where the code awaits: a read, the call to the model, the compare-and-set write. The
  texts are reduced to what they rest on: a set of facts or of messages.
* A job whose first read says no is dropped at once; jobs of one kind coalesce; the queue's own rules are in
  `MemoryJobs`. An active fact's id stands for its version, message kinds are not told apart.
* After a deletion by an administrator nothing enqueues a job: the summary is made anew with the next message only.
* A purge may take the earlier messages of a batch that a relationship job is about to read.
* The lock of the mirror file belongs to a process (`_MIRROR_LOCKS`, `member_memory/store.py:73`). `Process` says which process
  each writer runs in, `Free` looks at the writers of the same one, and a crash takes one process with all
  its writers. In the run one worker has a process of its own, as when the old process still drains. Two processes may
  then write in the other order than they read; `overtaken` are those whose profile another process has read, or given
  up, since they read it, and `MirrorIsCurrent` promises nothing of the file while the last write was one of theirs.
* Bounds: two messages, one administrator with one operation, one upset (a lapse, a failure, a crash), two facts for a
  summary (one if it was invalidated).
  `Cases` has the scopes and kinds of jobs one at a time, since they write to different tables; facts and summary of a
  private chat were also checked together once.

### PolicyIntake

One member, administrators who preview and confirm, and the policy that learns of it. `records` and `jobs` are the
records and the status changes with what became of them; `reviews`, `held`, `ask`, `decided` are what the policy has
asked, what it holds for review and what was decided on which evidence; `task` is a command or a pass of maintenance
between two of its transactions.

* `Preview` and `Confirm` are the two messages of the dialogue; what `Confirm` finds may have changed.
  A command that takes several transactions leaves a `task` that a crash (`Upset`) may lose; `Maintain` makes up for it.
* `Replay` stands for the replay of the member's history: which events take effect, whether it clashes with a decision
  (left open), what is asked. The cycles are `DeductionPolicy`'s.
* A change of status at the same second as another is ordered by the id of its event; the compensation of
  one record is atomic; one decision at a time.
* `Covered` names the evidence that a resolved review has settled: a suggestion that rests on it is no longer
  withdrawn with its record (`deduction_policy.py:807`, `:2965`), and `DecisionIsCurrent` exempts it. `WithdrawalStands`
  exempts a withdrawal that clashes with what the administrators decided (`held`), since it is put before them.
* A withdrawal is committed (`out`) before the policy processes it (`closed`): `service.py:1032-1046`. If a crash or an error
  comes in between, the suggestion stays open until the compensation, and a stop can be decided on a record that is
  already withdrawn. `DecisionIsCurrent` says that this is the only way to such a decision, and that the withdrawal, once it
  is processed, is held for the administrators' review of that decision.
* The initial states have a member with a mute, and with or without a suggestion that rests on it.
* Not in it: maintenance with the policy switched off, exports, queries, evidence.

### AlertScans and AlertDelivery

`AlertScans` is `service.py` up to a hit: the admission, the permits and the thread of each call, the rule file and the
rules in force, the generation in use, the guard for overload. Messages are sequences of normalised letters in
segments; a match is a pattern and a place. Matching takes the longest pattern first within a policy and mode,
context patterns need a name near them, and protected matches hide the others. `Taken` goes through the matches by
length, and within a length from the left (`TakenOfLength`), and keeps what is `Free` of those kept so far; what the scans
find in each text is worked out once (`ManagedScans`, `LiteralScans`).

* A cancelled call keeps its permit until its thread is done (`Abandon`, `EndOrphan`); the process may die.
* The rule file may be damaged (`Damage`, external); a `/违禁词 添加` may fail late, after the file was replaced: the bot
  then says that the rule was not added although it is in force. `possible` has both readings.
* A restart with a damaged or missing file starts with no rules, and the next addition overwrites the file. Ids,
  revisions and the backup of the file are left out, and so are the limits of what an alert shows (20 and 12 matches,
  1800 characters). Under overload messages are dropped while the guard's alert is under way.

`AlertDelivery` is the ledger (`outbox.py`) and the two loops that drive it: `row[a]` with its status, token, lease and
counters, `attempts[a]` its history, `worker[s]` and `run[s]` the delivery pass of each process with the alert it holds.

* `proven` and `risky` are the platform's side: the alerts with a receipt, and those whose message may be in the group,
  which the bot may learn late or never.
* The clock moves only to let leases lapse, also under their holders (`Tick`, `stalls`); the switch flips (`Flip`); a process
  stops at any await and comes back (`Stop`, `Restart`), a handler's call is cancelled (`CancelCall`); the operator decides
  what is `unknown` or `exhausted` (`Resolve`).
* The bot is connected: a pass takes the alerts of the bots that are (`service.py:305-307`, `lifecycle.py:25`), and those of a bot
  that stays away wait for it.
* Bounds: one alert from one handler, two processes, two attempts, one restart, flip, stall and decision each.

### ManagedCatalog

`pointer` names the published generation, `dir` the generations on disk, `legacy` the rule file, `backup` the backups;
`job` is the import or rollback that runs with its place among its steps; `reader` is the bot's snapshot with the
fingerprint it was loaded at and its memory of failures.

* Each write of a file and each rename is a step; the job may die after any of them, or inside the backup file.
* A damaged generation, a failing call and edited legacy rules are the upsets (one in all).
* Some consequences are the code's own: generations published as A, B, A make the rollback of the last refuse; a death
  inside a backup file blocks that generation from being activated again; a transient error of a read sticks to that
  pointer until it changes or the bot restarts; a rollback to "no generation" leaves the running bot on the one it
  has; legacy rules edited after the migration make a second activation conflict.

### Departures

`present` and `left` are the group's truth; `events` and the lists are what the bot gets of it; `member`, `candidate` and
`outbox` are the store (`store.py`), `task` is what holds the lock, `arrived` what the report group got to see.

* Events are lost, repeated, late and out of order; a list may be cut short (`MaxShort` bounds how many lists are, not how
  many members they leave out); a call or a send fails or loses its answer; a process dies; the switch flips.
* A departure is recorded after `Threshold` lists without the member, or at an event; a large difference needs
  three equal lists (the fuse of `store.py:470`).
* The model assumes that nobody returns within the second of their departure (the code keys a departure by it and would
  not tell the two apart), and that the bot's clock is the platform's.
* A notice whose answer was lost is repeated (at least once); a row that always fails holds up the younger ones. Their
  order and the cap of a run are left open.
* `streak` and `doubted` are history. `streak` counts the lists cut short that were taken in since a complete one was
  reconciled. `doubted` are those recorded as gone although that was not certain, in two ways: lists cut short in a row, as many
  as the code asks for (`Threshold`, or `Confirmations` for a large difference), are believed; and events and
  returning members leave the candidate of the fuse as it is, so that lists from before a stay still count against
  whoever stays, and one list that is cut short may complete them. `NoticesAreTrue` exempts these, and
  only these: short lists with a complete one between them record nobody who stayed, however many there are.

### ChatTurns

`turn[t]` is a coroutine with its place between two awaits and the thread it may have left behind; `pending` counts the admitted
turns, `ledger` has the rows of the delivery ledger, `message` the member's stored message, `said` the parts of the reply
that are kept; `calls` counts the calls to the platform, `late` names those begun after a clear or a purge.

* `Others` is the load of the other conversations, so that the limit of all turns is met.
* A deadline (`Deadline`) cancels a turn at any await; a thread that claims or marks a part goes on.
* A turn whose message was cleared may still begin one call; the message that was appended before a crash, and whose
  jobs were not enqueued, is covered by the jobs of the next one only.
* A turn that is cancelled while it waits at the gate of the database's threads (`admission.py:49`) has begun nothing; the
  model has it as a crash only.
* Not in it: the ledger's variant in memory, the deletion of ledger rows after 30 days, the semaphore of image loads,
  pauses between parts.

### GatewayCalls

`call[c]` is a call with its place, its tries, its provider and its budget; `lanes` and `total` are the permits
of the semaphores in use; `active` the calls the transport counts; `gateway` and `closer` the construction and the shutdown.

* A provider fails, limits, answers nonsense or never answers; a caller is cancelled anywhere; time passes only as the end
  of a budget (`Deadline`).
* The permits of the router stand for both of its sets. On a timeout of the shutdown calls are cancelled but not joined. A
  failed construction is final until the process restarts. Only business intents are exempt from the admission limit.
* The transport is the router's, which there is if the economy provider is configured (`ProvidersAssumption`). Without a
  second key (`violation_record/config.py:214`) the bot uses a bare `LLMTransport` (`runtime.py:253-254`), whose `aclose`, when it is cancelled, joins its calls and then closes
  the client (`transport.py:402-408`). That deployment is not modelled, and nothing here speaks of it.

## Runs

| Run | Shows | Bounds |
|---|---|---|
| `MemoryJobs` | `QueueIsSafe`, `RowsMoveRightly`: jobs of a conversation run one at a time and in order; only the holder of the present claim ends a job; ended rows stay ended; no watermark is queued twice or moves under its task; only a fault orphans a row. `JobsSettle`: every job comes to its end | 2 processes, 2 starts, leases of 1 tick, 2 rows, 2 messages, 2 attempts, both private job types |
| `ScopeMemory` | what is remembered rests on what is there: `SummaryIsHonest`, `ClearedStaysCleared`, `DecisionsPrevail`; the file follows (`MirrorIsCurrent`); all jobs end (`MemorySettles`) | 2 workers in 2 processes, 2 messages, an operation, an upset, 5 cases |
| `DeductionPolicy` | `PolicyIsSound`, `MutesAreJudged`, `DecisionsAreFair`: cycle, tag, questions and counts agree; every mute is judged in one stop, the right one; endpoints stay; reductions are earned. `CyclesSettle`: nothing stays overdue | 3 mutes, 3 cycles, 6 weeks, both operations, every status and command |
| `PolicyIntake` | `WithdrawalStands`, `RowFollowsCommands`, `DecisionIsCurrent`, `IntakeSettles` | 2 administrators, 3 previews, a record and 2 changes of status besides the first record, a crash |
| `PolicyIntake_waiting` | what the code says of a withdrawal that waits for review, and does not keep | as small as shows it |
| `PolicyOutbox` | the outbox implements `Reminders` (`Delivers`); rows, attempts and leases agree (`RowsAgree`), the result of an attempt is final; in the end every row is sent or cancelled (`RowsSettle`) | one announced event, one question with one reminder, one replay; claims of 2 missed rows and 1 pending row; leases and retries of 1 tick; every fault |
| `AlertScans` | `SlotsMatch`, `ProtectedStaysHidden`, `HitsAreReported`, `CallsEnd` | 3 messages of up to 3 segments, 2 generations, 2 admissions, 1 permit |
| `AlertDelivery` | `LedgerTruthful`, `CallsAreSafe`, `AlertsSettle` | see above |
| `ManagedCatalog` | `CatalogIsSound`, `BuildsLoad`, `RollbackIsExact`, `CatalogArrives` | 3 generations, 4 jobs, an upset |
| `Departures` | `NoticesAreTrue`, `GoneIsNoticed`, `SnapshotConverges` | 3 people, 3 moves, 3 seconds, 2 lists cut short, an upset |
| `ChatTurns` | `PartsAreSafe`, `ClearedIsCleared`, `TurnsEnd` | 2 turns for one or two messages of 2 parts, an upset |
| `GatewayCalls` | `CallsBounded`, `ClosedIsQuiet`, `CallsEnd` | a call with a budget, one without, a business intent; 1 slot, 2 attempts |

A property that joins several names each of them in its definition. Every property has a mutant in `PROJECT.json`: a
definition changed the way a plausible bug would change it (the `Variant:` operators in the modules), for which TLC
finds the property violated.

Why these bounds are enough: the queue's decisions look at one conversation (its running row, its
head, its open row), so two rows of a conversation and two processes show every conflict, and two
attempts show the first, the last and the one too many. The policy's decisions compare counts with
1, 2 and 3 and instants with one endpoint; three mutes reach each threshold in each type of
cycle, and two renewals in a row, decided late, fit into six weeks. In the outbox the rows meet only in a
chunk and at a limit: two rows make a chunk of two with a forward between them, and a claim that leaves a
row behind. Leases and retries are compared with the present only, so one tick shows before and after. The
other modules have two of whatever competes (processes, turns, administrators, calls for a slot, generations and one to
roll back to) and one upset at any place, which is where their code has a way back; two independent faults in a row
are checked where the recovery itself can fail (`MemoryJobs`, `PolicyOutbox`).

### Fairness

`MemoryJobs`: the clock; each turn of the worker's loop, through the claim and its reads (it polls every `poll_interval`); the end of
every task (a model call has a timeout, and a processor makes finitely many); the bounded
shutdown; the restart (by systemd after a crash, by the operator or the deployment after a deliberate
stop). Nothing obliges messages, switches, administrators, stops
or crashes to come. `JobsSettle` assumes in addition that the switches stay on in the end, since a
job whose switch is off waits by design.

`DeductionPolicy`: the clock; the steps of a transaction (plain code); and *strong* fairness of the
maintenance, which is repeatedly, not continuously, enabled when inputs keep coming: its timer does
not depend on them, and the database serves it between two of their transactions.

`PolicyOutbox`: the loop goes on (it is the code's own, catches every exception and sleeps 60 s; a call ends, if
only with a time-out; after a crash systemd starts the process again) and each tick begins with maintenance, so
that the loop cannot be thought to sleep for ever. `RowsSettle` assumes `Recovered`: from some instant on the
switch is on, a bot is connected and nothing fails. Under failures that never end no system could deliver.

The other modules assume weak fairness of what the code itself goes on doing, and nothing of messages, users,
administrators, switches, faults and crashes:

* `ScopeMemory`: of any step of a job (`Progresses`), as `MemoryJobs` justifies.
* `PolicyIntake`: of maintenance, of the next transaction of a command, and of the end of a lease.
* `AlertScans`: of the step of a call (a scan has a timeout, a thread ends).
* `AlertDelivery`: of the clock, of the worker and of the pass of each process, and of the restart of a process that is down.
* `ManagedCatalog`: of the bot's periodic look at the pointer. The importer need not go on.
* `Departures`: of the clock, of the pass under way and of the end of a lease; *strong* fairness of the start of a
  synchronisation, whose timer competes for the lock with the events' handlers, a lock which is handed on in order.
* `ChatTurns`: of each turn's steps and of its deadline (`asyncio.wait_for`).
* `GatewayCalls`: of the code's steps, the deadlines and the clean-up; *strong* fairness of taking a permit, since the
  semaphores are first come, first served; of an answer only for business intents, whose attempts have a timeout of the
  HTTP client and no budget. That timeout is one of each network operation; that an attempt ends assumes that a provider
  does not go on for ever sending a little within each of them.

### Where documents and code differ

One run ends in a counterexample, and `PROJECT.json` lists it under `findings` with the sentence it quotes:
`PolicyIntake_waiting` (`ReviewsWait`). A withdrawal that rests on what the administrators decided is to wait for
their review; but it joins a review that is already open, which has the first cause, and is lifted with it when the record
of that cause is withdrawn (`deduction_policy.py:2951`, `:2989`).

`README.md:557` says that content alerts have no persistent outbox and no retry; the code has both (`content_alert/outbox.py`), and
`AlertDelivery` models it.

What else was met while modelling; the modules have each of these behaviours as the code has it, and the properties
name the exception where one of them would break it:

* A shutdown in the last attempt gives the row back with no attempt left: it is neither claimed nor failed
  (`jobs.py:383`, `:288`).
* A restart within the lease leaves the former process's row running, and its conversation waits until the next start
  recovers it (`lifecycle.py:146`).
* A claim whose rows were committed and cannot be read back leaves them running for a live process without a task; they wait
  for the recovery at the next start (`jobs.py:322`, `:627`).
* After a late rejection a member may be left without a cycle, with a count above zero and the reason `zero_count`
  (`deduction_policy.py:2282`).
* A mute of unknown length does not prevent the recovery from a final warning (`deduction_policy.py:1071`); a removal asked
  for in an earlier final warning stops the recovery of a clean one (`:1635`).
* Mutes recorded while a suggestion waits for the administrators are not counted in the cycle that follows its rejection.
* A withdrawn final warning whose bridging crashed between its two transactions is never compensated; a change of status
  that such a warning caused is then never applied (`policy_bridge.py:427`).
* A chunk of reminders that is called off between two forwards sends again what has already gone out
  (`scheduler.py:721`). Questions that a replay hands to one review event share one reminder an hour (`policy_bridge.py:298`).
* Two processes may replace a member's mirror file in the other order than they read the profile (`member_memory/store.py:73`);
  the file then shows an old profile until the next write.
* A stop may be decided on a record that was withdrawn already, while the policy has not processed the withdrawal
  (`service.py:1032-1046`); the compensation then asks for a review of the decision.
* A member's summary may be written from facts that were rebuilt to the same ids in between, with more than 20 facts and a
  lapsed lease (`member_memory/store.py:607`).
* A governance clear cancels a running summary job, and the user's next job then starts while the old processor still
  works (`private_memory/store.py:947`); its last write is refused by its version check.
* The intake that the shutdown stops is that of the worker's queue object, not of the objects the message handlers create
  (`lifecycle.py:189`).
* A `/违禁词 添加` that fails after the file was replaced reports a failure while the rule is in force.
* The candidate of the departure monitor's fuse outlives the return of a member (`store.py:428`, `service.py:176`): two lists
  without a crowd, the crowd's return told by events, and one list that is cut short record members as gone who are
  there, although three lists in a row are to agree (`README.md:539`, `CHANGELOG.md:23`).

## Proofs

Proved for every value of the constants, from the `ASSUME`s of the modules (positive lengths
and limits; for the queue `Debounce <= MaxWait` and that no owner is `NoOwner`, as the
constructor and the schema have it). Those added for the proofs: callers, services, generations and
administrators are finitely many, `None` is no value of its variable, and patterns and messages are sequences of strings;
the chat admission leaves room for more than one turn (`AtOnce > 1`; the code has 32); and generations installed before the importer came
(`InstalledAssumption`) load but could not be built by it.
The importer refuses new builds of the kinds it replaced and keeps accepting the old generations for
rollbacks (`README.md:551`, `:555`), and
`RollbackIsExact` needs it: if an installed generation could be imported again, an import of it that dies after
writing its backup would leave that backup behind, and a later rollback to it, followed by a second rollback, would
restore what was active at the time of the dead import.

One theorem has hypotheses of its own: `MonitorGoneHasItsNotice` needs that the departure monitor asks for more than one list in
both of its countings (`1 < Threshold`, `1 < Confirmations`; the code has 2 and 3). How many lists are cut short is not
limited in any theorem.

Each proof module has the same order: the parts of the inductive invariant with what each says, lemmas on the helpers, a
lemma for each action, the step, the theorems. The invariants were checked by TLC on the run's instance before they
were proved; that check is not among the runs, since the theorems are stronger.

`MemoryJobs_proofs`. The inductive invariant is `IInv`: the types; `TasksOK` (a process has
finitely many tasks, none when it is down, each for an existing row, with an attempt that
was counted and a claim not newer than the row's); `AttemptsBounded`; `DelayBounded`; and the four
other safety invariants together, two of them for what a process *holds*: its tasks and the rows that its claim has read
back but not yet started (`Held`, `HeldFresh`, `OneHeldPerClaim`). They need each other: a snapshot stays fresh because a row changes its
watermark only while pending, and it becomes running only with a new claim, which no older
task can hold; and claims are exclusive because a claim is made only of a pending row and raises
the version, and a row that is taken and not yet read back is held by nobody at that version. `StepKinds` reduces the actions to three kinds (a quiet step that only gives rows
up, an enqueue, a claim), and each invariant is proved once per kind. Theorems: `Typing`, `Attempts`,
`Serial`, `Unique`, `Fresh`, `Exclusive`, `Delays` (the rows of the delayed types, which no run has),
`Safe` (the run's `QueueIsSafe`, which joins them), and the action properties `Final`, `Leases`, `Order`,
`Attendance` and `Rightly` (the run's `RowsMoveRightly`, which joins them). `Leases` and `Order` follow from the invariant
step by step; `Attendance` follows whatever carries each running row, a task or the claim under way (`Carries`), and shows that a
step which ends it without a fault moves the row as well.

`DeductionPolicy_proofs`. `Sound` is what every helper of the code keeps whatever the status is: types;
an open reducing cycle implies operations left; the tag is the cycle's; a cycle that waits has its
question open. `Books` bounds the reductions by the operations and by the records. `Fits` relates
the cycle to the status and holds except between the service's write of a status and the policy's step.
`IInv` joins them with the evaluation of mutes (an evaluated mute waits for nothing; the one
being recorded is not evaluated yet). One lemma per helper, one per action, then `NextStep`.
`DecisionIsAsked` is the delicate one: each `Resolve` must meet a cycle that is closed or
reopened in the same step. Theorems: `Typing`, `Allowed`, `Tagged`, `Decidable`,
`Accounted`, `Holds` (the run's `PolicyIsSound`, which joins them), and the action property `Final`.

Two further invariants rest on `IInv`. `JInv` is about the evaluation of mutes: the cycle that evaluates is in its place
among the ids (`Placed`), marks name cycles that were opened and records lie in the past (`Marks`), the counters are
those of the records that name the cycle (`Tallied`), those that wait lie after its end (`Waits`), and none since the
start of the series is left out (`Recalled`, except the record under way). A step that leaves the records alone either
starts a cycle or stays in the present one (`Starts`, `Stays`), which settles most actions at once; the mute and the
renewal have proofs of their own. Theorems: `Judged` (the run's `MutesAreJudged`) and `Endpoints`.

`KInv` is about reductions: as long as no suggestion was rejected, no record lies after the end of an open cycle
(`InTime`: a later one would have settled it first), what the records of the period say against a reduction is asked
(`Noticed`), and `normal_light` counts at least the light ones (`Numbered`; the counter of the slow part alone would not
do, since it starts at the change to slow). Then a turn of the settlement that reduces has nothing against it in the
records (`SettleEarns`), and no other step but a cleared stop, which is an administrator's decision, changes the deductions.
The theorem `Fair` (the run's `DecisionsAreFair`) is about `MCSpec`, which adds the history variable `refused` that the
property needs; therefore this proof module extends `MCDeductionPolicy`.

`Outboxes_proofs`, the policy's outbox. `RowOK` says what a row is by itself (an attempt is under way exactly while the row is being
sent without an error; only a failed row has an error before it is claimed), `HandsOK` what the loop holds (leased
rows, missed ones with their error, pending ones without; what has left `rest` was delivered; a
single row is alone), and `UnaskedOK` that a reminder not asked for has no row. `IInv` joins them with the types. One
lemma per action shows that it is a quiet step: it leaves what the notices say alone and moves each row in one of five
ways (`RowSteps`), and makes at most a step of the call (`CallSteps`); `QuietRows` and `QuietServes` conclude once
for all that such a step keeps the invariant and is a `Serve` step of `Reminders`. The surroundings are its
`Environment`, `Maintain` its `Post`. Theorems: `Typing`, `Attempts`, `Held`, `OutboxRows` (the run's
`RowsAgree`, which joins them), the action property `Final`, and `Refinement` (`Spec => Delivers`).

`Outboxes_proofs`, the departure monitor. `MonitorInv` joins the types with what is true of each user. `Dated`: departures lie in
the past, and nobody is back within the second of one. `Stranger`: who is not known has notices by events only. `Honest`
is about those who are not `doubted`, and says of everything the monitor may act on that it is backed by a departure: the notices
of an active member are of earlier stays (`Stay`), and a member who is away, or whom more lists have missed than were cut
short since the last complete one (`streak`), has left without a notice; the same of the list in hand (`Listed`) and of the candidate of the fuse (`Fused`). A
departure is then recorded after at least one list that was complete, or by the doubt that the property exempts, and the count of notices never exceeds that of the
departures (`MonitorNoticesAreTrue`, the run's `NoticesAreTrue`). `NoticeInv` is for the second of a
notice, which is part of its key: those who were recorded in this second and are back are missed by no list before
the second ends, or by lists that were cut short only (`OnceASecond`). From it follows `MonitorGoneHasItsNotice`, the
safety half of `GoneIsNoticed`; `MonitorTypes` needs no hypothesis.

`CallsAndCommands_proofs`, the gateway. `PermitsOK`: the permits of each lane and of the total, and the admissions, are those of the calls
that are under way, counted; `ServiceOK`: the gateway is closed once, each stage of the shutdown tells which clients and
calls are still open, and who was told to stop is still at an await. A call is admitted by what the counters say, so that
the limits follow only from both together. Theorems: `Inductive`, `Bounded` (`CallsBounded`) and `Quiet`
(`ClosedIsQuiet`).

`CallsAndCommands_proofs`, the policy's intake. `IntakeInv` has the evidence (`Sound`), the previews and the task in hand.
`ClosedOK`: what is closed was withdrawn and has no effect; `SettledOK`: a change of status that took effect is applied, and
the record behind it was processed and not withdrawn, unless held; `SuggestionOK`: an open suggestion rests on a record that
counts or that a review has covered; `RowOK`: the member's row differs from what the status changes leave only while
something is to come. `PendingOK` says of each preview that it names what exists, `TaskOK` that the task in hand has its
jobs open and in the order of their ids. Theorems: `IntakeInvariant`, `WithdrawnStaysOut` (`WithdrawalStands`), `RowsFollow`
(`RowFollowsCommands`) and the action property `DecisionsAreCurrent` (`DecisionIsCurrent`).

`ChatTurns_proofs`. `SlotsOK`: the admission counters are the running turns of each conversation; `Exclusive`: one turn
holds a conversation's lock; `LedgerOK`: what the ledger says of each part agrees with the calls; `TurnsOK`: the rows
that a turn has read may be old, but what was sent stays sent, and the part it has claimed is its own, uncalled, until
it calls; `LateOK`: who has passed the check of the message and not called yet is the only one who may call late. That a
part is called once needs all of them: two turns for one message are kept apart by the lock, and a thread left behind by a
cancellation by the status of the row. Theorems: `Inductive`, `Once` (`PartsAreSafe`) and the action property `Cleared`
(`ClearedIsCleared`).

`Alerts_proofs`, the delivery. `RowsOK`: a row fits the history of its attempts: it has a token exactly while leased or
sending, only the last attempt is open, and the limit leaves `AttemptLimit` attempts beyond those that were called off or
that the operator has already judged; `RunsOK`: a run that still holds the row it is about to call knows that nothing has
reached the group since. The counting of refused attempts is done once, in lemmas on `Fits`. Theorems: `Inductive`,
`Truthful` (`LedgerTruthful`) and the action property `Calling` (`CallsAreSafe`).

`Alerts_proofs`, the scans. `SlotsOK`: the admissions, the permits and the guard for overload are those of the places of
the calls, counted. `RulesOK`: the rules in memory and those in force are among the `possible` ones. `FoundOK`: what a call
holds at its place is what the scans it has passed must have found in its message. About the matching itself: every match
is taken or meets one it competes with that was (`Takes`); therefore a rule of a segment leaves a hit (`SegmentHits`,
`ManagedFinds`, `LiteralFinds`), and what is shown of a message gives away no protected pattern (`WithinWithin`, `Renders`).
Theorems: `ScansInvariant`, `SlotsAgree` (`SlotsMatch`), `SecretsStayHidden` (`ProtectedStaysHidden`) and the action property
`NothingOverlooked` (`HitsAreReported`).

`ManagedCatalog_proofs`. `JobOK` says what the run of the script has made sure of at each of its steps, so that what it
publishes is sound wherever it dies; `BackupsOK` that the backup of a generation which is or may again become active names
nothing but what its activation replaced; `ReaderOK` that the bot has read the generation of the pointer file whose number
it keeps. Theorems: `Inductive`, `AlwaysSound` (`CatalogIsSound`), `BuildsAreAccepted` (`BuildsLoad`) and
the action property `RollsBackExactly` (`RollbackIsExact`).

`ScopeMemory_proofs`. `Remembered`: what is kept comes of messages behind its watermark and not of cleared ones; `JobOK`:
the version a job expects is not ahead of the stored one, and a job that expects the version an administrator wrote was
enqueued for a later message; `TaskOK`: what a worker has read is either still as it was, or older than the version it
will compare; `Serial`: without a lapse one worker has a job; `Mirroring`: the mirror's content is the profile or
somebody is about to write it. Theorems: `Inductive`, `Honest` (`SummaryIsHonest`), `Current` (`MirrorIsCurrent`) and the
action properties `StaysCleared` (`ClearedStaysCleared`) and `Prevails` (`DecisionsPrevail`).

Only model-checked: everything under fairness (`JobsSettle`, `CyclesSettle`, `RowsSettle`, `CallsEnd` of both modules, `TurnsEnd`,
`AlertsSettle`, `CatalogArrives`, `MemorySettles`, `IntakeSettles`, `SnapshotConverges` and the second half of
`GoneIsNoticed`), which is beyond the prover, as is `ENABLED`. Every safety invariant and action property of the passing runs
is stated by a theorem, and so is the refinement of `Reminders`.

## Plan

1. `FeatureSwitches` (the switches' file and its backup), `VisionAssets` (claims of pictures), `EvidenceQueue` (batches
   and their binding), the weekly report's table.
2. `DeductionPolicy` with replays: that a replay equals the live run of the same inputs in order.

## Not modelled

* Parsing and wording of messages, rule texts and mute lengths; prompts and model answers; web search and routing; exports
  and spreadsheets: no state that outlives a call.
* Pictures: evidence capture and its store; the picture assets of chat vision. The workers of the latter are callers of
  the gateway: two of them with `GatewayCalls` around them come to some ten million states, too many for its liveness.
* Group moderation, whose only state is the platform's; the persistence of the feature switches, which the models
  flip freely instead.
* Deployment, backup and watchdog scripts: they act on files, services and other hosts, and one at a time.
* The weekly report and the notices of the former rules.
