----------------------------- MODULE ScopeMemory -----------------------------
(* What the bot remembers of one conversation, a member of a group or a private *)
(* chat: the facts, the summary and the relationship that the memory jobs draw  *)
(* from its messages (private_memory/processor.py, store.py, relationship.py,   *)
(* member_memory/processing.py, summary.py, store.py), the changes that         *)
(* administrators preview and confirm (memory_governance/service.py), and the   *)
(* file that mirrors a member's memory.                                         *)
(*                                                                              *)
(* A job reads, asks the model, and writes if what it read still stands; the    *)
(* administrators, the retention and the next messages act meanwhile.  The      *)
(* queue itself is MemoryJobs: here a job is held by one worker until the       *)
(* worker is done or its lease lapses.                                          *)
EXTENDS Integers, FiniteSets, Sequences, FiniteSetsExt

CONSTANTS
    None,
    Cases,          \* the kinds of conversation and of jobs that are looked at
    Workers,        \* tasks of the memory worker (two in the code)
    Operators,      \* administrators, each with at most one open operation
    Archive,        \* the matcher that archives a message and writes the mirror
    Process,        \* the process that each of them runs in
    Batch,          \* messages read at once (20 in the code)
    Threshold,      \* facts that are worth a summary (five in the code)
    FactBatch,      \* facts summarised at once (20 in the code)
    MaxMessages,    \* bound: messages
    MaxOperations,  \* bound: operations previewed
    MaxUpsets       \* bound: failures, closed gates, lapsed leases and crashes

\* A member's messages make no job of the summary: it is made after the facts.
ASSUME CasesAssumption ==
    /\ Cases \subseteq {"group", "private"} \X SUBSET {"facts", "summary", "relationship"}
    /\ \A c \in Cases : c[1] = "group" => "summary" \notin c[2]
ASSUME WritersAssumption ==
    /\ None \notin Workers \cup Operators \cup {Archive} /\ IsFiniteSet(Operators)
    /\ Archive \notin Workers \cup Operators /\ Workers \cap Operators = {}
ASSUME BoundsAssumption ==
    /\ {Batch, Threshold, FactBatch, MaxMessages, MaxOperations, MaxUpsets} \subseteq Nat
    /\ Batch > 0 /\ Threshold > 0 /\ FactBatch >= Threshold

VARIABLES
    kind,       \* the kind of the conversation
    types,      \* the kinds of jobs that the switches let it have
    count,      \* messages archived so far
    live,       \* those not purged
    waiting,    \* those whose jobs are not yet enqueued
    jobs,       \* memory_jobs: the open jobs of the conversation
    work,       \* what each worker does
    progress,   \* private_fact_progress, group_fact_progress
    facts,      \* private_memory_facts, member_memory_facts
    summary,    \* private_conversation_summaries, member_memory_summaries
    relation,   \* relationship_states
    ops,        \* memory_pending_operations: the open one of each administrator
    opened,     \* operations previewed so far
    writing,    \* who is about to write the mirror
    drawn,      \* the profile that each of them has read, under the lock of its process
    mirror,     \* the file
    past,       \* history: the last message enqueued, cleared, and enqueued when an
                \* administrator last decided, and whether a lease ever lapsed
    overtaken,  \* history: those whose profile another process has read, or given up, since
    missed,     \* history: the last write of the mirror failed, was cut off or was overtaken
    upsets

scope == <<kind, types>>
memory == <<progress, facts, summary, relation>>
mirrored == <<writing, drawn, mirror, overtaken, missed>>
governed == <<ops, opened>>
vars == <<scope, count, live, waiting, jobs, work, memory, governed, mirrored, past, upsets>>

Ids == 0..MaxMessages
MaxFacts == MaxMessages + MaxOperations
Nothing == [through |-> 0, version |-> 0, text |-> {}, ids |-> {}, end |-> 0]
NoJob == [type |-> "facts", from |-> 0, to |-> 0, expected |-> 0]
Idle == [step |-> "idle", job |-> NoJob, owns |-> FALSE, basis |-> Nothing]
Op(action, target, before) == [action |-> action, target |-> target, before |-> before]
NoOp == Op("none", 0, None)
Admin == 0      \* the source of a fact that an administrator wrote
Between(S, low, high) == {i \in S : low < i /\ i <= high}
\* The last n of a set of numbers, or all of it.
Last(S, n) == {i \in S : Cardinality({j \in S : j > i}) < n}
First(S, n) == {i \in S : Cardinality({j \in S : j < i}) < n}
Active == {i \in DOMAIN facts : facts[i].status = "active"}
Profile == [facts |-> Active, text |-> summary.text, through |-> summary.through]

------------------------------------------------------------------------------
\* Messages and their jobs.

\* A message is archived; a member's profile is then written to the mirror.
Arrive ==
    /\ count < MaxMessages /\ Archive \notin writing
    /\ count' = count + 1
    /\ live' = live \cup {count + 1} /\ waiting' = waiting \cup {count + 1}
    /\ writing' = IF kind = "group" THEN writing \cup {Archive} ELSE writing
    /\ UNCHANGED <<scope, jobs, work, memory, governed, drawn, mirror, overtaken, missed, past, upsets>>

Owned(j) == \E w \in Workers : work[w].owns /\ work[w].job = j
Expected(t) == CASE t = "summary" -> summary.version
                 [] t = "relationship" -> relation.version
                 [] OTHER -> 0
\* The jobs of a message: all but those of the summary go into the one that waits.
Enqueue(i) ==
    LET new(t) == [type |-> t, from |-> i, to |-> i, expected |-> Expected(t)]
        Open(t) == {j \in jobs : j.type = t /\ t # "summary" /\ ~Owned(j)}
        Added(t) == IF Open(t) = {} THEN {new(t)} ELSE {[j EXCEPT !.to = i] : j \in Open(t)} IN
    /\ i \in waiting /\ (i = Min(waiting))
    /\ waiting' = waiting \ {i}
    /\ jobs' = (jobs \ UNION {Open(t) : t \in types}) \cup UNION {Added(t) : t \in types}
    /\ past' = [past EXCEPT !.asked = i]
    /\ UNCHANGED <<scope, count, live, work, memory, governed, mirrored, upsets>>

\* One job of a type runs at a time, unless its lease has lapsed; the oldest goes first.
Busy(t) == \E w \in Workers : work[w].owns /\ work[w].job \in jobs /\ work[w].job.type = t
Claim(w) ==
    /\ work[w].step = "idle"
    /\ \E j \in jobs :
          /\ ~Busy(j.type) /\ \A k \in jobs : k.type = j.type => j.to <= k.to
          /\ work' = [work EXCEPT ![w] = [Idle EXCEPT !.step = "taken", !.job = j, !.owns = TRUE]]
    /\ UNCHANGED <<scope, count, live, waiting, jobs, memory, governed, mirrored, past, upsets>>

------------------------------------------------------------------------------
\* The ends of a job, and its way from one step to the next.

Goes(w, step, basis) ==
    /\ work' = [work EXCEPT ![w] = [@ EXCEPT !.step = step, !.basis = basis]]
    /\ UNCHANGED jobs
\* Done with the job, or with a part of it, or to be tried again.
Ends(w) ==
    /\ work' = [work EXCEPT ![w] = Idle]
    /\ jobs' = IF work[w].owns THEN jobs \ {work[w].job} ELSE jobs
Leaves(w) == work' = [work EXCEPT ![w] = Idle] /\ UNCHANGED jobs
EndsAt(w, end) == IF end < work[w].job.to THEN Leaves(w) ELSE Ends(w)
Outside == UNCHANGED <<scope, count, live, waiting, governed, past, upsets>>

------------------------------------------------------------------------------
\* Facts.

\* A member without progress starts at the first message of the job.
Through(j) == IF kind = "group" /\ progress.version = 0 THEN j.from - 1 ELSE progress.through
\* The messages of an interval that are there to be read.
Readable(low, high) == Between(live, low, high)
ReadFacts(w) ==
    LET j == work[w].job
        todo == First(Readable(Through(j), j.to), Batch)
        basis(end, ids) == [Nothing EXCEPT !.through = Through(j), !.version = progress.version,
                                           !.end = end, !.ids = ids] IN
    /\ work[w].step = "taken" /\ j.type = "facts"
    /\ IF Through(j) >= j.to
       THEN IF kind = "group" THEN Goes(w, "refresh", Nothing) ELSE Ends(w)
       ELSE IF todo = {} THEN Goes(w, "asked", basis(j.to, {}))
       ELSE \E end \in todo : Goes(w, "asked", basis(end, Between(todo, 0, end)))
    /\ UNCHANGED <<memory, mirrored>> /\ Outside

\* Variant: only the progress is compared.
SameSourcesAny(b) == TRUE
\* The messages of the batch are all there still.
SameSources(b) == Between(live, b.through, b.end) = b.ids
PrivateFactsStand(b) ==
    <<progress.through, progress.version>> = <<b.through, b.version>> /\ SameSources(b)
\* A member without progress has nothing to compare.
GroupFactsStand(b) ==
    /\ progress.version = 0
       \/ <<progress.through, progress.version>> = <<b.through, b.version>>
    /\ SameSources(b)
\* What the model finds in some of the messages.
Said(b) == SUBSET b.ids
CommitFacts(w) ==
    LET b == work[w].basis IN
    /\ work[w].step = "asked" /\ work[w].job.type = "facts"
    /\ IF IF kind = "private" THEN PrivateFactsStand(b) ELSE GroupFactsStand(b)
       THEN /\ \E said \in Said(b) :
                  facts' = facts \o [i \in 1..Cardinality(said) |->
                      [source |-> CHOOSE s \in said : Cardinality(Between(said, 0, s)) = i,
                       status |-> "active"]]
            /\ progress' = [through |-> b.end, version |-> b.version + 1]
            /\ IF kind = "private"
               THEN EndsAt(w, b.end) /\ UNCHANGED writing
               ELSE Goes(w, "refresh", [Nothing EXCEPT !.end = b.end])
                    /\ writing' = writing \cup {w}
       ELSE Leaves(w) /\ UNCHANGED <<facts, progress, writing>>
    /\ UNCHANGED <<summary, relation, drawn, mirror, overtaken, missed>> /\ Outside

------------------------------------------------------------------------------
\* The summary of a member's facts, made after them.

\* Facts that wait for a summary, if they are enough; one is when it was invalidated.
Pending ==
    LET todo == {i \in Active : i > summary.through}
        invalid == summary.version > 0 /\ summary.text = {} /\ summary.through = 0 IN
    IF Cardinality(todo) < (IF invalid THEN 1 ELSE Threshold) THEN {} ELSE First(todo, FactBatch)
\* Variant: the rest of the messages is forgotten.
EndsMemberEarly(w) == Ends(w)
\* The end of the job: there may be more messages, or more facts.
EndsMember(w) ==
    LET end == work[w].basis.end IN
    IF (end # 0 /\ end < work[w].job.to) \/ Pending # {} THEN Leaves(w) ELSE Ends(w)
Refresh(w) ==
    /\ work[w].step \in {"refresh", "check"} /\ w \notin writing
    /\ IF work[w].step = "refresh" /\ Pending # {}
       THEN Goes(w, "digest", [work[w].basis EXCEPT !.through = summary.through,
                                                     !.text = summary.text, !.ids = Pending])
       ELSE EndsMember(w)
    /\ UNCHANGED <<memory, mirrored>> /\ Outside

\* Variant: the facts that were read are not compared with those that are active.
SameFactsAny(b) == TRUE
\* An active fact never changes, so its number stands for its version.
SameFacts(b) == Between(Active, b.through, Max(b.ids)) = b.ids
DigestStands(b) == summary.through = b.through /\ SameFacts(b)
CommitDigest(w) ==
    LET b == work[w].basis IN
    /\ work[w].step = "digest"
    /\ IF DigestStands(b)
       THEN /\ summary' = [version |-> 1, through |-> Max(b.ids), text |-> b.text \cup b.ids]
            /\ Goes(w, "check", [Nothing EXCEPT !.end = b.end])
            /\ writing' = writing \cup {w}
       ELSE Leaves(w) /\ UNCHANGED <<summary, writing>>
    /\ UNCHANGED <<progress, facts, relation, drawn, mirror, overtaken, missed>> /\ Outside

------------------------------------------------------------------------------
\* The summary of a private chat.

ReadText(w) ==
    /\ work[w].step = "taken" /\ work[w].job.type = "summary"
    /\ Goes(w, "read", [Nothing EXCEPT !.text = summary.text])
    /\ UNCHANGED <<memory, mirrored>> /\ Outside
\* The version is read after the text.
ReadSummary(w) ==
    LET j == work[w].job
        text == work[w].basis.text
        stale == /\ summary.version # j.expected
                 /\ text = {} \/ summary.version < j.expected \/ j.to <= summary.through
        todo == First(Readable(summary.through, j.to), Batch) IN
    /\ work[w].step = "read"
    /\ IF stale \/ todo = {} THEN Ends(w)
       ELSE \E end \in todo :
              Goes(w, "asked", [through |-> summary.through, version |-> summary.version,
                                text |-> text, ids |-> Between(todo, 0, end), end |-> end])
    /\ UNCHANGED <<memory, mirrored>> /\ Outside
SummaryStands(b) ==
    <<summary.through, summary.version>> = <<b.through, b.version>> /\ SameSources(b)
CommitSummary(w) ==
    LET b == work[w].basis IN
    /\ work[w].step = "asked" /\ work[w].job.type = "summary"
    /\ IF SummaryStands(b)
       THEN /\ summary' = [version |-> b.version + 1, through |-> b.end, text |-> b.text \cup b.ids]
            /\ EndsAt(w, b.end)
       ELSE Leaves(w) /\ UNCHANGED summary
    /\ UNCHANGED <<progress, facts, relation, mirrored>> /\ Outside

------------------------------------------------------------------------------
\* The relationship.

\* Variant: a state that an administrator wrote meanwhile is no obstacle.
OverruledNever(j) == FALSE
\* An administrator wrote the state after the job was enqueued.
Overruled(j) == relation.version > j.expected /\ relation.byAdmin
ReadRelation(w) ==
    LET j == work[w].job
        todo == Readable(j.from - 1, j.to) IN
    /\ work[w].step = "taken" /\ j.type = "relationship"
    /\ IF relation.watermark >= j.to \/ relation.version < j.expected \/ Overruled(j)
          \/ j.to \notin todo
       THEN Ends(w)
       ELSE Goes(w, "asked", [through |-> relation.watermark, version |-> relation.version,
                              text |-> relation.topics, ids |-> Last(todo, Batch), end |-> j.to])
    /\ UNCHANGED <<memory, mirrored>> /\ Outside
\* The last message must be there still.
SourceStands(b) == b.end \in live
RelationStands(b) == relation.version = b.version /\ SourceStands(b)
\* The model keeps the open topics or drops them.
Topics(b) == {b.text \cup b.ids, {}}
CommitRelation(w) ==
    LET b == work[w].basis IN
    /\ work[w].step = "asked" /\ work[w].job.type = "relationship"
    /\ IF RelationStands(b)
       THEN /\ \E topics \in Topics(b) :
                  relation' = [topics |-> topics, watermark |-> b.end, version |-> b.version + 1,
                               byAdmin |-> FALSE]
            /\ Ends(w)
       ELSE Leaves(w) /\ UNCHANGED relation
    /\ UNCHANGED <<progress, facts, summary, mirrored>> /\ Outside

------------------------------------------------------------------------------
\* The mirror: read and replaced under a lock that the writers of one process share.

Writers == Workers \cup Operators \cup {Archive}
Beside(p) == {q \in Writers : Process[q] = Process[p]}
\* Those who have read the profile and not yet written it.
Holding == {p \in writing : drawn[p] # None}
\* Variant: there is no lock.
FreeAlways(p) == p \notin Holding
Free(p) == Holding \cap Beside(p) = {}
\* Those of other processes who still hold what they have read.
Overtaken(p) == (overtaken \cup Holding) \ Beside(p)
ReadProfile(p) ==
    /\ p \in writing /\ Free(p)
    /\ drawn' = [drawn EXCEPT ![p] = Profile] /\ overtaken' = Overtaken(p)
    /\ UNCHANGED <<scope, count, live, waiting, jobs, work, memory, governed, writing, mirror,
                   missed, past, upsets>>
\* The locks of two processes exclude nobody: the one who read first may write last.
WriteProfile(p) ==
    /\ p \in Holding
    /\ mirror' = drawn[p] /\ missed' = (p \in overtaken)
    /\ drawn' = [drawn EXCEPT ![p] = None] /\ writing' = writing \ {p}
    /\ overtaken' = overtaken \ {p}
    /\ UNCHANGED <<scope, count, live, waiting, jobs, work, memory, governed, past, upsets>>

------------------------------------------------------------------------------
\* The administrators.

\* What the preview of a clear counts.
ClearView ==
    <<live, summary.version, summary.through, summary.text # {},
      IF relation.topics = {} THEN 0 ELSE relation.version,
      {<<j.to, Owned(j)>> : j \in {k \in jobs : k.type = "summary"}}>>
\* The operations that can be prepared, with what is there before them.
Prepared ==
    {Op("add", 0, None), Op("relate", 0, relation.version)}
    \cup {Op(a, f, None) : f \in Active, a \in {"modify", "delete"}}
    \cup (IF kind = "private" THEN {Op("clear", 0, ClearView)} ELSE {})
Preview(o) ==
    /\ ops[o] = NoOp /\ opened < MaxOperations
    /\ opened' = opened + 1
    /\ \E p \in Prepared : ops' = [ops EXCEPT ![o] = p]
    /\ UNCHANGED <<scope, count, live, waiting, jobs, work, memory, mirrored, past, upsets>>

\* Nothing has changed since the preview.
Unchanged(p) ==
    CASE p.action \in {"modify", "delete"} -> p.target \in Active
      [] p.action = "relate" -> p.before = relation.version
      [] p.action = "clear" -> p.before = ClearView
      [] OTHER -> TRUE
Written == Append(facts, [source |-> Admin, status |-> "active"])
AddFact == facts' = Written /\ UNCHANGED <<summary, relation, progress, live, jobs, past>>
\* A member's summary is emptied and begins anew; a private chat's facts are not in it.
Invalidated ==
    IF kind = "group" THEN [summary EXCEPT !.text = {}, !.through = 0] ELSE summary
ChangeFact(p) ==
    /\ facts' = IF p.action = "delete" THEN [facts EXCEPT ![p.target].status = "deleted"]
                ELSE [Written EXCEPT ![p.target].status = "superseded"]
    /\ summary' = Invalidated
    /\ UNCHANGED <<relation, progress, live, jobs, past>>
Relate ==
    /\ relation' = [relation EXCEPT !.version = @ + 1, !.byAdmin = TRUE]
    /\ past' = [past EXCEPT !.decided = past.asked]
    /\ UNCHANGED <<facts, summary, progress, live, jobs>>
\* The messages, the summary, the open topics and the jobs of the summary go; the progress
\* of the facts moves behind the last message.
ClearPrivate ==
    /\ live' = {}
    /\ summary' = [version |-> summary.version + 1, through |-> count, text |-> {}]
    /\ progress' = [through |-> count, version |-> progress.version + 1]
    /\ relation' = IF relation.topics = {} THEN relation
                   ELSE [relation EXCEPT !.topics = {}, !.version = @ + 1, !.byAdmin = TRUE]
    /\ jobs' = {j \in jobs : j.type # "summary"}
    /\ past' = [past EXCEPT !.cleared = count,
                            !.decided = IF relation.topics = {} THEN @ ELSE past.asked]
    /\ UNCHANGED facts
Apply(p) ==
    \/ p.action = "add" /\ AddFact
    \/ p.action \in {"modify", "delete"} /\ ChangeFact(p)
    \/ p.action = "relate" /\ Relate
    \/ p.action = "clear" /\ ClearPrivate
\* An operation is used once, whatever comes of it.
Consume(o) == ops[o] # NoOp /\ ops' = [ops EXCEPT ![o] = NoOp]
\* One transaction; a member's facts are then written to the mirror.
Confirm(o) ==
    /\ Consume(o) /\ o \notin writing
    /\ IF Unchanged(ops[o])
       THEN /\ Apply(ops[o])
            /\ writing' = IF kind = "group" /\ ops[o].action \in {"add", "modify", "delete"}
                          THEN writing \cup {o} ELSE writing
       ELSE UNCHANGED <<memory, live, jobs, past, writing>>
    /\ UNCHANGED <<scope, count, waiting, work, opened, drawn, mirror, overtaken, missed, upsets>>
\* Cancelled, or past its time.
Cancel(o) ==
    /\ Consume(o)
    /\ UNCHANGED <<scope, count, live, waiting, jobs, work, memory, opened, mirrored, past, upsets>>

------------------------------------------------------------------------------
\* What else happens.

\* The oldest messages are purged, by their age or their number.
PurgeExpired ==
    /\ kind = "private"
    /\ \E i \in live : live' = {j \in live : j > i}
    /\ UNCHANGED <<scope, count, waiting, jobs, work, memory, governed, mirrored, past, upsets>>

Upset == upsets < MaxUpsets /\ upsets' = upsets + 1
\* The model fails, or a switch closes: the job waits for another try.
Fail(w) ==
    /\ Upset /\ work[w].step # "idle" /\ w \notin writing
    /\ Leaves(w)
    /\ UNCHANGED <<scope, count, live, waiting, memory, governed, mirrored, past>>
\* The lease is not renewed in time: the worker goes on with a job that is not its own.
Lapse(w) ==
    /\ Upset /\ work[w].owns /\ work' = [work EXCEPT ![w].owns = FALSE]
    /\ past' = [past EXCEPT !.lapsed = TRUE]
    /\ UNCHANGED <<scope, count, live, waiting, jobs, memory, governed, mirrored>>
\* The profile cannot be read, or the file not be written.
MirrorFails(p) ==
    /\ Upset /\ p \in writing /\ (Free(p) \/ p \in Holding)
    /\ drawn' = [drawn EXCEPT ![p] = None] /\ writing' = writing \ {p}
    /\ missed' = TRUE /\ overtaken' = Overtaken(p)
    /\ UNCHANGED <<scope, count, live, waiting, jobs, work, memory, governed, mirror, past>>
\* A process dies.  Jobs that were not yet enqueued are lost with that of the matcher.
Crash(p) ==
    /\ Upset
    /\ work' = [w \in Workers |-> IF w \in Beside(p) THEN Idle ELSE work[w]]
    /\ waiting' = IF Archive \in Beside(p) THEN {} ELSE waiting
    /\ drawn' = [q \in Writers |-> IF q \in Beside(p) THEN None ELSE drawn[q]]
    /\ writing' = writing \ Beside(p)
    /\ missed' = (missed \/ writing \cap Beside(p) # {}) /\ overtaken' = Overtaken(p)
    /\ UNCHANGED <<scope, count, live, jobs, memory, governed, mirror, past>>

Init ==
    /\ \E c \in Cases : kind = c[1] /\ types = c[2]
    /\ count = 0 /\ live = {} /\ waiting = {} /\ jobs = {}
    /\ work = [w \in Workers |-> Idle]
    /\ progress = [through |-> 0, version |-> 0]
    /\ facts = <<>>
    /\ summary = [version |-> 0, through |-> 0, text |-> {}]
    /\ relation = [topics |-> {}, watermark |-> 0, version |-> 0, byAdmin |-> FALSE]
    /\ ops = [o \in Operators |-> NoOp] /\ opened = 0
    /\ writing = {} /\ overtaken = {} /\ drawn = [p \in Writers |-> None]
    /\ mirror = Profile /\ missed = FALSE
    /\ past = [asked |-> 0, cleared |-> 0, decided |-> 0, lapsed |-> FALSE]
    /\ upsets = 0

Work(w) ==
    \/ Claim(w) \/ ReadFacts(w) \/ CommitFacts(w) \/ Refresh(w) \/ CommitDigest(w)
    \/ ReadText(w) \/ ReadSummary(w) \/ CommitSummary(w) \/ ReadRelation(w) \/ CommitRelation(w)
Mirrors(p) == ReadProfile(p) \/ WriteProfile(p)
\* The commands of an administrator.
Governs(o) == Preview(o) \/ Confirm(o) \/ Cancel(o)
\* What the program does by itself.
Progresses ==
    \/ \E i \in waiting : Enqueue(i)
    \/ \E w \in Workers : Work(w)
    \/ \E p \in Writers : Mirrors(p)
Next ==
    \/ Progresses \/ Arrive \/ PurgeExpired
    \/ \E o \in Operators : Governs(o)
    \/ \E w \in Workers : Fail(w) \/ Lapse(w)
    \/ \E p \in Writers : MirrorFails(p) \/ Crash(p)

\* The event loop, the worker and the threads go on while there is something to do.
Spec == Init /\ [][Next]_vars /\ WF_vars(Progresses)

------------------------------------------------------------------------------
\* Every variable keeps to the columns of its table (private_memory/schema.py, member_memory
\* /store.py): the sources of what is remembered are messages that came, progress and summary
\* never pass them, and of those who are about to write, one of a process holds a profile.
TypeOK ==
    /\ scope \in Cases /\ count \in Ids /\ live \subseteq 1..count /\ waiting \subseteq 1..count
    /\ \A j \in jobs : j.type \in types /\ 1 <= j.from /\ j.from <= j.to /\ j.to <= past.asked
    /\ \A w \in Workers :
          /\ work[w].step \in {"idle", "taken", "read", "asked", "refresh", "digest", "check"}
          /\ work[w].job.to <= past.asked
    /\ progress.through <= count /\ relation.watermark <= past.asked
    /\ Len(facts) <= MaxFacts
    /\ \A i \in DOMAIN facts : facts[i].source <= count
                               /\ facts[i].status \in {"active", "superseded", "deleted"}
    /\ summary.through <= (IF kind = "group" THEN Len(facts) ELSE count)
    /\ summary.text \subseteq 1..summary.through
    /\ writing \subseteq Writers /\ overtaken \subseteq Holding
    /\ \A p, q \in Holding : Process[p] = Process[q] => p = q
    /\ opened <= MaxOperations /\ upsets <= MaxUpsets

\* Nothing that is written after a private chat was cleared comes from what was cleared, though
\* a job may have read it before: neither summary nor open topics, nor a new fact, whose
\* message is always there when the fact is written.
ClearedStaysCleared ==
    [][kind = "private" =>
         /\ (summary'.text \cup relation'.topics) \cap 1..past'.cleared = {}
         /\ \A i \in DOMAIN facts' \ DOMAIN facts : facts'[i].source \in live \cup {Admin}]_vars

\* While no lease lapses, a member's summary rests on active facts alone: one that a job makes
\* of facts that an administrator deletes or changes meanwhile is not kept.
SummaryIsHonest == kind = "group" /\ ~past.lapsed => summary.text \subseteq Active

\* A job does not replace a relationship that an administrator wrote, unless it is for a
\* message enqueued since.
DecisionsPrevail ==
    [][relation.byAdmin /\ ~relation'.byAdmin => relation'.watermark > past.decided]_vars

\* The file shows the member's present facts and summary once nobody is about to write it, unless
\* the last write failed or was cut off, or was of a profile that another process, with a lock of
\* its own, has read or given up since (member_memory/store.py:370-440).  The variables have
\* their types.
MirrorIsCurrent ==
    /\ TypeOK
    /\ kind = "group" /\ writing = {} /\ ~missed => mirror = Profile

\* In the end every job is done, the facts of all messages enqueued are extracted, and the
\* mirror is written.
MemorySettles ==
    <>[](/\ jobs = {} /\ waiting = {} /\ writing = {}
         /\ "facts" \in types => progress.through >= past.asked
         /\ \A w \in Workers : work[w] = Idle)
==============================================================================
