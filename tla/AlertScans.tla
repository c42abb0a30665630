----------------------------- MODULE AlertScans -----------------------------
(* The scans of group messages for keywords and what an alert discloses           *)
(* (plugins/content_alert: service.py, rules.py, engine.py, catalog.py,            *)
(* commands.py, matcher.py).                                                       *)
(*                                                                                *)
(* A message is admitted, scanned in threads by the rules of the managed catalog  *)
(* and by literal rules, and reported; meanwhile rules and generations change,    *)
(* the rule file is damaged, calls are cancelled and the process dies.  Text is   *)
(* a sequence of segments of letters, taken as normalised.                        *)
EXTENDS Integers, FiniteSets, SequencesExt

CONSTANTS
    Events,         \* messages that arrive
    Messages,       \* what they say: segments of text and the name of the sender
    Cases,          \* where behaviours start: rule file, messages, upsets to come
    Generations,    \* generations of the managed catalog
    Entries,        \* the rules of each generation
    Patterns,       \* patterns of manual rules
    Legacy,         \* patterns of the legacy rule file
    Absent,         \* no generation, no report
    Gap,            \* MAX_CONTEXT_GAP
    ScanLimit,      \* matches a scan may find
    MaxAdmitted,    \* _MAX_ADMITTED_SCANS
    MaxScans        \* _MAX_CONCURRENT_MANAGED_SCANS

Text == Seq(STRING)
\* about: the names a context applies to, all of them if it is empty.
Rule == [pattern : Text, mode : {"direct", "context", "support"}, strict : BOOLEAN,
         political : BOOLEAN, about : SUBSET Text]
ASSUME RulesAssumption ==
    /\ Absent \notin Generations
    /\ Entries \in [Generations -> SUBSET Rule]
    /\ Patterns \cup Legacy \subseteq Text
    /\ Messages \subseteq [text : Seq(Text), name : Text]
    /\ \A c \in Cases :
        /\ c.file \in {<<"absent", {}>>} \cup ({"rules"} \X SUBSET Patterns)
        /\ c.says \in [Events -> Messages \cup {Absent}] /\ c.upsets \in Nat
ASSUME ScanBounds ==
    {MaxAdmitted, MaxScans} \subseteq Nat \ {0} /\ {Gap, ScanLimit} \subseteq Nat

VARIABLES
    on,         \* the runtime switch of the feature
    active,     \* the generation the catalog's pointer names
    file,       \* the manual rules on disk, or why they cannot be read
    memory,     \* KeywordRuleStore._document
    possible,   \* the rules that may be in force, by the replies to the operators
    upsets,     \* bound: changes, failures and cancellations still to come
    says,       \* the message of each event, or Absent if it does not come
    fresh,      \* whether it is still recent enough
    stage,      \* where the call for it is
    found,      \* what its scans have found
    report,     \* its alert in the ledger
    admitted,   \* _admitted_scans
    scans,      \* permits of _scan_semaphore in use
    guard       \* _overflow_guard_inflight

rules == <<file, memory, possible>>
slots == <<admitted, scans, guard>>
calls == <<stage, found, report, slots>>
watch == <<on, active, rules, upsets, says, fresh, calls>>

-----------------------------------------------------------------------------
(* Matching.                                                                    *)

\* A match is a span of a segment with the pattern of a rule.
MatchesAt(set, segment, start, end) ==
    {[rule |-> r, start |-> start, end |-> end] :
        r \in {x \in set : end <= Len(segment) /\ x.pattern = SubSeq(segment, start, end)}}
Overlap(m, n) == m.start <= n.end /\ n.start <= m.end

\* Variant: rules of different disclosure compete for a span.
SameGroupAlways(r, s) == r # s /\ r.mode = s.mode /\ r.mode # "support"
\* Rules compete within their policy and mode; contexts do not compete.
SameGroup(r, s) == r # s /\ r.strict = s.strict /\ r.mode = s.mode /\ r.mode # "support"

\* Longer matches first, then earlier ones; a match is taken unless one that is taken
\* overlaps it: any one, or with `grouped` one of a rule it competes with.
Free(m, taken, grouped) ==
    \A t \in taken : ~(Overlap(t, m) /\ (grouped => SameGroup(t.rule, m.rule)))
TakenOfLength(set, segment, grouped, length, longer) ==
    LET taken[i \in 0..Len(segment)] ==
            IF i = 0 THEN longer
            ELSE taken[i - 1] \cup {m \in MatchesAt(set, segment, i, i + length - 1) :
                                        Free(m, taken[i - 1], grouped)}
    IN taken[Len(segment)]
Taken(set, segment, grouped) ==
    LET n == Len(segment)
        taken[k \in 0..n] ==
            IF k = 0 THEN {}
            ELSE TakenOfLength(set, segment, grouped, n + 1 - k, taken[k - 1])
    IN taken[n]

Near(m, c) ==
    /\ ~Overlap(m, c)
    /\ (IF m.end < c.start THEN c.start - m.end ELSE m.start - c.end) <= Gap + 1
Supports(m, c) ==
    /\ c.rule.mode = "support" /\ Near(m, c)
    /\ c.rule.about = {} \/ m.rule.pattern \in c.rule.about

\* What a segment has for the managed rules: names count where a context is near.
InSegment(set, segment) ==
    LET taken == Taken(set, segment, TRUE)
    IN [count |-> Cardinality(taken),
        hits |-> {m.rule : m \in {x \in taken :
                    \/ x.rule.mode = "direct"
                    \/ /\ x.rule.mode = "context"
                       /\ \E c \in taken : Supports(x, c)}}]
\* A scan says what it hits, or that there is too much to look at.
ManagedScan(set, segments) ==
    LET each == [i \in 1..Len(segments) |-> InSegment(set, segments[i])] IN
    [over |-> SumFunction([i \in 1..Len(segments) |-> each[i].count]) > ScanLimit,
     hits |-> UNION {each[i].hits : i \in 1..Len(segments)}]

AsRules(patterns) ==
    {[pattern |-> p, mode |-> "direct", strict |-> FALSE, political |-> FALSE,
      about |-> {}] : p \in patterns}
Candidates(set, segment) ==
    UNION {MatchesAt(set, segment, i, j) : i \in 1..Len(segment), j \in 1..Len(segment)}
\* Literal rules have no groups: any overlap excludes.
LiteralScan(patterns, segments) ==
    LET set == AsRules(patterns)
        count == [i \in 1..Len(segments) |-> Cardinality(Candidates(set, segments[i]))]
    IN [over |-> SumFunction(count) > ScanLimit,
        hits |-> UNION {{m.rule.pattern : m \in Taken(set, segments[i], FALSE)} :
                            i \in 1..Len(segments)}]

\* The scans that can happen, so that each is worked out once.
Texts == {m.text : m \in Messages} \cup {<<m.name>> : m \in Messages}
ManagedScans == [g \in Generations |-> [t \in Texts |-> ManagedScan(Entries[g], t)]]
LiteralScans ==
    [S \in {{}, Legacy} \cup SUBSET Patterns |-> [t \in Texts |-> LiteralScan(S, t)]]

-----------------------------------------------------------------------------
(* The manual rules.                                                            *)

Readable == file[1] = "rules"
File(patterns) == <<"rules", patterns>>
\* Variant: a file that cannot be read has no rules.
EmptyIfUnreadable == IF Readable THEN file[2] ELSE {}
\* KeywordRuleStore.snapshot: a file that cannot be read leaves the last good rules.
InForce == IF Readable THEN file[2] ELSE memory
Upset ==
    /\ upsets > 0
    /\ upsets' = upsets - 1

\* A command is answered with success, or with failure: the new file may be in place.
Persist(new, kept) ==
    \/ file' = File(new) /\ memory' = new /\ possible' = kept
    \/ file' \in {file, File(new)} /\ memory' = InForce /\ possible' = possible \cup kept
AddRule(p) ==
    /\ Upset
    /\ IF p \in InForce
       THEN memory' = InForce /\ UNCHANGED <<file, possible>>
       ELSE Persist(InForce \cup {p}, {S \cup {p} : S \in possible})
    /\ UNCHANGED <<on, active, says, fresh, calls>>
RemoveRule(p) ==
    /\ Upset
    /\ IF p \in InForce
       THEN Persist(InForce \ {p}, {S \ {p} : S \in possible})
       ELSE memory' = InForce /\ UNCHANGED <<file, possible>>
    /\ UNCHANGED <<on, active, says, fresh, calls>>
Command == \E p \in Patterns : AddRule(p) \/ RemoveRule(p)

\* By hand: the file is deleted or replaced by something that is no rule file.
Damage(how) ==
    /\ Upset
    /\ file' = <<how, {}>>
    /\ UNCHANGED <<on, active, memory, possible, says, fresh, calls>>

-----------------------------------------------------------------------------
(* The calls.                                                                   *)

\* What a call has found; gen is Absent also when no generation is active.
Unscanned == [manual |-> {}, due |-> {}, gen |-> Absent, managed |-> {}, name |-> FALSE,
              literal |-> {}, legacy |-> FALSE, over |-> FALSE]
Phases == {"waits", "runs", "names", "ends", "orphaned"}
Scanning == {"managed", "literal", "excerpt"} \X Phases
Alerting == {"persist", "deliver"} \X {"admitted", "guard"}
Endings == {"nothing", "closed", "overload", "refused", "reported", "cancelled", "lost"}
Places == {<<"new", "">>} \cup Scanning \cup Alerting \cup ({"done"} \X Endings)
\* A thread of the call works.
Threads == Scanning \ ({"managed", "literal", "excerpt"} \X {"waits"})

\* _eligible: the switch, and the age of the message.
Eligible(h) == on /\ fresh[h]

MovesTo(h, to) == stage' = [stage EXCEPT ![h] = to] /\ UNCHANGED <<admitted, guard>>
\* The finally blocks: the admission or the guard is given back.
Return(h, ending) ==
    /\ stage' = [stage EXCEPT ![h] = <<"done", ending>>]
    /\ IF stage[h][2] = "guard"
       THEN guard' = FALSE /\ UNCHANGED admitted
       ELSE admitted' = admitted - 1 /\ UNCHANGED guard

\* Too many admitted calls: one of them still leaves a hidden alert.
Arrive(h) ==
    /\ stage[h] = <<"new", "">> /\ says[h] # Absent /\ Eligible(h)
    /\ IF admitted < MaxAdmitted
       THEN /\ admitted' = admitted + 1
            /\ memory' = InForce
            /\ found' = [found EXCEPT ![h].manual = InForce,
                                      ![h].due = {p \in Patterns : \A S \in possible : p \in S}]
            /\ stage' = [stage EXCEPT ![h] = <<"managed", "waits">>]
            /\ UNCHANGED guard
       ELSE /\ guard' = TRUE
            /\ found' = [found EXCEPT ![h].over = ~guard]
            /\ stage' = [stage EXCEPT ![h] = IF guard THEN <<"done", "overload">>
                                                      ELSE <<"persist", "guard">>]
            /\ UNCHANGED <<admitted, memory>>
    /\ UNCHANGED <<on, active, file, possible, upsets, says, fresh, report, scans>>

\* Variant: one permit is never given out.
PermitKept == scans < MaxScans - 1
Permit == scans < MaxScans
BeginScan(h) ==
    /\ stage[h] \in Scanning /\ stage[h][2] = "waits" /\ Permit
    /\ IF Eligible(h)
       THEN MovesTo(h, <<stage[h][1], "runs">>) /\ scans' = scans + 1
       ELSE Return(h, "closed") /\ UNCHANGED scans
    /\ UNCHANGED <<on, active, rules, upsets, says, fresh, found, report>>

\* The hits of a scan that reaches its limit are thrown away.
Limited(scan) == IF scan.over THEN [scan EXCEPT !.hits = {}] ELSE scan

\* In the thread: one generation for the message and for the name.
ScanManaged(h) ==
    LET scan == IF active = Absent THEN [over |-> FALSE, hits |-> {}]
                ELSE Limited(ManagedScans[active][says[h].text])
    IN
    /\ stage[h] = <<"managed", "runs">>
    /\ found' = [found EXCEPT ![h].gen = active, ![h].managed = scan.hits, ![h].over = scan.over]
    /\ MovesTo(h, <<"managed", IF (\E r \in scan.hits : r.political) /\ \E r \in scan.hits : r.strict
                            THEN "names" ELSE "ends">>)
    /\ UNCHANGED <<on, active, rules, upsets, says, fresh, report, scans>>
ScanName(h) ==
    LET scan == Limited(ManagedScans[found[h].gen][<<says[h].name>>]) IN
    /\ stage[h] = <<"managed", "names">>
    /\ found' = [found EXCEPT ![h].managed = IF scan.over THEN {} ELSE @, ![h].over = scan.over,
                              ![h].name = \E r \in scan.hits : r.strict]
    /\ MovesTo(h, <<"managed", "ends">>)
    /\ UNCHANGED <<on, active, rules, upsets, says, fresh, report, scans>>

Hit(f) == f.managed # {} \/ f.literal # {} \/ f.legacy \/ f.over
Strict(f) == f.over \/ f.legacy \/ \E r \in f.managed : r.strict
Political(f) == \E r \in f.managed : r.political

\* Nothing was found, or the alert is written: a protected one without an excerpt.
Conclude(h, f) ==
    IF ~Hit(f) THEN Return(h, "nothing")
    ELSE IF ~Eligible(h) THEN Return(h, "closed")
    ELSE MovesTo(h, IF Strict(f) THEN <<"persist", "admitted">> ELSE <<"excerpt", "waits">>)
\* The legacy rules stand in for a catalog that is not active.
EndManaged(h) ==
    /\ stage[h] = <<"managed", "ends">>
    /\ scans' = scans - 1
    /\ IF found[h].manual # {} \/ (found[h].gen = Absent /\ Legacy # {})
       THEN MovesTo(h, <<"literal", "waits">>)
       ELSE Conclude(h, found[h])
    /\ UNCHANGED <<on, active, rules, upsets, says, fresh, found, report>>

EndLiteral(h) ==
    LET manual == LiteralScans[found[h].manual][says[h].text]
        legacy == LiteralScans[IF found[h].gen = Absent THEN Legacy ELSE {}][says[h].text]
        over == manual.over \/ legacy.over
    IN
    /\ stage[h] = <<"literal", "runs">>
    /\ scans' = scans - 1
    /\ found' = [found EXCEPT ![h].literal = IF over THEN {} ELSE manual.hits,
                              ![h].legacy = ~over /\ legacy.hits # {}, ![h].over = @ \/ over]
    /\ Conclude(h, found'[h])
    /\ UNCHANGED <<on, active, rules, upsets, says, fresh, report>>

EndExcerpt(h) ==
    /\ stage[h] = <<"excerpt", "runs">>
    /\ scans' = scans - 1
    /\ MovesTo(h, <<"persist", "admitted">>)
    /\ UNCHANGED <<on, active, rules, upsets, says, fresh, found, report>>

\* A political alert names the sender unless the name is protected itself.
NameShown(f) == IF Political(f) /\ Strict(f) THEN ~(f.name \/ f.legacy) ELSE ~Strict(f)
TermsShown(f) == IF Strict(f) THEN {} ELSE f.literal \cup {r.pattern : r \in f.managed}
Rendered(f) ==
    [gen |-> f.gen, over |-> f.over, excerpt |-> ~Strict(f), name |-> NameShown(f),
     terms |-> TermsShown(f)]
\* The ledger takes the alert, or refuses an event it knows or a full queue.
PersistAlert(h) ==
    /\ stage[h][1] = "persist"
    /\ \/ ~Eligible(h) /\ Return(h, "closed") /\ UNCHANGED report
       \/ Eligible(h) /\ Return(h, "refused") /\ UNCHANGED report
       \/ /\ Eligible(h)
          /\ report' = [report EXCEPT ![h] = Rendered(found[h])]
          /\ MovesTo(h, <<"deliver", stage[h][2]>>)
    /\ UNCHANGED <<on, active, rules, upsets, says, fresh, found, scans>>
EndDelivery(h) ==
    /\ stage[h][1] = "deliver"
    /\ Return(h, "reported")
    /\ UNCHANGED <<on, active, rules, upsets, says, fresh, found, report, scans>>

\* Variant: a cancelled call returns while its thread still runs.
AbandonAtOnce(h) == Return(h, "cancelled")
\* A thread cannot be stopped: the call keeps its permit until the thread has ended.
Abandon(h) ==
    IF stage[h] \in Threads THEN MovesTo(h, <<stage[h][1], "orphaned">>) ELSE Return(h, "cancelled")
Cancel(h) ==
    /\ stage[h][1] \notin {"new", "done"} /\ stage[h][2] # "orphaned"
    /\ Upset
    /\ Abandon(h)
    /\ UNCHANGED <<on, active, rules, says, fresh, found, report, scans>>
EndOrphan(h) ==
    /\ stage[h] \in Scanning /\ stage[h][2] = "orphaned"
    /\ scans' = scans - 1
    /\ Return(h, "cancelled")
    /\ UNCHANGED <<on, active, rules, upsets, says, fresh, found, report>>

-----------------------------------------------------------------------------
(* The surroundings.                                                            *)

Toggle ==
    /\ Upset
    /\ on' = ~on
    /\ UNCHANGED <<active, rules, says, fresh, calls>>
Activate(g) ==
    /\ Upset
    /\ g # active /\ active' = g
    /\ UNCHANGED <<on, rules, says, fresh, calls>>
Age(h) ==
    /\ Upset
    /\ fresh[h] /\ fresh' = [fresh EXCEPT ![h] = FALSE]
    /\ UNCHANGED <<on, active, rules, says, calls>>
\* The process dies and is started again: rules that cannot be read are lost.
StartAnew ==
    /\ Upset
    /\ memory' = IF Readable THEN file[2] ELSE {}
    /\ possible' = IF Readable THEN possible ELSE {{}}
    /\ stage' = [h \in Events |-> IF stage[h][1] \in {"new", "done"} THEN stage[h]
                                  ELSE <<"done", "lost">>]
    /\ admitted' = 0 /\ scans' = 0 /\ guard' = FALSE
    /\ UNCHANGED <<on, active, file, says, fresh, found, report>>

ScanInit ==
    /\ on = TRUE
    /\ active \in Generations \cup {Absent}
    /\ \E c \in Cases : file = c.file /\ says = c.says /\ upsets = c.upsets
    /\ memory = file[2]
    /\ possible = {memory}
    /\ fresh = [h \in Events |-> TRUE]
    /\ stage = [h \in Events |-> <<"new", "">>]
    /\ found = [h \in Events |-> Unscanned]
    /\ report = [h \in Events |-> Absent]
    /\ admitted = 0 /\ scans = 0 /\ guard = FALSE

CallStep(h) ==
    \/ BeginScan(h) \/ ScanManaged(h) \/ ScanName(h) \/ EndManaged(h) \/ EndLiteral(h)
    \/ EndExcerpt(h) \/ PersistAlert(h) \/ EndDelivery(h) \/ EndOrphan(h)
ScanNext ==
    \/ \E h \in Events : Arrive(h) \/ CallStep(h) \/ Cancel(h) \/ Age(h)
    \/ Command
    \/ \E how \in {"absent", "damaged"} : Damage(how)
    \/ \E g \in Generations \cup {Absent} : Activate(g)
    \/ Toggle \/ StartAnew

\* The event loop, the threads and the calls of the platform, which time out, go on.
ScanSpec == ScanInit /\ [][ScanNext]_watch /\ WF_watch(\E h \in Events : CallStep(h))

-----------------------------------------------------------------------------
(* Correctness.                                                                 *)

\* Every variable has its type.
ScanTypeOK ==
    /\ on \in BOOLEAN /\ guard \in BOOLEAN
    /\ active \in Generations \cup {Absent}
    /\ file \in {"rules", "absent", "damaged"} \X SUBSET Patterns
    /\ memory \subseteq Patterns
    /\ possible \subseteq SUBSET Patterns
    /\ upsets \in Nat
    /\ says \in [Events -> Messages \cup {Absent}]
    /\ fresh \in [Events -> BOOLEAN]
    /\ stage \in [Events -> Places]
    /\ \A h \in Events :
        /\ found[h].due \cup found[h].manual \cup found[h].literal \subseteq Patterns
        /\ found[h].gen \in Generations \cup {Absent}
        /\ found[h].gen = Absent => found[h].managed = {}
        /\ {found[h].name, found[h].legacy, found[h].over} \subseteq BOOLEAN
    /\ admitted \in 0..MaxAdmitted /\ scans \in 0..MaxScans

\* The admissions, the permits and the guard of service.py are held by calls under way
\* and by no others, also by a cancelled call that waits for its thread: none leaks and
\* no more threads scan than there are permits (test_content_alert_scan_cancellation.py).
\* The variables have their types.
SlotsMatch ==
    /\ ScanTypeOK
    /\ admitted = Cardinality({h \in Events : stage[h] \in Scanning \cup
                                   {<<"persist", "admitted">>, <<"deliver", "admitted">>}})
    /\ scans = Cardinality({h \in Events : stage[h] \in Threads})
    /\ guard = \E h \in Events : stage[h] \in Alerting /\ stage[h][2] = "guard"

Within(p, segment) ==
    \E i, j \in 1..Len(segment) : i <= j /\ SubSeq(segment, i, j) = p
HasPattern(h, p) == \E i \in 1..Len(says[h].text) : Within(p, says[h].text[i])
\* Patterns that must not be shown: of the generation that was used, or the legacy ones.
Protected(gen) ==
    IF gen = Absent THEN Legacy
    ELSE {r.pattern : r \in {x \in Entries[gen] : x.strict /\ x.mode = "direct"}}
\* An alert on a message with a protected pattern has no excerpt and no terms, and names the
\* sender only if the name has no such pattern in the same generation (README.md,
\* DELIVERY.md); no term that is shown has one within it, and neither has an alert on a
\* scan that was cut short an excerpt or terms.
ProtectedStaysHidden ==
    \A h \in {x \in Events : report[x] # Absent} :
        LET shown == report[h]
            secrets == Protected(shown.gen)
            hidden == ~shown.excerpt /\ shown.terms = {} IN
        /\ shown.over => hidden
        /\ (\E p \in secrets : HasPattern(h, p)) =>
            /\ hidden
            /\ shown.name => \A p \in secrets : ~Within(p, says[h].name)
        /\ \A t \in shown.terms, p \in secrets : ~Within(p, t)

\* A call that finds nothing has looked everywhere: its message has no manual rule that was
\* in force when it came, by the replies to the commands, whatever had happened to the rule
\* file meanwhile, and no direct rule of the generation in use or else of the legacy file
\* (KeywordRuleStore keeps its last good rules; service.py falls back to the legacy rules).
HitsAreReported ==
    [][\A h \in Events :
        (stage'[h] = <<"done", "nothing">> /\ stage[h] # stage'[h]) =>
            /\ \A p \in found[h].due : ~HasPattern(h, p)
            /\ IF found[h].gen = Absent
               THEN \A p \in Legacy : ~HasPattern(h, p)
               ELSE \A r \in Entries[found[h].gen] : r.mode = "direct" => ~HasPattern(h, r.pattern)
      ]_watch

\* Every call that has begun ends, so admissions and permits come back: again and again no
\* call is under way.
CallsEnd == []<>(\A h \in Events : stage[h][1] \in {"new", "done"})
=============================================================================
