--------------------------- MODULE ManagedCatalog ---------------------------
(* The managed keyword catalogue (plugins/content_alert/catalog.py and          *)
(* scripts/import_content_alert_catalog.py): immutable generations, the pointer *)
(* current.json that names the active one, the script that builds, publishes    *)
(* and rolls back, and the reader of the running bot.                           *)
(*                                                                              *)
(* The script holds import.lock from its first look at the pointer to its end,  *)
(* so at most one job is under way; it may die between two of its steps and in  *)
(* the middle of a backup file.  A generation is one value, complete or damaged *)
(* on the disk; a fingerprint is a number that no two pointer files share.      *)
EXTENDS Integers, FiniteSets

CONSTANTS
    Generations,    \* generations, by their id: builds to come and old ones
    Content,        \* the document of each generation
    Installed,      \* generations that older scripts have left on the disk: the bot still
                    \* accepts them, this script would no longer build them
    Contents,       \* documents on which the two validators are compared
    Required,       \* REQUIRED_CATEGORY_IDS; all have a known policy
    Absent,         \* no pointer file, no generation
    MaxJobs,        \* bound: runs of the script
    MaxUpsets       \* bound: generations damaged, failing calls of the file system,
                    \* changes of the legacy rules and restarts of the bot

\* People and statuses an entry may have; who is about: a leader's own reference, or the
\* leaders to which a context applies, all of them when empty.
Entry == [cat : STRING, kind : {"plain", "event", "leader", "context"},
          mode : {"direct", "contextual", "support"}, strong : BOOLEAN, status : STRING,
          about : SUBSET STRING, reviewed : BOOLEAN]
ASSUME BoundsAssumption == {MaxJobs, MaxUpsets} \subseteq Nat
ASSUME GenerationsAssumption ==
    /\ Absent \notin Generations /\ Installed \subseteq Generations /\ IsFiniteSet(Generations)
    /\ DOMAIN Content = Generations
    /\ {"political_cn", "gender_conflict"} \subseteq Required

VARIABLES
    pointer,    \* current.json: the generation it names and its fingerprint
    writes,     \* pointer files written so far
    dir,        \* what generations/<id> holds
    backup,     \* what backups/content-alert/before-<id> holds
    legacy,     \* the legacy rule file, as the number of its changes
    job,        \* the run of the script that holds import.lock
    jobs,       \* runs so far
    upsets,     \* damages, failing calls, edits and restarts so far
    reader,     \* the catalogue object of the running bot
    replaced    \* what the last activation of each generation has replaced

disk == <<pointer, writes, dir, backup, legacy>>
script == <<job, jobs>>
vars == <<disk, script, upsets, reader, replaced>>

-----------------------------------------------------------------------------
(* What a document must be, for the script and for the bot.                     *)

Active(c) == {e \in c.entries : e.cat \in c.enabled /\ e.status = "active"}
Of(c, kind) == {e \in Active(c) : e.kind = kind}

\* The categories whose policy would be weakened; the reader lets the first version hide
\* its political category.
Downgraded(c) == {cat \in c.cats \cap Required : cat \in c.hidden}

\* The semantics of an active political entry of the second version.
Typed(e) ==
    \/ e.kind = "event" /\ e.mode = "direct"
    \/ e.kind = "leader" /\ e.mode \in {"direct", "contextual"}
    \/ e.kind = "context" /\ e.mode = "support"
Distinct(leaders) == \A d, e \in leaders : d.about = e.about => d = e
\* Something alerts, and every leader that needs a context has one.
Alive(c) ==
    LET leaders == Of(c, "leader")
        strong == {e \in Of(c, "context") : e.strong}
        contextual == UNION {e.about : e \in {l \in leaders : l.mode = "contextual"}}
    IN  /\ Of(c, "event") # {} \/ leaders # {}
        /\ \/ \E e \in strong : e.about = {}
           \/ contextual \subseteq UNION {e.about : e \in strong}
References(c) ==
    UNION {e.about : e \in Of(c, "context")} \subseteq UNION {e.about : e \in Of(c, "leader")}

\* The reader accepts a generation.
Loads(c) ==
    /\ c.version \in {1, 2}
    /\ Downgraded(c) \subseteq (IF c.version = 1 THEN {"political_cn"} ELSE {})
    /\ c.version = 2 =>
        /\ Required \subseteq c.cats /\ "political_cn" \in c.enabled
        /\ \A e \in c.entries : e.cat \in c.enabled =>
            e.status = "active" /\ e.cat = "political_cn" /\ Typed(e) /\ e.reviewed
        /\ Distinct(Of(c, "leader")) /\ References(c) /\ Alive(c)

\* Variant: the script lets an enabled category hold entries that do not alert.
AlertingAny(c, e) == e.status = "active" => e.cat = "political_cn"
Alerting(c, e) ==
    /\ e.status = "active" => e.cat = "political_cn"
    /\ c.version = 2 => e.status = "active"
\* The script accepts a build.
Builds(c) ==
    /\ c.version \in {1, 2}
    /\ Required \subseteq c.cats /\ Downgraded(c) = {}
    /\ \A e \in c.entries : e.cat \in c.enabled => Alerting(c, e)
    /\ \A e \in c.entries :
        e.cat \in {"political_cn", "gender_conflict"} /\ e.status = "active" => e.reviewed
    /\ c.version = 2 =>
        /\ "political_cn" \in c.enabled
        /\ \A e \in c.entries : e.cat = "political_cn" /\ e.status = "active" =>
            e.kind \in {"event", "leader"} /\ e.mode = "direct"
        /\ Distinct({e \in c.entries : e.cat = "political_cn" /\ e.kind = "leader"})
        /\ Of(c, "event") \cup Of(c, "leader") # {}

ASSUME InstalledAssumption ==
    \A g \in Installed : Loads(Content[g]) /\ ~Builds(Content[g])

\* The script accepts a generation that is or was active.
Verifies(c, needsReview) ==
    /\ Required \subseteq c.cats
    /\ Downgraded(c) \subseteq (IF c.version = 1 THEN {"political_cn"} ELSE {})
    /\ needsReview => \A e \in c.entries :
        e.cat = "gender_conflict" /\ e.status = "active" => e.reviewed

Complete(g) == dir[g] = "complete"
Intact(g, needsReview) == Complete(g) /\ Verifies(Content[g], needsReview)
RuntimeLoads(g) == Complete(g) /\ Loads(Content[g])

-----------------------------------------------------------------------------
(* The script.                                                                  *)

Steps == {"idle", "current", "generation", "verify", "backup", "legacy", "publish", "confirm",
          "restore", "restored"}
Idle == [step |-> "idle", kind |-> "import", gen |-> Absent, old |-> Absent, legacy |-> 0]
\* A backup: the pointer or the note that there was none, and the legacy rules; 0 is no
\* file, Partial one whose writing was cut off.
Partial == -1
NoBackup == [json |-> 0, absent |-> 0, legacy |-> 0]
Exists(file) == file # 0

Upset == upsets < MaxUpsets /\ upsets' = upsets + 1

Goes(step) == job' = [job EXCEPT !.step = step] /\ UNCHANGED jobs
Ends == job' = Idle /\ UNCHANGED jobs

StartImport(g) ==
    /\ job.step = "idle" /\ jobs < MaxJobs /\ Builds(Content[g])
    /\ job' = [step |-> "current", kind |-> "import", gen |-> g, old |-> pointer.gen,
               legacy |-> legacy]
    /\ jobs' = jobs + 1
    /\ UNCHANGED <<disk, upsets, reader, replaced>>

\* The active generation must be sound before it is replaced.
CheckCurrent ==
    /\ job.step = "current"
    /\ IF job.old = Absent \/ (Intact(job.old, FALSE) /\ RuntimeLoads(job.old))
       THEN Goes("generation") ELSE Ends
    /\ UNCHANGED <<disk, upsets, reader, replaced>>

\* A generation is written aside and renamed; one that exists must be the same.
WriteGeneration ==
    /\ job.step = "generation"
    /\ CASE dir[job.gen] = "none" ->
              dir' = [dir EXCEPT ![job.gen] = "complete"] /\ Goes("verify")
         [] dir[job.gen] = "complete" ->
              UNCHANGED dir /\ IF job.old = job.gen THEN Ends ELSE Goes("verify")
         [] OTHER -> UNCHANGED dir /\ Ends
    /\ UNCHANGED <<pointer, writes, backup, legacy, upsets, reader, replaced>>

VerifyNew ==
    /\ job.step = "verify"
    /\ IF RuntimeLoads(job.gen) THEN Goes("backup") ELSE Ends
    /\ UNCHANGED <<disk, upsets, reader, replaced>>

\* A backup file is written once: a later job must have the same to keep.
FileOf(old) == IF old = Absent THEN "absent" ELSE "json"
\* Variant: a file that exists is kept, whatever it holds.
SavesAny(file, value) == IF Exists(file) THEN file ELSE value
Saves(file, value) == IF Exists(file) /\ file # value THEN Partial ELSE value
Keep(f, value, next) ==
    LET kept == Saves(backup[job.gen][f], value) IN
    IF kept = Partial THEN UNCHANGED backup /\ Ends
    ELSE backup' = [backup EXCEPT ![job.gen][f] = kept] /\ Goes(next)
\* Generations as numbers, for a file of either kind.
Order == CHOOSE f \in [Generations -> 1..Cardinality(Generations)] :
            \A g, h \in Generations : f[g] = f[h] => g = h
Bytes(old) == IF old = Absent THEN 1 ELSE Order[old]

BackUpPointer ==
    /\ job.step = "backup"
    /\ Keep(FileOf(job.old), Bytes(job.old), "legacy")
    /\ UNCHANGED <<pointer, writes, dir, legacy, upsets, reader, replaced>>
BackUpLegacy ==
    /\ job.step = "legacy"
    /\ IF job.legacy = 0 THEN Goes("publish") /\ UNCHANGED backup
                         ELSE Keep("legacy", job.legacy, "publish")
    /\ UNCHANGED <<pointer, writes, dir, legacy, upsets, reader, replaced>>

Writes(g) ==
    /\ pointer' = [gen |-> g, stamp |-> IF g = Absent THEN 0 ELSE writes + 1]
    /\ writes' = IF g = Absent THEN writes ELSE writes + 1
Publish ==
    /\ job.step = "publish"
    /\ Writes(job.gen) /\ Goes("confirm")
    /\ replaced' = IF job.kind = "import" THEN [replaced EXCEPT ![job.gen] = job.old]
                                          ELSE replaced
    /\ UNCHANGED <<dir, backup, legacy, upsets, reader>>

Confirm ==
    /\ job.step = "confirm"
    /\ IF Intact(job.gen, job.kind = "rollback") THEN Ends ELSE Goes("restore")
    /\ UNCHANGED <<disk, upsets, reader, replaced>>
Restore ==
    /\ job.step = "restore"
    /\ Writes(job.old) /\ Ends
    /\ UNCHANGED <<dir, backup, legacy, upsets, reader, replaced>>

\* What the backup of the active generation names; several answers are no answer.
Previous(g) ==
    {h \in Generations \cup {Absent} :
        /\ Exists(backup[g].json) # Exists(backup[g].absent)
        /\ IF h = Absent THEN Exists(backup[g].absent) ELSE backup[g].json = Order[h]}
StartRollback ==
    /\ job.step = "idle" /\ jobs < MaxJobs /\ pointer.gen # Absent
    /\ Intact(pointer.gen, FALSE)
    /\ \E old \in Previous(pointer.gen) :
        /\ old # Absent => Intact(old, TRUE) /\ RuntimeLoads(old)
        /\ job' = [step |-> IF old = Absent THEN "restored" ELSE "publish", kind |-> "rollback",
                   gen |-> old, old |-> pointer.gen, legacy |-> 0]
    /\ jobs' = jobs + 1
    /\ UNCHANGED <<disk, upsets, reader, replaced>>
RemovePointer ==
    /\ job.step = "restored"
    /\ Writes(Absent) /\ Ends
    /\ UNCHANGED <<dir, backup, legacy, upsets, reader, replaced>>

\* A call of the file system fails: the job ends, or puts the old pointer back.
Fault ==
    /\ job.step # "idle" /\ Upset
    /\ IF job.step \in {"publish", "confirm"} THEN Goes("restore") ELSE Ends
    /\ UNCHANGED <<disk, reader, replaced>>

\* The script dies; a backup file may be cut off.
Writing == [backup |-> FileOf(job.old), legacy |-> "legacy"]
Crash ==
    /\ job.step # "idle" /\ Ends
    /\ \/ UNCHANGED backup
       \/ /\ job.step \in DOMAIN Writing
          /\ ~Exists(backup[job.gen][Writing[job.step]])
          /\ job.step = "legacy" => job.legacy > 0
          /\ backup' = [backup EXCEPT ![job.gen][Writing[job.step]] = Partial]
    /\ UNCHANGED <<pointer, writes, dir, legacy, upsets, reader, replaced>>

-----------------------------------------------------------------------------
(* The reader: one call of snapshot at a time.                                  *)

Never == -1
Fresh == [step |-> "idle", stamp |-> 0, gen |-> Absent, snapshot |-> Absent, loaded |-> Never,
          failed |-> Never]
\* Variant: the failure is recorded for the pointer that is there now.
RecordFailureNow ==
    reader' = [Fresh EXCEPT !.snapshot = reader.snapshot, !.loaded = reader.loaded,
                            !.failed = pointer.stamp]
RecordFailure ==
    reader' = [Fresh EXCEPT !.snapshot = reader.snapshot, !.loaded = reader.loaded,
                            !.failed = reader.stamp]
\* Variant: the generation is taken for that of the pointer that is there now.
AdoptNow(g) == reader' = [Fresh EXCEPT !.snapshot = g, !.loaded = pointer.stamp]
Adopt(g) == reader' = [Fresh EXCEPT !.snapshot = g, !.loaded = reader.stamp]

Probe ==
    /\ reader.step = "idle" /\ pointer.stamp \notin {reader.loaded, reader.failed}
    /\ reader' = IF pointer.gen = Absent THEN [reader EXCEPT !.failed = 0]
                 ELSE [reader EXCEPT !.step = "read", !.stamp = pointer.stamp]
    /\ UNCHANGED <<disk, script, upsets, replaced>>
Changed == pointer.stamp # reader.stamp
ReadPointer ==
    /\ reader.step = "read"
    /\ CASE Changed -> RecordFailure
         [] ~Changed /\ pointer.gen = reader.snapshot -> Adopt(pointer.gen)
         [] OTHER -> reader' = [reader EXCEPT !.step = "load", !.gen = pointer.gen]
    /\ UNCHANGED <<disk, script, upsets, replaced>>
LoadGeneration ==
    /\ reader.step = "load"
    /\ IF RuntimeLoads(reader.gen) THEN Adopt(reader.gen) ELSE RecordFailure
    /\ UNCHANGED <<disk, script, upsets, replaced>>
ReadFails ==
    /\ reader.step # "idle" /\ Upset
    /\ RecordFailure
    /\ UNCHANGED <<disk, script, replaced>>
RestartBot ==
    /\ Upset
    /\ reader' = Fresh
    /\ UNCHANGED <<disk, script, replaced>>

-----------------------------------------------------------------------------
\* The disk or a hand damages a generation; the operators edit the legacy rules.
Damage(g) ==
    /\ Complete(g) /\ Upset
    /\ dir' = [dir EXCEPT ![g] = "damaged"]
    /\ UNCHANGED <<pointer, writes, backup, legacy, script, reader, replaced>>
EditLegacy ==
    /\ Upset
    /\ legacy' = legacy + 1
    /\ UNCHANGED <<pointer, writes, dir, backup, script, reader, replaced>>

Init ==
    /\ \E g \in Installed \cup {Absent} :
        pointer = [gen |-> g, stamp |-> IF g = Absent THEN 0 ELSE 1]
    /\ writes = 1
    /\ dir = [g \in Generations |-> IF g \in Installed THEN "complete" ELSE "none"]
    /\ backup = [g \in Generations |-> NoBackup]
    /\ legacy = 0
    /\ job = Idle /\ jobs = 0 /\ upsets = 0
    /\ reader = Fresh
    /\ replaced = [g \in Generations |-> Absent]

JobStep ==
    \/ CheckCurrent \/ WriteGeneration \/ VerifyNew \/ BackUpPointer \/ BackUpLegacy \/ Publish
    \/ Confirm \/ Restore \/ RemovePointer
ReaderStep == Probe \/ ReadPointer \/ LoadGeneration
Next ==
    \/ \E g \in Generations : StartImport(g) \/ Damage(g)
    \/ StartRollback \/ JobStep \/ Fault \/ Crash
    \/ ReaderStep \/ ReadFails \/ RestartBot
    \/ EditLegacy

\* Messages keep coming, and each asks for a snapshot.
Spec == Init /\ [][Next]_vars /\ WF_vars(ReaderStep)

-----------------------------------------------------------------------------
(* Correctness.                                                                 *)

\* Every variable has its type.
TypeOK ==
    /\ pointer \in [gen : Generations \cup {Absent}, stamp : 0..writes]
    /\ writes \in Nat /\ legacy \in 0..MaxUpsets
    /\ dir \in [Generations -> {"none", "complete", "damaged"}]
    /\ LET File == -1..(Cardinality(Generations) + MaxUpsets) IN
       backup \in [Generations -> [json : File, absent : File, legacy : File]]
    /\ job \in [step : Steps, kind : {"import", "rollback"}, gen : Generations \cup {Absent},
                old : Generations \cup {Absent}, legacy : 0..MaxUpsets]
    /\ jobs \in 0..MaxJobs /\ upsets \in 0..MaxUpsets
    /\ reader \in [step : {"idle", "read", "load"}, stamp : 0..writes,
                   gen : Generations \cup {Absent}, snapshot : Generations \cup {Absent},
                   loaded : -1..writes, failed : -1..writes]
    /\ replaced \in [Generations -> Generations \cup {Absent}]

\* Whatever job died at whatever step, the pointer names a whole generation that the bot
\* accepts (catalog.py: validated completely before publication); the bot uses only
\* such generations, and the one that the pointer names whenever it thinks that it is up
\* to date.  The variables have their types.
CatalogIsSound ==
    /\ TypeOK
    /\ pointer.gen # Absent =>
        dir[pointer.gen] # "none" /\ Loads(Content[pointer.gen])
    /\ reader.snapshot # Absent => Loads(Content[reader.snapshot])
    /\ reader.loaded = pointer.stamp => reader.snapshot = pointer.gen

\* A build that the script accepts is one that the bot accepts, and that it will accept
\* as the active generation of a later job (test_import_content_alert_catalog.py:1135): an
\* import is never turned away by the bot's own check unless a file was damaged.
ValidatorsAgree == \A c \in Contents : Builds(c) => Loads(c) /\ Verifies(c, TRUE)
BuildsLoad ==
    /\ ValidatorsAgree
    /\ (job.step = "verify" /\ job.kind = "import" /\ upsets = 0) => RuntimeLoads(job.gen)

\* A rollback brings back exactly what the activation of the present generation replaced,
\* however many activations, rollbacks and dead jobs came before it; and only a restart
\* takes from the bot a generation that it has.
RollbackIsExact ==
    [][/\ (job.kind = "rollback" /\ job.step \in {"publish", "restored"}
              /\ pointer'.gen # pointer.gen)
            => pointer'.gen = replaced[pointer.gen]
       /\ (reader.snapshot # Absent /\ reader' # Fresh) => reader'.snapshot # Absent]_vars

\* When the pointer comes to rest on a whole generation, the bot adopts it, or has met a
\* failing read of exactly this pointer, which it does not read again.
CatalogArrives ==
    \A g \in Generations :
        <>[](pointer.gen = g /\ Complete(g))
            => <>[](reader.snapshot = g \/ (upsets > 0 /\ reader.failed = pointer.stamp))
=============================================================================
