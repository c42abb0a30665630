------------------------ MODULE ManagedCatalog_proofs ------------------------
(* The pointer names a generation that the bot accepts, a rollback brings back   *)
(* what was replaced, and every build that the script accepts is one that the    *)
(* bot accepts: for any documents, any number of generations, of runs of the     *)
(* script, of deaths within them and of damages.                                 *)
EXTENDS ManagedCatalog, FiniteSetTheorems, TLAPS

File == -1..(Cardinality(Generations) + MaxUpsets)
Backups == [json : File, absent : File, legacy : File]
Maybe == Generations \cup {Absent}
Jobs ==
    [step : Steps, kind : {"import", "rollback"}, gen : Maybe, old : Maybe, legacy : 0..MaxUpsets]
Readers ==
    [step : {"idle", "read", "load"}, stamp : Nat, gen : Maybe, snapshot : Maybe,
     loaded : Nat \cup {-1}, failed : Nat \cup {-1}]
Stored ==
    /\ pointer \in [gen : Maybe, stamp : Nat] /\ writes \in Nat \ {0} /\ legacy \in Nat
    /\ dir \in [Generations -> {"none", "complete", "damaged"}]
    /\ backup \in [Generations -> Backups] /\ job \in Jobs /\ reader \in Readers
    /\ jobs \in 0..MaxJobs /\ upsets \in 0..MaxUpsets
    /\ replaced \in [Generations -> Maybe]

(* A pointer has the number of its file, and no two files have the same; only upsets   *)
(* damage a generation and change the legacy rules.                                    *)
Counted ==
    /\ pointer.stamp <= writes /\ (pointer.stamp = 0 <=> pointer.gen = Absent)
    /\ legacy <= upsets /\ (upsets = 0 => \A g \in Generations : dir[g] # "damaged")

Sound(g) == g = Absent \/ (dir[g] # "none" /\ Loads(Content[g]))
Names(g, h) == h \in Previous(g)

(* What the run of the script has made sure of.                                        *)
Wrote == {"verify", "backup", "legacy", "publish", "confirm"}
JobOK ==
    job.step # "idle" =>
        /\ Sound(job.old)
        /\ job.kind = "import" => /\ job.gen \in Generations /\ Builds(Content[job.gen])
                                  /\ job.step # "restored"
        /\ job.kind = "rollback" =>
            /\ job.step \in {"publish", "confirm", "restore", "restored"}
            /\ job.step \in {"publish", "restored"} => job.gen = replaced[job.old] /\ job.old # Absent
            /\ job.step = "restored" => job.gen = Absent
        /\ job.step \in Wrote => job.gen \in Generations /\ dir[job.gen] # "none"
        /\ job.step \in {"backup", "legacy", "publish", "confirm"} => Loads(Content[job.gen])
        /\ job.kind = "import" /\ job.step \in {"legacy", "publish"} =>
            backup[job.gen][FileOf(job.old)] = Bytes(job.old)
        /\ job.step \notin {"confirm", "restore"} => pointer.gen = job.old

(* Generations that are or may again become active: the backup of each names nothing   *)
(* but what its activation replaced, and only an installed one has none.               *)
Used ==
    {pointer.gen} \cup {replaced[g] : g \in Generations}
    \cup (IF job.step = "idle" THEN {} ELSE {job.old})
Kept(g) ==
    /\ \A h \in Maybe : Names(g, h) => h = replaced[g]
    /\ g \in Installed \/ Exists(backup[g].json) \/ Exists(backup[g].absent)
BackupsOK == \A g \in Used : g # Absent => Kept(g)

(* The bot has read the generation of the pointer file whose number it keeps.          *)
ReaderOK ==
    /\ reader.snapshot # Absent => Loads(Content[reader.snapshot])
    /\ reader.stamp <= writes /\ reader.loaded <= writes /\ reader.failed <= writes
    /\ reader.step # "idle" => reader.stamp # 0
    /\ reader.step = "load" => reader.gen # Absent
                               /\ (reader.stamp = pointer.stamp => reader.gen = pointer.gen)
    /\ reader.loaded # 0
    /\ reader.loaded = pointer.stamp => reader.snapshot = pointer.gen

IInv == Stored /\ Counted /\ Sound(pointer.gen) /\ JobOK /\ BackupsOK /\ ReaderOK
-----------------------------------------------------------------------------
(* Documents and files.                                                          *)

\* A build that the script accepts is one that the bot accepts, and the script again.
LEMMA Agreeing ==
    ASSUME NEW c, Builds(c)
    PROVE  Loads(c) /\ Verifies(c, TRUE)
<1>1. c.version \in {1, 2} /\ Required \subseteq c.cats /\ Downgraded(c) = {}
    BY DEF Builds
<1>2. CASE c.version = 2
    <2>1. \A e \in Active(c) : /\ e.cat = "political_cn" /\ e.kind \in {"event", "leader"}
                               /\ e.mode = "direct" /\ e.reviewed /\ e.status = "active"
        BY <1>2 DEF Builds, Alerting, Active
    <2>2. \A e \in c.entries : e.cat \in c.enabled => e.status = "active" /\ e \in Active(c)
        BY <1>2 DEF Builds, Alerting, Active
    <2>3. Of(c, "context") = {} /\ \A e \in Of(c, "leader") : e.mode # "contextual"
        BY <2>1 DEF Of
    <2>4. Of(c, "event") # {} \/ Of(c, "leader") # {}
        BY <1>2 DEF Builds
    <2>5. Distinct(Of(c, "leader"))
        <3>1. Of(c, "leader") \subseteq {e \in c.entries : e.cat = "political_cn" /\ e.kind = "leader"}
            BY <2>1 DEF Of, Active
        <3> QED  BY <1>2, <3>1 DEF Builds, Distinct
    <2>6. References(c)
        BY <2>3 DEF References
    <2>7. Alive(c)
        <3>1. {l \in Of(c, "leader") : l.mode = "contextual"} = {}
            BY <2>3
        <3> QED  BY <2>4, <3>1 DEF Alive
    <2>8. Loads(c)
        BY <1>1, <1>2, <2>1, <2>2, <2>5, <2>6, <2>7 DEF Loads, Typed, Builds
    <2> QED  BY <1>1, <2>8 DEF Verifies, Builds
<1>3. CASE c.version = 1
    BY <1>1, <1>3 DEF Loads, Verifies, Builds
<1> QED  BY <1>1, <1>2, <1>3

\* Each generation has a number of its own.
LEMMA Numbered ==
    /\ Cardinality(Generations) \in Nat
    /\ Order \in [Generations -> 1..Cardinality(Generations)]
    /\ \A g, h \in Generations : Order[g] = Order[h] => g = h
<1> DEFINE n == Cardinality(Generations)
           Good(f) == \A g, h \in Generations : f[g] = f[h] => g = h
<1>1. n \in Nat /\ IsFiniteSet(Generations)
    BY FS_CardinalityType, GenerationsAssumption
<1>2. IsFiniteSet(1..n) /\ Cardinality(1..n) = n
    BY <1>1, FS_Interval
<1>3. ExistsBijection(Generations, 1..n)
    BY <1>1, <1>2, FS_SameCardinalityBij
<1>4. \E f \in [Generations -> 1..n] : Good(f)
    BY <1>3 DEF ExistsBijection, Bijection, Injection, IsInjective
<1>5. Order = CHOOSE f \in [Generations -> 1..n] : Good(f)
    BY DEF Order
<1> QED  BY <1>1, <1>4, <1>5

Stores(g, f, v) ==
    /\ Stored /\ g \in Generations /\ f \in {"json", "absent", "legacy"} /\ v \in File
    /\ backup' = [backup EXCEPT ![g][f] = v]
LEMMA Keeping ==
    ASSUME NEW g, NEW f, NEW v, Stores(g, f, v)
    PROVE  /\ backup' \in [Generations -> Backups]
           /\ \A h \in Generations : h # g => backup'[h] = backup[h]
           /\ backup'[g].json = (IF f = "json" THEN v ELSE backup[g].json)
           /\ backup'[g].absent = (IF f = "absent" THEN v ELSE backup[g].absent)
<1> USE DEF Stores
<1>1. backup \in [Generations -> Backups] /\ backup[g] \in Backups
    BY DEF Stored
<1>2. PICK r : r = [backup[g] EXCEPT ![f] = v]
    OBVIOUS
<1>3. /\ r \in Backups
      /\ r.json = (IF f = "json" THEN v ELSE backup[g].json)
      /\ r.absent = (IF f = "absent" THEN v ELSE backup[g].absent)
    BY <1>1, <1>2 DEF Backups
<1>4. backup' = [backup EXCEPT ![g] = r]
    BY <1>1, <1>2
<1> QED  BY <1>1, <1>3, <1>4

LEMMA FileValue ==
    ASSUME NEW r \in Backups, NEW old
    PROVE  /\ FileOf(old) \in {"json", "absent"}
           /\ r[FileOf(old)] = (IF old = Absent THEN r.absent ELSE r.json)
BY DEF FileOf, Backups

LEMMA AtRest ==
    /\ Idle \in Jobs /\ Idle.step = "idle"
    /\ Fresh \in Readers /\ Fresh.step = "idle" /\ Fresh.stamp = 0 /\ Fresh.snapshot = Absent
    /\ Fresh.loaded = -1 /\ Fresh.failed = -1
<1>1. 0 \in 0..MaxUpsets
    BY BoundsAssumption
<1> QED  BY <1>1 DEF Idle, Jobs, Steps, Maybe, Fresh, Readers, Never

LEMMA Going ==
    ASSUME Stored, NEW step \in Steps, Goes(step)
    PROVE  /\ job' \in Jobs /\ jobs' = jobs /\ job'.step = step /\ job'.kind = job.kind
           /\ job'.gen = job.gen /\ job'.old = job.old /\ job'.legacy = job.legacy
<1>1. job \in Jobs
    BY DEF Stored
<1> QED  BY <1>1 DEF Goes, Jobs

\* Generations do not leave the disk.
Lasting == \A g \in Generations : dir[g] # "none" => dir'[g] # "none"
LEMMA SoundStays ==
    ASSUME Lasting, NEW g \in Maybe, Sound(g)
    PROVE  Sound(g)'
BY DEF Lasting, Maybe, Sound

LEMMA KeptStays ==
    ASSUME NEW g \in Generations, Kept(g), backup'[g].json = backup[g].json,
           backup'[g].absent = backup[g].absent, replaced'[g] = replaced[g]
    PROVE  Kept(g)'
<1>1. \A h \in Maybe : Names(g, h)' => Names(g, h)
    BY DEF Names, Previous, Maybe
<1> QED  BY <1>1 DEF Kept

\* A step that leaves the pointer, the backups and the reader as they are.
LEMMA Aside ==
    ASSUME IInv, UNCHANGED <<pointer, writes, backup, replaced, reader>>, Lasting,
           Stored', Counted', JobOK', job'.step = "idle" \/ job'.old \in Used
    PROVE  IInv'
<1>1. Sound(pointer.gen)'
    <2>1. PICK g \in Maybe : g = pointer.gen
        BY DEF IInv, Stored
    <2> QED  BY <2>1, SoundStays DEF IInv
<1>2. BackupsOK'
    <2>1. \A g \in Used' : g \in Used
        BY DEF Used
    <2>2. \A g \in Used : g # Absent => g \in Generations /\ Kept(g)
        BY DEF IInv, BackupsOK, Used, Stored, Maybe, Jobs
    <2> QED  BY <2>1, <2>2, KeptStays DEF BackupsOK
<1>3. ReaderOK'
    BY DEF IInv, ReaderOK
<1> QED  BY <1>1, <1>2, <1>3 DEF IInv

\* The script gives up.
LEMMA Ending ==
    ASSUME IInv, Ends, UNCHANGED <<pointer, writes, backup, replaced, reader, legacy, dir>>,
           upsets' = upsets \/ Upset
    PROVE  IInv'
<1>1. upsets' \in 0..MaxUpsets /\ upsets <= upsets' /\ upsets \in Nat
    BY BoundsAssumption DEF IInv, Stored, Upset
<1>2. Stored' /\ job'.step = "idle"
    BY <1>1, AtRest DEF IInv, Stored, Ends
<1>3. Counted'
    BY <1>1 DEF IInv, Counted, Stored
<1>4. JobOK' /\ Lasting
    BY <1>2 DEF JobOK, Lasting
<1> QED  BY <1>2, <1>3, <1>4, Aside

\* The script goes on.
LEMMA GoingOn ==
    ASSUME IInv, NEW step \in Steps, Goes(step), job.step # "idle", step # "idle",
           UNCHANGED <<pointer, writes, backup, replaced, reader, legacy>>, upsets' = upsets \/ Upset,
           dir' \in [Generations -> {"none", "complete", "damaged"}], Lasting,
           \A g \in Generations : dir'[g] = "damaged" => dir[g] = "damaged",
           job.kind = "import" => step # "restored",
           job.kind = "rollback" => step \in {"confirm", "restore"},
           step \in Wrote => job.gen \in Generations /\ dir'[job.gen] # "none",
           step \in {"backup", "legacy", "publish", "confirm"} => Loads(Content[job.gen]),
           job.kind = "import" /\ step \in {"legacy", "publish"} =>
                backup[job.gen][FileOf(job.old)] = Bytes(job.old),
           step \notin {"confirm", "restore"} => pointer.gen = job.old
    PROVE  IInv'
<1>1. upsets' \in 0..MaxUpsets /\ upsets <= upsets' /\ upsets \in Nat
    BY BoundsAssumption DEF IInv, Stored, Upset
<1>2. /\ job' \in Jobs /\ jobs' = jobs /\ job'.step = step /\ job'.kind = job.kind
      /\ job'.gen = job.gen /\ job'.old = job.old /\ job'.legacy = job.legacy
    BY Going DEF IInv
<1>3. Stored'
    BY <1>1, <1>2 DEF IInv, Stored
<1>4. Counted'
    BY <1>1, <1>2 DEF IInv, Counted, Stored
<1>5. Sound(job.old)'
    <2>1. PICK g \in Maybe : g = job.old
        BY DEF IInv, Stored, Jobs
    <2>2. Sound(g)'
        BY <2>1, SoundStays DEF IInv, JobOK
    <2> QED  BY <1>2, <2>1, <2>2
<1>6. JobOK'
    BY <1>2, <1>5 DEF IInv, JobOK, FileOf, Bytes
<1>7. job'.old \in Used
    BY <1>2 DEF Used
<1> QED  BY <1>3, <1>4, <1>6, <1>7, Aside

-----------------------------------------------------------------------------
(* The steps of the script.                                                      *)

LEMMA StartImportStep ==
    ASSUME IInv, NEW g \in Generations, StartImport(g)
    PROVE  IInv'
<1>1. PICK j : j = [step |-> "current", kind |-> "import", gen |-> g, old |-> pointer.gen, legacy |-> legacy]
    OBVIOUS
<1>2. job' = j /\ UNCHANGED <<disk, upsets, reader, replaced>> /\ Builds(Content[g])
    BY <1>1 DEF StartImport
<1>3. j \in Jobs
    <2>1. legacy \in 0..MaxUpsets /\ pointer.gen \in Maybe
        BY BoundsAssumption DEF IInv, Counted, Stored
    <2> QED  BY <1>1, <2>1 DEF Jobs, Steps, Maybe
<1>4. Stored' /\ Counted' /\ Lasting
    BY <1>2, <1>3, BoundsAssumption DEF IInv, Stored, Counted, StartImport, disk, Lasting
<1>5. Sound(pointer.gen)'
    <2>1. PICK h \in Maybe : h = pointer.gen
        BY DEF IInv, Stored
    <2> QED  BY <1>2, <1>4, <2>1, SoundStays DEF IInv, disk
<1>6. JobOK'
    BY <1>1, <1>2, <1>5 DEF JobOK, Wrote, disk
<1> QED  BY <1>1, <1>2, <1>4, <1>6, Aside DEF disk, Used

LEMMA StartRollbackStep ==
    ASSUME IInv, StartRollback
    PROVE  IInv'
<1>1. PICK h \in Previous(pointer.gen) :
        /\ h # Absent => Intact(h, TRUE) /\ RuntimeLoads(h)
        /\ job' = [step |-> IF h = Absent THEN "restored" ELSE "publish", kind |-> "rollback",
                   gen |-> h, old |-> pointer.gen, legacy |-> 0]
    BY DEF StartRollback
<1>2. UNCHANGED <<disk, upsets, reader, replaced>> /\ pointer.gen # Absent
    BY DEF StartRollback
<1>3. h \in Maybe /\ h = replaced[pointer.gen] /\ pointer.gen \in Maybe
    <2>1. pointer.gen \in Used /\ pointer.gen \in Maybe
        BY DEF IInv, Stored, Used
    <2>2. h \in Maybe /\ Names(pointer.gen, h)
        BY <1>1 DEF Previous, Maybe, Names
    <2> QED  BY <1>2, <2>1, <2>2 DEF IInv, BackupsOK, Kept
<1>4. PICK step \in {"restored", "publish"} : step = (IF h = Absent THEN "restored" ELSE "publish")
    OBVIOUS
<1>5. PICK j : j = [step |-> step, kind |-> "rollback", gen |-> h, old |-> pointer.gen, legacy |-> 0]
    OBVIOUS
<1>6. job' = j /\ j \in Jobs
    <2>1. 0 \in 0..MaxUpsets
        BY BoundsAssumption
    <2> QED  BY <1>1, <1>3, <1>4, <1>5, <2>1 DEF Jobs, Steps
<1>7. Stored' /\ Counted' /\ Lasting
    BY <1>2, <1>6, BoundsAssumption DEF IInv, Stored, Counted, StartRollback, disk, Lasting
<1>8. Sound(pointer.gen)'
    <2>1. PICK g \in Maybe : g = pointer.gen
        BY DEF IInv, Stored
    <2> QED  BY <1>2, <1>7, <2>1, SoundStays DEF IInv, disk
<1>9. h # Absent => h \in Generations /\ dir[h] # "none" /\ Loads(Content[h])
    BY <1>1, <1>3 DEF Maybe, RuntimeLoads, Complete
<1>10. JobOK'
    BY <1>2, <1>3, <1>4, <1>5, <1>6, <1>8, <1>9 DEF JobOK, Wrote, disk
<1> QED  BY <1>2, <1>5, <1>6, <1>7, <1>10, Aside DEF disk, Used

LEMMA LookStep ==
    ASSUME IInv, CheckCurrent \/ WriteGeneration \/ VerifyNew \/ Confirm
    PROVE  IInv'
<1>1. UNCHANGED <<pointer, writes, backup, legacy, replaced, reader, upsets>>
    BY DEF CheckCurrent, WriteGeneration, VerifyNew, Confirm, disk
<1>2. CASE Ends /\ UNCHANGED dir
    BY <1>1, <1>2, Ending
<1>3. CASE CheckCurrent /\ Goes("generation")
    <2>1. job.step = "current" /\ UNCHANGED dir
        BY <1>3 DEF CheckCurrent, disk
    <2> QED  BY <1>1, <1>3, <2>1, GoingOn DEF IInv, JobOK, Stored, Steps, Wrote, Lasting
<1>4. CASE WriteGeneration /\ Goes("verify")
    <2>1. job.step = "generation" /\ job.kind = "import" /\ job.gen \in Generations /\ job.kind # "rollback"
          /\ pointer.gen = job.old
        BY <1>4 DEF WriteGeneration, IInv, JobOK, Stored, Jobs
    <2>2. dir' = [dir EXCEPT ![job.gen] = "complete"] \/ (UNCHANGED dir /\ dir[job.gen] = "complete")
        BY <1>4, <2>1, AtRest DEF WriteGeneration, Ends, Goes, IInv, Stored, Jobs
    <2>3. dir' \in [Generations -> {"none", "complete", "damaged"}] /\ Lasting /\ dir'[job.gen] # "none"
          /\ \A g \in Generations : dir'[g] = "damaged" => dir[g] = "damaged"
        BY <2>1, <2>2 DEF IInv, Stored, Lasting
    <2> QED  BY <1>1, <1>4, <2>1, <2>3, GoingOn DEF Steps
<1>5. CASE VerifyNew /\ Goes("backup") /\ RuntimeLoads(job.gen)
    <2>1. job.step = "verify" /\ UNCHANGED dir
        BY <1>5 DEF VerifyNew, disk
    <2> QED  BY <1>1, <1>5, <2>1, GoingOn DEF IInv, JobOK, Stored, Steps, Wrote, Lasting, RuntimeLoads
<1>6. CASE Confirm /\ Goes("restore")
    <2>1. job.step = "confirm" /\ UNCHANGED dir
        BY <1>6 DEF Confirm, disk
    <2> QED  BY <1>1, <1>6, <2>1, GoingOn DEF IInv, JobOK, Stored, Steps, Wrote, Lasting
<1> QED  BY <1>2, <1>3, <1>4, <1>5, <1>6 DEF CheckCurrent, WriteGeneration, VerifyNew, Confirm, disk

LEMMA FaultStep ==
    ASSUME IInv, Fault
    PROVE  IInv'
<1>1. UNCHANGED <<pointer, writes, backup, legacy, dir, replaced, reader>> /\ Upset /\ job.step # "idle"
    BY DEF Fault, disk
<1>2. CASE Ends
    BY <1>1, <1>2, Ending
<1>3. CASE Goes("restore") /\ job.step \in {"publish", "confirm"}
    BY <1>1, <1>3, GoingOn DEF IInv, JobOK, Stored, Steps, Wrote, Lasting
<1> QED  BY <1>2, <1>3 DEF Fault

\* A file of the backup of the build is written, or cut off.
LEMMA FileWritten ==
    ASSUME IInv, job.step # "idle", job.kind = "import", NEW v \in File, v # 0,
           backup' = [backup EXCEPT ![job.gen][FileOf(job.old)] = v],
           backup[job.gen][FileOf(job.old)] \in {0, v},
           UNCHANGED <<pointer, replaced>>, job'.step = "idle" \/ job'.old = job.old
    PROVE  /\ backup' \in [Generations -> Backups] /\ BackupsOK'
           /\ backup'[job.gen][FileOf(job.old)] = v
<1>1. PICK g \in Generations : g = job.gen
    BY DEF IInv, JobOK
<1>2. PICK f \in {"json", "absent"} : f = FileOf(job.old)
    BY DEF FileOf
<1>3. /\ backup' \in [Generations -> Backups]
      /\ \A h \in Generations : h # g => backup'[h] = backup[h]
      /\ backup'[g].json = (IF f = "json" THEN v ELSE backup[g].json)
      /\ backup'[g].absent = (IF f = "absent" THEN v ELSE backup[g].absent)
    <2>1. backup' = [backup EXCEPT ![g][f] = v] /\ f \in {"json", "absent", "legacy"} /\ Stored
        BY <1>1, <1>2 DEF IInv
    <2>2. Stores(g, f, v)
        BY ONLY <2>1, v \in File, g \in Generations DEF Stores
    <2> QED  BY ONLY <2>2, Keeping
<1>4. backup[g] \in Backups /\ backup'[g] \in Backups
    BY <1>3 DEF IInv, Stored
<1>5. /\ backup[g][f] = (IF f = "json" THEN backup[g].json ELSE backup[g].absent)
      /\ backup'[g][f] = (IF f = "json" THEN backup'[g].json ELSE backup'[g].absent)
    BY <1>4 DEF Backups
<1>6. ASSUME g \in Used, Kept(g)  PROVE Kept(g)'
    <2>1. Exists(backup[g].json) \/ Exists(backup[g].absent)
        BY <1>1, <1>6, InstalledAssumption DEF IInv, JobOK, Kept
    <2>2. CASE backup[g][f] = v
        <3>1. backup'[g].json = backup[g].json /\ backup'[g].absent = backup[g].absent
            BY <1>3, <1>5, <2>2
        <3> QED  BY <1>6, <3>1, KeptStays
    <2>3. CASE backup[g][f] = 0
        <3>1. Exists(backup'[g].json) /\ Exists(backup'[g].absent)
            BY <1>3, <1>5, <2>1, <2>3 DEF Exists
        <3>2. \A h : ~Names(g, h)'
            BY <3>1 DEF Names, Previous
        <3> QED  BY <3>1, <3>2 DEF Kept
    <2> QED  BY <1>1, <1>2, <2>2, <2>3
<1>7. BackupsOK'
    <2>1. \A h \in Used' : h \in Used
        BY DEF Used
    <2>2. ASSUME NEW h \in Used, h # Absent  PROVE Kept(h)'
        <3>1. h \in Generations /\ Kept(h)
            BY <2>2 DEF IInv, BackupsOK, Used, Stored, Maybe, Jobs
        <3>2. CASE h = g
            BY <1>6, <2>2, <3>1, <3>2
        <3>3. CASE h # g
            BY <1>3, <3>1, <3>3, KeptStays
        <3> QED  BY <3>2, <3>3
    <2> QED  BY <2>1, <2>2 DEF BackupsOK
<1> QED  BY <1>1, <1>2, <1>3, <1>5, <1>7

\* The file of the legacy rules does not matter to a rollback.
LEMMA LegacyWritten ==
    ASSUME IInv, job.step # "idle", job.kind = "import", NEW v \in File,
           backup' = [backup EXCEPT ![job.gen]["legacy"] = v],
           UNCHANGED <<pointer, replaced>>, job'.step = "idle" \/ job'.old = job.old
    PROVE  /\ backup' \in [Generations -> Backups] /\ BackupsOK'
           /\ backup'[job.gen][FileOf(job.old)] = backup[job.gen][FileOf(job.old)]
<1>1. PICK g \in Generations : g = job.gen
    BY DEF IInv, JobOK
<1>2. /\ backup' \in [Generations -> Backups]
      /\ \A h \in Generations : backup'[h].json = backup[h].json /\ backup'[h].absent = backup[h].absent
    <2>1. backup' = [backup EXCEPT ![g]["legacy"] = v] /\ Stored
        BY <1>1 DEF IInv
    <2>2. /\ backup' \in [Generations -> Backups]
          /\ \A h \in Generations : h # g => backup'[h] = backup[h]
          /\ backup'[g].json = backup[g].json /\ backup'[g].absent = backup[g].absent
        <3>1. Stores(g, "legacy", v)
            BY ONLY <2>1, v \in File, g \in Generations DEF Stores
        <3> QED  BY ONLY <3>1, Keeping
    <2> QED  BY <2>2
<1>3. backup[g] \in Backups /\ backup'[g] \in Backups
    BY <1>2 DEF IInv, Stored
<1>4. BackupsOK'
    <2>1. \A h \in Used' : h \in Used
        BY DEF Used
    <2>2. \A h \in Used : h # Absent => h \in Generations /\ Kept(h)
        BY DEF IInv, BackupsOK, Used, Stored, Maybe, Jobs
    <2> QED  BY <1>2, <2>1, <2>2, KeptStays DEF BackupsOK
<1>5. backup'[g][FileOf(job.old)] = backup[g][FileOf(job.old)]
    <2>1. PICK f \in {"json", "absent"} : f = FileOf(job.old)
        BY DEF FileOf
    <2>2. backup'[g][f] = backup[g][f]
        BY <1>2, <1>3 DEF Backups
    <2> QED  BY <2>1, <2>2
<1> QED  BY <1>1, <1>2, <1>4, <1>5

\* A step that writes a backup and otherwise stays aside.
LEMMA BackingUp ==
    ASSUME IInv, backup' \in [Generations -> Backups], BackupsOK', JobOK', job' \in Jobs,
           UNCHANGED <<pointer, writes, dir, legacy, upsets, jobs, reader, replaced>>
    PROVE  IInv'
<1>1. Sound(pointer.gen)'
    <2>1. PICK g \in Maybe : g = pointer.gen
        BY DEF IInv, Stored
    <2> QED  BY <2>1, SoundStays DEF IInv, Lasting
<1>2. ReaderOK' /\ Stored' /\ Counted'
    BY DEF IInv, ReaderOK, Stored, Counted
<1> QED  BY <1>1, <1>2 DEF IInv

\* The backup of a pointer, or of none, is a number of its own.
LEMMA Numbers ==
    ASSUME NEW old \in Maybe, NEW g \in Generations
    PROVE  Bytes(old) \in File /\ Bytes(old) > 0 /\ Partial \in File /\ Partial = -1
<1>1. PICK n \in Nat : n = Cardinality(Generations) /\ n >= 1
    <2>1. 1..Cardinality(Generations) # {} /\ Cardinality(Generations) \in Nat
        BY Numbered
    <2> QED  BY <2>1
<1>2. Bytes(old) \in 1..n
    BY <1>1, Numbered DEF Bytes, Maybe
<1> QED  BY <1>1, <1>2, BoundsAssumption DEF File, Partial

LEMMA BackUpStep ==
    ASSUME IInv, BackUpPointer \/ BackUpLegacy
    PROVE  IInv'
<1>1. /\ UNCHANGED <<pointer, writes, dir, legacy, upsets, reader, replaced>>
      /\ job.step \in {"backup", "legacy"}
    BY DEF BackUpPointer, BackUpLegacy
<1>2. /\ job.kind = "import" /\ job.gen \in Generations /\ job.old \in Maybe /\ job.legacy \in 0..MaxUpsets
      /\ Sound(job.old) /\ Builds(Content[job.gen]) /\ dir[job.gen] # "none"
      /\ Loads(Content[job.gen]) /\ pointer.gen = job.old
    BY <1>1 DEF IInv, JobOK, Stored, Jobs, Wrote
<1>3. CASE Ends /\ UNCHANGED backup
    BY <1>1, <1>3, Ending
<1>4. ASSUME NEW step \in {"legacy", "publish"}, Goes(step), backup' \in [Generations -> Backups],
             BackupsOK', backup'[job.gen][FileOf(job.old)] = Bytes(job.old)
      PROVE  IInv'
    <2>1. /\ job' \in Jobs /\ jobs' = jobs /\ job'.step = step /\ job'.kind = job.kind
          /\ job'.gen = job.gen /\ job'.old = job.old /\ job'.legacy = job.legacy
        BY <1>4, Going DEF IInv, Steps
    <2>2. JobOK'
        BY <1>1, <1>2, <1>4, <2>1 DEF JobOK, Sound, FileOf, Bytes, Wrote
    <2> QED  BY <1>1, <1>4, <2>1, <2>2, BackingUp
<1>5. CASE BackUpPointer
    <2>1. PICK f : f = FileOf(job.old)
        OBVIOUS
    <2>2. PICK v \in File : v = Bytes(job.old) /\ v > 0 /\ v # Partial
        BY <1>2, Numbers DEF File
    <2>3. Keep(f, v, "legacy")
        BY <1>5, <2>1, <2>2 DEF BackUpPointer
    <2>4. CASE Exists(backup[job.gen][f]) /\ backup[job.gen][f] # v
        BY <1>3, <2>3, <2>4 DEF Keep, Saves
    <2>5. CASE ~(Exists(backup[job.gen][f]) /\ backup[job.gen][f] # v)
        <3>1. backup' = [backup EXCEPT ![job.gen][f] = v] /\ Goes("legacy")
            BY <2>2, <2>3, <2>5 DEF Keep, Saves
        <3>2. backup[job.gen][f] \in {0, v} /\ v # 0
            BY <2>2, <2>5 DEF Exists
        <3>3. job'.old = job.old
            BY <3>1, Going DEF IInv, Steps
        <3>4. /\ backup' \in [Generations -> Backups] /\ BackupsOK'
              /\ backup'[job.gen][FileOf(job.old)] = v
            BY <1>1, <1>2, <2>1, <3>1, <3>2, <3>3, FileWritten
        <3> QED  BY <1>4, <2>2, <3>1, <3>4
    <2> QED  BY <2>4, <2>5
<1>6. CASE BackUpLegacy
    <2>1. job.step = "legacy" /\ backup[job.gen][FileOf(job.old)] = Bytes(job.old)
        BY <1>2, <1>6 DEF BackUpLegacy, IInv, JobOK
    <2>2. CASE UNCHANGED backup /\ Goes("publish")
        <3>1. job'.old = job.old
            BY <2>2, Going DEF IInv, Steps
        <3> QED  BY <1>1, <1>2, <2>1, <2>2, GoingOn DEF IInv, Stored, Lasting, Steps
    <2>3. CASE Keep("legacy", job.legacy, "publish") /\ ~(UNCHANGED backup /\ Ends)
        <3>1. PICK v : v = Saves(backup[job.gen]["legacy"], job.legacy)
            OBVIOUS
        <3>2. v \in File
            BY <1>2, <3>1, Numbers, Numbered, BoundsAssumption DEF Saves, File
        <3>3. backup' = [backup EXCEPT ![job.gen]["legacy"] = v] /\ Goes("publish")
            BY <2>3, <3>1 DEF Keep
        <3>4. job'.old = job.old
            BY <3>3, Going DEF IInv, Steps
        <3>5. /\ backup' \in [Generations -> Backups] /\ BackupsOK'
              /\ backup'[job.gen][FileOf(job.old)] = backup[job.gen][FileOf(job.old)]
            BY <1>1, <1>2, <3>2, <3>3, <3>4, LegacyWritten
        <3> QED  BY <1>4, <2>1, <3>3, <3>5
    <2> QED  BY <1>3, <1>6, <2>2, <2>3 DEF BackUpLegacy
<1> QED  BY <1>5, <1>6

LEMMA CrashStep ==
    ASSUME IInv, Crash
    PROVE  IInv'
<1>1. /\ UNCHANGED <<pointer, writes, dir, legacy, upsets, reader, replaced>> /\ Ends
      /\ job.step # "idle"
    BY DEF Crash
<1>2. CASE UNCHANGED backup
    BY <1>1, <1>2, Ending
<1>3. CASE /\ job.step \in DOMAIN Writing
           /\ ~Exists(backup[job.gen][Writing[job.step]])
           /\ backup' = [backup EXCEPT ![job.gen][Writing[job.step]] = Partial]
    <2>1. job.step \in {"backup", "legacy"} /\ job.kind = "import" /\ job.gen \in Generations
          /\ job.old \in Maybe
        BY <1>3 DEF Writing, IInv, JobOK, Stored, Jobs
    <2>2. PICK v \in File : v = Partial /\ v # 0
        BY <2>1, Numbers
    <2>3. job' = Idle /\ job'.step = "idle" /\ job' \in Jobs /\ jobs' = jobs /\ JobOK'
        BY <1>1, AtRest DEF Ends, JobOK
    <2>4. CASE job.step = "backup"
        <3>1. Writing[job.step] = FileOf(job.old)
            BY <2>4 DEF Writing
        <3>2. backup' \in [Generations -> Backups] /\ BackupsOK'
            BY <1>1, <1>3, <2>1, <2>2, <2>3, <3>1, FileWritten DEF Exists
        <3> QED  BY <1>1, <2>3, <3>2, BackingUp
    <2>5. CASE job.step = "legacy"
        <3>1. Writing[job.step] = "legacy"
            BY <2>5 DEF Writing
        <3>2. backup' \in [Generations -> Backups] /\ BackupsOK'
            BY <1>1, <1>3, <2>1, <2>2, <2>3, <3>1, LegacyWritten
        <3> QED  BY <1>1, <2>3, <3>2, BackingUp
    <2> QED  BY <2>1, <2>4, <2>5
<1> QED  BY <1>2, <1>3 DEF Crash

\* A pointer file is written, or removed: no reader has its number.
LEMMA PointerWritten ==
    ASSUME IInv, NEW g \in Maybe, Sound(g), Writes(g),
           UNCHANGED <<dir, backup, legacy, upsets, jobs, reader>>,
           job' \in Jobs, replaced' \in [Generations -> Maybe], JobOK', BackupsOK'
    PROVE  IInv'
<1>1. PICK n \in Nat : n = (IF g = Absent THEN 0 ELSE writes + 1)
    BY DEF IInv, Stored
<1>2. pointer' = [gen |-> g, stamp |-> n] /\ writes' = (IF g = Absent THEN writes ELSE writes + 1)
    BY <1>1 DEF Writes
<1>3. Stored'
    BY <1>2 DEF IInv, Stored
<1>4. Counted'
    BY <1>1, <1>2 DEF IInv, Stored, Counted
<1>5. Sound(pointer.gen)'
    BY <1>2 DEF Sound
<1>6. ReaderOK'
    <2>1. /\ reader.stamp <= writes' /\ reader.loaded <= writes' /\ reader.failed <= writes'
          /\ reader.loaded # n /\ (reader.step # "idle" => reader.stamp # n)
        BY <1>1, <1>2 DEF IInv, Stored, ReaderOK, Readers
    <2> QED  BY <1>2, <2>1 DEF IInv, ReaderOK
<1> QED  BY <1>3, <1>4, <1>5, <1>6 DEF IInv

\* The backups of the generations that were in use before say what they said.
LEMMA BackupsStay ==
    ASSUME IInv, UNCHANGED <<backup, replaced>>, Used' \subseteq Used
    PROVE  BackupsOK'
<1>1. \A g \in Used : g # Absent => g \in Generations /\ Kept(g)
    BY DEF IInv, BackupsOK, Used, Stored, Maybe, Jobs
<1> QED  BY <1>1, KeptStays DEF BackupsOK

LEMMA PublishStep ==
    ASSUME IInv, Publish
    PROVE  IInv'
<1>1. /\ job.step = "publish" /\ Writes(job.gen) /\ Goes("confirm")
      /\ replaced' = (IF job.kind = "import" THEN [replaced EXCEPT ![job.gen] = job.old] ELSE replaced)
      /\ UNCHANGED <<dir, backup, legacy, upsets, reader>>
    BY DEF Publish
<1>2. PICK g \in Generations : g = job.gen
    BY <1>1 DEF IInv, JobOK, Wrote
<1>3. PICK old \in Maybe : old = job.old
    BY DEF IInv, Stored, Jobs
<1>4. /\ Sound(g) /\ dir[g] # "none" /\ Loads(Content[g]) /\ Sound(old) /\ pointer.gen = old
      /\ job.kind \in {"import", "rollback"}
      /\ (job.kind = "import" => Builds(Content[g]) /\ backup[g][FileOf(old)] = Bytes(old))
      /\ (job.kind = "rollback" => g = replaced[old] /\ old # Absent)
    BY <1>1, <1>2, <1>3 DEF IInv, JobOK, Wrote, Sound, Stored, Jobs
<1>5. /\ job' \in Jobs /\ jobs' = jobs /\ job'.step = "confirm" /\ job'.kind = job.kind
      /\ job'.gen = g /\ job'.old = old /\ job'.legacy = job.legacy
    BY <1>1, <1>2, <1>3, Going DEF IInv, Steps
<1>6. JobOK'
    BY <1>1, <1>4, <1>5 DEF JobOK, Wrote, Sound
<1>7. replaced' \in [Generations -> Maybe] /\ pointer'.gen = g
    BY <1>1, <1>2, <1>3 DEF IInv, Stored, Writes
<1>8. BackupsOK'
    <2>1. CASE job.kind = "rollback"
        <3>1. replaced' = replaced
            BY <1>1, <2>1
        <3>2. old \in Generations
            BY <1>4, <2>1 DEF Maybe
        <3>3. Used' \subseteq Used
            BY <1>1, <1>3, <1>4, <1>5, <1>7, <2>1, <3>1, <3>2 DEF Used
        <3> QED  BY <1>1, <3>1, <3>3, BackupsStay
    <2>2. CASE job.kind = "import"
        <3>1. replaced' = [replaced EXCEPT ![g] = old] /\ replaced \in [Generations -> Maybe]
            BY <1>1, <1>2, <1>3, <2>2 DEF IInv, Stored
        <3>2. \A h \in Used' : h = g \/ h \in Used
            BY <1>1, <1>3, <1>5, <1>7, <3>1 DEF Used
        <3>3. Kept(g)'
            <4>1. backup'[g] = backup[g] /\ backup[g] \in Backups /\ replaced'[g] = old
                BY <1>1, <3>1 DEF IInv, Stored
            <4>2. PICK r \in Backups : r = backup[g]
                BY <4>1
            <4>3. (IF old = Absent THEN r.absent ELSE r.json) = Bytes(old) /\ Bytes(old) > 0
                BY <1>4, <2>2, <4>2, FileValue, Numbers
            <4>4. \A h \in Generations : Order[h] \in Nat /\ Order[h] > 0
                BY Numbered
            <4>5. ASSUME NEW h \in Maybe, Exists(r.json) # Exists(r.absent),
                         IF h = Absent THEN Exists(r.absent) ELSE r.json = Order[h]
                  PROVE  h = old
                <5>1. CASE old = Absent
                    <6>1. r.absent > 0 /\ r.absent \in File /\ r.json \in File
                        BY <4>3, <5>1 DEF Backups
                    <6>2. Exists(r.absent) /\ ~Exists(r.json)
                        BY <4>5, <6>1 DEF Exists, File
                    <6> QED  BY <4>4, <4>5, <5>1, <6>2 DEF Exists, Maybe
                <5>2. CASE old # Absent
                    <6>1. r.json = Order[old] /\ Exists(r.json) /\ old \in Generations
                        BY <4>3, <4>4, <5>2 DEF Bytes, Exists, Maybe
                    <6>2. h # Absent /\ h \in Generations /\ r.json = Order[h]
                        BY <4>5, <6>1 DEF Maybe, Exists
                    <6> QED  BY <6>1, <6>2, Numbered
                <5> QED  BY <5>1, <5>2
            <4>6. \A h \in Maybe : Names(g, h)' => h = old
                BY <4>1, <4>2, <4>5 DEF Names, Previous
            <4>7. Exists(r.json) \/ Exists(r.absent)
                BY <4>3 DEF Exists, Backups, File
            <4> QED  BY <4>1, <4>2, <4>6, <4>7 DEF Kept
        <3>4. ASSUME NEW h \in Used, h # Absent, h # g  PROVE Kept(h)'
            <4>1. h \in Generations /\ Kept(h)
                BY <3>4 DEF IInv, BackupsOK, Used, Stored, Maybe, Jobs
            <4> QED  BY <1>1, <3>1, <3>4, <4>1, KeptStays
        <3> QED  BY <3>2, <3>3, <3>4 DEF BackupsOK
    <2> QED  BY <1>4, <2>1, <2>2
<1> QED  BY <1>1, <1>2, <1>4, <1>5, <1>6, <1>7, <1>8, PointerWritten DEF Maybe

LEMMA PutBackStep ==
    ASSUME IInv, Restore \/ RemovePointer
    PROVE  IInv'
<1>1. PICK g \in Maybe : /\ g = (IF Restore THEN job.old ELSE Absent) /\ Writes(g)
    BY DEF IInv, Stored, Jobs, Maybe, Restore, RemovePointer
<1>2. /\ job.step # "idle" /\ Ends
      /\ UNCHANGED <<dir, backup, legacy, upsets, reader, replaced>>
    BY DEF Restore, RemovePointer
<1>3. Sound(g) /\ g \in Used \cup {Absent}
    BY <1>1, <1>2 DEF IInv, JobOK, Sound, Used
<1>4. job' \in Jobs /\ jobs' = jobs /\ job'.step = "idle" /\ JobOK'
    BY <1>2, AtRest DEF Ends, JobOK
<1>5. pointer'.gen = g
    BY <1>1 DEF Writes
<1>6. BackupsOK'
    <2>1. \A h \in Used' : h \in Used \cup {Absent}
        BY <1>2, <1>3, <1>4, <1>5 DEF Used
    <2>2. \A h \in Used : h # Absent => h \in Generations /\ Kept(h)
        BY DEF IInv, BackupsOK, Used, Stored, Maybe, Jobs
    <2> QED  BY <1>2, <2>1, <2>2, KeptStays DEF BackupsOK
<1>7. replaced' \in [Generations -> Maybe]
    BY <1>2 DEF IInv, Stored
<1> QED  BY <1>1, <1>2, <1>3, <1>4, <1>6, <1>7, PointerWritten

-----------------------------------------------------------------------------
(* The bot, the disk and the operators.                                          *)

LEMMA ReaderSteps ==
    ASSUME IInv, ReaderStep \/ ReadFails \/ RestartBot
    PROVE  IInv'
<1>1. UNCHANGED <<disk, script, replaced>> /\ upsets' \in 0..MaxUpsets /\ upsets <= upsets'
    BY BoundsAssumption DEF ReaderStep, Probe, ReadPointer, LoadGeneration, ReadFails, RestartBot,
                            Upset, IInv, Stored
<1>2. ASSUME NEW r \in Readers, reader' = r, ReaderOK'
      PROVE  IInv'
    <2>1. Stored' /\ Counted'
        BY <1>1, <1>2 DEF IInv, Stored, Counted, disk, script
    <2>2. Sound(pointer.gen)'
        BY <1>1 DEF IInv, Sound, disk
    <2>3. JobOK'
        BY <1>1 DEF IInv, JobOK, Sound, FileOf, Bytes, disk, script
    <2>4. BackupsOK'
        BY <1>1 DEF IInv, BackupsOK, Used, Kept, Names, Previous, disk, script
    <2> QED  BY <1>2, <2>1, <2>2, <2>3, <2>4 DEF IInv
<1>3. PICK q \in Readers : q = reader
    BY DEF IInv, Stored
<1>4. PICK p \in [gen : Maybe, stamp : Nat] : p = pointer
    BY DEF IInv, Stored
<1>5. /\ q.snapshot # Absent => Loads(Content[q.snapshot])
      /\ q.stamp <= writes /\ q.loaded <= writes /\ q.failed <= writes
      /\ q.step # "idle" => q.stamp # 0
      /\ q.step = "load" => q.gen # Absent /\ (q.stamp = p.stamp => q.gen = p.gen)
      /\ q.loaded # 0
      /\ q.loaded = p.stamp => q.snapshot = p.gen
      /\ p.stamp <= writes /\ (p.stamp = 0 <=> p.gen = Absent) /\ writes \in Nat \ {0}
    BY <1>3, <1>4 DEF IInv, ReaderOK, Counted, Stored
<1>6. PICK f \in Readers : f = Fresh
    BY AtRest
<1>7. /\ f.step = "idle" /\ f.stamp = 0 /\ f.snapshot = Absent /\ f.loaded = -1 /\ f.failed = -1
    BY <1>6, AtRest
<1>8. CASE RecordFailure
    <2>1. PICK r : r = [f EXCEPT !.snapshot = q.snapshot, !.loaded = q.loaded, !.failed = q.stamp]
        OBVIOUS
    <2>2. r \in Readers /\ reader' = r
        BY <1>3, <1>6, <1>8, <2>1 DEF RecordFailure, Readers
    <2>3. r.step = "idle" /\ r.stamp = 0 /\ r.snapshot = q.snapshot /\ r.loaded = q.loaded
          /\ r.failed = q.stamp
        BY <1>6, <1>7, <2>1 DEF Readers
    <2>4. ReaderOK'
        BY <1>1, <1>4, <1>5, <2>2, <2>3 DEF ReaderOK, disk
    <2> QED  BY <1>2, <2>2, <2>4
<1>9. ASSUME NEW g \in Maybe, Adopt(g), q.step # "idle", g # Absent => Loads(Content[g]),
             q.stamp = p.stamp => g = p.gen
      PROVE  IInv'
    <2>1. PICK r : r = [f EXCEPT !.snapshot = g, !.loaded = q.stamp]
        OBVIOUS
    <2>2. r \in Readers /\ reader' = r
        BY <1>3, <1>6, <1>9, <2>1 DEF Adopt, Readers
    <2>3. r.step = "idle" /\ r.stamp = 0 /\ r.snapshot = g /\ r.loaded = q.stamp /\ r.failed = -1
        BY <1>6, <1>7, <2>1 DEF Readers
    <2>4. ReaderOK'
        BY <1>1, <1>4, <1>5, <1>9, <2>2, <2>3 DEF ReaderOK, disk
    <2> QED  BY <1>2, <2>2, <2>4
<1>10. CASE Probe
    <2>1. PICK r : r = (IF p.gen = Absent THEN [q EXCEPT !.failed = 0]
                        ELSE [q EXCEPT !.step = "read", !.stamp = p.stamp])
        OBVIOUS
    <2>2. r \in Readers /\ reader' = r
        BY <1>3, <1>4, <1>10, <2>1 DEF Probe, Readers
    <2>3. /\ r.snapshot = q.snapshot /\ r.loaded = q.loaded /\ r.step \in {"idle", "read"}
          /\ r.failed <= writes /\ r.stamp <= writes /\ (r.step # "idle" => r.stamp # 0)
        BY <1>3, <1>4, <1>5, <1>10, <2>1 DEF Probe, Readers
    <2>4. ReaderOK'
        BY <1>1, <1>4, <1>5, <2>2, <2>3 DEF ReaderOK, disk
    <2> QED  BY <1>2, <2>2, <2>4
<1>11. CASE ReadPointer
    <2>1. CASE ~Changed /\ pointer.gen = reader.snapshot /\ Adopt(pointer.gen)
        BY <1>3, <1>4, <1>5, <1>9, <1>11, <2>1 DEF ReadPointer
    <2>2. CASE ~Changed /\ reader' = [reader EXCEPT !.step = "load", !.gen = pointer.gen]
        <3>1. PICK r : r = [q EXCEPT !.step = "load", !.gen = p.gen]
            OBVIOUS
        <3>2. r \in Readers /\ reader' = r /\ p.stamp = q.stamp /\ q.step = "read"
            BY <1>3, <1>4, <1>11, <2>2, <3>1 DEF Readers, Changed, ReadPointer
        <3>3. /\ r.snapshot = q.snapshot /\ r.loaded = q.loaded /\ r.failed = q.failed
              /\ r.stamp = q.stamp /\ r.gen = p.gen
            BY <3>1 DEF Readers
        <3>4. ReaderOK'
            BY <1>1, <1>4, <1>5, <3>2, <3>3 DEF ReaderOK, disk
        <3> QED  BY <1>2, <3>2, <3>4
    <2> QED  BY <1>8, <1>11, <2>1, <2>2 DEF ReadPointer
<1>12. CASE LoadGeneration
    <2>1. CASE RuntimeLoads(reader.gen) /\ Adopt(reader.gen)
        <3>1. q.gen \in Maybe /\ Loads(Content[q.gen]) /\ q.step = "load"
            BY <1>3, <1>12, <2>1 DEF LoadGeneration, RuntimeLoads, Readers
        <3> QED  BY <1>3, <1>5, <1>9, <2>1, <3>1
    <2> QED  BY <1>8, <1>12, <2>1 DEF LoadGeneration
<1>13. CASE RestartBot
    <2>1. ReaderOK'
        BY <1>1, <1>5, <1>4, <1>6, <1>7, <1>13 DEF ReaderOK, RestartBot, disk
    <2> QED  BY <1>2, <1>6, <1>13, <2>1 DEF RestartBot
<1> QED  BY <1>8, <1>10, <1>11, <1>12, <1>13 DEF ReaderStep, ReadFails

LEMMA UpsetStep ==
    ASSUME IInv, EditLegacy \/ (\E g \in Generations : Damage(g))
    PROVE  IInv'
<1>1. /\ UNCHANGED <<pointer, writes, backup, script, reader, replaced>>
      /\ upsets' = upsets + 1 /\ upsets' \in 0..MaxUpsets
    BY BoundsAssumption DEF EditLegacy, Damage, Upset, IInv, Stored
<1>2. \/ dir' = dir /\ legacy' = legacy + 1
      \/ legacy' = legacy /\ \E g \in Generations : dir' = [dir EXCEPT ![g] = "damaged"]
    BY DEF EditLegacy, Damage
<1>3. dir' \in [Generations -> {"none", "complete", "damaged"}] /\ Lasting
    BY <1>2 DEF IInv, Stored, Lasting
<1>4. Stored' /\ Counted'
    BY <1>1, <1>2, <1>3, BoundsAssumption DEF IInv, Stored, Counted, script
<1>5. JobOK'
    <2>1. PICK old \in Maybe : old = job.old
        BY DEF IInv, Stored, Jobs
    <2>2. Sound(old) => Sound(old)'
        BY <1>3, SoundStays
    <2>3. job.gen \in Generations /\ dir[job.gen] # "none" => dir'[job.gen] # "none"
        BY <1>3 DEF Lasting
    <2> QED  BY <1>1, <2>1, <2>2, <2>3 DEF IInv, JobOK, FileOf, Bytes, script
<1> QED  BY <1>1, <1>3, <1>4, <1>5, Aside DEF script, Used

-----------------------------------------------------------------------------
(* The invariant.                                                                *)

LEMMA Initially == Init => IInv
<1> SUFFICES ASSUME Init  PROVE IInv
    OBVIOUS
<1>1. PICK g \in Installed \cup {Absent} :
        pointer = [gen |-> g, stamp |-> IF g = Absent THEN 0 ELSE 1]
    BY DEF Init
<1>2. /\ writes = 1 /\ dir = [h \in Generations |-> IF h \in Installed THEN "complete" ELSE "none"]
      /\ backup = [h \in Generations |-> NoBackup] /\ legacy = 0 /\ job = Idle /\ jobs = 0
      /\ upsets = 0 /\ reader = Fresh /\ replaced = [h \in Generations |-> Absent]
    BY DEF Init
<1>3. g \in Maybe /\ (g = Absent \/ g \in Installed) /\ Installed \subseteq Generations
    BY GenerationsAssumption DEF Maybe
<1>4. NoBackup \in Backups
    <2>1. 0 \in File
        BY Numbered, BoundsAssumption DEF File
    <2> QED  BY <2>1 DEF NoBackup, Backups
<1>5. 0 \in 0..MaxJobs /\ 0 \in 0..MaxUpsets
    BY BoundsAssumption
<1>6. Stored
    <2>1. pointer \in [gen : Maybe, stamp : Nat]
        BY <1>1, <1>3
    <2>2. backup \in [Generations -> Backups] /\ replaced \in [Generations -> Maybe]
          /\ dir \in [Generations -> {"none", "complete", "damaged"}]
        BY <1>2, <1>4 DEF Maybe
    <2> QED  BY <1>2, <1>5, <2>1, <2>2, AtRest DEF Stored
<1>7. pointer.gen = g /\ pointer.stamp = (IF g = Absent THEN 0 ELSE 1)
    BY <1>1
<1>8. Counted
    BY <1>2, <1>7 DEF Counted
<1>9. Sound(pointer.gen)
    BY <1>2, <1>3, <1>7, InstalledAssumption DEF Sound
<1>10. JobOK
    BY <1>2, AtRest DEF JobOK
<1>11. BackupsOK
    <2>1. Used \subseteq {g, Absent}
        BY <1>2, <1>7, AtRest DEF Used
    <2>2. ASSUME g # Absent  PROVE Kept(g)
        <3>1. backup[g] = NoBackup
            BY <1>2, <1>3, <2>2
        <3>2. \A h : ~Names(g, h)
            BY <3>1 DEF Names, Previous, NoBackup, Exists
        <3> QED  BY <1>3, <2>2, <3>2 DEF Kept
    <2> QED  BY <2>1, <2>2 DEF BackupsOK
<1>12. ReaderOK
    BY <1>2, <1>7, AtRest DEF ReaderOK
<1> QED  BY <1>6, <1>8, <1>9, <1>10, <1>11, <1>12 DEF IInv

LEMMA Preserved == IInv /\ [Next]_vars => IInv'
<1> SUFFICES ASSUME IInv, [Next]_vars  PROVE IInv'
    OBVIOUS
<1>1. CASE UNCHANGED vars
    <2>1. UNCHANGED <<pointer, writes, backup, legacy, dir, replaced, reader, job, jobs, upsets>>
        BY <1>1 DEF vars, disk, script
    <2>2. Stored' /\ Counted' /\ Sound(pointer.gen)' /\ JobOK' /\ ReaderOK'
        BY <2>1 DEF IInv, Stored, Counted, Sound, JobOK, ReaderOK, FileOf, Bytes
    <2>3. BackupsOK'
        BY <2>1 DEF IInv, BackupsOK, Used, Kept, Names, Previous
    <2> QED  BY <2>2, <2>3 DEF IInv
<1>2. CASE \E g \in Generations : StartImport(g)
    BY <1>2, StartImportStep
<1>3. CASE EditLegacy \/ (\E g \in Generations : Damage(g))
    BY <1>3, UpsetStep
<1>4. CASE StartRollback
    BY <1>4, StartRollbackStep
<1>5. CASE JobStep
    BY <1>5, LookStep, BackUpStep, PublishStep, PutBackStep DEF JobStep
<1>6. CASE Fault
    BY <1>6, FaultStep
<1>7. CASE Crash
    BY <1>7, CrashStep
<1>8. CASE ReaderStep \/ ReadFails \/ RestartBot
    BY <1>8, ReaderSteps
<1> QED  BY <1>1, <1>2, <1>3, <1>4, <1>5, <1>6, <1>7, <1>8 DEF Next

-----------------------------------------------------------------------------
(* The theorems.                                                                 *)

\* The inductive invariant: what the run of the script has made sure of when it reaches
\* each of its steps, what the backups of the generations in use can name, and which
\* pointer file the bot has read (snapshot in catalog.py; import_catalog and
\* rollback_catalog in import_content_alert_catalog.py).
THEOREM Inductive == Spec => []IInv
<1>1. Init => IInv
    BY Initially
<1>2. IInv /\ [Next]_vars => IInv'
    BY Preserved
<1> QED  BY <1>1, <1>2, PTL DEF Spec

LEMMA Typeful == IInv => TypeOK
<1> SUFFICES ASSUME IInv  PROVE TypeOK
    OBVIOUS
<1>1. legacy \in 0..MaxUpsets /\ writes \in Nat
    BY BoundsAssumption DEF IInv, Stored, Counted
<1>2. pointer \in [gen : Maybe, stamp : 0..writes]
    BY DEF IInv, Stored, Counted
<1>3. reader \in [step : {"idle", "read", "load"}, stamp : 0..writes, gen : Maybe,
                  snapshot : Maybe, loaded : -1..writes, failed : -1..writes]
    BY <1>1 DEF IInv, Stored, ReaderOK, Readers
<1> QED  BY <1>1, <1>2, <1>3 DEF IInv, Stored, TypeOK, Maybe, Jobs, Backups, File

\* Whatever run of the script died at whatever step, the pointer names a whole generation
\* that the bot accepts, and the bot holds the generation of the pointer whenever it thinks
\* that it is up to date (_publish_pointer after the checks of import_catalog; snapshot,
\* which adopts a generation under the fingerprint it has read before).
THEOREM AlwaysSound == Spec => []CatalogIsSound
<1>1. IInv => CatalogIsSound
    <2> SUFFICES ASSUME IInv  PROVE CatalogIsSound
        OBVIOUS
    <2> QED  BY Typeful DEF CatalogIsSound, IInv, Sound, ReaderOK
<1> QED  BY <1>1, Inductive, PTL

\* For any document, what the script's validator accepts the bot's accepts, and the
\* script's check of an active generation too: an import is never turned away by the
\* bot's own check unless a file was damaged (_validate_build and _verify_pointer_catalog of
\* the script, _load_generation of the bot).
THEOREM BuildsAreAccepted == Spec => []BuildsLoad
<1>1. IInv => BuildsLoad
    <2> SUFFICES ASSUME IInv  PROVE BuildsLoad
        OBVIOUS
    <2>1. ValidatorsAgree
        BY Agreeing DEF ValidatorsAgree
    <2>2. ASSUME job.step = "verify", job.kind = "import", upsets = 0
          PROVE  RuntimeLoads(job.gen)
        <3>1. job.gen \in Generations /\ dir[job.gen] # "none" /\ Builds(Content[job.gen])
            BY <2>2 DEF IInv, JobOK, Wrote
        <3>2. dir[job.gen] = "complete"
            BY <2>2, <3>1 DEF IInv, Counted, Stored
        <3> QED  BY <3>1, <3>2, Agreeing DEF RuntimeLoads, Complete
    <2> QED  BY <2>1, <2>2 DEF BuildsLoad
<1> QED  BY <1>1, Inductive, PTL

Exact ==
    /\ (job.kind = "rollback" /\ job.step \in {"publish", "restored"}
            /\ pointer'.gen # pointer.gen)
          => pointer'.gen = replaced[pointer.gen]
    /\ (reader.snapshot # Absent /\ reader' # Fresh) => reader'.snapshot # Absent

LEMMA RollbackStep ==
    ASSUME IInv, [Next]_vars, job.kind = "rollback", job.step \in {"publish", "restored"},
           pointer'.gen # pointer.gen
    PROVE  pointer'.gen = replaced[pointer.gen]
<1>1. Publish \/ RemovePointer
    BY DEF Next, StartImport, Damage, StartRollback, JobStep, CheckCurrent, WriteGeneration,
           VerifyNew, BackUpPointer, BackUpLegacy, Confirm, Restore, Fault, Crash, ReaderStep,
           Probe, ReadPointer, LoadGeneration, ReadFails, RestartBot, EditLegacy, disk, vars
<1>2. job.gen = replaced[job.old] /\ pointer.gen = job.old /\ (job.step = "restored" => job.gen = Absent)
    BY DEF IInv, JobOK
<1>3. CASE Publish
    BY <1>2, <1>3 DEF Publish, Writes
<1>4. CASE RemovePointer
    BY <1>2, <1>4 DEF RemovePointer, Writes
<1> QED  BY <1>1, <1>3, <1>4

LEMMA HoldingStep ==
    ASSUME IInv, [Next]_vars, reader.snapshot # Absent, reader' # Fresh
    PROVE  reader'.snapshot # Absent
<1>1. reader \in Readers /\ (reader.step = "load" => reader.gen # Absent)
    BY DEF IInv, Stored, ReaderOK
<1>2. CASE UNCHANGED reader
    BY <1>2
<1>3. CASE RecordFailure
    BY <1>3, AtRest DEF RecordFailure, Readers
<1>4. ASSUME NEW g, g # Absent, Adopt(g)  PROVE reader'.snapshot # Absent
    BY <1>4, AtRest DEF Adopt, Readers
<1>5. CASE Probe
    BY <1>1, <1>5 DEF Probe, Readers
<1>6. CASE ReadPointer
    <2>1. CASE reader' = [reader EXCEPT !.step = "load", !.gen = pointer.gen]
        BY <1>1, <2>1 DEF Readers
    <2>2. CASE Adopt(pointer.gen) /\ pointer.gen = reader.snapshot
        BY <1>4, <2>2
    <2> QED  BY <1>3, <1>6, <2>1, <2>2 DEF ReadPointer
<1>7. CASE LoadGeneration
    BY <1>1, <1>3, <1>4, <1>7 DEF LoadGeneration
<1>8. UNCHANGED reader \/ Probe \/ ReadPointer \/ LoadGeneration \/ RecordFailure
    BY DEF Next, StartImport, Damage, StartRollback, JobStep, CheckCurrent, WriteGeneration,
           VerifyNew, BackUpPointer, BackUpLegacy, Publish, Confirm, Restore, RemovePointer, Fault,
           Crash, ReaderStep, ReadFails, RestartBot, EditLegacy, vars
<1> QED  BY <1>2, <1>3, <1>5, <1>6, <1>7, <1>8

\* A rollback brings back exactly what the activation of the present generation replaced,
\* however many activations, rollbacks and dead runs came before it (_backup_before_activation,
\* which never writes over a file, and rollback_catalog); and only a
\* restart takes a generation from the bot.
THEOREM RollsBackExactly == Spec => RollbackIsExact
<1>1. IInv /\ [Next]_vars => [Exact]_vars
    BY RollbackStep, HoldingStep DEF Exact
<1> QED  BY <1>1, Inductive, PTL DEF Spec, RollbackIsExact, Exact
=============================================================================
