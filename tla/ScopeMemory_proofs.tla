-------------------------- MODULE ScopeMemory_proofs --------------------------
(* A member's summary rests on active facts, the mirror is current once nobody is *)
(* about to write it, what was cleared does not come back, and an administrator's  *)
(* relationship is not replaced by an older job: for any number of workers,        *)
(* administrators, messages, operations, failures, lapsed leases and crashes.      *)
EXTENDS ScopeMemory, FiniteSetTheorems, SequenceTheorems, WellFoundedInduction, TLAPS

Job == [type : {"facts", "summary", "relationship"}, from : Nat, to : Nat, expected : Nat]
Basis == [through : Nat, version : Nat, text : SUBSET Nat, ids : SUBSET Nat, end : Nat]
Task == [step : {"idle", "taken", "read", "asked", "refresh", "digest", "check"}, job : Job,
         owns : BOOLEAN, basis : Basis]
Fact == [source : Nat, status : {"active", "superseded", "deleted"}]
Stored ==
    /\ scope \in Cases /\ count \in Ids /\ live \subseteq 1..count /\ waiting \subseteq 1..count
    /\ jobs \subseteq Job /\ work \in [Workers -> Task]
    /\ progress \in [through : Nat, version : Nat] /\ facts \in Seq(Fact)
    /\ summary \in [version : Nat, through : Nat, text : SUBSET Nat]
    /\ relation \in [topics : SUBSET Nat, watermark : Nat, version : Nat, byAdmin : BOOLEAN]
    /\ ops = [o \in Operators |-> ops[o]] /\ opened \in 0..MaxOperations
    /\ writing \subseteq Writers /\ drawn = [p \in Writers |-> drawn[p]]
    /\ past \in [asked : Nat, cleared : Nat, decided : Nat, lapsed : BOOLEAN]
    /\ missed \in BOOLEAN /\ upsets \in 0..MaxUpsets

(* What was enqueued, cleared and decided, and which messages are there.               *)
Clean(S) == S \cap 1..past.cleared = {}
Behind ==
    /\ past.asked <= count /\ past.cleared <= count /\ past.decided <= past.asked
    /\ \A i \in waiting : past.asked < i
    /\ kind = "group" => past.cleared = 0
    /\ Clean(live)

(* What is remembered: a fact comes of a message behind the progress or of one of the  *)
(* operations that are not open any more.                                              *)
Open == {o \in Operators : ops[o] # NoOp}
Remembered ==
    /\ progress.through <= count /\ (progress.version = 0 => progress.through = 0)
    /\ relation.watermark <= past.asked
    /\ \A i \in DOMAIN facts : facts[i].source <= count
    /\ Len(facts) + Cardinality(Open) <= progress.through + opened
    /\ summary.through <= (IF kind = "group" THEN Len(facts) ELSE count)
    /\ summary.text \subseteq 1..summary.through
    /\ Clean(summary.text) /\ Clean(relation.topics)
    /\ \A o \in Operators : ops[o].action = "clear" => kind = "private"

(* What the jobs expect: the version of when they were enqueued, and they are for a    *)
(* message that came after the administrator's decision if that is the version.        *)
JobOK(j) ==
    /\ j \in Job /\ j.type \in types /\ 1 <= j.from /\ j.from <= j.to /\ j.to <= past.asked
    /\ j.type = "summary" => j.expected <= summary.version
    /\ j.type = "relationship" =>
        /\ j.expected <= relation.version
        /\ (j.expected = relation.version /\ relation.byAdmin) => past.decided < j.to

(* What a worker has read, and what it means as long as it stands.                     *)
Interval(b) == b.through < b.end /\ b.end <= count /\ \A i \in b.ids : b.through < i /\ i <= b.end
TextOK(t) ==
    /\ t.basis.text \subseteq 1..summary.through
    /\ ~Clean(t.basis.text) => t.job.to <= summary.through /\ t.job.expected < summary.version
DigestOK(b) ==
    /\ b.text \subseteq 1..b.through /\ b.ids \subseteq DOMAIN facts /\ b.ids # {}
    /\ \A i \in b.ids : b.through < i
    /\ (~past.lapsed /\ summary.through = b.through) => b.text \subseteq Active
SummaryOK(b) ==
    /\ Interval(b) /\ b.text \subseteq 1..b.through /\ b.version <= summary.version
    /\ b.version = summary.version => Clean(b.text) /\ Clean(b.ids)
RelationOK(b) ==
    /\ b.version <= relation.version /\ b.end <= past.asked
    /\ (b.version = relation.version /\ relation.byAdmin) => past.decided < b.end
    /\ b.end \in live => Clean(b.text) /\ Clean(b.ids)
TaskOK(t) ==
    /\ t.owns => t.step # "idle"
    /\ t.step # "idle" => JobOK(t.job)
    /\ t.step = "idle" => t.job.to = 0
    /\ t.step = "read" => t.job.type = "summary" /\ TextOK(t)
    /\ t.step \in {"refresh", "digest", "check"} => t.job.type = "facts" /\ kind = "group"
    /\ t.step = "digest" => DigestOK(t.basis)
    /\ t.step = "asked" => /\ t.job.type = "facts" => Interval(t.basis)
                           /\ t.job.type = "summary" => SummaryOK(t.basis)
                           /\ t.job.type = "relationship" => RelationOK(t.basis)
Tasks == (\A j \in jobs : JobOK(j)) /\ \A w \in Workers : TaskOK(work[w])

(* While no lease lapses, one worker has a member's jobs of a type.                    *)
Serial ==
    kind = "group" /\ ~past.lapsed =>
        /\ \A w \in Workers : work[w].step # "idle" => work[w].owns /\ work[w].job \in jobs
        /\ \A v, w \in Workers :
            work[v].step # "idle" /\ work[w].step # "idle" /\ work[v].job.type = work[w].job.type
                => v = w

(* Of a process one has read the profile.  Once all who are about to write have, what   *)
(* those hold who were not overtaken is the profile: who changes it is not one of them. *)
Mirroring ==
    /\ \A p \in Writers : drawn[p] # None => p \in writing
    /\ overtaken \subseteq Holding
    /\ \A p, q \in Holding : Process[p] = Process[q] => p = q
    /\ \A w \in Workers : w \in writing => work[w].step \in {"refresh", "check"}
    /\ kind = "group" =>
        /\ writing = {} /\ ~missed => mirror = Profile
        /\ writing = Holding => \A p \in Holding \ overtaken : drawn[p] = Profile

IInv == Stored /\ Behind /\ Remembered /\ Tasks /\ Serial /\ SummaryIsHonest /\ Mirroring
-------------------------------------------------------------------------------
(* Numbers and records.                                                           *)

\* The first and the last number of a set.
LEMMA FirstOf ==
    ASSUME NEW S \in SUBSET Nat, S # {}
    PROVE  Min(S) \in S /\ \A i \in S : Min(S) <= i
<1>1. PICK i \in S : \A j \in S : <<j, i>> \notin OpToRel(<, Nat)
    BY NatLessThanWellFounded, WFMin
<1>2. ASSUME NEW j \in S  PROVE i <= j
    <2>1. <<j, i>> \in Nat \X Nat
        OBVIOUS
    <2>2. ~ (j < i)
        BY <1>1, <2>1 DEF OpToRel
    <2> QED  BY <2>2
<1> QED  BY <1>2 DEF Min

LEMMA LastOf ==
    ASSUME NEW n \in Nat, NEW S \in SUBSET (0..n), S # {}
    PROVE  Max(S) \in S /\ \A i \in S : i <= Max(S)
<1> DEFINE T == {n - i : i \in S}
<1>1. T \in SUBSET Nat /\ T # {}
    OBVIOUS
<1>2. PICK m \in T : \A i \in T : m <= i
    BY <1>1, FirstOf
<1>3. PICK k \in S : m = n - k
    BY <1>2
<1>4. \A i \in S : i <= k
    BY <1>2, <1>3
<1>5. \E x \in S : \A y \in S : x >= y
    BY <1>3, <1>4
<1> QED  BY <1>5 DEF Max

\* The numbers of an interval are as many as it is long.
LEMMA HowMany ==
    ASSUME NEW low \in Nat, NEW high \in Nat, low <= high, NEW S,
           \A i \in S : i \in Nat /\ low < i /\ i <= high
    PROVE  IsFiniteSet(S) /\ Cardinality(S) \in Nat /\ Cardinality(S) <= high - low
<1>1. PICK a \in Int : a = low + 1
    OBVIOUS
<1>2. S \subseteq a..high
    BY <1>1
<1>3. IsFiniteSet(a..high) /\ Cardinality(a..high) = high - low
    <2>1. IsFiniteSet(a..high) /\ Cardinality(a..high) = (IF a > high THEN 0 ELSE high - a + 1)
        BY FS_Interval
    <2> QED  BY <1>1, <2>1
<1>4. IsFiniteSet(S) /\ Cardinality(S) <= Cardinality(a..high)
    BY <1>2, <1>3, FS_Subset
<1> QED  BY <1>3, <1>4, FS_CardinalityType

\* Each of the first so many numbers is the rank of a member of the set.
LEMMA Ranked ==
    ASSUME NEW n \in Nat, NEW S \in SUBSET (1..n), NEW i \in 1..Cardinality(S)
    PROVE  \E s \in S : Cardinality(Between(S, 0, s)) = i
<1> DEFINE Upto(s) == Between(S, 0, s)
           Late == {s \in S : Cardinality(Upto(s)) >= i}
<1>1. IsFiniteSet(S) /\ Cardinality(S) \in Nat
    <2>1. 0 <= n /\ \A k \in S : k \in Nat /\ 0 < k /\ k <= n
        OBVIOUS
    <2> QED  BY <2>1, HowMany
<1>2. i \in Nat /\ i >= 1 /\ i <= Cardinality(S)
    BY <1>1
<1>3. \A s, t \in S : t \in Upto(s) <=> t <= s
    BY DEF Between
<1>4. \A s \in S : IsFiniteSet(Upto(s)) /\ Cardinality(Upto(s)) \in Nat /\ Upto(s) \subseteq S
    <2> SUFFICES ASSUME NEW s \in S
                 PROVE  IsFiniteSet(Upto(s)) /\ Cardinality(Upto(s)) \in Nat /\ Upto(s) \subseteq S
        OBVIOUS
    <2>1. Upto(s) \subseteq S
        BY DEF Between
    <2> QED  BY <1>1, <2>1, FS_Subset, FS_CardinalityType
<1> HIDE DEF Upto
<1>5. S # {} /\ S \in SUBSET (0..n)
    BY <1>1, <1>2, FS_EmptySet
<1>6. Late # {} /\ Late \in SUBSET Nat
    <2>1. PICK m \in S : \A s \in S : s <= m
        BY <1>5, LastOf
    <2>2. Upto(m) = S
        BY <1>3, <1>4, <2>1
    <2>3. Cardinality(Upto(m)) >= i
        BY <1>1, <1>2, <2>2
    <2>4. m \in Late
        BY <2>1, <2>3
    <2>5. Late \subseteq S
        OBVIOUS
    <2>6. S \subseteq Nat
        OBVIOUS
    <2> HIDE DEF Late
    <2> QED  BY <2>4, <2>5, <2>6
<1>7. PICK s \in Late : \A t \in Late : s <= t
    BY <1>6, FirstOf
<1>8. CASE Cardinality(Upto(s)) = i
    BY <1>7, <1>8 DEF Upto
<1>9. CASE Cardinality(Upto(s)) # i
    <2>1. PICK R : R = Upto(s) \ {s}
        OBVIOUS
    <2>2. s \in Upto(s) /\ IsFiniteSet(Upto(s)) /\ Cardinality(Upto(s)) >= i
        BY <1>3, <1>4, <1>7
    <2>3. Cardinality(R) = Cardinality(Upto(s)) - 1 /\ IsFiniteSet(R)
        BY <2>1, <2>2, FS_RemoveElement
    <2>4. Cardinality(R) >= i /\ Cardinality(R) \in Nat
        BY <1>2, <1>4, <1>7, <1>9, <2>2, <2>3
    <2>5. R # {} /\ R \subseteq S
        BY <1>2, <1>4, <1>7, <2>1, <2>4, FS_EmptySet
    <2>6. R \in SUBSET (0..n)
        BY <1>5, <2>5
    <2>7. PICK t \in R : \A u \in R : u <= t
        BY <2>5, <2>6, LastOf
    <2>8. t \in S /\ t < s
        BY <1>3, <1>7, <2>1, <2>5, <2>7
    <2>9. \A u \in S : u \in Upto(t) <=> u \in R
        BY <1>3, <1>7, <2>1, <2>7, <2>8
    <2>10. Upto(t) = R
        BY <1>4, <2>5, <2>8, <2>9
    <2> QED  BY <1>7, <2>4, <2>8, <2>10
<1> QED  BY <1>8, <1>9 DEF Upto

Steps == {"idle", "taken", "read", "asked", "refresh", "digest", "check"}
LEMMA Rest ==
    /\ Nothing \in Basis /\ NoJob \in Job /\ Idle \in Task
    /\ Idle.step = "idle" /\ ~Idle.owns /\ Idle.job.to = 0
BY DEF Nothing, Basis, NoJob, Job, Idle, Task

LEMMA GoesTo ==
    ASSUME Stored, NEW w \in Workers, NEW step \in Steps, NEW b \in Basis, Goes(w, step, b)
    PROVE  /\ work' \in [Workers -> Task] /\ jobs' = jobs
           /\ work'[w].step = step /\ work'[w].basis = b
           /\ work'[w].job = work[w].job /\ work'[w].owns = work[w].owns
           /\ \A v \in Workers : v # w => work'[v] = work[v]
<1>1. work \in [Workers -> Task] /\ work[w] \in Task
    BY DEF Stored
<1>2. PICK r : r = [work[w] EXCEPT !.step = step, !.basis = b]
    OBVIOUS
<1>3. r \in Task /\ r.step = step /\ r.basis = b /\ r.job = work[w].job /\ r.owns = work[w].owns
    BY <1>1, <1>2 DEF Task, Steps
<1>4. work' = [work EXCEPT ![w] = r] /\ jobs' = jobs
    BY <1>2 DEF Goes
<1> QED  BY <1>1, <1>3, <1>4

LEMMA EndsTo ==
    ASSUME Stored, NEW w \in Workers, Ends(w) \/ Leaves(w)
    PROVE  /\ work' \in [Workers -> Task] /\ work'[w] = Idle
           /\ \A v \in Workers : v # w => work'[v] = work[v]
           /\ jobs' = jobs \/ (jobs' = jobs \ {work[w].job} /\ work[w].owns)
<1>1. work \in [Workers -> Task] /\ work' = [work EXCEPT ![w] = Idle] /\ Idle \in Task
    BY Rest DEF Stored, Ends, Leaves
<1> QED  BY <1>1 DEF Ends, Leaves

-------------------------------------------------------------------------------
(* What a step leaves as it was.                                                  *)

LEMMA Standing ==
    ASSUME UNCHANGED <<scope, count, live, facts, summary, relation, past>>
    PROVE  /\ \A j : JobOK(j) => JobOK(j)'
           /\ \A t : TaskOK(t) => TaskOK(t)'
<1>1. \A j : JobOK(j) => JobOK(j)'
    BY DEF JobOK, scope
<1>2. \A S : Clean(S) => Clean(S)'
    BY DEF Clean
<1>3. \A t : TextOK(t) => TextOK(t)'
    BY DEF TextOK, Clean
<1>4. \A b : /\ Interval(b) => Interval(b)'
             /\ DigestOK(b) => DigestOK(b)'
             /\ SummaryOK(b) => SummaryOK(b)'
             /\ RelationOK(b) => RelationOK(b)'
    BY DEF Interval, DigestOK, SummaryOK, RelationOK, Clean, Active
<1> QED  BY <1>1, <1>3, <1>4 DEF TaskOK, scope

\* One worker moves on with its job or leaves it; the others keep theirs.
LEMMA StaysSerial ==
    ASSUME Serial, Stored, NEW w \in Workers, work[w].step # "idle", UNCHANGED <<scope, past>>,
           \A v \in Workers : v # w => work'[v] = work[v],
           \/ /\ jobs' = jobs /\ work'[w].owns = work[w].owns /\ work'[w].job = work[w].job
           \/ /\ work'[w].step = "idle"
              /\ jobs' = jobs \/ (jobs' = jobs \ {work[w].job} /\ work[w].owns)
    PROVE  Serial'
<1>1. ASSUME kind' = "group", ~past'.lapsed
      PROVE  /\ \A v \in Workers : work'[v].step # "idle" => work'[v].owns /\ work'[v].job \in jobs'
             /\ \A u, v \in Workers :
                  work'[u].step # "idle" /\ work'[v].step # "idle"
                    /\ work'[u].job.type = work'[v].job.type => u = v
    <2>1. /\ \A v \in Workers : work[v].step # "idle" => work[v].owns /\ work[v].job \in jobs
          /\ \A u, v \in Workers :
               work[u].step # "idle" /\ work[v].step # "idle"
                 /\ work[u].job.type = work[v].job.type => u = v
        BY <1>1 DEF Serial, scope
    <2>2. \A v \in Workers : work'[v].step # "idle" => work[v].step # "idle"
                                                       /\ work'[v].job = work[v].job
                                                       /\ work'[v].owns = work[v].owns
        OBVIOUS
    <2>3. ASSUME NEW v \in Workers, work'[v].step # "idle"  PROVE work'[v].job \in jobs'
        <3>1. CASE v = w
            BY <2>1, <2>3, <3>1
        <3>2. CASE v # w
            BY <2>1, <2>2, <2>3, <3>2
        <3> QED  BY <3>1, <3>2
    <2> QED  BY <2>1, <2>2, <2>3
<1> QED  BY <1>1 DEF Serial

\* The mirror and the profile stay, and so do the steps of those who are about to write.
LEMMA StaysMirrored ==
    ASSUME Mirroring, Stored, UNCHANGED <<scope, mirrored, summary>>, Profile' = Profile,
           \A v \in Workers : v \in writing => work'[v].step \in {"refresh", "check"}
    PROVE  Mirroring'
BY DEF Mirroring, Holding, mirrored, scope

\* Somebody else is about to write the mirror: the profile may have changed.
LEMMA WritesToo ==
    ASSUME Mirroring, Stored, NEW p \in Writers, p \notin writing, writing' = writing \cup {p},
           UNCHANGED <<scope, drawn, mirror, overtaken, missed>>,
           \A w \in Workers : w \in writing' => work'[w].step \in {"refresh", "check"}
    PROVE  Mirroring'
<1>1. p \notin Holding' /\ Holding' = Holding
    BY DEF Holding, Mirroring
<1> QED  BY <1>1 DEF Mirroring, scope

-------------------------------------------------------------------------------
(* The steps of a worker that write nothing.                                      *)

\* A worker turns to something else: the others, and what is remembered, stay.
LEMMA WorkerTurns ==
    ASSUME IInv, NEW w \in Workers, w \notin writing,
           UNCHANGED <<memory, mirrored, scope, count, live, waiting, governed, past>>,
           upsets' \in 0..MaxUpsets, jobs' \subseteq jobs, work' \in [Workers -> Task],
           \A v \in Workers : v # w => work'[v] = work[v], TaskOK(work'[w]), Serial'
    PROVE  IInv'
<1>1. UNCHANGED <<scope, count, live, facts, summary, relation, past, progress, writing, drawn, mirror,
                  overtaken, missed, ops, opened, waiting>>
    BY DEF memory, mirrored, governed
<1>2. Stored'
    BY <1>1 DEF IInv, Stored, scope
<1>3. Behind' /\ Remembered' /\ SummaryIsHonest'
    BY <1>1 DEF IInv, Behind, Remembered, SummaryIsHonest, Clean, Open, Active, scope
<1>4. Tasks'
    <2>1. \A j \in jobs' : JobOK(j)'
        BY <1>1, Standing DEF IInv, Tasks
    <2>2. \A v \in Workers : TaskOK(work'[v])
        BY DEF IInv, Tasks
    <2>3. \A v \in Workers : TaskOK(work[v])'
        <3> SUFFICES ASSUME NEW v \in Workers  PROVE TaskOK(work[v])'
            OBVIOUS
        <3>1. PICK t : t = work'[v]
            OBVIOUS
        <3>2. TaskOK(t)'
            BY <1>1, <2>2, <3>1, Standing
        <3> QED  BY <3>1, <3>2
    <2> QED  BY <2>1, <2>3 DEF Tasks
<1>5. Mirroring'
    <2>1. Profile' = Profile
        BY <1>1 DEF Profile, Active
    <2>2. \A v \in Workers : v \in writing => work'[v].step \in {"refresh", "check"}
        BY DEF IInv, Mirroring
    <2> QED  BY <1>1, <2>1, <2>2, StaysMirrored DEF IInv
<1> QED  BY <1>2, <1>3, <1>4, <1>5 DEF IInv

LEMMA WorkerGoes ==
    ASSUME IInv, NEW w \in Workers, work[w].step # "idle", w \notin writing,
           NEW step \in Steps, step # "idle", NEW b \in Basis, Goes(w, step, b),
           UNCHANGED <<memory, mirrored>>, Outside, TaskOK(work'[w])
    PROVE  IInv'
<1>1. /\ work' \in [Workers -> Task] /\ jobs' = jobs
      /\ work'[w].step = step /\ work'[w].basis = b
      /\ work'[w].job = work[w].job /\ work'[w].owns = work[w].owns
      /\ \A v \in Workers : v # w => work'[v] = work[v]
    BY GoesTo DEF IInv
<1>2. Serial'
    BY <1>1, StaysSerial DEF IInv, Outside
<1>3. upsets' \in 0..MaxUpsets
    BY DEF IInv, Stored, Outside
<1> QED  BY <1>1, <1>2, <1>3, WorkerTurns DEF Outside

LEMMA WorkerEnds ==
    ASSUME IInv, NEW w \in Workers, work[w].step # "idle", w \notin writing, Ends(w) \/ Leaves(w),
           UNCHANGED <<memory, mirrored, scope, count, live, waiting, governed, past>>,
           upsets' \in 0..MaxUpsets
    PROVE  IInv'
<1>1. /\ work' \in [Workers -> Task] /\ work'[w] = Idle
      /\ \A v \in Workers : v # w => work'[v] = work[v]
      /\ jobs' = jobs \/ (jobs' = jobs \ {work[w].job} /\ work[w].owns)
    BY EndsTo DEF IInv
<1>2. TaskOK(work'[w])
    BY <1>1, Rest DEF TaskOK
<1>3. Serial'
    BY <1>1, StaysSerial, Rest DEF IInv
<1> QED  BY <1>1, <1>2, <1>3, WorkerTurns

\* Nobody writes the mirror but after the facts.
LEMMA NotWriting ==
    ASSUME IInv, NEW w \in Workers, work[w].step \notin {"refresh", "check"}
    PROVE  w \notin writing
BY DEF IInv, Mirroring

LEMMA ClaimStep ==
    ASSUME IInv, NEW w \in Workers, Claim(w)
    PROVE  IInv'
<1>1. PICK j \in jobs : /\ ~Busy(j.type)
                        /\ work' = [work EXCEPT ![w] = [Idle EXCEPT !.step = "taken", !.job = j, !.owns = TRUE]]
    BY DEF Claim
<1>2. PICK r : r = [Idle EXCEPT !.step = "taken", !.job = j, !.owns = TRUE]
    OBVIOUS
<1>3. /\ r \in Task /\ r.step = "taken" /\ r.job = j /\ r.owns /\ j \in Job
    BY <1>2, Rest DEF IInv, Stored, Task
<1>4. /\ work' \in [Workers -> Task] /\ work'[w] = r /\ work \in [Workers -> Task]
      /\ \A v \in Workers : v # w => work'[v] = work[v]
    BY <1>1, <1>2, <1>3 DEF IInv, Stored
<1>5. TaskOK(r)
    BY <1>3 DEF IInv, Tasks, TaskOK
<1>6. Serial'
    <2>1. kind' = kind /\ past' = past /\ jobs' = jobs
        BY DEF Claim, scope
    <2>2. ASSUME kind = "group", ~past.lapsed, NEW v \in Workers, v # w, work[v].step # "idle"
          PROVE  work[v].job.type # j.type
        BY <1>1, <2>2 DEF IInv, Serial, Busy
    <2> QED  BY <1>3, <1>4, <2>1, <2>2 DEF IInv, Serial
<1>7. w \notin writing
    BY NotWriting DEF Claim
<1> QED  BY <1>4, <1>5, <1>6, <1>7, WorkerTurns DEF Claim, IInv, Stored

\* What a batch can hold.
LEMMA Batches ==
    ASSUME NEW low, NEW high, NEW n, NEW m
    PROVE  /\ \A i \in First(Readable(low, high), n) : i \in live /\ low < i /\ i <= high
           /\ \A i \in Last(Readable(low, high), n) : i \in live
           /\ \A i \in Between(First(Readable(low, high), n), 0, m) :
                i \in live /\ low < i /\ i <= high /\ i <= m
BY DEF First, Last, Readable, Between

LEMMA Counts == Stored => count \in Nat /\ live \subseteq Nat /\ waiting \subseteq Nat
<1> SUFFICES ASSUME Stored  PROVE count \in Nat /\ live \subseteq Nat /\ waiting \subseteq Nat
    OBVIOUS
<1>1. MaxMessages \in Nat
    BY BoundsAssumption
<1>2. count \in Ids /\ live \subseteq 1..count /\ waiting \subseteq 1..count
    BY DEF Stored
<1> QED  BY ONLY <1>1, <1>2 DEF Ids

\* A failure, a lapse or a crash takes one of the bounded number of upsets.
LEMMA OneUpset ==
    ASSUME Stored, Upset
    PROVE  upsets' \in 0..MaxUpsets
<1>1. MaxUpsets \in Nat
    BY BoundsAssumption
<1>2. upsets \in 0..MaxUpsets
    BY DEF Stored
<1>3. upsets < MaxUpsets /\ upsets' = upsets + 1
    BY DEF Upset
<1> QED  BY ONLY <1>1, <1>2, <1>3

LEMMA FactsAre ==
    ASSUME Stored
    PROVE  /\ Len(facts) \in Nat /\ DOMAIN facts = 1..Len(facts)
           /\ \A i \in DOMAIN facts : i \in Nat /\ facts[i] \in Fact /\ facts[i].source \in Nat
<1>1. facts \in Seq(Fact)
    BY DEF Stored
<1>2. Len(facts) \in Nat /\ DOMAIN facts = 1..Len(facts) /\ \A i \in DOMAIN facts : facts[i] \in Fact
    BY <1>1
<1> QED  BY <1>2 DEF Fact

LEMMA ReadFactsStep ==
    ASSUME IInv, NEW w \in Workers, ReadFacts(w)
    PROVE  IInv'
<1>1. PICK j \in Job : j = work[w].job
    BY DEF IInv, Stored, Task
<1>2. /\ work[w].step = "taken" /\ j.type = "facts" /\ w \notin writing /\ JobOK(j)
      /\ UNCHANGED <<memory, mirrored>> /\ Outside /\ upsets' \in 0..MaxUpsets
    BY <1>1, NotWriting DEF ReadFacts, Outside, IInv, Stored, Tasks, TaskOK
<1>3. Through(j) \in Nat /\ progress.version \in Nat /\ j.to <= count /\ j.to \in Nat /\ count \in Nat
    <2>1. count \in Nat /\ past.asked \in Nat /\ past.asked <= count /\ j.to <= past.asked /\ j.from >= 1
        BY <1>2, Counts DEF IInv, Stored, JobOK, Behind
    <2>2. j.from \in Nat /\ j.to \in Nat /\ progress.version \in Nat /\ progress.through \in Nat
        BY <1>1 DEF Job, IInv, Stored
    <2> QED  BY <2>1, <2>2 DEF Through
<1>4. CASE Goes(w, "refresh", Nothing) /\ kind = "group"
    <2>1. work'[w].step = "refresh" /\ work'[w].job = j
        BY <1>1, <1>4, Rest, GoesTo DEF IInv, Steps
    <2>2. TaskOK(work'[w])
        BY <1>2, <1>4, <2>1 DEF TaskOK
    <2> QED  BY <1>2, <1>4, <2>2, Rest, WorkerGoes DEF Steps
<1>5. CASE Ends(w)
    BY <1>2, <1>5, WorkerEnds DEF Outside
<1>6. ASSUME NEW e \in Nat, NEW ids \in SUBSET Nat, Through(j) < e, e <= j.to,
             \A i \in ids : Through(j) < i /\ i <= e,
             Goes(w, "asked", [Nothing EXCEPT !.through = Through(j), !.version = progress.version,
                                              !.end = e, !.ids = ids])
      PROVE  IInv'
    <2>1. PICK b : b = [Nothing EXCEPT !.through = Through(j), !.version = progress.version,
                                       !.end = e, !.ids = ids]
        OBVIOUS
    <2>2. b \in Basis /\ b.through = Through(j) /\ b.end = e /\ b.ids = ids
        BY <1>3, <2>1, Rest DEF Basis, Nothing
    <2>3. Interval(b)
        BY <1>3, <1>6, <2>2 DEF Interval
    <2>4. work'[w].step = "asked" /\ work'[w].job = j /\ work'[w].basis = b
        BY <1>1, <1>6, <2>1, <2>2, GoesTo DEF IInv, Steps
    <2>5. TaskOK(work'[w])
        BY <1>2, <2>3, <2>4 DEF TaskOK
    <2> QED  BY <1>2, <1>6, <2>1, <2>2, <2>5, WorkerGoes DEF Steps
<1>7. CASE ~(Through(j) >= j.to)
    <2>1. PICK todo : todo = First(Readable(Through(j), j.to), Batch)
        OBVIOUS
    <2>2. \A i \in todo : i \in live /\ Through(j) < i /\ i <= j.to /\ i \in Nat
        BY <2>1, Batches, Counts DEF IInv
    <2>3. CASE todo = {}
        <3>1. Goes(w, "asked", [Nothing EXCEPT !.through = Through(j), !.version = progress.version,
                                               !.end = j.to, !.ids = {}])
            BY <1>1, <1>7, <2>1, <2>3 DEF ReadFacts
        <3>2. Through(j) < j.to /\ j.to <= j.to /\ j.to \in Nat /\ {} \in SUBSET Nat
            BY <1>3, <1>7
        <3> QED  BY <1>6, <3>1, <3>2
    <2>4. CASE todo # {}
        <3>1. PICK e \in todo :
                Goes(w, "asked", [Nothing EXCEPT !.through = Through(j), !.version = progress.version,
                                                 !.end = e, !.ids = Between(todo, 0, e)])
            BY <1>1, <1>7, <2>1, <2>4 DEF ReadFacts
        <3>2. \A i \in Between(todo, 0, e) : Through(j) < i /\ i <= e /\ i \in Nat
            BY <2>2 DEF Between
        <3> QED  BY <1>6, <2>2, <3>1, <3>2
    <2> QED  BY <2>3, <2>4
<1> QED  BY <1>1, <1>2, <1>4, <1>5, <1>7 DEF ReadFacts

LEMMA RefreshStep ==
    ASSUME IInv, NEW w \in Workers, Refresh(w)
    PROVE  IInv'
<1>1. /\ work[w].step \in {"refresh", "check"} /\ w \notin writing
      /\ UNCHANGED <<memory, mirrored>> /\ Outside /\ upsets' \in 0..MaxUpsets
    BY DEF Refresh, Outside, IInv, Stored
<1>2. kind = "group" /\ work[w].job.type = "facts" /\ work[w] \in Task
    BY <1>1 DEF IInv, Tasks, TaskOK, Stored
<1>3. CASE Ends(w) \/ Leaves(w)
    BY <1>1, <1>3, WorkerEnds DEF Outside
<1>4. CASE Pending # {} /\ Goes(w, "digest", [work[w].basis EXCEPT !.through = summary.through,
                                                                   !.text = summary.text, !.ids = Pending])
    <2>1. \A i \in Pending : i \in Active /\ summary.through < i
        BY DEF Pending, First
    <2>2. Active \subseteq DOMAIN facts /\ DOMAIN facts \subseteq Nat
        BY DEF IInv, Stored, Active
    <2>3. PICK b : b = [work[w].basis EXCEPT !.through = summary.through, !.text = summary.text,
                                             !.ids = Pending]
        OBVIOUS
    <2>4. b \in Basis /\ b.through = summary.through /\ b.text = summary.text /\ b.ids = Pending
        BY <1>2, <2>1, <2>2, <2>3 DEF Basis, Task, IInv, Stored
    <2>5. DigestOK(b)
        BY <1>2, <1>4, <2>1, <2>2, <2>4 DEF DigestOK, IInv, Remembered, SummaryIsHonest
    <2>6. work'[w].step = "digest" /\ work'[w].job = work[w].job /\ work'[w].basis = b
        BY <1>4, <2>3, <2>4, GoesTo DEF IInv, Steps
    <2>7. TaskOK(work'[w])
        BY <1>1, <1>2, <2>5, <2>6 DEF TaskOK, IInv, Tasks
    <2> QED  BY <1>1, <1>4, <2>3, <2>4, <2>7, WorkerGoes DEF Steps
<1> QED  BY <1>1, <1>3, <1>4 DEF Refresh, EndsMember

LEMMA ReadTextStep ==
    ASSUME IInv, NEW w \in Workers, ReadText(w)
    PROVE  IInv'
<1>1. /\ work[w].step = "taken" /\ work[w].job.type = "summary" /\ w \notin writing
      /\ UNCHANGED <<memory, mirrored>> /\ Outside
      /\ Goes(w, "read", [Nothing EXCEPT !.text = summary.text])
    BY NotWriting DEF ReadText
<1>2. PICK b : b = [Nothing EXCEPT !.text = summary.text]
    OBVIOUS
<1>3. b \in Basis /\ b.text = summary.text
    BY <1>2, Rest DEF Basis, IInv, Stored
<1>4. ASSUME NEW t, t.basis = b  PROVE TextOK(t)
    BY <1>3, <1>4 DEF TextOK, IInv, Remembered
<1>5. work'[w].step = "read" /\ work'[w].job = work[w].job /\ work'[w].basis = b
    BY <1>1, <1>2, <1>3, GoesTo DEF IInv, Steps
<1>6. TaskOK(work'[w])
    BY <1>1, <1>4, <1>5 DEF TaskOK, IInv, Tasks
<1> QED  BY <1>1, <1>2, <1>3, <1>6, WorkerGoes DEF Steps

LEMMA ReadSummaryStep ==
    ASSUME IInv, NEW w \in Workers, ReadSummary(w)
    PROVE  IInv'
<1>1. PICK j \in Job : j = work[w].job
    BY DEF IInv, Stored, Task
<1>2. PICK text \in SUBSET Nat : text = work[w].basis.text
    BY DEF IInv, Stored, Task, Basis
<1>3. /\ work[w].step = "read" /\ w \notin writing /\ JobOK(j) /\ j.type = "summary"
      /\ TextOK(work[w]) /\ UNCHANGED <<memory, mirrored>> /\ Outside /\ upsets' \in 0..MaxUpsets
    BY <1>1, NotWriting DEF ReadSummary, Outside, IInv, Stored, Tasks, TaskOK
<1>4. CASE Ends(w)
    BY <1>3, <1>4, WorkerEnds DEF Outside
<1>5. CASE ~Ends(w)
    <2>1. PICK todo : todo = First(Readable(summary.through, j.to), Batch)
        OBVIOUS
    <2>2. /\ ~(/\ summary.version # j.expected
               /\ text = {} \/ summary.version < j.expected \/ j.to <= summary.through)
          /\ \E e \in todo :
                Goes(w, "asked", [through |-> summary.through, version |-> summary.version,
                                  text |-> text, ids |-> Between(todo, 0, e), end |-> e])
        BY <1>1, <1>2, <1>5, <2>1 DEF ReadSummary
    <2>3. PICK e \in todo :
                Goes(w, "asked", [through |-> summary.through, version |-> summary.version,
                                  text |-> text, ids |-> Between(todo, 0, e), end |-> e])
        BY <2>2
    <2>4. Clean(text)
        BY <1>1, <1>2, <1>3, <2>2 DEF TextOK, IInv, Stored, Job
    <2>5. PICK b : b = [through |-> summary.through, version |-> summary.version,
                        text |-> text, ids |-> Between(todo, 0, e), end |-> e]
        OBVIOUS
    <2>6. \A i \in todo : i \in live /\ summary.through < i /\ i <= j.to /\ i \in Nat
        BY <2>1, Batches, Counts DEF IInv
    <2>7. \A i \in b.ids : i \in live /\ summary.through < i /\ i <= e /\ i \in Nat
        BY <2>5, <2>6 DEF Between
    <2>8. b \in Basis /\ b.through = summary.through /\ b.end = e /\ b.text = text
          /\ b.version = summary.version
        BY <2>5, <2>6, <2>7 DEF Basis, IInv, Stored
    <2>9. e <= count
        BY <1>3, <2>6, BoundsAssumption DEF IInv, Stored, Ids
    <2>10. SummaryOK(b)
        <3>1. Interval(b)
            BY <2>6, <2>7, <2>8, <2>9 DEF Interval
        <3>2. text \subseteq 1..summary.through
            BY <1>2, <1>3 DEF TextOK
        <3>3. Clean(b.ids)
            BY <2>7 DEF Clean, IInv, Behind
        <3>4. b.version <= summary.version
            BY <2>8 DEF IInv, Stored
        <3> QED  BY <2>4, <2>8, <3>1, <3>2, <3>3, <3>4 DEF SummaryOK
    <2>11. work'[w].step = "asked" /\ work'[w].job = j /\ work'[w].basis = b
        BY <1>1, <2>3, <2>5, <2>8, GoesTo DEF IInv, Steps
    <2>12. TaskOK(work'[w])
        BY <1>3, <2>10, <2>11 DEF TaskOK
    <2> QED  BY <1>3, <2>3, <2>5, <2>8, <2>12, WorkerGoes DEF Steps
<1> QED  BY <1>4, <1>5

LEMMA ReadRelationStep ==
    ASSUME IInv, NEW w \in Workers, ReadRelation(w)
    PROVE  IInv'
<1>1. PICK j \in Job : j = work[w].job
    BY DEF IInv, Stored, Task
<1>2. /\ work[w].step = "taken" /\ w \notin writing /\ JobOK(j) /\ j.type = "relationship"
      /\ UNCHANGED <<memory, mirrored>> /\ Outside /\ upsets' \in 0..MaxUpsets
    BY <1>1, NotWriting DEF ReadRelation, Outside, IInv, Stored, Tasks, TaskOK
<1>3. CASE Ends(w)
    BY <1>2, <1>3, WorkerEnds DEF Outside
<1>4. CASE ~Ends(w)
    <2>1. PICK todo : todo = Readable(j.from - 1, j.to)
        OBVIOUS
    <2>2. PICK b : b = [through |-> relation.watermark, version |-> relation.version,
                        text |-> relation.topics, ids |-> Last(todo, Batch), end |-> j.to]
        OBVIOUS
    <2>3. /\ ~(relation.version < j.expected) /\ ~Overruled(j)
          /\ Goes(w, "asked", b)
        BY <1>1, <1>4, <2>1, <2>2 DEF ReadRelation
    <2>4. \A i \in b.ids : i \in live /\ i \in Nat
        BY <2>1, <2>2, Batches, Counts DEF IInv
    <2>5. b \in Basis /\ b.version = relation.version /\ b.end = j.to /\ b.text = relation.topics
        BY <2>2, <2>4 DEF Basis, IInv, Stored, Job
    <2>6. RelationOK(b)
        <3>1. Clean(b.ids) /\ Clean(b.text)
            BY <2>4, <2>5 DEF Clean, IInv, Behind, Remembered
        <3>2. b.version <= relation.version /\ b.end <= past.asked
            BY <1>2, <2>5 DEF IInv, Stored, JobOK
        <3>3. relation.byAdmin => past.decided < b.end
            BY <1>2, <2>3, <2>5 DEF IInv, Stored, JobOK, Overruled, Job
        <3> QED  BY <3>1, <3>2, <3>3 DEF RelationOK
    <2>7. work'[w].step = "asked" /\ work'[w].job = j /\ work'[w].basis = b
        BY <1>1, <2>3, <2>5, GoesTo DEF IInv, Steps
    <2>8. TaskOK(work'[w])
        BY <1>2, <2>6, <2>7 DEF TaskOK
    <2> QED  BY <1>2, <2>3, <2>5, <2>8, WorkerGoes DEF Steps
<1> QED  BY <1>3, <1>4

LEMMA FailStep ==
    ASSUME IInv, NEW w \in Workers, Fail(w)
    PROVE  IInv'
<1>1. upsets' \in 0..MaxUpsets
    BY OneUpset DEF Fail, IInv
<1> QED  BY <1>1, WorkerEnds DEF Fail

-------------------------------------------------------------------------------
(* Messages, leases, crashes.                                                     *)

\* Messages come, go and are enqueued; a lease lapses.
LEMMA MovingOn ==
    ASSUME Stored, UNCHANGED <<scope, facts, summary, relation>>, count' \in Nat, count <= count',
           past' \in [asked : Nat, cleared : Nat, decided : Nat, lapsed : BOOLEAN],
           past.asked <= past'.asked, past'.decided = past.decided, past'.cleared = past.cleared,
           past.lapsed => past'.lapsed, \A i \in live' : i \in live \/ i > past.asked
    PROVE  /\ \A j \in Job : JobOK(j) => JobOK(j)'
           /\ \A t \in Task : TaskOK(t) => TaskOK(t)'
<1>1. count \in Nat /\ past.asked \in Nat /\ past.decided \in Nat
    BY Counts DEF Stored
<1>2. \A j \in Job : JobOK(j) => JobOK(j)'
    BY <1>1 DEF JobOK, scope, Job
<1>3. \A S : Clean(S) <=> Clean(S)'
    BY DEF Clean
<1>4. \A t : TextOK(t) => TextOK(t)'
    BY <1>3 DEF TextOK
<1>5. \A b \in Basis : Interval(b) => Interval(b)'
    BY <1>1 DEF Interval, Basis
<1>6. \A b \in Basis : /\ DigestOK(b) => DigestOK(b)'
                       /\ SummaryOK(b) => SummaryOK(b)'
    BY <1>3, <1>5 DEF DigestOK, SummaryOK, Active
<1>7. \A b \in Basis : RelationOK(b) => RelationOK(b)'
    BY <1>1, <1>3 DEF RelationOK, Basis
<1>8. \A t \in Task : t.basis \in Basis /\ t.job \in Job
    BY DEF Task
<1> QED  BY <1>2, <1>4, <1>5, <1>6, <1>7, <1>8 DEF TaskOK, scope

LEMMA LapseStep ==
    ASSUME IInv, NEW w \in Workers, Lapse(w)
    PROVE  IInv'
<1>1. /\ UNCHANGED <<scope, count, live, waiting, jobs, progress, facts, summary, relation, ops, opened,
                     writing, drawn, mirror, overtaken, missed>>
      /\ work[w].owns /\ upsets' \in 0..MaxUpsets
    BY OneUpset DEF Lapse, IInv, memory, governed, mirrored
<1>2. PICK t \in Task : t = work[w]
    BY DEF IInv, Stored
<1>3. PICK r : r = [t EXCEPT !.owns = FALSE]
    OBVIOUS
<1>4. r \in Task /\ r.step = t.step /\ r.job = t.job /\ r.basis = t.basis /\ ~r.owns
    BY <1>2, <1>3 DEF Task
<1>5. /\ work' \in [Workers -> Task] /\ work'[w] = r
      /\ \A v \in Workers : v # w => work'[v] = work[v]
    BY <1>2, <1>3, <1>4 DEF Lapse, IInv, Stored
<1>6. /\ past' \in [asked : Nat, cleared : Nat, decided : Nat, lapsed : BOOLEAN] /\ past'.lapsed
      /\ past'.asked = past.asked /\ past'.decided = past.decided /\ past'.cleared = past.cleared
    BY DEF Lapse, IInv, Stored
<1>7. /\ \A j \in Job : JobOK(j) => JobOK(j)'
      /\ \A u \in Task : TaskOK(u) => TaskOK(u)'
    <2>1. count' \in Nat /\ count <= count' /\ past.asked <= past'.asked
        BY <1>1, <1>6, Counts DEF IInv, Stored
    <2>2. \A i \in live' : i \in live \/ i > past.asked
        BY <1>1
    <2> QED  BY <1>1, <1>6, <2>1, <2>2, MovingOn DEF IInv
<1>8. Stored'
    BY <1>1, <1>5, <1>6 DEF IInv, Stored, scope
<1>9. Behind' /\ Remembered'
    BY <1>1, <1>6 DEF IInv, Behind, Remembered, Clean, Open, scope
<1>10. Serial' /\ SummaryIsHonest'
    BY <1>6 DEF Serial, SummaryIsHonest
<1>11. Tasks'
    <2>1. \A j \in jobs' : JobOK(j)'
        BY <1>1, <1>7 DEF IInv, Tasks, Stored
    <2>2. TaskOK(r)
        BY <1>1, <1>2, <1>4 DEF IInv, Tasks, TaskOK, TextOK
    <2>3. \A v \in Workers : work'[v] \in Task /\ TaskOK(work'[v])
        BY <1>4, <1>5, <2>2 DEF IInv, Tasks, Stored
    <2>4. ASSUME NEW v \in Workers  PROVE TaskOK(work[v])'
        <3>1. PICK u \in Task : u = work'[v]
            BY <2>3
        <3>2. TaskOK(u)'
            BY <1>7, <2>3, <3>1
        <3> QED  BY <3>1, <3>2
    <2> QED  BY <2>1, <2>4 DEF Tasks
<1>12. Mirroring'
    <2>1. Profile' = Profile
        BY <1>1 DEF Profile, Active
    <2>2. \A v \in Workers : v \in writing => work'[v].step \in {"refresh", "check"}
        BY <1>2, <1>4, <1>5 DEF IInv, Mirroring
    <2> QED  BY <1>1, <2>1, <2>2, StaysMirrored DEF IInv, mirrored
<1> QED  BY <1>8, <1>9, <1>10, <1>11, <1>12 DEF IInv

\* Nobody turns to anything else: what the workers have read means what it meant.
LEMMA WorkersStay ==
    ASSUME IInv, UNCHANGED work, \A j \in jobs' : JobOK(j)',
           \A t \in Task : TaskOK(t) => TaskOK(t)'
    PROVE  Tasks'
<1>1. ASSUME NEW v \in Workers  PROVE TaskOK(work[v])'
    <2>1. PICK u \in Task : u = work[v] /\ u = work'[v]
        BY DEF IInv, Stored
    <2>2. TaskOK(u)'
        BY <2>1 DEF IInv, Tasks
    <2> QED  BY <2>1, <2>2
<1> QED  BY <1>1 DEF Tasks

LEMMA ArriveStep ==
    ASSUME IInv, Arrive
    PROVE  IInv'
<1>1. /\ UNCHANGED <<scope, jobs, work, progress, facts, summary, relation, ops, opened,
                     drawn, mirror, overtaken, missed, past, upsets>>
      /\ count' = count + 1 /\ live' = live \cup {count + 1} /\ waiting' = waiting \cup {count + 1}
      /\ writing' = (IF kind = "group" THEN writing \cup {Archive} ELSE writing)
      /\ Archive \notin writing /\ count < MaxMessages
    BY DEF Arrive, memory, governed
<1>2. MaxMessages \in Nat
    BY BoundsAssumption
<1>3. count \in Nat /\ count' \in Ids /\ count <= count'
    BY <1>1, <1>2 DEF IInv, Stored, Ids
<1>4. Stored'
    <2>1. live' \subseteq 1..count' /\ waiting' \subseteq 1..count'
        BY <1>1, <1>3 DEF IInv, Stored
    <2>2. writing' \subseteq Writers
        BY <1>1 DEF IInv, Stored, Writers
    <2> QED  BY <1>1, <1>3, <2>1, <2>2 DEF IInv, Stored, scope
<1>5. Behind'
    <2>1. past.asked \in Nat /\ past.cleared \in Nat
        BY DEF IInv, Stored
    <2> QED  BY <1>1, <1>3, <2>1 DEF IInv, Behind, Clean, scope
<1>6. Remembered'
    <2>1. \A i \in DOMAIN facts : facts[i].source \in Nat
        BY FactsAre DEF IInv
    <2>2. progress.through \in Nat /\ summary.through \in Nat
        BY DEF IInv, Stored
    <2> QED  BY <1>1, <1>3, <2>1, <2>2 DEF IInv, Remembered, Clean, Open, scope
<1>7. /\ \A j \in Job : JobOK(j) => JobOK(j)'
      /\ \A u \in Task : TaskOK(u) => TaskOK(u)'
    <2>1. \A i \in live' : i \in live \/ i > past.asked
        BY <1>1, <1>3 DEF IInv, Behind, Stored
    <2>2. past' \in [asked : Nat, cleared : Nat, decided : Nat, lapsed : BOOLEAN]
          /\ past.asked <= past'.asked
        BY <1>1 DEF IInv, Stored
    <2> QED  BY <1>1, <1>3, <2>1, <2>2, MovingOn DEF IInv
<1>8. Tasks'
    <2>1. \A j \in jobs' : JobOK(j)'
        BY <1>1, <1>7 DEF IInv, Tasks, Stored
    <2> QED  BY <1>1, <1>7, <2>1, WorkersStay
<1>9. Serial' /\ SummaryIsHonest'
    BY <1>1 DEF IInv, Serial, SummaryIsHonest, Active, scope
<1>10. Mirroring'
    <2>1. Profile' = Profile
        BY <1>1 DEF Profile, Active
    <2>2. CASE kind = "group"
        <3>1. \A w \in Workers : w \in writing' => work'[w].step \in {"refresh", "check"}
            BY <1>1, <2>2, WritersAssumption DEF IInv, Mirroring
        <3> QED  BY <1>1, <2>2, <3>1, WritesToo DEF IInv, Writers
    <2>3. CASE kind # "group"
        BY <1>1, <2>3 DEF IInv, Mirroring, Holding, scope
    <2> QED  BY <2>2, <2>3
<1> QED  BY <1>4, <1>5, <1>6, <1>8, <1>9, <1>10 DEF IInv

LEMMA PurgeStep ==
    ASSUME IInv, PurgeExpired
    PROVE  IInv'
<1>1. /\ UNCHANGED <<scope, count, waiting, jobs, work, progress, facts, summary, relation, ops, opened,
                     writing, drawn, mirror, overtaken, missed, past, upsets>>
      /\ live' \subseteq live
    BY DEF PurgeExpired, memory, governed, mirrored
<1>2. Stored' /\ Behind' /\ Remembered'
    BY <1>1 DEF IInv, Stored, Behind, Remembered, Clean, Open, scope
<1>3. /\ \A j \in Job : JobOK(j) => JobOK(j)'
      /\ \A u \in Task : TaskOK(u) => TaskOK(u)'
    <2>1. count' \in Nat /\ count <= count' /\ past.asked <= past'.asked
          /\ past' \in [asked : Nat, cleared : Nat, decided : Nat, lapsed : BOOLEAN]
        BY <1>1, Counts DEF IInv, Stored
    <2> QED  BY <1>1, <2>1, MovingOn DEF IInv
<1>4. Tasks'
    <2>1. \A j \in jobs' : JobOK(j)'
        BY <1>1, <1>3 DEF IInv, Tasks, Stored
    <2> QED  BY <1>1, <1>3, <2>1, WorkersStay
<1>5. Serial' /\ SummaryIsHonest'
    BY <1>1 DEF IInv, Serial, SummaryIsHonest, Active, scope
<1>6. Mirroring'
    <2>1. Profile' = Profile
        BY <1>1 DEF Profile, Active
    <2> QED  BY <1>1, <2>1 DEF IInv, Mirroring, Holding, scope
<1> QED  BY <1>2, <1>4, <1>5, <1>6 DEF IInv

LEMMA EnqueueStep ==
    ASSUME IInv, NEW i \in waiting, Enqueue(i)
    PROVE  IInv'
<1> DEFINE new(t) == [type |-> t, from |-> i, to |-> i, expected |-> Expected(t)]
           Ready(t) == {j \in jobs : j.type = t /\ t # "summary" /\ ~Owned(j)}
           Added(t) == IF Ready(t) = {} THEN {new(t)} ELSE {[j EXCEPT !.to = i] : j \in Ready(t)}
<1>1. /\ UNCHANGED <<scope, count, live, work, progress, facts, summary, relation, ops, opened,
                     writing, drawn, mirror, overtaken, missed, upsets>>
      /\ i = Min(waiting) /\ waiting' = waiting \ {i}
      /\ jobs' = (jobs \ UNION {Ready(t) : t \in types}) \cup UNION {Added(t) : t \in types}
      /\ past' = [past EXCEPT !.asked = i]
    BY DEF Enqueue, memory, governed, mirrored
<1>2. /\ i \in Nat /\ i >= 1 /\ i <= count /\ count \in Nat /\ past.asked < i
      /\ past.asked \in Nat /\ past.decided \in Nat /\ past.decided < i
      /\ \A k \in waiting : i <= k
    <2>1. \A k \in waiting : i <= k
        BY <1>1, FirstOf, Counts DEF IInv
    <2>2. count \in Nat /\ i \in 1..count /\ past.asked < i /\ past.decided <= past.asked
          /\ past.asked \in Nat /\ past.decided \in Nat
        BY Counts DEF IInv, Stored, Behind
    <2> QED  BY <2>1, <2>2
<1>3. /\ past' \in [asked : Nat, cleared : Nat, decided : Nat, lapsed : BOOLEAN]
      /\ past'.asked = i /\ past'.decided = past.decided /\ past'.cleared = past.cleared
      /\ past'.lapsed = past.lapsed
    BY <1>1, <1>2 DEF IInv, Stored
<1>4. types \subseteq {"facts", "summary", "relationship"}
    BY CasesAssumption DEF IInv, Stored, scope
<1>5. /\ \A j \in Job : JobOK(j) => JobOK(j)'
      /\ \A u \in Task : TaskOK(u) => TaskOK(u)'
    <2>1. count' \in Nat /\ count <= count' /\ past.asked <= past'.asked
        BY <1>1, <1>2, <1>3
    <2>2. \A k \in live' : k \in live \/ k > past.asked
        BY <1>1
    <2> QED  BY <1>1, <1>3, <2>1, <2>2, MovingOn DEF IInv
<1>6. ASSUME NEW t \in types  PROVE \E j \in Job : j = new(t) /\ JobOK(j)'
    <2>1. PICK e : e = Expected(t)
        OBVIOUS
    <2>2. e \in Nat /\ (t = "summary" => e = summary.version) /\ (t = "relationship" => e = relation.version)
        BY <1>4, <2>1 DEF Expected, IInv, Stored
    <2>3. PICK j : j = new(t)
        OBVIOUS
    <2>4. j \in Job /\ j.type = t /\ j.from = i /\ j.to = i /\ j.expected = e
        BY <1>2, <1>4, <2>1, <2>2, <2>3 DEF Job
    <2>5. /\ summary' = summary /\ relation' = relation /\ types' = types
          /\ summary.version \in Nat /\ relation.version \in Nat
        BY <1>1 DEF scope, IInv, Stored
    <2>6. JobOK(j)'
        BY ONLY <1>2, <1>3, <2>2, <2>4, <2>5, t \in types DEF JobOK
    <2> QED  BY <2>3, <2>4, <2>6
<1>7. ASSUME NEW t \in types, NEW k \in Ready(t)
      PROVE  [k EXCEPT !.to = i] \in Job /\ JobOK([k EXCEPT !.to = i])'
    <2>1. k \in Job /\ JobOK(k) /\ k.type = t /\ t # "summary"
        BY DEF IInv, Stored, Tasks
    <2>2. PICK j : j = [k EXCEPT !.to = i]
        OBVIOUS
    <2>3. j \in Job /\ j.type = t /\ j.from = k.from /\ j.to = i /\ j.expected = k.expected
        BY <1>2, <2>1, <2>2 DEF Job
    <2>4. k.from <= i
        BY <1>2, <2>1 DEF JobOK, Job
    <2>5. JobOK(j)'
        BY <1>1, <1>2, <1>3, <2>1, <2>3, <2>4 DEF JobOK, scope
    <2> QED  BY <2>2, <2>3, <2>5
<1>8. \A j \in jobs' : j \in Job /\ JobOK(j)'
    <2> SUFFICES ASSUME NEW j \in jobs'  PROVE j \in Job /\ JobOK(j)'
        OBVIOUS
    <2>1. CASE j \in jobs
        BY <1>5, <2>1 DEF IInv, Stored, Tasks
    <2>2. CASE j \notin jobs
        <3>1. PICK t \in types : j \in Added(t)
            BY <1>1, <2>2
        <3>2. j = new(t) \/ \E k \in Ready(t) : j = [k EXCEPT !.to = i]
            BY <3>1
        <3> QED  BY <1>6, <1>7, <3>2
    <2> QED  BY <2>1, <2>2
<1>9. \A w \in Workers : work[w].owns /\ work[w].job \in jobs => work[w].job \in jobs'
    <2> SUFFICES ASSUME NEW w \in Workers, work[w].owns, work[w].job \in jobs
                 PROVE  work[w].job \in jobs'
        OBVIOUS
    <2>1. Owned(work[w].job)
        BY DEF Owned
    <2> QED  BY <1>1, <2>1
<1> HIDE DEF new, Ready, Added
<1>10. Stored'
    BY <1>1, <1>3, <1>8 DEF IInv, Stored, scope
<1>11. Behind' /\ Remembered'
    <2>1. \A k \in waiting' : i < k
        BY <1>1, <1>2, Counts DEF IInv
    <2>2. relation.watermark <= i
        BY <1>2 DEF IInv, Remembered, Stored
    <2> QED  BY <1>1, <1>2, <1>3, <2>1, <2>2 DEF IInv, Behind, Remembered, Clean, Open, scope
<1>12. Tasks'
    BY <1>1, <1>5, <1>8, WorkersStay
<1>13. Serial' /\ SummaryIsHonest'
    BY <1>1, <1>3, <1>9 DEF IInv, Serial, SummaryIsHonest, Active, scope
<1>14. Mirroring'
    <2>1. Profile' = Profile
        BY <1>1 DEF Profile, Active
    <2> QED  BY <1>1, <2>1 DEF IInv, Mirroring, Holding, scope
<1> QED  BY <1>10, <1>11, <1>12, <1>13, <1>14 DEF IInv

-------------------------------------------------------------------------------
(* The mirror, and steps that touch nothing that is remembered.                   *)

LEMMA Idly ==
    ASSUME IInv, UNCHANGED <<scope, count, live, jobs, work, memory, past>>, waiting' \subseteq waiting,
           Stored', Mirroring', \A o \in Operators : ops'[o].action = "clear" => kind = "private",
           Cardinality(Open') \in Int, Cardinality(Open') + opened <= Cardinality(Open) + opened',
           Cardinality(Open) \in Int
    PROVE  IInv'
<1>1. UNCHANGED <<progress, facts, summary, relation>>
    BY DEF memory
<1>2. Behind' /\ SummaryIsHonest' /\ Serial'
    BY <1>1 DEF IInv, Behind, SummaryIsHonest, Serial, Active, Clean, scope
<1>3. Remembered'
    <2>1. Len(facts) \in Nat /\ progress.through \in Nat /\ opened \in Int /\ opened' \in Int
        BY <1>1, FactsAre DEF IInv, Stored
    <2>2. Len(facts) + Cardinality(Open') <= progress.through + opened'
        BY <2>1 DEF IInv, Remembered
    <2> QED  BY <1>1, <2>2 DEF IInv, Remembered, Clean, scope
<1>4. Tasks'
    <2>1. \A j \in jobs' : JobOK(j)'
        BY <1>1, Standing DEF IInv, Tasks
    <2> QED  BY <1>1, <2>1, Standing, WorkersStay
<1> QED  BY <1>2, <1>3, <1>4 DEF IInv

LEMMA OpenOnes ==
    /\ IsFiniteSet(Open) /\ Cardinality(Open) \in Nat
    /\ \A o \in Open : Cardinality(Open \ {o}) = Cardinality(Open) - 1
<1>1. IsFiniteSet(Open)
    BY WritersAssumption, FS_Subset DEF Open
<1> QED  BY <1>1, FS_CardinalityType, FS_RemoveElement

LEMMA MirrorStep ==
    ASSUME IInv, NEW p \in Writers, Mirrors(p) \/ MirrorFails(p)
    PROVE  IInv'
<1>1. /\ UNCHANGED <<scope, count, live, waiting, jobs, work, memory, governed, past>>
      /\ p \in writing /\ upsets' \in 0..MaxUpsets
    <2>1. upsets \in 0..MaxUpsets
        BY DEF IInv, Stored
    <2>2. /\ UNCHANGED <<scope, count, live, waiting, jobs, work, memory, governed, past>>
          /\ p \in writing /\ (UNCHANGED upsets \/ Upset)
        BY DEF Mirrors, MirrorFails, ReadProfile, WriteProfile, Holding
    <2> QED  BY <2>1, <2>2, OneUpset DEF IInv
<1>2. Profile' = Profile
    BY <1>1 DEF Profile, Active, memory
<1>3. /\ waiting' \subseteq waiting /\ \A o \in Operators : ops'[o].action = "clear" => kind = "private"
      /\ Cardinality(Open') \in Int /\ Cardinality(Open) \in Int
      /\ Cardinality(Open') + opened <= Cardinality(Open) + opened'
    <2>1. ops' = ops /\ opened' = opened /\ opened \in Int
        BY <1>1 DEF governed, IInv, Stored
    <2>2. Open' = Open
        BY <2>1 DEF Open
    <2> QED  BY <1>1, <2>1, <2>2, OpenOnes DEF IInv, Remembered
<1>4. drawn = [q \in Writers |-> drawn[q]] /\ writing \subseteq Writers /\ p \in Beside(p)
    BY DEF IInv, Stored, Beside
<1>5. CASE ReadProfile(p)
    <2>1. /\ UNCHANGED <<writing, mirror, missed>> /\ overtaken' = Overtaken(p)
          /\ drawn' = [drawn EXCEPT ![p] = Profile] /\ Holding \cap Beside(p) = {}
        BY <1>5 DEF ReadProfile, Free
    <2>2. drawn' = [q \in Writers |-> drawn'[q]] /\ drawn'[p] = Profile
          /\ \A q \in Writers : q # p => drawn'[q] = drawn[q]
        BY <1>4, <2>1
    <2>3. Holding \subseteq Holding' /\ Holding' \subseteq Holding \cup {p}
        BY <1>4, <2>1, <2>2 DEF Holding
    <2>4. \A q \in Holding : Process[q] # Process[p] /\ q \in overtaken'
        BY <1>4, <2>1 DEF Overtaken, Beside, Holding
    <2>5. Mirroring'
        <3>1. overtaken' \subseteq Holding'
            BY <2>1, <2>3 DEF Overtaken, IInv, Mirroring
        <3>2. \A q, r \in Holding' : Process[q] = Process[r] => q = r
            BY <2>3, <2>4 DEF IInv, Mirroring
        <3>3. writing' = Holding' => \A q \in Holding' \ overtaken' : drawn'[q] = Profile'
            BY <1>2, <2>2, <2>3, <2>4
        <3>4. \A q \in Writers : drawn'[q] # None => q \in writing'
            BY <1>1, <2>1, <2>2 DEF IInv, Mirroring
        <3> QED  BY <1>1, <1>2, <2>1, <3>1, <3>2, <3>3, <3>4 DEF IInv, Mirroring, scope
    <2>6. Stored'
        BY <1>1, <2>1, <2>2 DEF IInv, Stored, scope, memory, governed
    <2> QED  BY <1>1, <1>3, <2>5, <2>6, Idly
<1>6. ASSUME WriteProfile(p) \/ MirrorFails(p)  PROVE IInv'
    <2>1. /\ writing' = writing \ {p} /\ drawn' = [drawn EXCEPT ![p] = None] /\ missed' \in BOOLEAN
          /\ \/ /\ p \in Holding /\ mirror' = drawn[p]
                /\ missed' = (p \in overtaken) /\ overtaken' = overtaken \ {p}
             \/ /\ Holding \cap Beside(p) = {} \/ p \in Holding
                /\ missed' = TRUE /\ overtaken' = Overtaken(p) /\ UNCHANGED mirror
        <3>1. CASE WriteProfile(p)
            BY <3>1 DEF WriteProfile
        <3>2. CASE MirrorFails(p)
            BY <3>2 DEF MirrorFails, Free
        <3> QED  BY <1>6, <3>1, <3>2
    <2>2. drawn' = [q \in Writers |-> drawn'[q]] /\ drawn'[p] = None
          /\ \A q \in Writers : q # p => drawn'[q] = drawn[q]
        BY <1>4, <2>1
    <2>3. Holding' = Holding \ {p}
        BY <1>4, <2>1, <2>2 DEF Holding
    <2>4. Mirroring'
        <3>1. /\ \A q \in Writers : drawn'[q] # None => q \in writing'
              /\ \A q, r \in Holding' : Process[q] = Process[r] => q = r
              /\ \A w \in Workers : w \in writing' => work'[w].step \in {"refresh", "check"}
            BY <1>1, <2>1, <2>2, <2>3 DEF IInv, Mirroring
        <3>2. CASE p \in Holding /\ mirror' = drawn[p] /\ missed' = (p \in overtaken)
                   /\ overtaken' = overtaken \ {p}
            <4>1. overtaken' \subseteq Holding'
                BY <2>3, <3>2 DEF IInv, Mirroring
            <4>2. ASSUME kind = "group", writing' = Holding', NEW q \in Holding \ overtaken
                  PROVE  drawn[q] = Profile
                <5>1. writing = Holding
                    BY <1>1, <2>1, <2>3, <3>2, <4>2
                <5> QED  BY <4>2, <5>1 DEF IInv, Mirroring
            <4>3. kind = "group" /\ writing' = {} /\ ~missed' => mirror' = Profile'
                <5>1. writing' = {} => Holding' = {}
                    BY DEF Holding
                <5> QED  BY <1>2, <3>2, <4>2, <5>1
            <4>4. kind = "group" /\ writing' = Holding' =>
                    \A q \in Holding' \ overtaken' : drawn'[q] = Profile'
                BY <1>2, <1>4, <2>2, <2>3, <3>2, <4>2 DEF Holding
            <4> QED  BY <1>1, <3>1, <4>1, <4>3, <4>4 DEF Mirroring, scope
        <3>3. CASE (Holding \cap Beside(p) = {} \/ p \in Holding) /\ missed' = TRUE /\ overtaken' = Overtaken(p)
            <4>1. overtaken' \subseteq Holding'
                BY <1>4, <2>3, <3>3 DEF Overtaken, IInv, Mirroring
            <4>2. Holding' \ overtaken' = {}
                BY <1>4, <2>3, <3>3 DEF Overtaken, Beside, IInv, Mirroring
            <4> QED  BY <1>1, <3>1, <3>3, <4>1, <4>2 DEF Mirroring, scope
        <3> QED  BY <2>1, <3>2, <3>3
    <2>5. Stored'
        BY <1>1, <2>1, <2>2 DEF IInv, Stored, scope, memory, governed
    <2> QED  BY <1>1, <1>3, <2>4, <2>5, Idly
<1> QED  BY <1>5, <1>6 DEF Mirrors

\* Of a process that dies the workers leave their jobs; the others go on.
LEMMA CrashStep ==
    ASSUME IInv, NEW p \in Writers, Crash(p)
    PROVE  IInv'
<1>1. /\ UNCHANGED <<scope, count, live, jobs, memory, governed, mirror, past>>
      /\ work' = [w \in Workers |-> IF w \in Beside(p) THEN Idle ELSE work[w]]
      /\ waiting' \subseteq waiting /\ writing' = writing \ Beside(p) /\ overtaken' = Overtaken(p)
      /\ drawn' = [q \in Writers |-> IF q \in Beside(p) THEN None ELSE drawn[q]]
      /\ missed' = (missed \/ writing \cap Beside(p) # {})
      /\ upsets' \in 0..MaxUpsets
    BY OneUpset DEF Crash, IInv
<1>2. UNCHANGED <<progress, facts, summary, relation, ops, opened>>
    BY <1>1 DEF memory, governed
<1>3. Stored'
    <2>1. work' \in [Workers -> Task] /\ missed' \in BOOLEAN
        BY <1>1, Rest DEF IInv, Stored
    <2> QED  BY <1>1, <1>2, <2>1 DEF IInv, Stored, scope
<1>4. Behind' /\ SummaryIsHonest' /\ Remembered'
    BY <1>1, <1>2 DEF IInv, Behind, SummaryIsHonest, Remembered, Active, Clean, Open, scope
<1>5. Serial'
    BY <1>1, Rest DEF IInv, Serial, scope
<1>6. Tasks'
    <2>1. \A j \in jobs' : JobOK(j)'
        BY <1>1, <1>2, Standing DEF IInv, Tasks
    <2>2. ASSUME NEW w \in Workers  PROVE TaskOK(work[w])'
        <3>1. PICK t : t = work'[w]
            OBVIOUS
        <3>2. TaskOK(t)
            <4>1. t = Idle \/ t = work[w]
                BY <1>1, <3>1
            <4>2. TaskOK(work[w])
                BY DEF IInv, Tasks
            <4> QED  BY <4>1, <4>2, Rest DEF TaskOK
        <3>3. TaskOK(t)'
            BY <1>1, <1>2, <3>2, Standing
        <3> QED  BY <3>1, <3>3
    <2> QED  BY <2>1, <2>2 DEF Tasks
<1>7. Mirroring'
    <2>1. Profile' = Profile
        BY <1>2 DEF Profile, Active
    <2>2. Holding' = Holding \ Beside(p) /\ Holding' = overtaken'
        BY <1>1 DEF Holding, Overtaken, IInv, Stored, Mirroring
    <2>3. /\ \A q \in Writers : drawn'[q] # None => q \in writing'
          /\ \A q, r \in Holding' : Process[q] = Process[r] => q = r
          /\ \A w \in Workers : w \in writing' => work'[w].step \in {"refresh", "check"}
        BY <1>1, <2>2 DEF IInv, Mirroring
    <2>4. kind = "group" /\ writing' = {} /\ ~missed' => mirror' = Profile'
        BY <1>1, <2>1 DEF IInv, Mirroring
    <2> QED  BY <1>1, <2>2, <2>3, <2>4 DEF Mirroring, scope
<1> QED  BY <1>3, <1>4, <1>5, <1>6, <1>7 DEF IInv

-------------------------------------------------------------------------------
(* The administrators.                                                            *)

\* A preview takes one of the operations that are open at once; its end gives it back.
LEMMA OpensOne ==
    ASSUME Stored, Remembered, NEW o \in Operators, NEW q, ops' = [ops EXCEPT ![o] = q],
           q.action = "clear" => kind = "private"
    PROVE  /\ ops' = [a \in Operators |-> ops'[a]]
           /\ \A a \in Operators : ops'[a].action = "clear" => kind = "private"
           /\ Cardinality(Open') \in Nat /\ Cardinality(Open') <= Cardinality(Open) + 1
           /\ ops[o] # NoOp /\ q = NoOp => Cardinality(Open') + 1 = Cardinality(Open)
<1>1. ops = [a \in Operators |-> ops[a]]
    BY DEF Stored
<1>2. ops'[o] = q /\ \A a \in Operators : a # o => ops'[a] = ops[a]
    BY <1>1
<1>3. ops' = [a \in Operators |-> ops'[a]]
    BY <1>1
<1>4. Open' \subseteq Open \cup {o} /\ (ops[o] # NoOp /\ q = NoOp => o \in Open /\ Open' = Open \ {o})
    BY <1>2 DEF Open
<1>5. IsFiniteSet(Open \cup {o}) /\ Cardinality(Open \cup {o}) <= Cardinality(Open) + 1
      /\ Cardinality(Open) \in Nat
    BY OpenOnes, FS_AddElement
<1>6. IsFiniteSet(Open') /\ Cardinality(Open') <= Cardinality(Open \cup {o})
    BY <1>4, <1>5, FS_Subset
<1>7. Cardinality(Open') \in Nat /\ Cardinality(Open \cup {o}) \in Nat
    BY <1>5, <1>6, FS_CardinalityType
<1>8. ops[o] # NoOp /\ q = NoOp => Cardinality(Open') + 1 = Cardinality(Open)
    BY <1>4, <1>5, OpenOnes
<1>9. \A a \in Operators : ops'[a].action = "clear" => kind = "private"
    BY <1>2 DEF Remembered
<1> QED  BY <1>3, <1>5, <1>6, <1>7, <1>8, <1>9

LEMMA PreviewStep ==
    ASSUME IInv, NEW o \in Operators, Preview(o)
    PROVE  IInv'
<1>1. /\ UNCHANGED <<scope, count, live, waiting, jobs, work, memory, mirrored, past, upsets>>
      /\ opened' = opened + 1 /\ opened < MaxOperations
    BY DEF Preview
<1>2. PICK q \in Prepared : ops' = [ops EXCEPT ![o] = q]
    BY DEF Preview
<1>3. q.action = "clear" => kind = "private"
    <2>1. CASE kind # "private"
        <3>1. \/ q = Op("add", 0, None) \/ q = Op("relate", 0, relation.version)
              \/ \E f \in Active, a \in {"modify", "delete"} : q = Op(a, f, None)
            BY <1>2, <2>1 DEF Prepared
        <3> QED  BY <3>1 DEF Op
    <2> QED  BY <2>1
<1>4. opened \in Nat /\ opened' \in 0..MaxOperations
    <2>1. MaxOperations \in Nat
        BY BoundsAssumption
    <2>2. opened \in 0..MaxOperations
        BY DEF IInv, Stored
    <2> QED  BY ONLY <1>1, <2>1, <2>2
<1>5. /\ ops' = [a \in Operators |-> ops'[a]]
      /\ \A a \in Operators : ops'[a].action = "clear" => kind = "private"
      /\ Cardinality(Open') \in Nat /\ Cardinality(Open') <= Cardinality(Open) + 1
    BY <1>2, <1>3, OpensOne DEF IInv
<1>6. Cardinality(Open') + opened <= Cardinality(Open) + opened'
    BY <1>1, <1>4, <1>5, OpenOnes
<1>7. Stored'
    BY <1>1, <1>4, <1>5 DEF IInv, Stored, scope, memory, mirrored
<1>8. Mirroring'
    BY <1>1 DEF IInv, Mirroring, Holding, Profile, Active, mirrored, memory, scope
<1> QED  BY <1>1, <1>5, <1>6, <1>7, <1>8, Idly, OpenOnes

\* An operation comes to its end.
LEMMA Consumes ==
    ASSUME IInv, NEW o \in Operators, Consume(o), opened' = opened
    PROVE  /\ ops' = [a \in Operators |-> ops'[a]]
           /\ \A a \in Operators : ops'[a].action = "clear" => kind = "private"
           /\ Cardinality(Open') \in Nat /\ Cardinality(Open) \in Nat
           /\ Cardinality(Open') + 1 = Cardinality(Open) /\ opened \in Nat
<1>1. NoOp.action # "clear"
    BY DEF NoOp, Op
<1>2. ops' = [ops EXCEPT ![o] = NoOp] /\ ops[o] # NoOp /\ Stored /\ Remembered /\ opened \in Nat
    BY DEF Consume, IInv, Stored
<1>3. PICK q : q = NoOp
    OBVIOUS
<1>4. ops' = [ops EXCEPT ![o] = q] /\ (q.action = "clear" => kind = "private")
    BY <1>1, <1>2, <1>3
<1> QED  BY <1>2, <1>3, <1>4, OpensOne, OpenOnes

LEMMA CancelStep ==
    ASSUME IInv, NEW o \in Operators, Consume(o),
           UNCHANGED <<scope, count, live, waiting, jobs, work, memory, opened, mirrored, past, upsets>>
    PROVE  IInv'
<1>1. /\ ops' = [a \in Operators |-> ops'[a]]
      /\ \A a \in Operators : ops'[a].action = "clear" => kind = "private"
      /\ Cardinality(Open') \in Nat /\ Cardinality(Open) \in Nat
      /\ Cardinality(Open') + 1 = Cardinality(Open) /\ opened \in Nat
    BY Consumes
<1>2. Stored'
    BY <1>1 DEF IInv, Stored, scope, memory, mirrored
<1>3. Mirroring'
    BY DEF IInv, Mirroring, Holding, Profile, Active, mirrored, memory, scope
<1> QED  BY <1>1, <1>2, <1>3, Idly

LEMMA NoSummary == Stored /\ kind = "group" => "summary" \notin types
BY CasesAssumption DEF Stored, scope
LEMMA Kinds == Stored => kind \in {"group", "private"}
BY CasesAssumption DEF Stored, scope

\* Facts are added, or those of a private chat change.
LEMMA FactsGrow ==
    ASSUME Stored, UNCHANGED <<scope, count, live, relation, past, summary>>,
           DOMAIN facts \subseteq DOMAIN facts', kind = "group" => Active \subseteq Active'
    PROVE  /\ \A j : JobOK(j) => JobOK(j)'
           /\ \A t : TaskOK(t) => TaskOK(t)'
<1>1. \A j : JobOK(j) => JobOK(j)'
    BY DEF JobOK, scope
<1>2. \A S : Clean(S) => Clean(S)'
    BY DEF Clean
<1>3. \A t : TextOK(t) => TextOK(t)'
    BY DEF TextOK, Clean
<1>4. \A b : /\ Interval(b) => Interval(b)'
             /\ kind = "group" /\ DigestOK(b) => DigestOK(b)'
             /\ SummaryOK(b) => SummaryOK(b)'
             /\ RelationOK(b) => RelationOK(b)'
    BY DEF Interval, DigestOK, SummaryOK, RelationOK, Clean
<1> QED  BY <1>1, <1>3, <1>4 DEF TaskOK, scope

\* A member's summary is emptied: no summary that is under way rests on it.
LEMMA SummaryEmptied ==
    ASSUME Stored, UNCHANGED <<scope, count, live, relation, past>>, kind = "group",
           DOMAIN facts \subseteq DOMAIN facts', summary'.through = 0
    PROVE  /\ \A j : JobOK(j) => JobOK(j)'
           /\ \A t \in Task : TaskOK(t) => TaskOK(t)'
<1>1. \A j : JobOK(j) => JobOK(j)' /\ j.type # "summary"
    BY NoSummary DEF JobOK, scope
<1>2. \A b : /\ Interval(b) => Interval(b)'
             /\ RelationOK(b) => RelationOK(b)'
    BY DEF Interval, RelationOK, Clean
<1>3. \A b \in Basis : DigestOK(b) => DigestOK(b)'
    BY DEF DigestOK, Basis
<1>4. \A t \in Task : t.basis \in Basis
    BY DEF Task
<1> QED  BY <1>1, <1>2, <1>3, <1>4 DEF TaskOK, scope

\* The status of a fact changes.
Restates(h, g, k, st) ==
    /\ g \in Seq(Fact) /\ k \in 1..Len(g) /\ st \in {"active", "superseded", "deleted"}
    /\ h = [g EXCEPT ![k].status = st]
LEMMA Restated ==
    ASSUME NEW h, NEW g, NEW k, NEW st, Restates(h, g, k, st)
    PROVE  /\ h \in Seq(Fact) /\ Len(h) = Len(g) /\ DOMAIN h = 1..Len(g)
           /\ \A i \in 1..Len(g) : h[i].source = g[i].source
<1> USE DEF Restates
<1>1. g[k] \in Fact /\ DOMAIN g = 1..Len(g)
    OBVIOUS
<1>2. PICK r : r = [g[k] EXCEPT !.status = st]
    OBVIOUS
<1>3. r \in Fact /\ r.source = g[k].source
    BY <1>1, <1>2 DEF Fact
<1>4. h = [g EXCEPT ![k] = r]
    BY <1>2
<1>5. h \in Seq(Fact) /\ Len(h) = Len(g)
    BY <1>3, <1>4, ExceptSeq
<1> QED  BY <1>1, <1>3, <1>4, <1>5

\* Records of which some fields change.
Summary == [version : Nat, through : Nat, text : SUBSET Nat]
Relation == [topics : SUBSET Nat, watermark : Nat, version : Nat, byAdmin : BOOLEAN]
Past == [asked : Nat, cleared : Nat, decided : Nat, lapsed : BOOLEAN]
LEMMA Emptied ==
    ASSUME NEW s \in Summary, NEW r, r = [s EXCEPT !.text = {}, !.through = 0]
    PROVE  r \in Summary /\ r.through = 0 /\ r.text = {} /\ r.version = s.version
BY DEF Summary
LEMMA Decides ==
    ASSUME NEW s \in Past, NEW n \in Nat, NEW r, r = [s EXCEPT !.decided = n]
    PROVE  /\ r \in Past /\ r.asked = s.asked /\ r.cleared = s.cleared /\ r.lapsed = s.lapsed
           /\ r.decided = n
BY DEF Past
LEMMA Clears ==
    ASSUME NEW s \in Past, NEW m \in Nat, NEW n \in Nat, NEW r,
           r = [s EXCEPT !.cleared = m, !.decided = n]
    PROVE  /\ r \in Past /\ r.asked = s.asked /\ r.cleared = m /\ r.lapsed = s.lapsed
           /\ r.decided = n
BY DEF Past
LEMMA Decrees ==
    ASSUME NEW s \in Relation, NEW r, r = [s EXCEPT !.version = @ + 1, !.byAdmin = TRUE]
    PROVE  r \in Relation /\ r.topics = s.topics /\ r.watermark = s.watermark
           /\ r.version = s.version + 1
<1>1. s.version \in Nat
    BY DEF Relation
<1>2. PICK v \in Nat : v = s.version + 1
    BY <1>1
<1>3. r = [s EXCEPT !.version = v, !.byAdmin = TRUE]
    BY <1>2
<1> QED  BY <1>1, <1>2, <1>3 DEF Relation
LEMMA Drops ==
    ASSUME NEW s \in Relation, NEW r, r = [s EXCEPT !.topics = {}, !.version = @ + 1, !.byAdmin = TRUE]
    PROVE  r \in Relation /\ r.topics = {} /\ r.watermark = s.watermark /\ r.version = s.version + 1
<1>1. s.version \in Nat /\ s.watermark \in Nat
    BY DEF Relation
<1>2. PICK v \in Nat : v = s.version + 1
    BY <1>1
<1>3. r = [s EXCEPT !.topics = {}, !.version = v, !.byAdmin = TRUE]
    BY <1>2
<1> QED  BY <1>1, <1>2, <1>3 DEF Relation

Consumed(o) ==
    Consume(o) /\ o \notin writing
    /\ UNCHANGED <<scope, count, waiting, work, opened, drawn, mirror, overtaken, missed, upsets>>

LEMMA FactsChange ==
    ASSUME IInv, NEW o \in Operators, Consumed(o), UNCHANGED <<relation, progress, live, jobs, past>>,
           writing' = (IF kind = "group" THEN writing \cup {o} ELSE writing),
           facts' \in Seq(Fact), Len(facts) <= Len(facts'), Len(facts') <= Len(facts) + 1,
           \A i \in 1..Len(facts) : facts'[i].source = facts[i].source,
           \A i \in 1..Len(facts') : i > Len(facts) => facts'[i].source = 0,
           \/ summary' = summary /\ (kind = "group" => Active \subseteq Active')
           \/ kind = "group" /\ summary' = [summary EXCEPT !.text = {}, !.through = 0]
    PROVE  IInv'
<1>1. /\ UNCHANGED <<scope, count, waiting, work, opened, drawn, mirror, overtaken, missed, upsets>>
      /\ o \notin writing /\ o \in Writers /\ o \notin Workers
    BY WritersAssumption DEF Consumed, Writers
<1>2. /\ ops' = [a \in Operators |-> ops'[a]]
      /\ \A a \in Operators : ops'[a].action = "clear" => kind = "private"
      /\ Cardinality(Open') \in Nat /\ Cardinality(Open) \in Nat
      /\ Cardinality(Open') + 1 = Cardinality(Open) /\ opened \in Nat
    BY Consumes DEF Consumed
<1>3. /\ Len(facts) \in Nat /\ Len(facts') \in Nat /\ DOMAIN facts = 1..Len(facts)
      /\ DOMAIN facts' = 1..Len(facts') /\ count \in Nat
    BY FactsAre, Counts DEF IInv
<1>4. /\ summary' \in [version : Nat, through : Nat, text : SUBSET Nat]
      /\ summary'.through \in Nat /\ summary.through \in Nat /\ summary.text \subseteq Nat
      /\ \/ summary' = summary
         \/ kind = "group" /\ summary'.through = 0 /\ summary'.text = {}
    <2>1. summary \in Summary
        BY DEF IInv, Stored, Summary
    <2>2. CASE summary' = summary
        BY <2>1, <2>2 DEF Summary
    <2>3. CASE kind = "group" /\ summary' = [summary EXCEPT !.text = {}, !.through = 0]
        <3>1. summary' \in Summary /\ summary'.through = 0 /\ summary'.text = {}
            BY <2>1, <2>3, Emptied
        <3> QED  BY <2>1, <2>3, <3>1 DEF Summary
    <2> QED  BY <2>2, <2>3
<1>5. Stored'
    BY <1>1, <1>2, <1>4 DEF IInv, Stored, scope
<1>6. Behind'
    BY <1>1 DEF IInv, Behind, Clean, scope
<1>7. Remembered'
    <2>1. Len(facts') + Cardinality(Open') <= progress'.through + opened'
        <3>1. progress.through \in Nat /\ progress' = progress /\ opened' = opened
            BY <1>1 DEF IInv, Stored
        <3>2. Len(facts) + Cardinality(Open) <= progress.through + opened
            BY DEF IInv, Remembered
        <3>3. PICK a \in Nat, b \in Nat, c \in Nat, d \in Nat, e \in Nat, f \in Nat :
                /\ a = Len(facts) /\ b = Cardinality(Open) /\ c = progress.through
                /\ d = opened /\ e = Len(facts') /\ f = Cardinality(Open')
            BY ONLY <1>2, <1>3, <3>1
        <3>4. a + b <= c + d /\ e <= a + 1 /\ f + 1 = b
            BY ONLY <1>2, <3>2, <3>3, Len(facts') <= Len(facts) + 1
        <3>5. e + f <= c + d
            BY ONLY <3>4
        <3> QED  BY ONLY <3>1, <3>3, <3>5
    <2>2. \A i \in DOMAIN facts' : facts'[i].source <= count'
        BY <1>1, <1>3 DEF IInv, Remembered
    <2>3. /\ summary'.through <= (IF kind' = "group" THEN Len(facts') ELSE count')
          /\ summary'.text \subseteq 1..summary'.through /\ Clean(summary.text)'
        BY <1>1, <1>3, <1>4 DEF IInv, Remembered, Clean, scope
    <2>4. progress.through <= count /\ progress.version = 0 => progress.through = 0
        BY DEF IInv, Remembered
    <2> QED  BY <1>1, <1>2, <2>1, <2>2, <2>3 DEF IInv, Remembered, Clean, scope
<1>8. /\ \A j \in Job : JobOK(j) => JobOK(j)'
      /\ \A t \in Task : TaskOK(t) => TaskOK(t)'
    <2>1. CASE summary' = summary /\ (kind = "group" => Active \subseteq Active')
        BY <1>1, <1>3, <2>1, FactsGrow DEF IInv
    <2>2. CASE kind = "group" /\ summary'.through = 0
        BY <1>1, <1>3, <2>2, SummaryEmptied DEF IInv
    <2>3. summary' = [summary EXCEPT !.text = {}, !.through = 0] => summary'.through = 0
        BY DEF IInv, Stored
    <2> QED  BY <2>1, <2>2, <2>3
<1>9. Tasks'
    <2>1. \A j \in jobs' : JobOK(j)'
        BY <1>8 DEF IInv, Tasks, Stored
    <2> QED  BY <1>1, <1>8, <2>1, WorkersStay
<1>10. Serial' /\ SummaryIsHonest'
    BY <1>1, <1>4 DEF IInv, Serial, SummaryIsHonest, scope
<1>11. Mirroring'
    <2>1. CASE kind = "group"
        <3>1. writing' = writing \cup {o}
            BY <2>1
        <3>2. \A w \in Workers : w \in writing' => work'[w].step \in {"refresh", "check"}
            BY <1>1, <3>1 DEF IInv, Mirroring
        <3> QED  BY <1>1, <3>1, <3>2, WritesToo DEF IInv
    <2>2. CASE kind # "group"
        BY <1>1, <2>2 DEF IInv, Mirroring, Holding, scope
    <2> QED  BY <2>1, <2>2
<1> QED  BY <1>5, <1>6, <1>7, <1>9, <1>10, <1>11 DEF IInv

\* A state of the relationship is written: no older one that is under way stands.
LEMMA RelationMoves ==
    ASSUME Stored, UNCHANGED <<scope, count, live, facts, summary>>,
           relation'.version = relation.version + 1,
           past'.asked = past.asked, past'.cleared = past.cleared, past'.lapsed = past.lapsed
    PROVE  /\ \A j \in Job : JobOK(j) => JobOK(j)'
           /\ \A t \in Task : TaskOK(t) => TaskOK(t)'
<1>1. relation.version \in Nat
    BY DEF Stored
<1>2. \A j \in Job : JobOK(j) => JobOK(j)'
    BY <1>1 DEF JobOK, scope, Job
<1>3. \A S : Clean(S) => Clean(S)'
    BY DEF Clean
<1>4. \A t : TextOK(t) => TextOK(t)'
    BY DEF TextOK, Clean
<1>5. \A b \in Basis : /\ Interval(b) => Interval(b)'
                       /\ DigestOK(b) => DigestOK(b)'
                       /\ SummaryOK(b) => SummaryOK(b)'
    BY DEF Interval, DigestOK, SummaryOK, Clean, Active
<1>6. \A b \in Basis : RelationOK(b) => RelationOK(b)'
    BY <1>1 DEF RelationOK, Clean, Basis
<1>7. \A t \in Task : t.basis \in Basis /\ t.job \in Job
    BY DEF Task
<1> QED  BY <1>2, <1>4, <1>5, <1>6, <1>7 DEF TaskOK, scope

LEMMA RelateStep ==
    ASSUME IInv, NEW o \in Operators, Consumed(o), Relate, writing' = writing
    PROVE  IInv'
<1>1. /\ UNCHANGED <<scope, count, waiting, work, opened, drawn, mirror, overtaken, missed, upsets,
                     facts, summary, progress, live, jobs>>
    BY DEF Consumed, Relate
<1>2. /\ ops' = [a \in Operators |-> ops'[a]]
      /\ \A a \in Operators : ops'[a].action = "clear" => kind = "private"
      /\ Cardinality(Open') \in Nat /\ Cardinality(Open) \in Nat
      /\ Cardinality(Open') + 1 = Cardinality(Open) /\ opened \in Nat
    BY Consumes DEF Consumed
<1>3. /\ relation' \in [topics : SUBSET Nat, watermark : Nat, version : Nat, byAdmin : BOOLEAN]
      /\ relation'.version = relation.version + 1 /\ relation'.topics = relation.topics
      /\ relation'.watermark = relation.watermark
    <2>1. relation \in Relation
        BY DEF IInv, Stored, Relation
    <2>2. relation' = [relation EXCEPT !.version = @ + 1, !.byAdmin = TRUE]
        BY DEF Relate
    <2> QED  BY <2>1, <2>2, Decrees DEF Relation
<1>4. /\ past' \in [asked : Nat, cleared : Nat, decided : Nat, lapsed : BOOLEAN]
      /\ past'.asked = past.asked /\ past'.cleared = past.cleared /\ past'.lapsed = past.lapsed
      /\ past'.decided = past.asked
    <2>1. past \in Past /\ past.asked \in Nat
        BY DEF IInv, Stored, Past
    <2>2. past' = [past EXCEPT !.decided = past.asked]
        BY <2>1 DEF Relate, Past
    <2> QED  BY <2>1, <2>2, Decides DEF Past
<1>5. Stored'
    BY <1>1, <1>2, <1>3, <1>4 DEF IInv, Stored, scope
<1>6. Behind'
    BY <1>1, <1>4 DEF IInv, Behind, Clean, scope, Stored
<1>7. Remembered'
    <2>1. Len(facts) \in Nat /\ progress.through \in Nat
        BY FactsAre DEF IInv, Stored
    <2>2. Len(facts) + Cardinality(Open') <= progress.through + opened
        BY <1>2, <2>1 DEF IInv, Remembered
    <2> QED  BY <1>1, <1>2, <1>3, <1>4, <2>2 DEF IInv, Remembered, Clean, scope
<1>8. /\ \A j \in Job : JobOK(j) => JobOK(j)'
      /\ \A t \in Task : TaskOK(t) => TaskOK(t)'
    BY <1>1, <1>3, <1>4, RelationMoves DEF IInv
<1>9. Tasks'
    <2>1. \A j \in jobs' : JobOK(j)'
        BY <1>1, <1>8 DEF IInv, Tasks, Stored
    <2> QED  BY <1>1, <1>8, <2>1, WorkersStay
<1>10. Serial' /\ SummaryIsHonest'
    BY <1>1, <1>4 DEF IInv, Serial, SummaryIsHonest, Active, scope
<1>11. Mirroring'
    BY <1>1 DEF IInv, Mirroring, Holding, Profile, Active, scope
<1> QED  BY <1>5, <1>6, <1>7, <1>9, <1>10, <1>11 DEF IInv

\* A private chat is cleared: what was read of it before cannot be written any more.
LEMMA ClearStep ==
    ASSUME IInv, NEW o \in Operators, Consumed(o), ClearPrivate, kind = "private", writing' = writing
    PROVE  IInv'
<1>1. /\ UNCHANGED <<scope, count, waiting, work, opened, drawn, mirror, overtaken, missed, upsets, facts>>
      /\ live' = {} /\ jobs' \subseteq jobs
    BY DEF Consumed, ClearPrivate
<1>2. /\ ops' = [a \in Operators |-> ops'[a]]
      /\ \A a \in Operators : ops'[a].action = "clear" => kind = "private"
      /\ Cardinality(Open') \in Nat /\ Cardinality(Open) \in Nat
      /\ Cardinality(Open') + 1 = Cardinality(Open) /\ opened \in Nat
    BY Consumes DEF Consumed
<1>3. count \in Nat /\ past.asked \in Nat /\ past.asked <= count /\ summary.version \in Nat
      /\ summary.through \in Nat /\ summary.through <= count
    BY Counts DEF IInv, Stored, Behind, Remembered
<1>4. /\ summary' \in [version : Nat, through : Nat, text : SUBSET Nat]
      /\ summary'.version = summary.version + 1 /\ summary'.through = count /\ summary'.text = {}
    BY <1>3 DEF ClearPrivate
<1>5. /\ progress' \in [through : Nat, version : Nat] /\ progress'.through = count
      /\ progress'.version > 0
    BY <1>3 DEF ClearPrivate, IInv, Stored
<1>6. /\ past' \in [asked : Nat, cleared : Nat, decided : Nat, lapsed : BOOLEAN]
      /\ past'.asked = past.asked /\ past'.cleared = count /\ past'.lapsed = past.lapsed
      /\ past'.decided <= past.asked /\ (relation.topics = {} => past'.decided = past.decided)
    <2>1. past \in Past /\ past.decided \in Nat /\ past.decided <= past.asked
        BY DEF IInv, Stored, Past, Behind
    <2>2. PICK n \in Nat : n = (IF relation.topics = {} THEN past.decided ELSE past.asked)
        BY <1>3, <2>1
    <2>3. past' = [past EXCEPT !.cleared = count, !.decided = n]
        BY <2>2 DEF ClearPrivate
    <2>4. past' \in Past /\ past'.asked = past.asked /\ past'.cleared = count
          /\ past'.lapsed = past.lapsed /\ past'.decided = n
        BY <1>3, <2>1, <2>3, Clears DEF Past
    <2> QED  BY <1>3, <2>1, <2>2, <2>4 DEF Past
<1>7. /\ relation' \in [topics : SUBSET Nat, watermark : Nat, version : Nat, byAdmin : BOOLEAN]
      /\ relation'.topics = {} /\ relation'.watermark = relation.watermark
      /\ relation.version \in Nat
      /\ \/ relation' = relation /\ past'.decided = past.decided
         \/ relation'.version = relation.version + 1
    <2>1. relation \in Relation
        BY DEF IInv, Stored, Relation
    <2>2. CASE relation.topics = {}
        <3>1. relation' = relation
            BY <2>2 DEF ClearPrivate
        <3> QED  BY <1>6, <2>1, <2>2, <3>1 DEF Relation
    <2>3. CASE relation.topics # {}
        <3>1. relation' = [relation EXCEPT !.topics = {}, !.version = @ + 1, !.byAdmin = TRUE]
            BY <2>3 DEF ClearPrivate
        <3> QED  BY <2>1, <3>1, Drops DEF Relation
    <2> QED  BY <2>2, <2>3
<1>8. Stored'
    BY <1>1, <1>2, <1>4, <1>5, <1>6, <1>7 DEF IInv, Stored, scope
<1>9. Behind'
    BY <1>1, <1>3, <1>6 DEF IInv, Behind, Clean, scope
<1>10. Remembered'
    <2>1. Len(facts) \in Nat /\ progress.through \in Nat /\ progress.through <= count
        BY FactsAre DEF IInv, Stored, Remembered
    <2>2. Len(facts) + Cardinality(Open') <= count + opened
        BY <1>2, <1>3, <2>1 DEF IInv, Remembered
    <2>3. count <= count /\ {} \subseteq 1..count /\ Clean({})'
        BY <1>3 DEF Clean
    <2> QED  BY <1>1, <1>2, <1>3, <1>4, <1>5, <1>6, <1>7, <2>2, <2>3 DEF IInv, Remembered, scope
<1>11. \A j \in Job : JobOK(j) => JobOK(j)'
    BY <1>1, <1>3, <1>4, <1>6, <1>7 DEF JobOK, scope, Job
<1>12. \A t \in Task : TaskOK(t) => TaskOK(t)'
    <2>1. \A t \in Task : t.basis \in Basis /\ t.job \in Job
        BY DEF Task
    <2>2. ASSUME NEW t \in Task, TextOK(t), JobOK(t.job), t.job.type = "summary"  PROVE TextOK(t)'
        <3>1. t.job.to <= count /\ t.job.expected < summary.version + 1
            BY <1>3, <2>1, <2>2 DEF JobOK, Job
        <3>2. t.basis.text \subseteq 1..count
            BY <1>3, <2>2 DEF TextOK
        <3> QED  BY <1>4, <3>1, <3>2 DEF TextOK
    <2>3. \A b \in Basis : Interval(b) => Interval(b)'
        BY <1>1 DEF Interval
    <2>4. \A b \in Basis : SummaryOK(b) => SummaryOK(b)'
        BY <1>3, <1>4, <2>3 DEF SummaryOK, Basis
    <2>5. \A b \in Basis : RelationOK(b) => RelationOK(b)'
        BY <1>1, <1>6, <1>7 DEF RelationOK, Basis
    <2> QED  BY <1>1, <1>11, <2>1, <2>2, <2>3, <2>4, <2>5 DEF TaskOK, scope
<1>13. Tasks'
    <2>1. \A j \in jobs' : JobOK(j)'
        BY <1>1, <1>11 DEF IInv, Tasks, Stored
    <2> QED  BY <1>1, <1>12, <2>1, WorkersStay
<1>14. Serial' /\ SummaryIsHonest'
    BY <1>1 DEF Serial, SummaryIsHonest, scope
<1>15. Mirroring'
    BY <1>1 DEF IInv, Mirroring, Holding, scope
<1> QED  BY <1>8, <1>9, <1>10, <1>13, <1>14, <1>15 DEF IInv

LEMMA AdminFact ==
    \E f \in Fact : f = [source |-> Admin, status |-> "active"] /\ f.source = 0
<1>1. PICK f : f = [source |-> 0, status |-> "active"]
    OBVIOUS
<1>2. f \in Fact /\ f.source = 0
    BY <1>1 DEF Fact
<1> QED  BY <1>1, <1>2 DEF Admin

LEMMA ConfirmStep ==
    ASSUME IInv, NEW o \in Operators, Confirm(o)
    PROVE  IInv'
<1>1. Consumed(o)
    BY DEF Confirm, Consumed
<1>2. PICK q : q = ops[o]
    OBVIOUS
<1>3. CASE ~Unchanged(q)
    BY <1>2, <1>3, CancelStep DEF Confirm, mirrored
<1>4. CASE Unchanged(q) /\ q.action = "add" /\ AddFact
    <2>1. UNCHANGED <<relation, progress, live, jobs, past, summary>>
          /\ writing' = (IF kind = "group" THEN writing \cup {o} ELSE writing)
        BY <1>2, <1>4 DEF Confirm, AddFact
    <2>2. PICK f \in Fact : f = [source |-> Admin, status |-> "active"] /\ f.source = 0
        BY AdminFact
    <2>3. facts' = Append(facts, f)
        BY <1>4, <2>2 DEF AddFact, Written
    <2>4. /\ facts' \in Seq(Fact) /\ Len(facts') = Len(facts) + 1 /\ Len(facts) \in Nat
          /\ \A i \in 1..Len(facts) : facts'[i] = facts[i]
          /\ facts'[Len(facts) + 1] = f
        BY <2>2, <2>3, AppendProperties, FactsAre DEF IInv, Stored
    <2>5. \A i \in 1..Len(facts') : i > Len(facts) => i = Len(facts) + 1
        BY <2>4
    <2>6. Active \subseteq Active'
        BY <2>4, FactsAre DEF Active, IInv
    <2>7. \A i \in 1..Len(facts') : i > Len(facts) => facts'[i].source = 0
        BY <2>2, <2>4, <2>5
    <2>8. Len(facts) <= Len(facts') /\ Len(facts') <= Len(facts) + 1
        BY <2>4
    <2>9. \A i \in 1..Len(facts) : facts'[i].source = facts[i].source
        BY <2>4
    <2> QED  BY <1>1, <2>1, <2>4, <2>6, <2>7, <2>8, <2>9, FactsChange
<1>5. CASE Unchanged(q) /\ q.action \in {"modify", "delete"} /\ ChangeFact(q)
    <2>1. UNCHANGED <<relation, progress, live, jobs, past>>
          /\ writing' = (IF kind = "group" THEN writing \cup {o} ELSE writing)
        BY <1>2, <1>5 DEF Confirm, ChangeFact
    <2>2. PICK k : k = q.target
        OBVIOUS
    <2>3. k \in 1..Len(facts) /\ Len(facts) \in Nat /\ facts \in Seq(Fact)
        BY <1>5, <2>2, FactsAre DEF Unchanged, Active, IInv, Stored
    <2>4. PICK f \in Fact : f = [source |-> Admin, status |-> "active"] /\ f.source = 0
        BY AdminFact
    <2>5. PICK g : g = Append(facts, f)
        OBVIOUS
    <2>6. /\ g \in Seq(Fact) /\ Len(g) = Len(facts) + 1
          /\ \A i \in 1..Len(facts) : g[i] = facts[i]
          /\ g[Len(facts) + 1] = f
        BY <2>3, <2>4, <2>5, AppendProperties
    <2>7. /\ facts' \in Seq(Fact) /\ Len(facts) <= Len(facts') /\ Len(facts') <= Len(facts) + 1
          /\ \A i \in 1..Len(facts) : facts'[i].source = facts[i].source
          /\ \A i \in 1..Len(facts') : i > Len(facts) => facts'[i].source = 0
        <3>1. CASE q.action = "delete"
            <4>1. facts' = [facts EXCEPT ![k].status = "deleted"]
                BY <1>5, <2>2, <3>1 DEF ChangeFact
            <4>2. /\ facts' \in Seq(Fact) /\ Len(facts') = Len(facts)
                  /\ \A i \in 1..Len(facts) : facts'[i].source = facts[i].source
                <5>1. Restates(facts', facts, k, "deleted")
                    BY ONLY <2>3, <4>1 DEF Restates
                <5> QED  BY ONLY <5>1, Restated
            <4> QED  BY <2>3, <4>2
        <3>2. CASE q.action = "modify"
            <4>1. facts' = [g EXCEPT ![k].status = "superseded"]
                BY <1>5, <2>2, <2>4, <2>5, <3>2 DEF ChangeFact, Written
            <4>2. k \in 1..Len(g)
                BY <2>3, <2>6
            <4>3. /\ facts' \in Seq(Fact) /\ Len(facts') = Len(g)
                  /\ \A i \in 1..Len(g) : facts'[i].source = g[i].source
                <5>1. Restates(facts', g, k, "superseded")
                    BY ONLY <2>6, <4>1, <4>2 DEF Restates
                <5> QED  BY ONLY <5>1, Restated
            <4>4. \A i \in 1..Len(g) : i \in 1..Len(facts) \/ i = Len(facts) + 1
                BY <2>3, <2>6
            <4> QED  BY <2>3, <2>4, <2>6, <4>3, <4>4
        <3> QED  BY <1>5, <3>1, <3>2
    <2>8. \/ summary' = summary /\ (kind = "group" => Active \subseteq Active')
          \/ kind = "group" /\ summary' = [summary EXCEPT !.text = {}, !.through = 0]
        BY <1>5 DEF ChangeFact, Invalidated
    <2> QED  BY <1>1, <2>1, <2>7, <2>8, FactsChange
<1>6. CASE Unchanged(q) /\ q.action = "relate" /\ Relate
    BY <1>1, <1>2, <1>6, RelateStep DEF Confirm
<1>7. CASE Unchanged(q) /\ q.action = "clear" /\ ClearPrivate
    <2>1. kind = "private"
        BY <1>2, <1>7 DEF IInv, Remembered
    <2> QED  BY <1>1, <1>2, <1>7, <2>1, ClearStep DEF Confirm
<1> QED  BY <1>2, <1>3, <1>4, <1>5, <1>6, <1>7 DEF Confirm, Apply

-------------------------------------------------------------------------------
(* The steps of a worker that write.                                              *)

\* The others keep to what they have read; the one that wrote has moved on.
LEMMA WorkerWrites ==
    ASSUME IInv, NEW w \in Workers, work[w].step # "idle", UNCHANGED <<scope, past>>,
           work' \in [Workers -> Task], \A v \in Workers : v # w => work'[v] = work[v],
           \/ /\ jobs' = jobs /\ work'[w].owns = work[w].owns /\ work'[w].job = work[w].job
           \/ /\ work'[w].step = "idle"
              /\ jobs' = jobs \/ (jobs' = jobs \ {work[w].job} /\ work[w].owns),
           \A j \in Job : JobOK(j) => JobOK(j)', \A t \in Task : TaskOK(t) => TaskOK(t)',
           NEW r \in Task, r = work'[w], TaskOK(r)'
    PROVE  Tasks' /\ Serial'
<1>1. Serial'
    BY StaysSerial DEF IInv
<1>2. \A j \in jobs' : JobOK(j)'
    BY DEF IInv, Tasks, Stored
<1>3. ASSUME NEW v \in Workers  PROVE TaskOK(work[v])'
    <2>1. CASE v = w
        BY <2>1
    <2>2. CASE v # w
        <3>1. PICK u \in Task : u = work[v] /\ u = work'[v]
            BY <2>2 DEF IInv, Stored
        <3>2. TaskOK(u)'
            BY <3>1 DEF IInv, Tasks
        <3> QED  BY <3>1, <3>2
    <2> QED  BY <2>1, <2>2
<1> QED  BY <1>1, <1>2, <1>3 DEF Tasks

\* The facts that a job adds come of the messages of its batch.
LEMMA Extracted ==
    ASSUME NEW n \in Nat, NEW said \in SUBSET (1..n), NEW g,
           g = [i \in 1..Cardinality(said) |->
                   [source |-> CHOOSE s \in said : Cardinality(Between(said, 0, s)) = i,
                    status |-> "active"]]
    PROVE  /\ g \in Seq(Fact) /\ Len(g) = Cardinality(said) /\ Len(g) \in Nat
           /\ \A i \in 1..Len(g) : g[i].source \in said /\ g[i].status = "active"
<1>1. IsFiniteSet(said) /\ Cardinality(said) \in Nat
    <2>1. 0 <= n /\ \A k \in said : k \in Nat /\ 0 < k /\ k <= n
        OBVIOUS
    <2> QED  BY <2>1, HowMany
<1>2. ASSUME NEW i \in 1..Cardinality(said)
      PROVE  g[i].source \in said /\ g[i].status = "active" /\ g[i] \in Fact
    <2>1. PICK m : m = CHOOSE s \in said : Cardinality(Between(said, 0, s)) = i
        OBVIOUS
    <2>2. m \in said
        BY <2>1, Ranked
    <2>3. g[i] = [source |-> m, status |-> "active"]
        BY <2>1
    <2>4. m \in Nat
        BY <2>2
    <2> QED  BY <2>2, <2>3, <2>4 DEF Fact
<1>3. g = [i \in 1..Cardinality(said) |-> g[i]]
    OBVIOUS
<1>4. g \in Seq(Fact) /\ Len(g) = Cardinality(said)
    <2>1. g \in [1..Cardinality(said) -> Fact]
        BY <1>2, <1>3
    <2>2. PICK c \in Nat : c = Cardinality(said)
        BY <1>1
    <2>3. g \in [1..c -> Fact]
        BY <2>1, <2>2
    <2>4. g \in Seq(Fact)
        BY ONLY <2>3, SeqDef
    <2>5. Len(g) \in Nat /\ 1..c = 1..Len(g)
        <3>1. DOMAIN g = 1..Len(g) /\ Len(g) \in Nat
            BY <2>4, LenProperties
        <3> QED  BY <2>3, <3>1
    <2>6. Len(g) = c
        BY <2>2, <2>5
    <2> QED  BY <2>2, <2>4, <2>6
<1> QED  BY <1>1, <1>2, <1>4

\* What the sum of the facts and the open operations may be.
LEMMA Room ==
    ASSUME NEW a \in Nat, NEW b \in Nat, NEW c \in Nat, NEW d \in Nat, NEW e \in Nat, NEW f \in Nat,
           NEW g \in Nat, a + b <= c + d, c <= e, g <= f - e
    PROVE  (a + g) + b <= f + d
OBVIOUS

\* The facts that stand are followed by new ones, and the progress moves behind the batch.
LEMMA FactsAdded ==
    ASSUME IInv, NEW b \in Basis, Interval(b), progress.through <= b.through,
           NEW said \in SUBSET b.ids, UNCHANGED <<scope, count, live, summary, relation, past, ops, opened>>,
           facts' = facts \o [i \in 1..Cardinality(said) |->
                      [source |-> CHOOSE s \in said : Cardinality(Between(said, 0, s)) = i,
                       status |-> "active"]],
           progress' = [through |-> b.end, version |-> b.version + 1]
    PROVE  /\ facts' \in Seq(Fact) /\ progress' \in [through : Nat, version : Nat]
           /\ DOMAIN facts \subseteq DOMAIN facts' /\ Active \subseteq Active'
           /\ \A i \in DOMAIN facts' \ DOMAIN facts : facts'[i].source \in said
           /\ Remembered'
<1>1. /\ b.through \in Nat /\ b.end \in Nat /\ b.version \in Nat /\ b.through < b.end /\ b.end <= count
      /\ \A i \in said : i \in Nat /\ b.through < i /\ i <= b.end
      /\ count \in Nat /\ progress.through \in Nat /\ opened \in Nat
    <2>1. /\ b.through \in Nat /\ b.end \in Nat /\ b.version \in Nat /\ b.ids \subseteq Nat
        BY DEF Basis
    <2>2. /\ b.through < b.end /\ b.end <= count
          /\ \A i \in b.ids : b.through < i /\ i <= b.end
        BY DEF Interval
    <2>3. count \in Nat
        BY Counts DEF IInv
    <2>4. progress.through \in Nat /\ opened \in 0..MaxOperations
        BY DEF IInv, Stored
    <2> QED  BY ONLY <2>1, <2>2, <2>3, <2>4, said \in SUBSET b.ids
<1>2. said \in SUBSET (1..b.end)
    BY <1>1
<1>3. PICK g : g = [i \in 1..Cardinality(said) |->
                      [source |-> CHOOSE s \in said : Cardinality(Between(said, 0, s)) = i,
                       status |-> "active"]]
    OBVIOUS
<1>4. /\ g \in Seq(Fact) /\ Len(g) = Cardinality(said) /\ Len(g) \in Nat
      /\ \A i \in 1..Len(g) : g[i].source \in said /\ g[i].status = "active"
    BY <1>1, <1>2, <1>3, Extracted
<1>5. Len(g) <= b.end - b.through
    BY <1>1, <1>4, HowMany
<1>6. facts \in Seq(Fact) /\ Len(facts) \in Nat /\ DOMAIN facts = 1..Len(facts)
    BY FactsAre DEF IInv, Stored
<1>7. facts' = facts \o g
    BY <1>3
<1>8. /\ facts' \in Seq(Fact) /\ Len(facts') = Len(facts) + Len(g)
      /\ \A i \in 1..Len(facts) + Len(g) :
            facts'[i] = (IF i <= Len(facts) THEN facts[i] ELSE g[i - Len(facts)])
    <2>1. /\ facts \o g \in Seq(Fact) /\ Len(facts \o g) = Len(facts) + Len(g)
          /\ \A i \in 1..Len(facts) + Len(g) :
                (facts \o g)[i] = (IF i <= Len(facts) THEN facts[i] ELSE g[i - Len(facts)])
        BY ONLY <1>4, <1>6, ConcatProperties
    <2> QED  BY ONLY <1>7, <2>1
<1>9. DOMAIN facts' = 1..Len(facts')
    BY ONLY <1>8, LenProperties
<1>10. DOMAIN facts \subseteq DOMAIN facts' /\ \A i \in DOMAIN facts : facts'[i] = facts[i]
    BY <1>4, <1>6, <1>8, <1>9
<1>11. \A i \in DOMAIN facts' \ DOMAIN facts : facts'[i].source \in said
    <2> SUFFICES ASSUME NEW i \in DOMAIN facts' \ DOMAIN facts  PROVE facts'[i].source \in said
        OBVIOUS
    <2>1. i \in 1..Len(facts) + Len(g) /\ ~(i <= Len(facts)) /\ i - Len(facts) \in 1..Len(g)
        BY <1>4, <1>6, <1>8, <1>9
    <2>2. PICK k \in 1..Len(g) : k = i - Len(facts)
        BY <2>1
    <2>3. facts'[i] = g[k]
        BY <1>8, <2>1, <2>2
    <2> QED  BY <1>4, <2>3
<1>12. Active \subseteq Active'
    BY <1>10 DEF Active
<1>13. progress' \in [through : Nat, version : Nat] /\ progress'.through = b.end /\ progress'.version # 0
    BY <1>1
<1>14. Remembered'
    <2>1. \A i \in DOMAIN facts' : facts'[i].source <= count
        <3>1. ASSUME NEW i \in DOMAIN facts'  PROVE facts'[i].source <= count
            <4>1. CASE i \in DOMAIN facts
                BY <1>10, <4>1 DEF IInv, Remembered
            <4>2. CASE i \notin DOMAIN facts
                <5>1. PICK m \in said : m = facts'[i].source
                    BY <1>11, <4>2
                <5> QED  BY ONLY <1>1, <5>1
            <4> QED  BY <4>1, <4>2
        <3> QED  BY <3>1
    <2>2. PICK open \in Nat : open = Cardinality(Open)
        BY OpenOnes
    <2>3. Len(facts') + open <= b.end + opened
        <3>1. Len(facts) + open <= progress.through + opened
            BY <2>2 DEF IInv, Remembered
        <3>2. (Len(facts) + Len(g)) + open <= b.end + opened
            BY <1>1, <1>4, <1>5, <1>6, <3>1, Room
        <3> QED  BY <1>8, <3>2
    <2>4. Open' = Open
        BY DEF Open
    <2>5. Len(facts') + Cardinality(Open') <= progress'.through + opened'
        BY <1>13, <2>2, <2>3, <2>4
    <2>6. summary.through <= (IF kind' = "group" THEN Len(facts') ELSE count)
        <3>1. summary.through <= (IF kind = "group" THEN Len(facts) ELSE count)
            BY DEF IInv, Remembered
        <3>2. kind' = kind /\ summary.through \in Nat
            BY DEF IInv, Stored, scope
        <3> QED  BY ONLY <1>4, <1>6, <1>8, <3>1, <3>2
    <2>7. progress'.through <= count' /\ (progress'.version = 0 => progress'.through = 0)
        BY <1>1, <1>13
    <2> QED  BY <2>1, <2>5, <2>6, <2>7 DEF IInv, Remembered, Clean, scope
<1> QED  BY <1>8, <1>10, <1>11, <1>12, <1>13, <1>14

LEMMA CommitFactsStep ==
    ASSUME IInv, NEW w \in Workers, CommitFacts(w)
    PROVE  IInv'
<1>1. PICK t \in Task : t = work[w]
    BY DEF IInv, Stored
<1>2. PICK b \in Basis : b = t.basis
    BY DEF Task
<1>3. /\ t.step = "asked" /\ t.job.type = "facts" /\ w \notin writing /\ Interval(b) /\ JobOK(t.job)
      /\ t.job \in Job /\ TaskOK(t)
    BY <1>1, <1>2, NotWriting DEF CommitFacts, IInv, Tasks, TaskOK, Task
<1>4. /\ UNCHANGED <<scope, count, live, waiting, ops, opened, past, upsets, summary, relation,
                     drawn, mirror, overtaken, missed>>
      /\ upsets' \in 0..MaxUpsets
    BY DEF CommitFacts, Outside, governed, IInv, Stored
<1>5. CASE Leaves(w) /\ UNCHANGED <<facts, progress, writing>>
    BY <1>1, <1>3, <1>4, <1>5, WorkerEnds DEF memory, mirrored, governed
<1>6. CASE ~(Leaves(w) /\ UNCHANGED <<facts, progress, writing>>)
    <2>1. /\ IF kind = "private" THEN PrivateFactsStand(b) ELSE GroupFactsStand(b)
          /\ progress' = [through |-> b.end, version |-> b.version + 1]
          /\ IF kind = "private"
             THEN EndsAt(w, b.end) /\ UNCHANGED writing
             ELSE Goes(w, "refresh", [Nothing EXCEPT !.end = b.end]) /\ writing' = writing \cup {w}
        BY <1>1, <1>2, <1>6 DEF CommitFacts
    <2>2. PICK said \in SUBSET b.ids :
             facts' = facts \o [i \in 1..Cardinality(said) |->
                      [source |-> CHOOSE s \in said : Cardinality(Between(said, 0, s)) = i,
                       status |-> "active"]]
        BY <1>1, <1>2, <1>6 DEF CommitFacts, Said
    <2>3. progress.through <= b.through
        BY <2>1 DEF PrivateFactsStand, GroupFactsStand, IInv, Remembered, Stored, Basis
    <2>4. /\ facts' \in Seq(Fact) /\ progress' \in [through : Nat, version : Nat]
          /\ DOMAIN facts \subseteq DOMAIN facts' /\ Active \subseteq Active'
          /\ Remembered'
        BY <1>3, <1>4, <2>1, <2>2, <2>3, FactsAdded
    <2>5. PICK e \in Basis : e = [Nothing EXCEPT !.end = b.end]
        BY Rest DEF Basis, Nothing
    <2>6. /\ work' \in [Workers -> Task] /\ \A v \in Workers : v # w => work'[v] = work[v]
          /\ \/ kind = "group" /\ jobs' = jobs /\ work'[w].owns = t.owns /\ work'[w].job = t.job
                /\ work'[w].step = "refresh" /\ writing' = writing \cup {w}
             \/ kind = "private" /\ work'[w] = Idle /\ writing' = writing
                /\ (jobs' = jobs \/ (jobs' = jobs \ {t.job} /\ t.owns))
        <3>1. CASE kind = "private"
            BY <1>1, <2>1, <3>1, EndsTo DEF EndsAt, IInv
        <3>2. CASE kind = "group"
            BY <1>1, <2>1, <2>5, <3>2, GoesTo DEF IInv, Steps
        <3> QED  BY <3>1, <3>2, Kinds DEF IInv
    <2>7. PICK r \in Task : r = work'[w]
        BY <2>6
    <2>8. TaskOK(r)'
        <3>1. CASE kind = "private"
            BY <2>6, <2>7, <3>1, Rest DEF TaskOK, scope, Kinds
        <3>2. CASE kind = "group"
            <4>1. r.step = "refresh" /\ r.job = t.job /\ kind' = "group" /\ JobOK(t.job)'
                BY <1>3, <1>4, <2>6, <2>7, <3>2 DEF scope, JobOK
            <4> QED  BY <1>3, <4>1 DEF TaskOK
        <3> QED  BY <3>1, <3>2, Kinds DEF IInv
    <2>9. /\ \A j \in Job : JobOK(j) => JobOK(j)'
          /\ \A u \in Task : TaskOK(u) => TaskOK(u)'
        BY <1>4, <2>4, FactsGrow DEF IInv
    <2>10. Tasks' /\ Serial'
        <3>1. work[w].step # "idle"
            BY <1>1, <1>3
        <3>2. \/ /\ jobs' = jobs /\ work'[w].owns = work[w].owns /\ work'[w].job = work[w].job
              \/ /\ work'[w].step = "idle"
                 /\ jobs' = jobs \/ (jobs' = jobs \ {work[w].job} /\ work[w].owns)
            BY <1>1, <2>6, Rest
        <3> QED  BY <1>4, <2>6, <2>7, <2>8, <2>9, <3>1, <3>2, WorkerWrites
    <2>11. Stored'
        <3>1. jobs' \subseteq Job /\ writing' \subseteq Writers
            BY <2>6 DEF IInv, Stored, Writers
        <3> QED  BY <1>4, <2>4, <2>6, <3>1 DEF IInv, Stored, scope
    <2>12. Behind' /\ SummaryIsHonest'
        BY <1>4, <2>4 DEF IInv, Behind, SummaryIsHonest, Clean, scope
    <2>13. Mirroring'
        <3>1. CASE kind = "private"
            <4>1. kind' # "group" /\ writing' = writing
                BY <1>4, <2>6, <3>1 DEF scope
            <4> QED  BY <1>3, <1>4, <2>6, <4>1 DEF IInv, Mirroring, Holding
        <3>2. CASE kind = "group"
            <4>1. \A v \in Workers : v \in writing' => work'[v].step \in {"refresh", "check"}
                BY <2>6, <3>2 DEF IInv, Mirroring
            <4> QED  BY <1>3, <1>4, <2>6, <3>2, <4>1, WritesToo DEF IInv, Writers
        <3> QED  BY <3>1, <3>2, Kinds DEF IInv
    <2> QED  BY <2>4, <2>10, <2>11, <2>12, <2>13 DEF IInv
<1> QED  BY <1>5, <1>6

\* A summary of a member's facts: while no lease lapses nobody else is making one.
LEMMA CommitDigestStep ==
    ASSUME IInv, NEW w \in Workers, CommitDigest(w)
    PROVE  IInv'
<1>1. PICK t \in Task : t = work[w]
    BY DEF IInv, Stored
<1>2. PICK b \in Basis : b = t.basis
    BY DEF Task
<1>3. /\ t.step = "digest" /\ t.job.type = "facts" /\ kind = "group" /\ w \notin writing
      /\ DigestOK(b) /\ JobOK(t.job) /\ t.job \in Job
    BY <1>1, <1>2, NotWriting DEF CommitDigest, IInv, Tasks, TaskOK, Task
<1>4. /\ UNCHANGED <<scope, count, live, waiting, ops, opened, past, upsets, progress, facts, relation,
                     drawn, mirror, overtaken, missed>>
      /\ upsets' \in 0..MaxUpsets
    BY DEF CommitDigest, Outside, governed, IInv, Stored
<1>5. CASE Leaves(w) /\ UNCHANGED <<summary, writing>>
    BY <1>1, <1>3, <1>4, <1>5, WorkerEnds DEF memory, mirrored, governed
<1>6. CASE ~(Leaves(w) /\ UNCHANGED <<summary, writing>>)
    <2>1. /\ summary.through = b.through /\ SameFacts(b)
          /\ summary' = [version |-> 1, through |-> Max(b.ids), text |-> b.text \cup b.ids]
          /\ Goes(w, "check", [Nothing EXCEPT !.end = b.end])
          /\ writing' = writing \cup {w}
        BY <1>1, <1>2, <1>6 DEF CommitDigest, DigestStands
    <2>2. PICK e \in Basis : e = [Nothing EXCEPT !.end = b.end]
        BY Rest DEF Basis, Nothing
    <2>3. PICK r \in Task :
             /\ r = work'[w] /\ work' \in [Workers -> Task] /\ jobs' = jobs
             /\ r.step = "check" /\ r.job = t.job /\ r.owns = t.owns
             /\ \A v \in Workers : v # w => work'[v] = work[v]
        BY <1>1, <2>1, <2>2, GoesTo DEF IInv, Steps
    <2>4. PICK m : m = Max(b.ids)
        OBVIOUS
    <2>5. m \in b.ids /\ m \in DOMAIN facts /\ m \in Nat /\ b.through < m /\ m <= Len(facts)
          /\ Len(facts) \in Nat /\ b.through \in Nat /\ \A i \in b.ids : i \in 1..m
        <3>1. Len(facts) \in Nat /\ DOMAIN facts = 1..Len(facts)
            BY FactsAre DEF IInv
        <3>2. b.ids \in SUBSET (0..Len(facts)) /\ b.ids # {} /\ b.ids \subseteq 1..Len(facts)
            BY <1>3, <3>1 DEF DigestOK
        <3>3. m \in b.ids /\ \A i \in b.ids : i <= m
            BY <2>4, <3>1, <3>2, LastOf
        <3>4. b.through \in Nat /\ b.through < m
            BY <1>3, <3>3 DEF DigestOK, Basis
        <3> QED  BY <3>1, <3>2, <3>3, <3>4
    <2>6. /\ summary' = [version |-> 1, through |-> m, text |-> b.text \cup b.ids]
          /\ summary'.through = m /\ summary'.text = b.text \cup b.ids
        BY <2>1, <2>4
    <2>7. b.text \cup b.ids \subseteq 1..m /\ b.text \cup b.ids \subseteq Nat
        BY <1>3, <2>5 DEF DigestOK, Basis
    <2>8. Stored'
        <3>1. writing' \subseteq Writers
            BY <2>1 DEF IInv, Stored, Writers
        <3>2. summary' \in [version : Nat, through : Nat, text : SUBSET Nat]
            BY <2>5, <2>6, <2>7
        <3> QED  BY <1>4, <2>3, <3>1, <3>2 DEF IInv, Stored, scope
    <2>9. Behind'
        BY <1>4 DEF IInv, Behind, Clean, scope
    <2>10. Remembered'
        <3>1. kind' = "group" /\ Clean(summary.text)'
            BY <1>3, <1>4 DEF IInv, Behind, Clean, scope
        <3> QED  BY <1>4, <2>5, <2>6, <2>7, <3>1 DEF IInv, Remembered, Clean, Open, scope
    <2>11. SummaryIsHonest'
        <3>1. ~past.lapsed => b.text \subseteq Active
            BY <1>3, <2>1 DEF DigestOK
        <3>2. b.ids \subseteq Active
            BY <2>1 DEF SameFacts, Between
        <3> QED  BY <1>4, <2>6, <3>1, <3>2 DEF SummaryIsHonest, Active
    <2>12. Serial'
        <3>1. work[w].step # "idle" /\ work'[w].owns = work[w].owns /\ work'[w].job = work[w].job
            BY <1>1, <1>3, <2>3
        <3> QED  BY <1>4, <2>3, <3>1, StaysSerial DEF IInv
    <2>13. Tasks'
        <3>1. \A j \in Job : JobOK(j) => JobOK(j)' /\ j.type # "summary"
            BY <1>3, <1>4, NoSummary DEF JobOK, scope, IInv
        <3>2. \A c : /\ Interval(c) => Interval(c)'
                     /\ RelationOK(c) => RelationOK(c)'
            BY <1>4 DEF Interval, RelationOK, Clean
        <3>3. ASSUME NEW v \in Workers, v # w, work[v].step = "digest", DigestOK(work[v].basis)
              PROVE  DigestOK(work[v].basis)'
            <4>1. PICK u \in Task : u = work[v] /\ u = work'[v]
                BY <2>3, <3>3 DEF IInv, Stored
            <4>2. past.lapsed
                <5>1. work[v].job.type = "facts"
                    BY <3>3 DEF IInv, Tasks, TaskOK
                <5> QED  BY <1>1, <1>3, <3>3, <5>1 DEF IInv, Serial
            <4>3. DigestOK(u.basis)'
                BY <1>4, <3>3, <4>1, <4>2 DEF DigestOK
            <4> QED  BY <4>1, <4>3
        <3>4. ASSUME NEW v \in Workers  PROVE TaskOK(work[v])'
            <4>1. CASE v = w
                <5>1. JobOK(t.job)'
                    BY <1>3, <3>1
                <5>2. TaskOK(r)'
                    BY <1>3, <1>4, <2>3, <5>1 DEF TaskOK, scope
                <5> QED  BY <2>3, <4>1, <5>2
            <4>2. CASE v # w
                <5>1. PICK u \in Task : u = work[v] /\ u = work'[v]
                    BY <2>3, <4>2 DEF IInv, Stored
                <5>2. TaskOK(u) /\ u.job \in Job
                    BY <5>1 DEF IInv, Tasks, Task
                <5>3. u.step = "digest" => DigestOK(u.basis)'
                    <6>1. CASE u.step = "digest"
                        <7>1. DigestOK(work[v].basis)'
                            BY <3>3, <4>2, <5>1, <5>2, <6>1 DEF TaskOK
                        <7> QED  BY <5>1, <7>1
                    <6> QED  BY <6>1
                <5>4. TaskOK(u)'
                    BY <1>4, <3>1, <3>2, <5>2, <5>3 DEF TaskOK, scope
                <5> QED  BY <5>1, <5>4
            <4> QED  BY <4>1, <4>2
        <3>5. \A j \in jobs' : JobOK(j)'
            BY <2>3, <3>1 DEF IInv, Tasks, Stored
        <3> QED  BY <3>4, <3>5 DEF Tasks
    <2>14. Mirroring'
        <3>1. \A v \in Workers : v \in writing' => work'[v].step \in {"refresh", "check"}
            BY <2>1, <2>3 DEF IInv, Mirroring
        <3> QED  BY <1>3, <1>4, <2>1, <3>1, WritesToo DEF IInv, Writers
    <2> QED  BY <2>8, <2>9, <2>10, <2>11, <2>12, <2>13, <2>14 DEF IInv
<1> QED  BY <1>5, <1>6

\* The summary of a private chat moves on: no older one that is under way stands.
LEMMA CommitSummaryStep ==
    ASSUME IInv, NEW w \in Workers, CommitSummary(w)
    PROVE  IInv'
<1>1. PICK t \in Task : t = work[w]
    BY DEF IInv, Stored
<1>2. PICK b \in Basis : b = t.basis
    BY DEF Task
<1>3. /\ t.step = "asked" /\ t.job.type = "summary" /\ w \notin writing
      /\ SummaryOK(b) /\ JobOK(t.job) /\ t.job \in Job
    BY <1>1, <1>2, NotWriting DEF CommitSummary, IInv, Tasks, TaskOK, Task
<1>4. /\ UNCHANGED <<scope, count, live, waiting, ops, opened, past, upsets, progress, facts, relation,
                     writing, drawn, mirror, overtaken, missed>>
      /\ upsets' \in 0..MaxUpsets
    BY DEF CommitSummary, Outside, governed, mirrored, IInv, Stored
<1>5. kind = "private"
    BY <1>3, NoSummary, Kinds DEF IInv, JobOK
<1>6. CASE Leaves(w) /\ UNCHANGED summary
    BY <1>1, <1>3, <1>4, <1>6, WorkerEnds DEF memory, mirrored, governed
<1>7. CASE ~(Leaves(w) /\ UNCHANGED summary)
    <2>1. /\ summary.through = b.through /\ summary.version = b.version
          /\ summary' = [version |-> b.version + 1, through |-> b.end, text |-> b.text \cup b.ids]
          /\ EndsAt(w, b.end)
        BY <1>1, <1>2, <1>7 DEF CommitSummary, SummaryStands
    <2>2. PICK r \in Task :
             /\ r = work'[w] /\ r = Idle /\ work' \in [Workers -> Task]
             /\ jobs' = jobs \/ (jobs' = jobs \ {t.job} /\ t.owns)
             /\ \A v \in Workers : v # w => work'[v] = work[v]
        BY <1>1, <2>1, EndsTo DEF EndsAt, IInv
    <2>3. /\ b.through \in Nat /\ b.end \in Nat /\ b.version \in Nat /\ b.through < b.end
          /\ b.end <= count /\ count \in Nat /\ summary.version \in Nat
          /\ b.text \subseteq 1..b.through /\ \A i \in b.ids : b.through < i /\ i <= b.end /\ i \in Nat
          /\ Clean(b.text) /\ Clean(b.ids)
        BY <1>3, <2>1, Counts DEF SummaryOK, Interval, Basis, IInv, Stored
    <2>4. b.text \cup b.ids \subseteq 1..b.end /\ b.text \cup b.ids \subseteq Nat
        BY <2>3
    <2>5. /\ summary' \in [version : Nat, through : Nat, text : SUBSET Nat]
          /\ summary'.through = b.end /\ summary'.text = b.text \cup b.ids
          /\ summary'.version = summary.version + 1 /\ summary.through < summary'.through
        BY <2>1, <2>3, <2>4
    <2>6. Stored'
        <3>1. jobs' \subseteq Job
            BY <2>2 DEF IInv, Stored
        <3> QED  BY <1>4, <2>2, <2>5, <3>1 DEF IInv, Stored, scope
    <2>7. Behind' /\ SummaryIsHonest'
        BY <1>4, <1>5 DEF IInv, Behind, SummaryIsHonest, Clean, scope
    <2>8. Remembered'
        <3>1. Clean(summary.text)'
            BY <1>4, <2>3, <2>5 DEF Clean
        <3> QED  BY <1>4, <1>5, <2>3, <2>4, <2>5, <3>1 DEF IInv, Remembered, Clean, Open, scope
    <2>9. \A j \in Job : JobOK(j) => JobOK(j)'
        BY <1>4, <2>3, <2>5 DEF JobOK, scope, Job
    <2>10. \A u \in Task : TaskOK(u) => TaskOK(u)'
        <3>1. \A u \in Task : u.basis \in Basis /\ u.job \in Job
            BY DEF Task
        <3>2. \A u \in Task : TextOK(u) => TextOK(u)'
            <4> SUFFICES ASSUME NEW u \in Task, TextOK(u)  PROVE TextOK(u)'
                OBVIOUS
            <4>1. u.basis.text \subseteq 1..summary'.through
                BY <2>1, <2>3, <2>5 DEF TextOK
            <4>2. ~Clean(u.basis.text)' => ~Clean(u.basis.text)
                BY <1>4 DEF Clean
            <4>3. u.job.to \in Nat /\ u.job.expected \in Nat
                BY <3>1 DEF Job
            <4> QED  BY <2>1, <2>3, <2>5, <4>1, <4>2, <4>3 DEF TextOK
        <3>3. \A c \in Basis : Interval(c) => Interval(c)'
            BY <1>4 DEF Interval
        <3>4. \A c \in Basis : SummaryOK(c) => SummaryOK(c)'
            BY <2>3, <2>5, <3>3 DEF SummaryOK, Basis
        <3>5. \A c \in Basis : RelationOK(c) => RelationOK(c)'
            BY <1>4 DEF RelationOK, Clean
        <3> QED  BY <1>4, <1>5, <2>9, <3>1, <3>2, <3>3, <3>4, <3>5 DEF TaskOK, scope
    <2>11. Tasks' /\ Serial'
        <3>1. TaskOK(r)' /\ work[w].step # "idle" /\ work'[w].step = "idle"
            BY <1>1, <1>3, <2>2, Rest DEF TaskOK
        <3> QED  BY <1>1, <1>4, <2>2, <2>9, <2>10, <3>1, WorkerWrites
    <2>12. Mirroring'
        BY <1>3, <1>4, <1>5, <2>2 DEF IInv, Mirroring, Holding, scope
    <2> QED  BY <2>6, <2>7, <2>8, <2>11, <2>12 DEF IInv
<1> QED  BY <1>6, <1>7

\* The relationship moves on.
LEMMA CommitRelationStep ==
    ASSUME IInv, NEW w \in Workers, CommitRelation(w)
    PROVE  /\ IInv'
           /\ relation.byAdmin /\ ~relation'.byAdmin => relation'.watermark > past.decided
<1>1. PICK t \in Task : t = work[w]
    BY DEF IInv, Stored
<1>2. PICK b \in Basis : b = t.basis
    BY DEF Task
<1>3. /\ t.step = "asked" /\ t.job.type = "relationship" /\ w \notin writing
      /\ RelationOK(b) /\ JobOK(t.job) /\ t.job \in Job
    BY <1>1, <1>2, NotWriting DEF CommitRelation, IInv, Tasks, TaskOK, Task
<1>4. /\ UNCHANGED <<scope, count, live, waiting, ops, opened, past, upsets, progress, facts, summary,
                     writing, drawn, mirror, overtaken, missed>>
      /\ upsets' \in 0..MaxUpsets
    BY DEF CommitRelation, Outside, governed, mirrored, IInv, Stored
<1>5. CASE Leaves(w) /\ UNCHANGED relation
    BY <1>1, <1>3, <1>4, <1>5, WorkerEnds DEF memory, mirrored, governed
<1>6. CASE ~(Leaves(w) /\ UNCHANGED relation)
    <2>1. relation.version = b.version /\ b.end \in live /\ Ends(w)
        BY <1>1, <1>2, <1>6 DEF CommitRelation, RelationStands, SourceStands
    <2>2. PICK topics \in Topics(b) :
             relation' = [topics |-> topics, watermark |-> b.end, version |-> b.version + 1,
                          byAdmin |-> FALSE]
        BY <1>1, <1>2, <1>6 DEF CommitRelation
    <2>3. PICK r \in Task :
             /\ r = work'[w] /\ r = Idle /\ work' \in [Workers -> Task]
             /\ jobs' = jobs \/ (jobs' = jobs \ {t.job} /\ t.owns)
             /\ \A v \in Workers : v # w => work'[v] = work[v]
        BY <1>1, <2>1, EndsTo DEF IInv
    <2>4. /\ b.end \in Nat /\ b.version \in Nat /\ b.end <= past.asked /\ Clean(topics)
          /\ (relation.byAdmin => past.decided < b.end) /\ topics \in SUBSET Nat
        BY <1>3, <2>1, <2>2 DEF RelationOK, Basis, Topics, Clean
    <2>5. /\ relation' \in [topics : SUBSET Nat, watermark : Nat, version : Nat, byAdmin : BOOLEAN]
          /\ relation'.topics = topics /\ relation'.watermark = b.end
          /\ relation'.version = relation.version + 1 /\ ~relation'.byAdmin
        BY <2>1, <2>2, <2>4
    <2>6. Stored'
        <3>1. jobs' \subseteq Job
            BY <2>3 DEF IInv, Stored
        <3> QED  BY <1>4, <2>3, <2>5, <3>1 DEF IInv, Stored, scope
    <2>7. Behind' /\ SummaryIsHonest'
        BY <1>4 DEF IInv, Behind, SummaryIsHonest, Active, Clean, scope
    <2>8. Remembered'
        BY <1>4, <2>4, <2>5 DEF IInv, Remembered, Clean, Open, scope
    <2>9. /\ \A j \in Job : JobOK(j) => JobOK(j)'
          /\ \A u \in Task : TaskOK(u) => TaskOK(u)'
        BY <1>4, <2>5, RelationMoves DEF IInv
    <2>10. Tasks' /\ Serial'
        <3>1. TaskOK(r)' /\ work[w].step # "idle" /\ work'[w].step = "idle"
            BY <1>1, <1>3, <2>3, Rest DEF TaskOK
        <3> QED  BY <1>1, <1>4, <2>3, <2>9, <3>1, WorkerWrites
    <2>11. Mirroring'
        <3>1. Profile' = Profile
            BY <1>4 DEF Profile, Active
        <3>2. \A v \in Workers : v \in writing => work'[v].step \in {"refresh", "check"}
            BY <1>3, <2>3 DEF IInv, Mirroring
        <3> QED  BY <1>4, <3>1, <3>2, StaysMirrored DEF IInv, mirrored
    <2>12. relation.byAdmin => relation'.watermark > past.decided
        BY <2>4, <2>5 DEF IInv, Stored
    <2> QED  BY <2>6, <2>7, <2>8, <2>10, <2>11, <2>12 DEF IInv
<1> QED  BY <1>5, <1>6

-------------------------------------------------------------------------------
(* The theorems.                                                                  *)

LEMMA Initially == Init => IInv
<1> SUFFICES ASSUME Init  PROVE IInv
    OBVIOUS
<1>1. /\ scope \in Cases /\ count = 0 /\ live = {} /\ waiting = {} /\ jobs = {}
      /\ work = [w \in Workers |-> Idle] /\ progress = [through |-> 0, version |-> 0]
      /\ facts = <<>> /\ summary = [version |-> 0, through |-> 0, text |-> {}]
      /\ relation = [topics |-> {}, watermark |-> 0, version |-> 0, byAdmin |-> FALSE]
      /\ ops = [o \in Operators |-> NoOp] /\ opened = 0 /\ writing = {} /\ overtaken = {}
      /\ drawn = [p \in Writers |-> None] /\ mirror = Profile /\ missed = FALSE
      /\ past = [asked |-> 0, cleared |-> 0, decided |-> 0, lapsed |-> FALSE] /\ upsets = 0
    <2>1. PICK c \in Cases : kind = c[1] /\ types = c[2]
        BY DEF Init
    <2>2. scope \in Cases
        BY <2>1, CasesAssumption DEF scope
    <2> QED  BY <2>2 DEF Init
<1>2. MaxMessages \in Nat /\ MaxOperations \in Nat /\ MaxUpsets \in Nat
    BY BoundsAssumption
<1>3. Stored
    <2>1. work \in [Workers -> Task] /\ facts \in Seq(Fact)
        BY <1>1, Rest
    <2>2. ops = [o \in Operators |-> ops[o]] /\ drawn = [p \in Writers |-> drawn[p]]
        BY <1>1
    <2>3. /\ progress \in [through : Nat, version : Nat]
          /\ summary \in [version : Nat, through : Nat, text : SUBSET Nat]
          /\ relation \in [topics : SUBSET Nat, watermark : Nat, version : Nat, byAdmin : BOOLEAN]
          /\ past \in [asked : Nat, cleared : Nat, decided : Nat, lapsed : BOOLEAN]
        BY <1>1
    <2>4. count \in Ids /\ opened \in 0..MaxOperations /\ upsets \in 0..MaxUpsets
        BY <1>1, <1>2 DEF Ids
    <2>5. live \subseteq 1..count /\ waiting \subseteq 1..count /\ jobs \subseteq Job
          /\ writing \subseteq Writers /\ missed \in BOOLEAN
        BY <1>1
    <2> QED  BY <1>1, <2>1, <2>2, <2>3, <2>4, <2>5 DEF Stored
<1>4. Behind
    BY <1>1 DEF Behind, Clean
<1>5. Remembered
    <2>1. Open = {} /\ Len(facts) = 0 /\ DOMAIN facts = {}
        BY <1>1 DEF Open
    <2>2. Cardinality(Open) = 0
        BY <2>1, FS_EmptySet
    <2>3. \A o \in Operators : ops[o].action # "clear"
        BY <1>1 DEF NoOp, Op
    <2> QED  BY <1>1, <2>1, <2>2, <2>3 DEF Remembered, Clean
<1>6. Tasks /\ Serial
    BY <1>1, Rest DEF Tasks, TaskOK, Serial
<1>7. SummaryIsHonest /\ Mirroring
    BY <1>1 DEF SummaryIsHonest, Mirroring, Holding
<1> QED  BY <1>3, <1>4, <1>5, <1>6, <1>7 DEF IInv

LEMMA Stutters == IInv /\ UNCHANGED vars => IInv'
<1> SUFFICES ASSUME IInv, UNCHANGED vars  PROVE IInv'
    OBVIOUS
<1>1. /\ UNCHANGED <<scope, count, live, waiting, jobs, work, memory, governed, mirrored, past, upsets>>
      /\ UNCHANGED <<progress, facts, summary, relation, ops, opened, writing, drawn, mirror, overtaken, missed>>
    BY DEF vars, memory, governed, mirrored
<1>2. Stored' /\ Mirroring'
    BY <1>1 DEF IInv, Stored, Mirroring, Holding, Profile, Active, scope
<1>3. Open' = Open
    BY <1>1 DEF Open
<1>4. /\ Cardinality(Open') \in Int /\ Cardinality(Open) \in Int
      /\ Cardinality(Open') + opened <= Cardinality(Open) + opened'
      /\ \A o \in Operators : ops'[o].action = "clear" => kind = "private"
    <2>1. opened \in Int /\ opened' = opened /\ ops' = ops
        BY <1>1 DEF IInv, Stored
    <2> QED  BY <1>3, <2>1, OpenOnes DEF IInv, Remembered
<1> QED  BY <1>1, <1>2, <1>4, Idly

LEMMA Preserved == IInv /\ [Next]_vars => IInv'
<1> SUFFICES ASSUME IInv, [Next]_vars  PROVE IInv'
    OBVIOUS
<1>1. CASE \E i \in waiting : Enqueue(i)
    BY <1>1, EnqueueStep
<1>2. ASSUME NEW w \in Workers, Work(w)  PROVE IInv'
    BY <1>2, ClaimStep, ReadFactsStep, CommitFactsStep, RefreshStep, CommitDigestStep, ReadTextStep,
       ReadSummaryStep, CommitSummaryStep, ReadRelationStep, CommitRelationStep DEF Work
<1>3. ASSUME NEW p \in Writers, Mirrors(p) \/ MirrorFails(p) \/ Crash(p)  PROVE IInv'
    BY <1>3, MirrorStep, CrashStep
<1>4. CASE Arrive
    BY <1>4, ArriveStep
<1>5. CASE PurgeExpired
    BY <1>5, PurgeStep
<1>7. ASSUME NEW o \in Operators, Governs(o)  PROVE IInv'
    BY <1>7, PreviewStep, ConfirmStep, CancelStep DEF Governs, Cancel
<1>8. ASSUME NEW w \in Workers, Fail(w) \/ Lapse(w)  PROVE IInv'
    BY <1>8, FailStep, LapseStep
<1>9. CASE UNCHANGED vars
    BY <1>9, Stutters
<1> QED  BY <1>1, <1>2, <1>3, <1>4, <1>5, <1>7, <1>8, <1>9 DEF Next, Progresses

\* Every job expects, and every worker has read, what the tables once held (private_memory/store.py,
\* relationship.py, member_memory/store.py), and as long as the versions that a commit compares are
\* the same, nothing that it would write has been cleared, changed or overruled meanwhile.
THEOREM Inductive == Spec => []IInv
<1>1. Init => IInv
    BY Initially
<1>2. IInv /\ [Next]_vars => IInv'
    BY Preserved
<1> QED  BY <1>1, <1>2, PTL DEF Spec

\* What a member's summary rests on is active, whatever administrators delete or change while it is
\* made, as long as no lease lapses (commit_summary in member_memory/store.py compares the facts).
THEOREM Honest == Spec => []SummaryIsHonest
<1>1. IInv => SummaryIsHonest
    BY DEF IInv
<1> QED  BY <1>1, Inductive, PTL

LEMMA Types == IInv => TypeOK
<1> SUFFICES ASSUME IInv  PROVE TypeOK
    OBVIOUS
<1>1. /\ MaxMessages \in Nat /\ MaxOperations \in Nat /\ count \in Nat /\ count <= MaxMessages
      /\ past.asked \in Nat /\ progress.through \in Nat /\ opened \in Nat /\ opened <= MaxOperations
      /\ Len(facts) \in Nat /\ Cardinality(Open) \in Nat
    BY BoundsAssumption, FactsAre, OpenOnes DEF IInv, Stored, Ids
<1>2. Len(facts) <= MaxFacts
    BY <1>1 DEF IInv, Remembered, MaxFacts
<1>3. \A w \in Workers :
          /\ work[w].step \in {"idle", "taken", "read", "asked", "refresh", "digest", "check"}
          /\ work[w].job.to <= past.asked
    <2> SUFFICES ASSUME NEW w \in Workers
                 PROVE  /\ work[w].step \in {"idle", "taken", "read", "asked", "refresh", "digest", "check"}
                        /\ work[w].job.to <= past.asked
        OBVIOUS
    <2>1. PICK t \in Task : t = work[w] /\ TaskOK(t)
        BY DEF IInv, Stored, Tasks
    <2>2. t.job.to <= past.asked
        BY <1>1, <2>1 DEF TaskOK, JobOK
    <2> QED  BY <2>1, <2>2 DEF Task
<1>4. \A j \in jobs : j.type \in types /\ 1 <= j.from /\ j.from <= j.to /\ j.to <= past.asked
    BY DEF IInv, Tasks, JobOK
<1>5. \A i \in DOMAIN facts : facts[i].source <= count
                               /\ facts[i].status \in {"active", "superseded", "deleted"}
    <2>1. \A i \in DOMAIN facts : facts[i] \in Fact
        BY FactsAre DEF IInv
    <2> QED  BY <2>1 DEF IInv, Remembered, Fact
<1>6. opened <= MaxOperations /\ upsets <= MaxUpsets
    BY BoundsAssumption DEF IInv, Stored
<1> QED  BY <1>2, <1>3, <1>4, <1>5, <1>6 DEF TypeOK, IInv, Stored, Remembered, Mirroring

\* The file shows the member's present profile once nobody is about to write it, unless the last
\* write failed, was cut off, or was overtaken by another process: within a process the lock orders
\* reading and replacing (member_memory/store.py), and whoever changes a profile after it was read
\* is himself about to write.
THEOREM Current == Spec => []MirrorIsCurrent
<1>1. IInv => MirrorIsCurrent
    BY Types DEF MirrorIsCurrent, IInv, Mirroring
<1> QED  BY <1>1, Inductive, PTL

\* Who changes the facts and the relationship.
LEMMA Changes ==
    ASSUME [Next]_vars
    PROVE  /\ \/ facts' = facts
              \/ \E w \in Workers : CommitFacts(w)
              \/ \E o \in Operators : Confirm(o)
           /\ \/ relation' = relation
              \/ \E w \in Workers : CommitRelation(w)
              \/ \E o \in Operators : Confirm(o)
<1>1. ASSUME NEW w \in Workers, Work(w)
      PROVE  (facts' = facts \/ CommitFacts(w)) /\ (relation' = relation \/ CommitRelation(w))
    BY <1>1 DEF Work, Claim, ReadFacts, CommitFacts, Refresh, CommitDigest, ReadText, ReadSummary,
                CommitSummary, ReadRelation, CommitRelation, memory
<1>2. ASSUME NEW o \in Operators, Governs(o)
      PROVE  (facts' = facts /\ relation' = relation) \/ Confirm(o)
    BY <1>2 DEF Governs, Preview, Cancel, memory
<1>3. ASSUME \/ \E i \in waiting : Enqueue(i)
             \/ \E p \in Writers : Mirrors(p) \/ MirrorFails(p) \/ Crash(p)
             \/ Arrive \/ PurgeExpired
             \/ \E w \in Workers : Fail(w) \/ Lapse(w)
             \/ UNCHANGED vars
      PROVE  facts' = facts /\ relation' = relation
    <2>1. memory' = memory
        <3>1. CASE \E i \in waiting : Enqueue(i)
            BY ONLY <3>1 DEF Enqueue
        <3>2. CASE \E p \in Writers : Mirrors(p) \/ MirrorFails(p) \/ Crash(p)
            BY ONLY <3>2 DEF Mirrors, MirrorFails, ReadProfile, WriteProfile, Crash
        <3>3. CASE Arrive \/ PurgeExpired
            BY ONLY <3>3 DEF Arrive, PurgeExpired
        <3>4. CASE \E w \in Workers : Fail(w) \/ Lapse(w)
            BY ONLY <3>4 DEF Fail, Lapse
        <3>5. CASE UNCHANGED vars
            BY ONLY <3>5 DEF vars
        <3> QED  BY ONLY <1>3, <3>1, <3>2, <3>3, <3>4, <3>5
    <2> QED  BY ONLY <2>1 DEF memory
<1>4. \/ \E w \in Workers : Work(w)
      \/ \E o \in Operators : Governs(o)
      \/ \E i \in waiting : Enqueue(i)
      \/ \E p \in Writers : Mirrors(p) \/ MirrorFails(p) \/ Crash(p)
      \/ Arrive \/ PurgeExpired
      \/ \E w \in Workers : Fail(w) \/ Lapse(w)
      \/ UNCHANGED vars
    BY ONLY [Next]_vars DEF Next, Progresses
<1> QED  BY ONLY <1>1, <1>2, <1>3, <1>4

\* A fact that an administrator writes has no message.
LEMMA Authored ==
    ASSUME IInv, NEW o \in Operators, Confirm(o), NEW i \in DOMAIN facts' \ DOMAIN facts
    PROVE  facts'[i].source = Admin
<1>1. PICK q : q = ops[o]
    OBVIOUS
<1>2. PICK f \in Fact : f = [source |-> Admin, status |-> "active"] /\ f.source = 0
    BY AdminFact
<1>3. PICK g : g = Append(facts, f) /\ g = Written
    BY <1>2 DEF Written
<1>4. facts \in Seq(Fact) /\ Len(facts) \in Nat /\ DOMAIN facts = 1..Len(facts)
    BY FactsAre DEF IInv, Stored
<1>5. g \in Seq(Fact) /\ DOMAIN g = 1..Len(facts) + 1 /\ g[Len(facts) + 1] = f
    <2>1. g \in Seq(Fact) /\ Len(g) = Len(facts) + 1 /\ g[Len(facts) + 1] = f
        BY <1>2, <1>3, <1>4, AppendProperties
    <2> QED  BY <2>1
<1>6. facts' # facts
    OBVIOUS
<1>7. \/ q.action = "add" /\ facts' = g
      \/ /\ q.action = "delete" /\ facts' = [facts EXCEPT ![q.target].status = "deleted"]
      \/ /\ q.action = "modify" /\ facts' = [g EXCEPT ![q.target].status = "superseded"]
         /\ q.target \in DOMAIN facts
    BY <1>1, <1>3, <1>6 DEF Confirm, Apply, Unchanged, AddFact, ChangeFact, Relate, ClearPrivate, memory,
                            Active
<1>8. CASE facts' = g
    BY <1>2, <1>4, <1>5, <1>8 DEF Admin
<1>9. CASE facts' = [facts EXCEPT ![q.target].status = "deleted"]
    BY <1>9
<1>10. CASE facts' = [g EXCEPT ![q.target].status = "superseded"] /\ q.target \in DOMAIN facts
    <2>1. DOMAIN facts' = DOMAIN g /\ i \in DOMAIN g /\ i \notin DOMAIN facts /\ i # q.target
        BY <1>10
    <2>2. facts'[i] = g[i]
        BY <1>10, <2>1
    <2>3. i = Len(facts) + 1
        BY <1>4, <1>5, <2>1
    <2> QED  BY <1>2, <1>5, <2>2, <2>3 DEF Admin
<1> QED  BY <1>7, <1>8, <1>9, <1>10

\* A fact that a job writes comes of a message that is there.
LEMMA Sourced ==
    ASSUME IInv, NEW w \in Workers, CommitFacts(w), NEW i \in DOMAIN facts' \ DOMAIN facts
    PROVE  facts'[i].source \in live
<1>1. PICK t \in Task : t = work[w]
    BY DEF IInv, Stored
<1>2. PICK b \in Basis : b = t.basis
    BY DEF Task
<1>3. t.step = "asked" /\ t.job.type = "facts" /\ Interval(b)
    BY <1>1, <1>2 DEF CommitFacts, IInv, Tasks, TaskOK
<1>4. facts' # facts
    OBVIOUS
<1>5. /\ IF kind = "private" THEN PrivateFactsStand(b) ELSE GroupFactsStand(b)
      /\ progress' = [through |-> b.end, version |-> b.version + 1]
      /\ UNCHANGED <<scope, count, live, summary, relation, past, ops, opened>>
    BY <1>1, <1>2, <1>4 DEF CommitFacts, Outside, governed
<1>6. PICK said \in SUBSET b.ids :
         facts' = facts \o [k \in 1..Cardinality(said) |->
                  [source |-> CHOOSE s \in said : Cardinality(Between(said, 0, s)) = k,
                   status |-> "active"]]
    BY <1>1, <1>2, <1>4 DEF CommitFacts, Said
<1>7. progress.through <= b.through
    BY <1>5 DEF PrivateFactsStand, GroupFactsStand, IInv, Remembered, Stored, Basis
<1>8. facts'[i].source \in said
    BY <1>3, <1>5, <1>6, <1>7, FactsAdded
<1>9. b.ids \subseteq live
    BY <1>5 DEF PrivateFactsStand, GroupFactsStand, SameSources, Between
<1> QED  BY <1>8, <1>9

\* After a private chat was cleared neither its summary nor its topics hold what was cleared, and
\* a new fact comes of a message that is there (clear_private_memory in memory_governance/service.py
\* against the commits of private_memory/store.py and relationship.py).
THEOREM StaysCleared == Spec => ClearedStaysCleared
<1>1. IInv /\ [Next]_vars =>
        (kind = "private" =>
         /\ (summary'.text \cup relation'.topics) \cap 1..past'.cleared = {}
         /\ \A i \in DOMAIN facts' \ DOMAIN facts : facts'[i].source \in live \cup {Admin})
    <2> SUFFICES ASSUME IInv, [Next]_vars
                 PROVE  /\ (summary'.text \cup relation'.topics) \cap 1..past'.cleared = {}
                        /\ \A i \in DOMAIN facts' \ DOMAIN facts : facts'[i].source \in live \cup {Admin}
        OBVIOUS
    <2>1. IInv'
        BY Preserved
    <2>2. (summary'.text \cup relation'.topics) \cap 1..past'.cleared = {}
        BY <2>1 DEF IInv, Remembered, Clean
    <2>3. ASSUME NEW i \in DOMAIN facts' \ DOMAIN facts  PROVE facts'[i].source \in live \cup {Admin}
        <3>1. facts' # facts
            OBVIOUS
        <3> QED  BY <3>1, Changes, Authored, Sourced
    <2> QED  BY <2>2, <2>3
<1> QED  BY <1>1, Inductive, PTL DEF Spec, ClearedStaysCleared

\* A job does not replace a relationship that an administrator wrote, unless it is for a message that
\* was enqueued since: the version that the job expects tells them apart (relationship.py).
THEOREM Prevails == Spec => DecisionsPrevail
<1>1. IInv /\ [Next]_vars =>
        (relation.byAdmin /\ ~relation'.byAdmin => relation'.watermark > past.decided)
    <2> SUFFICES ASSUME IInv, [Next]_vars, relation.byAdmin, ~relation'.byAdmin
                 PROVE  relation'.watermark > past.decided
        OBVIOUS
    <2>1. ASSUME NEW o \in Operators, Confirm(o)  PROVE FALSE
        <3>1. relation \in Relation
            BY DEF IInv, Stored, Relation
        <3>2. \/ relation' = relation
              \/ relation' = [relation EXCEPT !.version = @ + 1, !.byAdmin = TRUE]
              \/ relation' = [relation EXCEPT !.topics = {}, !.version = @ + 1, !.byAdmin = TRUE]
            BY <2>1 DEF Confirm, Apply, AddFact, ChangeFact, Relate, ClearPrivate, memory
        <3>3. relation'.byAdmin
            <4>1. CASE relation' = relation
                BY <4>1
            <4>2. CASE relation' = [relation EXCEPT !.version = @ + 1, !.byAdmin = TRUE]
                BY <3>1, <4>2 DEF Relation
            <4>3. CASE relation' = [relation EXCEPT !.topics = {}, !.version = @ + 1, !.byAdmin = TRUE]
                BY <3>1, <4>3 DEF Relation
            <4> QED  BY <3>2, <4>1, <4>2, <4>3
        <3> QED  BY <3>3
    <2> QED  BY <2>1, Changes, CommitRelationStep
<1> QED  BY <1>1, Inductive, PTL DEF Spec, DecisionsPrevail
==============================================================================
