------------------------- MODULE MemoryJobs_proofs -------------------------
(* Invariants of MemoryJobs, for any number of processes, conversations, rows  *)
(* and attempts.                                                               *)
EXTENDS MemoryJobs, FiniteSetTheorems, WellFoundedInduction, TLAPS

-----------------------------------------------------------------------------
(* Lemmas about the operators.                                                 *)

\* The bounded subtraction stays a natural number and never exceeds its start.
LEMMA BeforeType ==
    ASSUME NEW a \in Nat, NEW b \in Nat
    PROVE  /\ Before(a, b) \in Nat
           /\ Before(a, b) <= a
    BY DEF Before

LEMMA EarlierType ==
    ASSUME NEW a \in Nat, NEW b \in Nat
    PROVE  /\ Earlier(a, b) \in Nat
           /\ Earlier(a, b) <= a /\ Earlier(a, b) <= b
    BY DEF Earlier

\* ORDER BY id LIMIT 1 finds a row whenever there is one.
LEMMA FirstIsMember ==
    ASSUME NEW S \in SUBSET Nat, S # {}
    PROVE  First(S) \in S /\ \A j \in S : First(S) <= j
<1>1. PICK i \in S : \A j \in S : <<j, i>> \notin OpToRel(<, Nat)
    BY NatLessThanWellFounded, WFMin
<1>2. ASSUME NEW j \in S
      PROVE  i <= j
    <2>1. <<j, i>> \in Nat \X Nat
        OBVIOUS
    <2>2. ~ (j < i)
        BY <1>1, <2>1 DEF OpToRel
    <2>. QED
        BY <2>2
<1>. QED
    BY <1>2 DEF First

-----------------------------------------------------------------------------
(* Types.  A process holds the rows its tasks work on and those its claim has   *)
(* read back; they exist, the claim held is no newer than the row's, and older *)
(* while the row is taken but not yet read back.  A dead process holds none.   *)

Held(w) == tasks[w] \cup gate[w].read

TasksOK ==
    \A w \in Workers :
        /\ IsFiniteSet(tasks[w]) /\ IsFiniteSet(gate[w].read)
        /\ ~ up[w] => Held(w) = {} /\ gate[w].claimed = {}
        /\ gate[w].room > 0 => gate[w].claimed = {} /\ gate[w].read = {}
        /\ gate[w].claimed \subseteq Ids
        /\ \A t \in Held(w) :
            /\ t.id \in Ids
            /\ t.claim <= rows[t.id].claim
            /\ t.id \in gate[w].claimed => t.claim # rows[t.id].claim

\* While the claim it was read for runs, what is held of a row is what the row is, and a
\* row that was the process's own when it was read still is.
HeldFresh ==
    \A w \in Workers : \A t \in Held(w) :
        rows[t.id].status = "running" /\ rows[t.id].claim = t.claim =>
            /\ rows[t.id].through = t.through /\ rows[t.id].attempts = t.attempts
            /\ t.own => rows[t.id].owner = Me(w)

TypeInv == TypeOK /\ TasksOK /\ AttemptsBounded

\* Giving a row up keeps its type and everything but its lease and status.
LEMMA FreedRow ==
    ASSUME NEW r \in Row, NEW status \in Status, NEW wait \in Nat
    PROVE  LET q == Freed(r, status, wait) IN
           /\ q \in Row
           /\ q.status = status /\ q.wait = wait /\ q.attempts = r.attempts /\ q.claim = r.claim
           /\ q.type = r.type /\ q.scope = r.scope /\ q.through = r.through
           /\ q.age = r.age
    BY DEF Freed, Row

\* A clear keeps everything but the status and the lease.
LEMMA CancelledRow ==
    ASSUME NEW r \in Row
    PROVE  LET q == [r EXCEPT !.status = "cancelled", !.owner = NoOwner, !.lease = 0] IN
           /\ q \in Row /\ q.status = "cancelled"
           /\ q.type = r.type /\ q.scope = r.scope /\ q.through = r.through
           /\ q.claim = r.claim /\ q.attempts = r.attempts
<1>1. "cancelled" \in Status
    BY DEF Status, Terminal
<1>. QED
    BY <1>1 DEF Row

\* The ways in which a task ends are the same in the parts below.
LEMMA EndTaskType ==
    ASSUME TypeInv, NEW w \in Workers, NEW t \in tasks[w],
           NEW outcome, EndTask(w, t, outcome),
           Owned(w, t) =>
              /\ outcome \in Row
              /\ outcome.attempts <= MaxAttempts /\ outcome.claim = rows[t.id].claim
              /\ outcome.status = "running" => outcome.attempts > 0
    PROVE  TypeInv'
<1>1. t.id \in Ids
    BY DEF TypeInv, TasksOK, Held
<1>2. /\ rows' \in [Ids -> Row]
      /\ \A i \in Ids : rows'[i] = rows[i] \/ (Owned(w, t) /\ i = t.id /\ rows'[i] = outcome)
    BY <1>1 DEF EndTask, TypeInv, TypeOK
<1>3. UNCHANGED <<lastId, allowed, up, starts, stopping, gate>> /\ Ids' = Ids
    BY DEF EndTask, process, Ids
<1>4. tasks' \in [Workers -> SUBSET Task] /\ \A v \in Workers : tasks'[v] \subseteq tasks[v]
    BY DEF EndTask, TypeInv, TypeOK
<1>5. TypeOK'
    BY <1>2, <1>3, <1>4 DEF TypeInv, TypeOK
<1>6. \A v \in Workers : IsFiniteSet(tasks'[v])
    BY <1>4, FS_Subset DEF TypeInv, TasksOK
<1>7. \A i \in Ids : rows'[i].claim = rows[i].claim
    BY <1>1, <1>2
<1>8. TasksOK'
    <2>1. \A v \in Workers : Held(v)' \subseteq Held(v)
        BY <1>3, <1>4 DEF Held
    <2>. QED
        BY <1>3, <1>6, <1>7, <2>1 DEF TypeInv, TasksOK
<1>9. AttemptsBounded'
    BY <1>1, <1>2, <1>3 DEF TypeInv, AttemptsBounded
<1>. QED
    BY <1>5, <1>8, <1>9 DEF TypeInv

\* A pause is a natural number, whatever the type of the job.
LEMMA WaitType ==
    ASSUME NEW r \in Row, NEW n \in Nat, NEW k \in JobTypes
    PROVE  CoalescedWait(r, n) \in Nat /\ FirstWait(k) \in Nat
    BY SettingsAssumption, BeforeType, EarlierType DEF CoalescedWait, FirstWait, Row

\* What enqueue() does to the row that takes the message in.
LEMMA AbsorbingRow ==
    ASSUME NEW r \in Row, NEW t \in Nat
    PROVE  LET q == Absorbing(r, t) IN
           /\ q \in Row
           /\ q.through = t /\ q.wait = CoalescedWait(r, r.count + 1)
           /\ q.attempts = r.attempts /\ q.claim = r.claim /\ q.status = r.status
           /\ q.type = r.type /\ q.scope = r.scope /\ q.owner = r.owner /\ q.age = r.age
<1> DEFINE q == Absorbing(r, t)
<1>1. r.count + 1 \in Nat
    BY DEF Row
<1>2. CoalescedWait(r, r.count + 1) \in Nat
    BY <1>1, WaitType DEF Row
<1>3. q \in Row
    BY <1>1, <1>2 DEF Row, Absorbing
<1>4. /\ q.through = t /\ q.wait = CoalescedWait(r, r.count + 1)
      /\ q.attempts = r.attempts /\ q.claim = r.claim /\ q.status = r.status
    BY DEF Row, Absorbing
<1>5. q.type = r.type /\ q.scope = r.scope /\ q.owner = r.owner /\ q.age = r.age
    BY DEF Row, Absorbing
<1>. QED
    BY <1>3, <1>4, <1>5

\* The row that takes a message in is one of the open ones.
LEMMA CoalescedStep ==
    ASSUME TypeInv, NEW k \in JobTypes, NEW s \in Scopes, NEW t \in Nat, Coalesce(k, s, t)
    PROVE  /\ lastId' = lastId /\ Ids' = Ids
           /\ \E i \in Open(k, s) :
                /\ i \in Ids /\ rows[i] \in Row /\ t > rows[i].through
                /\ rows' = [rows EXCEPT ![i] = Absorbing(rows[i], t)]
<1>1. Open(k, s) \subseteq Ids /\ Ids \subseteq Nat
    BY DEF Open, Ids
<1>2. First(Open(k, s)) \in Open(k, s)
    BY <1>1, FirstIsMember DEF Coalesce
<1>3. rows[First(Open(k, s))] \in Row
    BY <1>1, <1>2 DEF TypeInv, TypeOK
<1>. QED
    BY <1>1, <1>2, <1>3 DEF Coalesce, Ids

LEMMA CoalesceType ==
    ASSUME TypeInv, NEW k \in JobTypes, NEW s \in Scopes, NEW t \in Nat, Coalesce(k, s, t),
           UNCHANGED <<allowed, process, gate, tasks>>
    PROVE  TypeInv'
<1>1. PICK i \in Ids : rows[i] \in Row /\ rows' = [rows EXCEPT ![i] = Absorbing(rows[i], t)]
    BY CoalescedStep
<1>2. Ids' = Ids /\ lastId' = lastId
    BY CoalescedStep
<1>3. /\ Absorbing(rows[i], t) \in Row
      /\ Absorbing(rows[i], t).attempts = rows[i].attempts
      /\ Absorbing(rows[i], t).claim = rows[i].claim
      /\ Absorbing(rows[i], t).status = rows[i].status
    BY <1>1, AbsorbingRow
<1>4. rows' \in [Ids -> Row]
    BY <1>1, <1>3 DEF TypeInv, TypeOK
<1>5. \A j \in Ids : /\ rows'[j].attempts = rows[j].attempts /\ rows'[j].claim = rows[j].claim
                     /\ rows'[j].status = rows[j].status
    BY <1>1, <1>3 DEF TypeInv, TypeOK
<1>6. TypeOK'
    BY <1>2, <1>4 DEF TypeInv, TypeOK, process
<1>7. TasksOK'
    BY <1>2, <1>5 DEF TypeInv, TasksOK, Held, process
<1>8. AttemptsBounded'
    BY <1>2, <1>5 DEF TypeInv, AttemptsBounded
<1>. QED
    BY <1>6, <1>7, <1>8 DEF TypeInv

LEMMA InsertType ==
    ASSUME TypeInv, NEW k \in JobTypes, NEW s \in Scopes, NEW t \in Nat, Insert(k, s, t),
           UNCHANGED <<allowed, process, gate, tasks>>
    PROVE  TypeInv'
<1> DEFINE q == [type |-> k, scope |-> s, through |-> t, count |-> 1,
                 status |-> "pending", attempts |-> 0, claim |-> 0,
                 owner |-> NoOwner, wait |-> FirstWait(k), lease |-> 0, age |-> 0]
<1>1. lastId \in Nat /\ lastId' = lastId + 1 /\ Ids' = Ids \cup {lastId + 1} /\ lastId + 1 \notin Ids
    BY DEF Insert, TypeInv, TypeOK, Ids
<1>2. q \in Row
    <2>1. FirstWait(k) \in Nat
        BY SettingsAssumption DEF FirstWait
    <2>. QED
        BY <2>1 DEF Row, Status
<1>3. rows' = [i \in Ids' |-> IF i \in Ids THEN rows[i] ELSE q]
    BY DEF Insert, Ids
<1>4. rows' \in [Ids' -> Row] /\ \A i \in Ids : rows'[i] = rows[i]
    BY <1>1, <1>2, <1>3 DEF TypeInv, TypeOK
<1>5. TypeOK'
    BY <1>1, <1>4 DEF TypeInv, TypeOK, process
<1>6. TasksOK'
    BY <1>1, <1>4 DEF TypeInv, TasksOK, Held, process
<1>7. AttemptsBounded'
    <2>1. rows'[lastId + 1] = q
        BY <1>1, <1>3
    <2>. QED
        BY <1>1, <1>4, <2>1, SettingsAssumption DEF TypeInv, AttemptsBounded
<1>. QED
    BY <1>5, <1>6, <1>7 DEF TypeInv

\* What claim() does to a row it takes.
LEMMA ClaimedRow ==
    ASSUME TypeInv, NEW w \in Workers, NEW i \in Taken(w)
    PROVE  LET q == Claimed(w, rows[i]) IN
           /\ i \in Ids /\ rows[i] \in Row /\ q \in Row
           /\ rows[i].status = "pending" /\ rows[i].attempts < MaxAttempts
           /\ q.status = "running" /\ q.attempts = rows[i].attempts + 1
           /\ q.claim = rows[i].claim + 1 /\ q.owner = Me(w)
           /\ q.type = rows[i].type /\ q.scope = rows[i].scope /\ q.through = rows[i].through
<1>1. i \in Ids /\ rows[i].status = "pending" /\ rows[i].attempts < MaxAttempts
    BY DEF Taken, Runnable, Heads, Claimable
<1>2. rows[i] \in Row
    BY <1>1 DEF TypeInv, TypeOK
<1>3. Me(w) \in Owners
    BY DEF Me, Owners, TypeInv, TypeOK
<1>4. LeaseTime \in Nat /\ rows[i].attempts + 1 \in Nat /\ rows[i].claim + 1 \in Nat
    <2>1. rows[i].attempts \in Nat /\ rows[i].claim \in Nat
        BY <1>2 DEF Row
    <2>2. LeaseTime \in Nat
        BY SettingsAssumption
    <2>. QED
        BY <2>1, <2>2
<1> DEFINE q == Claimed(w, rows[i])
<1>5. q \in Row
    <2>1. "running" \in Status
        BY DEF Status
    <2>2. Me(w) \in Owners \cup {NoOwner}
        BY <1>3
    <2>. QED
        BY <1>2, <1>4, <2>1, <2>2 DEF Claimed, Row
<1>6. /\ q.status = "running" /\ q.attempts = rows[i].attempts + 1
      /\ q.claim = rows[i].claim + 1 /\ q.owner = Me(w)
      /\ q.type = rows[i].type /\ q.scope = rows[i].scope /\ q.through = rows[i].through
    BY <1>2 DEF Claimed, Row
<1>. QED
    BY <1>1, <1>2, <1>5, <1>6

LEMMA SnapshotType ==
    ASSUME TypeInv, NEW w \in Workers, NEW i \in Ids
    PROVE  LET t == Snapshot(w, i) IN
           /\ t \in Task
           /\ t.id = i /\ t.through = rows[i].through
           /\ t.attempts = rows[i].attempts /\ t.claim = rows[i].claim
           /\ t.own <=> rows[i].status = "running" /\ rows[i].owner = Me(w)
<1>1. rows[i] \in Row /\ i \in Nat \ {0}
    BY DEF TypeInv, TypeOK, Ids
<1>2. rows[i].through \in Nat /\ rows[i].attempts \in Nat /\ rows[i].claim \in Nat
    BY <1>1 DEF Row
<1>. QED
    BY <1>1, <1>2 DEF Snapshot, Task

\* The commit of a claim: the rows it takes are the ones to read back.
LEMMA ClaimStep ==
    ASSUME TypeInv, NEW w \in Workers, Claim(w)
    PROVE  /\ Ids' = Ids /\ Taken(w) \subseteq Ids
           /\ UNCHANGED <<lastId, allowed, up, starts, stopping, tasks>>
           /\ \A i \in Ids : rows'[i] = IF i \in Taken(w) THEN Claimed(w, rows[i]) ELSE rows[i]
           /\ gate[w].claimed = {} /\ gate[w].read = {}
           /\ gate'[w] = [types |-> {}, room |-> 0, claimed |-> Taken(w), read |-> {}]
           /\ \A v \in Workers \ {w} : gate'[v] = gate[v]
           /\ \A v \in Workers : Held(v)' = Held(v)
<1>1. gate \in [Workers -> Gate] /\ Ids' = Ids /\ Taken(w) \subseteq Ids
    BY DEF Claim, Ids, TypeInv, TypeOK, Taken, Runnable, Heads
<1>2. gate'[w] = [types |-> {}, room |-> 0, claimed |-> Taken(w), read |-> {}]
    BY <1>1 DEF Claim, NoClaim
<1>3. \A v \in Workers \ {w} : gate'[v] = gate[v]
    BY <1>1 DEF Claim
<1>4. gate[w].claimed = {} /\ gate[w].read = {}
    BY DEF Claim, TypeInv, TasksOK
<1>5. \A v \in Workers : Held(v)' = Held(v)
    BY <1>2, <1>3, <1>4 DEF Claim, Held
<1>. QED
    BY <1>1, <1>2, <1>3, <1>4, <1>5 DEF Claim, process

\* The read-back of one row: it is held as it is by now.
LEMMA ReadStep ==
    ASSUME TypeInv, NEW w \in Workers, ReadBack(w)
    PROVE  /\ Ids' = Ids /\ up[w]
           /\ UNCHANGED <<rows, lastId, allowed, up, starts, stopping>>
           /\ \A v \in Workers \ {w} : gate'[v] = gate[v] /\ tasks'[v] = tasks[v]
           /\ tasks' \in [Workers -> SUBSET Task] /\ gate' \in [Workers -> Gate]
           /\ \A v \in Workers : tasks[v] \subseteq tasks'[v]
           /\ gate'[w].room = 0
           /\ IsFiniteSet(tasks'[w]) /\ IsFiniteSet(gate'[w].read)
           /\ \E i \in gate[w].claimed :
                /\ i \in Ids
                /\ Held(w)' = Held(w) \cup {Snapshot(w, i)}
                /\ gate'[w].claimed = gate[w].claimed \ {i}
<1>1. /\ gate \in [Workers -> Gate] /\ gate[w] \in Gate /\ tasks \in [Workers -> SUBSET Task]
      /\ gate[w].claimed \subseteq Ids /\ Ids \subseteq Nat /\ gate[w].claimed # {}
    BY DEF ReadBack, Ids, TypeInv, TypeOK, TasksOK
<1> DEFINE i == First(gate[w].claimed)
           s == Snapshot(w, i)
           read == gate[w].read \cup {s}
           left == gate[w].claimed \ {i}
<1>2. i \in gate[w].claimed /\ i \in Ids
    BY <1>1, FirstIsMember
<1>3. s \in Task
    BY <1>2, SnapshotType
<1>4. /\ read \in SUBSET Task /\ left \in SUBSET Nat /\ 0 \in 0..Concurrency
      /\ IsFiniteSet(tasks[w]) /\ IsFiniteSet(gate[w].read) /\ IsFiniteSet(read)
    <2>1. gate[w].read \in SUBSET Task
        BY <1>1 DEF Gate
    <2>2. IsFiniteSet(tasks[w]) /\ IsFiniteSet(gate[w].read)
        BY DEF TypeInv, TasksOK
    <2>3. IsFiniteSet(read)
        BY <2>2, FS_AddElement
    <2>4. left \in SUBSET Nat
        BY <1>1
    <2>5. read \in SUBSET Task
        BY <1>3, <2>1
    <2>6. 0 \in 0..Concurrency
        BY SettingsAssumption
    <2>. QED
        BY <2>2, <2>3, <2>4, <2>5, <2>6
<1>5. UNCHANGED <<rows, lastId, allowed, up, starts, stopping>> /\ Ids' = Ids /\ up[w]
    BY DEF ReadBack, process, Ids
<1>6. CASE left = {}
    <2>1. tasks' = [tasks EXCEPT ![w] = tasks[w] \cup read] /\ gate' = [gate EXCEPT ![w] = NoClaim]
        BY <1>6 DEF ReadBack
    <2>2. NoClaim \in Gate /\ NoClaim.claimed = {} /\ NoClaim.read = {} /\ NoClaim.room = 0
        BY <1>4 DEF NoClaim, Gate
    <2>3. tasks[w] \cup read \in SUBSET Task /\ IsFiniteSet(tasks[w] \cup read)
        BY <1>1, <1>4, FS_Union
    <2>. HIDE DEF s, read, left, i
    <2>4. /\ tasks' \in [Workers -> SUBSET Task] /\ gate' \in [Workers -> Gate]
          /\ tasks'[w] = tasks[w] \cup read /\ gate'[w] = NoClaim
          /\ \A v \in Workers \ {w} : gate'[v] = gate[v] /\ tasks'[v] = tasks[v]
        BY <1>1, <2>1, <2>2, <2>3
    <2>5. Held(w)' = tasks[w] \cup read
        BY <2>2, <2>4 DEF Held
    <2>6. Held(w)' = Held(w) \cup {s}
        BY <2>5 DEF Held, read
    <2>7. gate'[w].claimed = gate[w].claimed \ {i}
        BY <1>6, <2>2, <2>4 DEF left
    <2>8. IsFiniteSet({})
        BY FS_EmptySet
    <2>. QED
        BY <1>2, <1>5, <2>2, <2>3, <2>4, <2>6, <2>7, <2>8 DEF s
<1>7. CASE left # {}
    <2> DEFINE g == [types |-> {}, room |-> 0, claimed |-> left, read |-> read]
    <2>1. tasks' = tasks /\ gate' = [gate EXCEPT ![w] = g]
        BY <1>7 DEF ReadBack, NoClaim
    <2>2. g \in Gate /\ g.claimed = left /\ g.read = read /\ g.room = 0
        BY <1>4 DEF Gate
    <2>. HIDE DEF s, read, left, i, g
    <2>3. /\ gate' \in [Workers -> Gate] /\ gate'[w] = g
          /\ \A v \in Workers \ {w} : gate'[v] = gate[v]
        BY <1>1, <2>1, <2>2
    <2>4. Held(w)' = Held(w) \cup {s}
        BY <2>1, <2>2, <2>3 DEF Held, read
    <2>5. gate'[w].claimed = gate[w].claimed \ {i}
        BY <2>2, <2>3 DEF left
    <2>. QED
        BY <1>1, <1>2, <1>4, <1>5, <2>1, <2>2, <2>3, <2>4, <2>5 DEF s
<1>. QED
    BY <1>6, <1>7

LEMMA ClaimType ==
    ASSUME TypeInv, NEW w \in Workers, Claim(w)
    PROVE  TypeInv'
<1>0. /\ Ids' = Ids /\ Taken(w) \subseteq Ids
      /\ UNCHANGED <<lastId, allowed, up, starts, stopping, tasks>>
      /\ \A i \in Ids : rows'[i] = IF i \in Taken(w) THEN Claimed(w, rows[i]) ELSE rows[i]
      /\ gate'[w] = [types |-> {}, room |-> 0, claimed |-> Taken(w), read |-> {}]
      /\ \A v \in Workers \ {w} : gate'[v] = gate[v]
      /\ \A v \in Workers : Held(v)' = Held(v)
    BY ClaimStep
<1>1. Ids \subseteq Nat /\ gate \in [Workers -> Gate] /\ up[w]
    BY DEF Ids, TypeInv, TypeOK, Claim
<1>2. rows' \in [Ids -> Row]
    BY ClaimedRow DEF Claim, TypeInv, TypeOK
<1>3. ASSUME NEW i \in Ids
      PROVE  /\ rows'[i].attempts <= MaxAttempts
             /\ rows'[i].status = "running" => rows'[i].attempts > 0
             /\ rows[i].claim \in Nat /\ rows'[i].claim \in Nat
             /\ IF i \in Taken(w) THEN rows[i].claim < rows'[i].claim
                                  ELSE rows[i].claim = rows'[i].claim
    <2>1. rows[i] \in Row
        BY DEF TypeInv, TypeOK
    <2>2. CASE i \in Taken(w)
        <3>1. rows'[i] = Claimed(w, rows[i])
            BY <2>2, <1>0
        <3>2. /\ rows[i].attempts < MaxAttempts
              /\ rows'[i].status = "running" /\ rows'[i].attempts = rows[i].attempts + 1
              /\ rows'[i].claim = rows[i].claim + 1
            BY <2>2, <3>1, ClaimedRow
        <3>3. rows[i].attempts \in Nat /\ rows[i].claim \in Nat /\ MaxAttempts \in Nat
            BY <2>1, SettingsAssumption DEF Row
        <3>. QED
            BY <2>2, <3>2, <3>3
    <2>3. CASE i \notin Taken(w)
        <3>1. rows'[i] = rows[i]
            BY <2>3, <1>0
        <3>2. rows[i].claim \in Nat
            BY <2>1 DEF Row
        <3>. QED
            BY <2>3, <3>1, <3>2 DEF TypeInv, AttemptsBounded
    <2>. QED
        BY <2>2, <2>3
<1>4. TypeOK'
    <2>1. gate' \in [Workers -> Gate]
        <3>1. [NoClaim EXCEPT !.claimed = Taken(w)] \in Gate
            BY <1>0, <1>1, SettingsAssumption DEF NoClaim, Gate
        <3>. QED
            BY <1>1, <3>1 DEF Claim
    <2>. QED
        BY <1>2, <2>1, <1>0 DEF TypeInv, TypeOK
<1>5. TasksOK'
    <2>1. ASSUME NEW v \in Workers, NEW t \in Held(v)
          PROVE  /\ t.id \in Ids /\ t.claim <= rows'[t.id].claim
                 /\ t.id \in gate'[v].claimed => t.claim # rows'[t.id].claim
        <3>1. /\ t.id \in Ids /\ t.claim <= rows[t.id].claim
              /\ t.id \in gate[v].claimed => t.claim # rows[t.id].claim
            BY DEF TypeInv, TasksOK
        <3>2. t.claim \in Nat
            BY DEF Held, TypeInv, TypeOK, Gate, Task
        <3>3. CASE t.id \in Taken(w)
            BY <1>3, <3>1, <3>2, <3>3
        <3>4. CASE t.id \notin Taken(w)
            <4>1. gate'[v].claimed = gate[v].claimed \/ t.id \notin gate'[v].claimed
                BY <3>4, <1>0
            <4>. QED
                BY <1>3, <3>1, <3>4, <4>1
        <3>. QED
            BY <3>3, <3>4
    <2>2. ASSUME NEW v \in Workers
          PROVE  /\ IsFiniteSet(tasks'[v]) /\ IsFiniteSet(gate'[v].read)
                 /\ ~ up'[v] => Held(v)' = {} /\ gate'[v].claimed = {}
                 /\ gate'[v].room > 0 => gate'[v].claimed = {} /\ gate'[v].read = {}
                 /\ gate'[v].claimed \subseteq Ids
        <3>1. CASE v = w
            <4>1. up[w] /\ gate'[w].room = 0 /\ gate'[w].claimed = Taken(w) /\ gate'[w].read = {}
                BY <1>0, <1>1
            <4>. QED
                BY <1>1, <3>1, <4>1, <1>0, FS_EmptySet DEF TypeInv, TasksOK
        <3>2. CASE v # w
            BY <3>2, <1>0 DEF TypeInv, TasksOK
        <3>. QED
            BY <3>1, <3>2
    <2>. QED
        BY <2>1, <2>2, <1>0 DEF TasksOK
<1>. QED
    BY <1>3, <1>4, <1>5, <1>0 DEF TypeInv, AttemptsBounded

LEMMA ReadType ==
    ASSUME TypeInv, NEW w \in Workers, ReadBack(w)
    PROVE  TypeInv'
<1>1. PICK i \in gate[w].claimed :
            /\ i \in Ids
            /\ Held(w)' = Held(w) \cup {Snapshot(w, i)}
            /\ gate'[w].claimed = gate[w].claimed \ {i}
    BY ReadStep
<1>2. TypeOK' /\ AttemptsBounded'
    BY ReadStep DEF TypeInv, TypeOK, AttemptsBounded
<1>3. /\ Snapshot(w, i).id = i /\ Snapshot(w, i).claim = rows[i].claim
      /\ Snapshot(w, i).claim \in Nat
    BY <1>1, SnapshotType DEF Task
<1>4. ASSUME NEW t \in Held(w)'
      PROVE  /\ t.id \in Ids
             /\ t.claim <= rows[t.id].claim
             /\ t.id \in gate'[w].claimed => t.claim # rows[t.id].claim
    <2>1. CASE t \in Held(w)
        BY <1>1, <2>1 DEF TypeInv, TasksOK
    <2>2. CASE t = Snapshot(w, i)
        BY <1>1, <1>3, <2>2
    <2>. QED
        BY <1>1, <2>1, <2>2
<1>5. ASSUME NEW v \in Workers, v # w
      PROVE  Held(v)' = Held(v) /\ gate'[v] = gate[v] /\ tasks'[v] = tasks[v]
    BY <1>5, ReadStep DEF Held
<1>6. TasksOK'
    <2>1. ASSUME NEW v \in Workers, v # w
          PROVE  /\ IsFiniteSet(tasks'[v]) /\ IsFiniteSet(gate'[v].read)
                 /\ ~ up'[v] => Held(v)' = {} /\ gate'[v].claimed = {}
                 /\ gate'[v].room > 0 => gate'[v].claimed = {} /\ gate'[v].read = {}
                 /\ gate'[v].claimed \subseteq Ids'
                 /\ \A t \in Held(v)' :
                      /\ t.id \in Ids' /\ t.claim <= rows'[t.id].claim
                      /\ t.id \in gate'[v].claimed => t.claim # rows'[t.id].claim
        BY <1>5, <2>1, ReadStep DEF TypeInv, TasksOK
    <2>2. /\ IsFiniteSet(tasks'[w]) /\ IsFiniteSet(gate'[w].read)
          /\ up'[w] /\ gate'[w].room = 0 /\ gate'[w].claimed \subseteq Ids'
        BY <1>1, ReadStep DEF TypeInv, TasksOK
    <2>. QED
        BY <1>4, <2>1, <2>2, ReadStep DEF TasksOK
<1>. QED
    BY <1>2, <1>6 DEF TypeInv

\* A task that owns its row has the row's attempt, which was counted and has a backoff.
LEMMA OwnedTask ==
    ASSUME TypeInv, HeldFresh, NEW w \in Workers, NEW t \in tasks[w], Owned(w, t)
    PROVE  /\ t.id \in Ids /\ rows[t.id].attempts = t.attempts
           /\ t.attempts \in 1..MaxAttempts /\ Backoff[t.attempts] \in Nat
<1>1. t.id \in Ids /\ t \in Held(w)
    BY DEF TypeInv, TasksOK, Held
<1>2. /\ rows[t.id].attempts = t.attempts /\ rows[t.id] \in Row
      /\ rows[t.id].attempts <= MaxAttempts /\ rows[t.id].attempts > 0
    BY <1>1 DEF HeldFresh, Owned, TypeInv, TypeOK, AttemptsBounded
<1>3. t.attempts \in 1..MaxAttempts
    BY <1>2, SettingsAssumption DEF Row
<1>. QED
    BY <1>1, <1>2, <1>3, SettingsAssumption

\* Each way a task ends is one of the ends of EndTaskType.
LEMMA FinishType ==
    ASSUME TypeInv, HeldFresh,
           NEW w \in Workers, NEW t \in tasks[w], Finish(w, t) \/ FinalizeError(w, t)
    PROVE  TypeInv'
<1>1. t.id \in Ids
    BY DEF TypeInv, TasksOK, Held
<1> DEFINE r == rows[t.id]
<1>2. /\ r \in Row /\ r.attempts \in Nat /\ r.attempts <= MaxAttempts
      /\ r.status = "running" => r.attempts > 0
    BY <1>1 DEF TypeInv, TypeOK, AttemptsBounded, Row
<1>3. Owned(w, t) => Backoff[t.attempts] \in Nat
    BY OwnedTask
<1>4. ASSUME NEW status \in {"succeeded", "failed", "pending"}, NEW wait,
             Owned(w, t) => wait \in Nat,
             EndTask(w, t, Freed(r, status, wait))
      PROVE  TypeInv'
    <2>1. status \in Status /\ status # "running"
        BY DEF Status, Terminal
    <2>2. Owned(w, t) =>
            /\ Freed(r, status, wait) \in Row /\ Freed(r, status, wait).attempts <= MaxAttempts
            /\ Freed(r, status, wait).claim = r.claim /\ Freed(r, status, wait).status = status
        BY <1>2, <1>4, <2>1, FreedRow
    <2>. QED
        BY <1>4, <2>1, <2>2, EndTaskType
<1>5. CASE Succeed(w, t)
    BY <1>4, <1>5 DEF Succeed
<1>6. CASE \E retryable \in BOOLEAN : Fail(w, t, retryable)
    BY <1>3, <1>4, <1>6 DEF Fail
<1>7. CASE Defer(w, t)
    BY <1>3, <1>4, <1>7 DEF Defer
<1>8. CASE Continue(w, t)
    <2> DEFINE q == [Freed(r, "pending", 0) EXCEPT !.attempts = Before(r.attempts, 1)]
    <2>1. Before(r.attempts, 1) \in Nat /\ Before(r.attempts, 1) <= MaxAttempts
        BY <1>2, SettingsAssumption DEF Before
    <2>2. Freed(r, "pending", 0) \in Row /\ Freed(r, "pending", 0).claim = r.claim
          /\ Freed(r, "pending", 0).status = "pending"
        BY <1>2, FreedRow DEF Status
    <2>3. q \in Row /\ q.attempts <= MaxAttempts /\ q.claim = r.claim /\ q.status = "pending"
        BY <2>1, <2>2 DEF Row
    <2>4. EndTask(w, t, q)
        BY <1>8 DEF Continue
    <2>. QED
        BY <2>3, <2>4, EndTaskType
<1>9. CASE FinalizeError(w, t)
    <2>1. EndTask(w, t, r)
        BY <1>9 DEF FinalizeError
    <2>. QED
        BY <1>2, <2>1, EndTaskType
<1>. QED
    BY <1>5, <1>6, <1>7, <1>8, <1>9 DEF Finish

\* Steps that change rows one by one and start no task.
LEMMA RowwiseType ==
    ASSUME TypeInv,
           rows' \in [Ids -> Row],
           \A i \in Ids : /\ rows'[i].attempts = rows[i].attempts
                          /\ rows'[i].claim = rows[i].claim
                          /\ rows'[i].status = "running" => rows[i].status = "running",
           lastId' = lastId, allowed' \subseteq JobTypes,
           starts' \in [Workers -> Nat], up' \in [Workers -> BOOLEAN],
           stopping' \in [Workers -> BOOLEAN], gate' \in [Workers -> Gate],
           tasks' \in [Workers -> SUBSET Task],
           \A v \in Workers :
              /\ tasks'[v] \subseteq tasks[v]
              /\ gate'[v] = gate[v] \/ (gate'[v].claimed = {} /\ gate'[v].read = {})
              /\ ~ up'[v] => Held(v)' = {} /\ gate'[v].claimed = {}
    PROVE  TypeInv'
<1>1. Ids' = Ids
    BY DEF Ids
<1>2. TypeOK'
    BY <1>1 DEF TypeInv, TypeOK
<1>3. TasksOK'
    <2>1. ASSUME NEW v \in Workers
          PROVE  /\ IsFiniteSet(tasks'[v]) /\ IsFiniteSet(gate'[v].read)
                 /\ gate'[v].room > 0 => gate'[v].claimed = {} /\ gate'[v].read = {}
                 /\ gate'[v].claimed \subseteq gate[v].claimed
                 /\ Held(v)' \subseteq Held(v)
        <3>1. IsFiniteSet(tasks'[v]) /\ IsFiniteSet(gate'[v].read)
            BY FS_Subset, FS_EmptySet DEF TypeInv, TasksOK
        <3>. QED
            BY <3>1 DEF TypeInv, TasksOK, Held
    <2>. QED
        BY <1>1, <2>1 DEF TypeInv, TasksOK
<1>4. AttemptsBounded'
    BY <1>1 DEF TypeInv, AttemptsBounded
<1>. QED
    BY <1>2, <1>3, <1>4 DEF TypeInv

LEMMA InitType == Init => TypeInv
<1> SUFFICES ASSUME Init PROVE TypeInv
    OBVIOUS
<1>1. lastId = 0 /\ Ids = {}
    BY DEF Init, Ids
<1>2. TypeOK
    BY <1>1, SettingsAssumption DEF Init, TypeOK, Gate, NoClaim
<1>3. TasksOK
    BY <1>1, FS_EmptySet DEF Init, TasksOK, Held, NoClaim
<1>. QED
    BY <1>1, <1>2, <1>3 DEF TypeInv, AttemptsBounded

LEMMA StepType ==
    ASSUME TypeInv, HeldFresh, [Next]_vars
    PROVE  TypeInv'
<1>1. /\ rows \in [Ids -> Row] /\ lastId \in Nat /\ allowed \subseteq JobTypes
      /\ up \in [Workers -> BOOLEAN] /\ starts \in [Workers -> Nat]
      /\ stopping \in [Workers -> BOOLEAN] /\ gate \in [Workers -> Gate]
      /\ tasks \in [Workers -> SUBSET Task]
    BY DEF TypeInv, TypeOK
<1>2. \A v \in Workers : ~ up[v] => Held(v) = {} /\ gate[v].claimed = {}
    BY DEF TypeInv, TasksOK
<1>0. UNCHANGED <<gate, tasks>> => \A v \in Workers : Held(v)' = Held(v)
    BY DEF Held
<1>3. ASSUME NEW w \in Workers, OpenGate(w)
      PROVE  TypeInv'
    <2>1. Capacity(w) \in 0..Concurrency
        <3>1. Cardinality(tasks[w]) \in Nat
            BY FS_CardinalityType DEF TypeInv, TasksOK
        <3>2. Concurrency \in Nat
            BY SettingsAssumption
        <3>3. Capacity(w) \in Nat /\ Capacity(w) <= Concurrency
            BY <3>1, <3>2, BeforeType DEF Capacity
        <3>. QED
            BY <3>2, <3>3
    <2>2. gate' \in [Workers -> Gate]
        BY <1>1, <1>3, <2>1 DEF OpenGate, Gate, NoClaim
    <2>3. \A v \in Workers : gate'[v] = gate[v] \/ (gate'[v].claimed = {} /\ gate'[v].read = {})
        BY <1>1, <1>3 DEF OpenGate, NoClaim
    <2>4. \A v \in Workers : Held(v)' \subseteq Held(v)
        BY <1>3, <2>3 DEF OpenGate, Held
    <2>. QED
        BY <1>0, <1>1, <1>2, <1>3, <2>2, <2>3, <2>4, RowwiseType DEF OpenGate, process
<1>4. ASSUME NEW w \in Workers, NEW t \in tasks[w], Renew(w, t)
      PROVE  TypeInv'
    <2>1. t.id \in Ids
        BY DEF TypeInv, TasksOK, Held
    <2>2. rows' \in [Ids -> Row]
        <3>1. rows[t.id] \in Row /\ LeaseTime \in Nat
            BY <1>1, <2>1, SettingsAssumption
        <3>2. [rows[t.id] EXCEPT !.lease = LeaseTime] \in Row
            BY <3>1 DEF Row
        <3>3. rows' = [rows EXCEPT ![t.id] = [rows[t.id] EXCEPT !.lease = LeaseTime]]
            BY <1>4 DEF Renew
        <3>. QED
            BY <1>1, <3>2, <3>3
    <2>3. \A i \in Ids : /\ rows'[i].attempts = rows[i].attempts /\ rows'[i].claim = rows[i].claim
                         /\ rows'[i].status = rows[i].status
        BY <1>1, <1>4, <2>1 DEF Renew, Row
    <2>. QED
        BY <1>0, <1>1, <1>2, <1>4, <2>2, <2>3, RowwiseType DEF Renew, process
<1>5. ASSUME NEW s \in Scopes, NEW k \in JobTypes, NEW t \in 1..MaxWatermark, Enqueue(k, s, t)
      PROVE  TypeInv'
    BY <1>5, CoalesceType, InsertType DEF Enqueue
<1>6. CASE Tick
    <2>1. ASSUME NEW i \in Ids
          PROVE  /\ rows'[i] \in Row /\ rows'[i].attempts = rows[i].attempts
                 /\ rows'[i].claim = rows[i].claim /\ rows'[i].status = rows[i].status
        <3>1. rows[i] \in Row /\ rows[i].wait \in Nat /\ rows[i].lease \in Nat /\ rows[i].age \in Nat
            BY <1>1 DEF Row
        <3>2. OldAge \in Nat
            BY SettingsAssumption DEF OldAge
        <3>3. rows[i].age + 1 \in Nat
            BY <3>1
        <3>4. /\ Before(rows[i].wait, 1) \in Nat /\ Before(rows[i].lease, 1) \in Nat
              /\ Earlier(rows[i].age + 1, OldAge) \in Nat
            BY <3>1, <3>2, <3>3, BeforeType, EarlierType
        <3>. QED
            BY <1>6, <3>1, <3>4 DEF Tick, Row
    <2>2. rows' \in [Ids -> Row]
        BY <1>6, <2>1 DEF Tick
    <2>. QED
        BY <1>0, <1>1, <1>2, <1>6, <2>1, <2>2, RowwiseType DEF Tick, process
<1>7. ASSUME NEW s \in PrivateScopes, Clear(s)
      PROVE  TypeInv'
    <2>1. ASSUME NEW i \in Ids
          PROVE  /\ rows'[i] \in Row /\ rows'[i].attempts = rows[i].attempts
                 /\ rows'[i].claim = rows[i].claim
                 /\ rows'[i].status = "running" => rows[i].status = "running"
        <3>1. /\ rows[i] \in Row
              /\ \/ rows'[i] = rows[i]
                 \/ rows'[i] = [rows[i] EXCEPT !.status = "cancelled", !.owner = NoOwner,
                                              !.lease = 0]
            BY <1>1, <1>7 DEF Clear
        <3>. QED
            BY <3>1, CancelledRow
    <2>2. rows' \in [Ids -> Row]
        BY <1>7, <2>1 DEF Clear
    <2>. QED
        BY <1>0, <1>1, <1>2, <1>7, <2>1, <2>2, RowwiseType DEF Clear, process
<1>8. ASSUME NEW switch \in Switches, Toggle(switch)
      PROVE  TypeInv'
    BY <1>0, <1>1, <1>2, <1>8, RowwiseType DEF Toggle, process
<1>9. ASSUME NEW w \in Workers, Start(w)
      PROVE  TypeInv'
    <2>1. ASSUME NEW i \in Ids
          PROVE  /\ rows'[i] \in Row /\ rows'[i].attempts = rows[i].attempts
                 /\ rows'[i].claim = rows[i].claim
                 /\ rows'[i].status = "running" => rows[i].status = "running"
        <3>1. rows[i] \in Row /\ rows'[i] = Recovered(rows[i])
            BY <1>1, <1>9 DEF Start
        <3>2. ASSUME NEW status \in {"failed", "pending"}
              PROVE  LET q == Freed(rows[i], status, 0) IN
                     /\ q \in Row /\ q.attempts = rows[i].attempts
                     /\ q.claim = rows[i].claim /\ q.status = status
            <4>1. status \in Status /\ 0 \in Nat
                BY DEF Status, Terminal
            <4>. QED
                BY <3>1, <4>1, FreedRow
        <3>. QED
            BY <3>1, <3>2 DEF Recovered
    <2>2. rows' \in [Ids -> Row]
        BY <1>9, <2>1 DEF Start
    <2>. QED
        BY <1>0, <1>1, <1>2, <1>9, <2>1, <2>2, RowwiseType DEF Start, process
<1>10. ASSUME NEW w \in Workers, Cancel(w)
       PROVE  TypeInv'
    <2>1. ASSUME NEW i \in Ids
          PROVE  /\ rows'[i] \in Row /\ rows'[i].attempts = rows[i].attempts
                 /\ rows'[i].claim = rows[i].claim
                 /\ rows'[i].status = "running" => rows[i].status = "running"
        BY <1>1, <1>10, FreedRow DEF Cancel, Released, Status
    <2>2. rows' \in [Ids -> Row]
        BY <1>10, <2>1 DEF Cancel
    <2>3. gate[w].claimed = {} /\ gate[w].read = {}
        BY <1>10 DEF Cancel, NoClaim
    <2>4. /\ Held(w)' = {}
          /\ \A v \in Workers \ {w} : Held(v)' = Held(v) /\ up'[v] = up[v]
          /\ \A v \in Workers : tasks'[v] \subseteq tasks[v]
        BY <1>1, <1>10, <2>3 DEF Cancel, Held
    <2>. QED
        BY <1>1, <1>2, <1>10, <2>1, <2>2, <2>3, <2>4, RowwiseType DEF Cancel, process
<1>11. ASSUME NEW w \in Workers, Stop(w) \/ Exit(w)
       PROVE  TypeInv'
    <2>1. CASE Stop(w)
        BY <1>0, <1>1, <1>2, <2>1, RowwiseType DEF Stop, process
    <2>2. CASE Exit(w)
        <3>1. tasks[w] = {} /\ gate[w].claimed = {} /\ gate[w].read = {}
            BY <2>2 DEF Exit, NoClaim
        <3>2. Held(w) = {}
            BY <3>1 DEF Held
        <3>. QED
            BY <1>0, <1>1, <1>2, <2>2, <3>1, <3>2, RowwiseType DEF Exit, process
    <2>. QED
        BY <1>11, <2>1, <2>2
<1>12. ASSUME NEW w \in Workers, Crash(w)
       PROVE  TypeInv'
    <2>1. gate' \in [Workers -> Gate]
        BY <1>1, <1>12, SettingsAssumption DEF Crash, Gate, NoClaim
    <2>2. /\ gate'[w].claimed = {} /\ gate'[w].read = {} /\ tasks'[w] = {}
          /\ \A v \in Workers \ {w} : gate'[v] = gate[v] /\ tasks'[v] = tasks[v] /\ up'[v] = up[v]
        BY <1>1, <1>12 DEF Crash, NoClaim
    <2>3. Held(w)' = {} /\ \A v \in Workers \ {w} : Held(v)' = Held(v)
        BY <2>2 DEF Held
    <2>. QED
        BY <1>1, <1>2, <1>12, <2>1, <2>2, <2>3, RowwiseType DEF Crash, process
<1>14. ASSUME NEW w \in Workers, ClaimError(w)
       PROVE  TypeInv'
    <2>1. gate' \in [Workers -> Gate]
        BY <1>1, <1>14, SettingsAssumption DEF ClaimError, Gate, NoClaim
    <2>2. /\ gate'[w].claimed = {} /\ gate'[w].read = {} /\ up[w]
          /\ \A v \in Workers \ {w} : gate'[v] = gate[v]
        BY <1>1, <1>14 DEF ClaimError, NoClaim
    <2>3. \A v \in Workers \ {w} : Held(v)' = Held(v)
        BY <1>14, <2>2 DEF Held, ClaimError
    <2>. QED
        BY <1>1, <1>2, <1>14, <2>1, <2>2, <2>3, RowwiseType DEF ClaimError, process
<1>13. CASE UNCHANGED vars
    BY <1>0, <1>1, <1>2, <1>13, RowwiseType DEF vars, process
<1>. QED
    BY <1>3, <1>4, <1>5, <1>6, <1>7, <1>8, <1>9, <1>10, <1>11, <1>12, <1>13, <1>14,
       ClaimType, ReadType, FinishType
    DEF Next, Work, Poll, Produce, Environment, Lifecycle, Faults

-----------------------------------------------------------------------------
(* Every step inserts a row, moves the watermark of an open row, commits a     *)
(* claim, or is quiet: a row a quiet step touches keeps its status, attempts   *)
(* and owner or is given up by somebody, and what a process holds does not     *)
(* grow, but for the row a claim reads back.                                   *)

\* A row that was not tried yet starts within the delays of its type.
Timely(r) ==
    r.status = "pending" /\ r.attempts = 0 =>
        /\ r.type = "relationship" => r.wait <= Before(MaxWait, r.age)
        /\ r.type = "member_facts" => r.wait <= Before(MemberDelay, r.age)

Kept(r, q) ==
    /\ q.type = r.type /\ q.scope = r.scope /\ q.through = r.through /\ q.claim = r.claim
    /\ \/ q.status = r.status /\ q.attempts = r.attempts /\ q.owner = r.owner
       \/ Active(r) /\ q.status # "running"
    /\ Timely(r) => Timely(q)

HoldsNoMore ==
    \A w \in Workers : /\ Held(w)' \subseteq Held(w)
                       /\ Held(w)' = {} \/ starts'[w] = starts[w]

QuietStep ==
    /\ lastId' = lastId
    /\ \A i \in Ids : Kept(rows[i], rows'[i])
    /\ HoldsNoMore \/ \E w \in Workers : ReadBack(w)

EnqueueStep ==
    /\ UNCHANGED <<starts, gate, tasks>>
    /\ \E k \in JobTypes, s \in Scopes, t \in Nat : Coalesce(k, s, t) \/ Insert(k, s, t)

\* A tick takes one unit from the delays and from the time that is left for them.
Ticked(r) ==
    [r EXCEPT !.wait = Before(@, 1), !.lease = Before(@, 1), !.age = Earlier(@ + 1, OldAge)]

LEMMA TickedRow ==
    ASSUME NEW r \in Row
    PROVE  LET q == Ticked(r) IN
           /\ q.type = r.type /\ q.scope = r.scope /\ q.through = r.through
           /\ q.claim = r.claim /\ q.status = r.status /\ q.attempts = r.attempts
           /\ q.owner = r.owner
           /\ q.wait = Before(r.wait, 1) /\ q.age = Earlier(r.age + 1, OldAge)
    BY DEF Ticked, Row

\* Ages are cut off where nothing of either delay is left.
LEMMA LeftAfterTick ==
    ASSUME NEW max \in Nat, NEW old \in Nat, max <= old,
           NEW wait \in Nat, NEW age \in Nat, wait <= Before(max, age)
    PROVE  Before(wait, 1) <= Before(max, Earlier(age + 1, old))
    BY DEF Before, Earlier

LEMMA TickedTimely ==
    ASSUME NEW r \in Row, Timely(r)
    PROVE  Timely(Ticked(r))
<1>1. r.wait \in Nat /\ r.age \in Nat
    BY DEF Row
<1>2. /\ MaxWait \in Nat /\ MemberDelay \in Nat /\ OldAge \in Nat
      /\ MaxWait <= OldAge /\ MemberDelay <= OldAge
    BY SettingsAssumption DEF OldAge
<1>3. r.wait <= Before(MaxWait, r.age)
        => Before(r.wait, 1) <= Before(MaxWait, Earlier(r.age + 1, OldAge))
    BY <1>1, <1>2, LeftAfterTick
<1>4. r.wait <= Before(MemberDelay, r.age)
        => Before(r.wait, 1) <= Before(MemberDelay, Earlier(r.age + 1, OldAge))
    BY <1>1, <1>2, LeftAfterTick
<1>. QED
    BY <1>3, <1>4, TickedRow DEF Timely

\* A row that is freed is kept in the sense above.
LEMMA FreedIsKept ==
    ASSUME NEW r \in Row, Active(r), NEW status \in Status \ {"running"}, NEW wait \in Nat,
           wait = 0 \/ r.attempts > 0
    PROVE  Kept(r, Freed(r, status, wait))
<1> DEFINE q == Freed(r, status, wait)
<1>1. /\ q.status = status /\ q.wait = wait /\ q.attempts = r.attempts /\ q.claim = r.claim
      /\ q.type = r.type /\ q.scope = r.scope /\ q.through = r.through /\ q.age = r.age
    BY FreedRow
<1>2. r.age \in Nat /\ r.attempts \in Nat
    BY DEF Row
<1>3. Timely(q)
    <2>1. Before(MaxWait, r.age) \in Nat /\ Before(MemberDelay, r.age) \in Nat
        BY <1>2, SettingsAssumption, BeforeType
    <2>. QED
        BY <1>1, <1>2, <2>1 DEF Timely
<1>. QED
    BY <1>1, <1>3 DEF Kept

LEMMA EndTaskQuiet ==
    ASSUME TypeInv, NEW w \in Workers, NEW t \in tasks[w], NEW outcome,
           EndTask(w, t, outcome),
           Owned(w, t) => Kept(rows[t.id], outcome)
    PROVE  QuietStep
<1>1. t.id \in Ids /\ rows \in [Ids -> Row] /\ tasks \in [Workers -> SUBSET Task]
    BY DEF TypeInv, TypeOK, TasksOK, Held
<1>2. \A i \in Ids : rows'[i] = rows[i] \/ Kept(rows[i], rows'[i])
    BY <1>1 DEF EndTask
<1>3. UNCHANGED <<lastId, starts>> /\ \A v \in Workers : Held(v)' \subseteq Held(v)
    BY <1>1 DEF EndTask, process, Held
<1>. QED
    BY <1>2, <1>3 DEF QuietStep, HoldsNoMore, Kept

LEMMA FinishQuiet ==
    ASSUME TypeInv, HeldFresh,
           NEW w \in Workers, NEW t \in tasks[w], Finish(w, t) \/ FinalizeError(w, t)
    PROVE  QuietStep
<1> DEFINE r == rows[t.id]
<1>1. t.id \in Ids /\ r \in Row
    BY DEF TypeInv, TypeOK, TasksOK, Held
<1>2. Owned(w, t) => Backoff[t.attempts] \in Nat
    BY OwnedTask
<1>3. Owned(w, t) => Active(r) /\ r.attempts > 0
    BY <1>1 DEF Owned, Active, TypeInv, AttemptsBounded
<1>4. ASSUME NEW status \in {"succeeded", "failed", "pending"}, NEW wait,
             Owned(w, t) => wait \in Nat,
             EndTask(w, t, Freed(r, status, wait))
      PROVE  QuietStep
    <2>1. status \in Status \ {"running"}
        BY DEF Status, Terminal
    <2>. QED
        BY <1>1, <1>3, <1>4, <2>1, FreedIsKept, EndTaskQuiet
<1>5. CASE Succeed(w, t)
    BY <1>4, <1>5 DEF Succeed
<1>6. CASE \E retryable \in BOOLEAN : Fail(w, t, retryable)
    BY <1>2, <1>4, <1>6 DEF Fail
<1>7. CASE Defer(w, t)
    BY <1>2, <1>4, <1>7 DEF Defer
<1>8. CASE Continue(w, t)
    <2> DEFINE q == [Freed(r, "pending", 0) EXCEPT !.attempts = Before(r.attempts, 1)]
    <2>1. /\ Freed(r, "pending", 0) \in Row
          /\ Freed(r, "pending", 0).status = "pending"
          /\ Freed(r, "pending", 0).claim = r.claim /\ Freed(r, "pending", 0).type = r.type
          /\ Freed(r, "pending", 0).scope = r.scope /\ Freed(r, "pending", 0).through = r.through
        BY <1>1, FreedRow DEF Status
    <2>2. /\ q.status = "pending" /\ q.claim = r.claim /\ q.type = r.type
          /\ q.scope = r.scope /\ q.through = r.through
        BY <2>1 DEF Row
    <2>3. Timely(q)
        <3>0. Freed(r, "pending", 0).wait = 0 /\ Freed(r, "pending", 0).age = r.age
            BY <1>1, FreedRow DEF Status
        <3>1. q.wait = 0 /\ q.age = r.age /\ r.age \in Nat
            BY <1>1, <2>1, <3>0 DEF Row
        <3>2. Before(MaxWait, r.age) \in Nat /\ Before(MemberDelay, r.age) \in Nat
            BY <3>1, SettingsAssumption, BeforeType
        <3>. QED
            BY <3>1, <3>2 DEF Timely
    <2>4. Owned(w, t) => Kept(r, q)
        BY <1>3, <2>2, <2>3 DEF Kept
    <2>5. EndTask(w, t, q)
        BY <1>8 DEF Continue
    <2>. QED
        BY <2>4, <2>5, EndTaskQuiet
<1>9. CASE FinalizeError(w, t)
    BY <1>9, EndTaskQuiet DEF FinalizeError, Kept
<1>. QED
    BY <1>5, <1>6, <1>7, <1>8, <1>9 DEF Finish

LEMMA StepKinds ==
    ASSUME TypeInv, HeldFresh, [Next]_vars
    PROVE  QuietStep \/ EnqueueStep \/ \E w \in Workers : Claim(w)
<1>1. /\ rows \in [Ids -> Row] /\ starts \in [Workers -> Nat] /\ tasks \in [Workers -> SUBSET Task]
      /\ gate \in [Workers -> Gate]
    BY DEF TypeInv, TypeOK
<1>2. \A v \in Workers : ~ up[v] => Held(v) = {}
    BY DEF TypeInv, TasksOK
<1>0. UNCHANGED <<gate, tasks>> => \A v \in Workers : Held(v)' = Held(v)
    BY DEF Held
<1>3. ASSUME NEW w \in Workers, OpenGate(w) \/ Stop(w) \/ Exit(w) \/ Crash(w) \/ ClaimError(w)
      PROVE  QuietStep
    <2>1. UNCHANGED <<rows, lastId, starts>>
        BY <1>3 DEF OpenGate, Stop, Exit, Crash, ClaimError, process
    <2>2. \A v \in Workers : /\ tasks'[v] \subseteq tasks[v]
                             /\ gate'[v] = gate[v] \/ gate'[v].read = {}
        <3>1. CASE OpenGate(w)
            BY <1>1, <3>1 DEF OpenGate, NoClaim
        <3>2. CASE Stop(w) \/ Exit(w)
            BY <3>2 DEF Stop, Exit
        <3>3. CASE Crash(w) \/ ClaimError(w)
            BY <1>1, <3>3 DEF Crash, ClaimError, NoClaim
        <3>. QED
            BY <1>3, <3>1, <3>2, <3>3
    <2>3. \A v \in Workers : Held(v)' \subseteq Held(v)
        BY <2>2 DEF Held
    <2>. QED
        BY <2>1, <2>3 DEF QuietStep, HoldsNoMore, Kept
<1>14. ASSUME NEW w \in Workers, ReadBack(w)
       PROVE  QuietStep
    BY <1>14 DEF ReadBack, QuietStep, HoldsNoMore, Kept, process
<1>4. ASSUME NEW w \in Workers, NEW t \in tasks[w], Renew(w, t)
      PROVE  QuietStep
    <2>1. t.id \in Ids
        BY DEF TypeInv, TasksOK, Held
    <2>2. \A i \in Ids : Kept(rows[i], rows'[i])
        <3>1. /\ rows[t.id] \in Row
              /\ rows' = [rows EXCEPT ![t.id] = [@ EXCEPT !.lease = LeaseTime]]
            BY <1>1, <1>4, <2>1 DEF Renew
        <3>2. Kept(rows[t.id], [rows[t.id] EXCEPT !.lease = LeaseTime])
            BY <3>1 DEF Kept, Row, Timely
        <3>3. ASSUME NEW i \in Ids, i # t.id
              PROVE  Kept(rows[i], rows'[i])
            BY <1>1, <3>1, <3>3 DEF Kept
        <3>. QED
            BY <1>1, <2>1, <3>1, <3>2, <3>3
    <2>. QED
        BY <1>0, <1>4, <2>2 DEF Renew, QuietStep, HoldsNoMore, process
<1>5. ASSUME NEW s \in Scopes, NEW k \in JobTypes, NEW t \in 1..MaxWatermark, Enqueue(k, s, t)
      PROVE  EnqueueStep
    BY <1>5, BoundsAssumption DEF Enqueue, EnqueueStep, process
<1>6. CASE Tick
    <2>1. ASSUME NEW i \in Ids
          PROVE  Kept(rows[i], rows'[i])
        <3>1. /\ rows[i] \in Row
              /\ rows'[i] = [rows[i] EXCEPT !.wait = Before(@, 1), !.lease = Before(@, 1),
                                            !.age = Earlier(@ + 1, OldAge)]
            BY <1>1, <1>6 DEF Tick
        <3>2. rows'[i] = Ticked(rows[i])
            BY <3>1 DEF Ticked
        <3>. QED
            BY <3>1, <3>2, TickedRow, TickedTimely DEF Kept
    <2>. QED
        BY <1>0, <1>6, <2>1 DEF Tick, QuietStep, HoldsNoMore, process
<1>7. ASSUME NEW s \in PrivateScopes, Clear(s)
      PROVE  QuietStep
    <2>1. ASSUME NEW i \in Ids
          PROVE  Kept(rows[i], rows'[i])
        <3>1. /\ rows[i] \in Row
              /\ \/ rows'[i] = rows[i]
                 \/ /\ Active(rows[i])
                    /\ rows'[i] = [rows[i] EXCEPT !.status = "cancelled", !.owner = NoOwner,
                                                 !.lease = 0]
            BY <1>1, <1>7 DEF Clear
        <3>. QED
            BY <3>1, CancelledRow DEF Kept, Timely
    <2>. QED
        BY <1>0, <1>7, <2>1 DEF Clear, QuietStep, HoldsNoMore, process
<1>8. ASSUME NEW switch \in Switches, Toggle(switch)
      PROVE  QuietStep
    BY <1>0, <1>1, <1>8 DEF Toggle, QuietStep, HoldsNoMore, Kept, process
<1>9. ASSUME NEW w \in Workers, Start(w)
      PROVE  QuietStep
    <2>1. ASSUME NEW i \in Ids
          PROVE  Kept(rows[i], rows'[i])
        <3>1. rows[i] \in Row /\ rows'[i] = Recovered(rows[i])
            BY <1>1, <1>9 DEF Start
        <3>2. {"failed", "pending"} \subseteq Status \ {"running"} /\ 0 \in Nat
            BY DEF Status, Terminal
        <3>3. CASE rows[i].status = "running" /\ rows[i].lease = 0
            BY <3>1, <3>2, <3>3, FreedIsKept DEF Recovered, Active
        <3>4. CASE ~ (rows[i].status = "running" /\ rows[i].lease = 0)
            BY <3>1, <3>4 DEF Recovered, Kept
        <3>. QED
            BY <3>3, <3>4
    <2>2. \A v \in Workers : Held(v)' = Held(v) /\ (Held(v)' = {} \/ starts'[v] = starts[v])
        BY <1>0, <1>1, <1>2, <1>9 DEF Start
    <2>. QED
        BY <1>9, <2>1, <2>2 DEF Start, QuietStep, HoldsNoMore
<1>10. ASSUME NEW w \in Workers, Cancel(w)
       PROVE  QuietStep
    <2>1. ASSUME NEW i \in Ids
          PROVE  Kept(rows[i], rows'[i])
        <3>1. rows[i] \in Row /\ rows'[i] = Released(w, rows[i])
            BY <1>1, <1>10 DEF Cancel
        <3>2. "pending" \in Status \ {"running"} /\ 0 \in Nat
            BY DEF Status
        <3>. QED
            BY <3>1, <3>2, FreedIsKept DEF Released, Kept, Active
    <2>2. \A v \in Workers : Held(v)' \subseteq Held(v)
        BY <1>1, <1>10 DEF Cancel, Held
    <2>. QED
        BY <1>10, <2>1, <2>2 DEF Cancel, QuietStep, HoldsNoMore
<1>11. CASE UNCHANGED vars
    BY <1>0, <1>11 DEF vars, QuietStep, HoldsNoMore, Kept, process
<1>. QED
    BY <1>3, <1>4, <1>5, <1>6, <1>7, <1>8, <1>9, <1>10, <1>11, <1>14, FinishQuiet
    DEF Next, Work, Poll, Produce, Environment, Lifecycle, Faults

\* What an enqueue does to the rows that were there, and to the one it inserts or moves.
LEMMA EnqueuedRows ==
    ASSUME TypeInv, EnqueueStep
    PROVE  /\ UNCHANGED <<starts, gate, tasks>> /\ Ids \subseteq Ids'
           /\ \A i \in Ids : /\ rows'[i].status = rows[i].status /\ rows'[i].type = rows[i].type
                             /\ rows'[i].scope = rows[i].scope
                             /\ rows'[i] = rows[i] \/ rows[i].status = "pending"
           /\ \E i \in Ids' :
                /\ rows'[i].status = "pending"
                /\ Exact(rows'[i].type, rows'[i].scope, rows'[i].through) = {}
                /\ \A j \in Ids' \ {i} : j \in Ids /\ rows'[j] = rows[j]
<1>1. PICK k \in JobTypes, s \in Scopes, t \in Nat : Coalesce(k, s, t) \/ Insert(k, s, t)
    BY DEF EnqueueStep
<1>2. CASE Coalesce(k, s, t)
    <2>1. PICK i \in Open(k, s) :
            i \in Ids /\ rows[i] \in Row /\ rows' = [rows EXCEPT ![i] = Absorbing(rows[i], t)]
        BY <1>2, CoalescedStep
    <2>2. rows[i].status = "pending" /\ rows[i].type = k /\ rows[i].scope = s
        BY DEF Open
    <2>3. Ids' = Ids /\ rows \in [Ids -> Row]
        BY <1>2, CoalescedStep DEF TypeInv, TypeOK
    <2>4. /\ rows'[i].status = "pending" /\ rows'[i].type = k /\ rows'[i].scope = s
          /\ rows'[i].through = t
          /\ \A j \in Ids \ {i} : rows'[j] = rows[j]
        BY <2>1, <2>2, <2>3, AbsorbingRow
    <2>5. Exact(k, s, t) = {}
        BY <1>2 DEF Coalesce
    <2>. QED
        BY <2>1, <2>2, <2>3, <2>4, <2>5 DEF EnqueueStep
<1>3. CASE Insert(k, s, t)
    <2> DEFINE n == lastId + 1
    <2>1. /\ lastId \in Nat /\ Ids' = Ids \cup {n} /\ n \notin Ids
          /\ Exact(k, s, t) = {}
        <3>1. lastId \in Nat /\ lastId' = n /\ Exact(k, s, t) = {}
            BY <1>3 DEF Insert, TypeInv, TypeOK
        <3>. QED
            BY <3>1 DEF Ids
    <2>2. /\ \A i \in Ids : rows'[i] = rows[i]
          /\ rows'[n].status = "pending" /\ rows'[n].type = k /\ rows'[n].scope = s
          /\ rows'[n].through = t
        BY <1>3, <2>1 DEF Insert, Ids
    <2>. QED
        BY <2>1, <2>2 DEF EnqueueStep
<1>. QED
    BY <1>1, <1>2, <1>3

\* A job runs alone in its conversation: the claim takes the head of a
\* conversation that has none running, in one transaction (claim()).
LEMMA OneRunnerStep ==
    ASSUME TypeInv, HeldFresh, OneRunnerPerScope, [Next]_vars
    PROVE  OneRunnerPerScope'
<1>1. CASE QuietStep
    <2>1. Ids' = Ids /\ \A i \in Ids : /\ rows'[i].scope = rows[i].scope
                                       /\ rows'[i].status = "running" => rows[i].status = "running"
        BY <1>1 DEF QuietStep, Kept, Ids
    <2>. QED
        BY <2>1 DEF OneRunnerPerScope
<1>2. CASE EnqueueStep
    <2>1. ASSUME NEW i \in Ids', NEW j \in Ids',
                 rows'[i].status = "running", rows'[j].status = "running",
                 rows'[i].scope = rows'[j].scope
          PROVE  i = j
        <3>1. i \in Ids /\ j \in Ids
            BY <1>2, <2>1, EnqueuedRows
        <3>. QED
            BY <1>2, <2>1, <3>1, EnqueuedRows DEF OneRunnerPerScope
    <2>. QED
        BY <2>1 DEF OneRunnerPerScope
<1>3. ASSUME NEW w \in Workers, Claim(w)
      PROVE  OneRunnerPerScope'
    <2>1. ASSUME NEW i \in Ids, NEW j \in Ids, i \in Taken(w),
                 rows[i].scope = rows[j].scope, rows'[j].status = "running"
          PROVE  i = j
        <3>1. i \in Heads(w) /\ ~ Busy(rows[i].scope)
            BY <2>1 DEF Taken, Runnable
        <3>2. j \in Taken(w)
            BY <1>3, <2>1, <3>1, ClaimStep DEF Busy
        <3>3. j \in Heads(w)
            BY <3>2 DEF Taken, Runnable
        <3>4. i <= j /\ j <= i
            BY <2>1, <3>1, <3>3 DEF Heads
        <3>. QED
            BY <3>4 DEF Ids
    <2>2. ASSUME NEW i \in Ids
          PROVE  rows'[i].scope = rows[i].scope
        <3>1. rows'[i] = IF i \in Taken(w) THEN Claimed(w, rows[i]) ELSE rows[i]
            BY <1>3, ClaimStep
        <3>. QED
            BY <3>1, ClaimedRow
    <2>3. ASSUME NEW i \in Ids, NEW j \in Ids,
                 rows'[i].status = "running", rows'[j].status = "running",
                 rows[i].scope = rows[j].scope
          PROVE  i = j
        <3>1. CASE i \in Taken(w)
            BY <2>1, <2>3, <3>1
        <3>2. CASE j \in Taken(w)
            BY <2>1, <2>3, <3>2
        <3>3. CASE i \notin Taken(w) /\ j \notin Taken(w)
            BY <1>3, <2>3, <3>3, ClaimStep DEF OneRunnerPerScope
        <3>. QED
            BY <3>1, <3>2, <3>3
    <2>. QED
        BY <1>3, <2>2, <2>3, ClaimStep DEF OneRunnerPerScope
<1>. QED
    BY <1>1, <1>2, <1>3, StepKinds

\* A watermark is queued once (enqueue() and idx_memory_jobs_active_unique).
LEMMA UniqueStep ==
    ASSUME TypeInv, HeldFresh, UniqueActive, [Next]_vars
    PROVE  UniqueActive'
<1>1. CASE QuietStep \/ \E w \in Workers : Claim(w)
    <2>1. Ids' = Ids /\ \A i \in Ids : /\ rows'[i].type = rows[i].type
                                       /\ rows'[i].scope = rows[i].scope
                                       /\ rows'[i].through = rows[i].through
                                       /\ Active(rows'[i]) => Active(rows[i])
        <3>1. CASE QuietStep
            BY <3>1 DEF QuietStep, Kept, Ids, Active
        <3>2. ASSUME NEW w \in Workers, Claim(w)
              PROVE  /\ Ids' = Ids
                     /\ \A i \in Ids : /\ rows'[i].type = rows[i].type
                                       /\ rows'[i].scope = rows[i].scope
                                       /\ rows'[i].through = rows[i].through
                                       /\ Active(rows'[i]) => Active(rows[i])
            <4>1. /\ Ids' = Ids
                  /\ \A i \in Ids : rows'[i] = IF i \in Taken(w) THEN Claimed(w, rows[i]) ELSE rows[i]
                BY <3>2, ClaimStep
            <4>. QED
                BY <4>1, ClaimedRow DEF Active
        <3>. QED
            BY <1>1, <3>1, <3>2
    <2>. QED
        BY <2>1 DEF UniqueActive
<1>2. CASE EnqueueStep
    <2>1. PICK n \in Ids' :
            /\ Exact(rows'[n].type, rows'[n].scope, rows'[n].through) = {}
            /\ \A j \in Ids' \ {n} : j \in Ids /\ rows'[j] = rows[j]
        BY <1>2, EnqueuedRows
    <2>2. ASSUME NEW j \in Ids' \ {n}, Active(rows'[j])
          PROVE  \/ rows'[n].type # rows'[j].type
                 \/ rows'[n].scope # rows'[j].scope
                 \/ rows'[n].through # rows'[j].through
        BY <2>1, <2>2 DEF Exact
    <2>3. ASSUME NEW i \in Ids' \ {n}, NEW j \in Ids' \ {n}, i # j,
                 Active(rows'[i]), Active(rows'[j])
          PROVE  \/ rows'[i].type # rows'[j].type
                 \/ rows'[i].scope # rows'[j].scope
                 \/ rows'[i].through # rows'[j].through
        BY <2>1, <2>3 DEF UniqueActive
    <2>. QED
        BY <2>2, <2>3 DEF UniqueActive
<1>. QED
    BY <1>1, <1>2, StepKinds

\* What a process holds of a running row stays what the row is: coalescing touches
\* waiting rows only, and a new claim raises the version (enqueue(), claim()).
LEMMA HeldStep ==
    ASSUME TypeInv, HeldFresh, [Next]_vars
    PROVE  HeldFresh'
<1> DEFINE Right(w, t) == rows[t.id].status = "running" /\ rows[t.id].claim = t.claim =>
                            /\ rows[t.id].through = t.through /\ rows[t.id].attempts = t.attempts
                            /\ t.own => rows[t.id].owner = Me(w)
<1>1. ASSUME NEW w \in Workers, NEW t \in Held(w)
      PROVE  /\ t.id \in Ids /\ t.claim \in Nat /\ t.claim <= rows[t.id].claim
             /\ rows[t.id] \in Row /\ rows[t.id].claim \in Nat /\ Right(w, t)
    <2>1. t.id \in Ids /\ t.claim <= rows[t.id].claim /\ Right(w, t)
        BY DEF TypeInv, TasksOK, HeldFresh
    <2>2. t \in Task
        BY DEF TypeInv, TypeOK, Held, Gate
    <2>3. rows[t.id] \in Row
        BY <2>1 DEF TypeInv, TypeOK
    <2>. QED
        BY <2>1, <2>2, <2>3 DEF Task, Row
<1>2. ASSUME NEW w \in Workers, NEW t \in Held(w), starts'[w] = starts[w],
             rows'[t.id].status = "running" =>
                rows'[t.id] = rows[t.id] \/ Kept(rows[t.id], rows'[t.id])
      PROVE  Right(w, t)'
    BY <1>1, <1>2 DEF Kept, Me
<1>3. ASSUME QuietStep, HoldsNoMore
      PROVE  HeldFresh'
    <2>1. ASSUME NEW w \in Workers, NEW t \in Held(w)'
          PROVE  Right(w, t)'
        <3>0. t \in Held(w) /\ starts'[w] = starts[w]
            <4>1. Held(w)' \subseteq Held(w) /\ (Held(w)' = {} \/ starts'[w] = starts[w])
                BY <1>3 DEF HoldsNoMore
            <4>2. Held(w)' # {}
                BY <2>1
            <4>. QED
                BY <2>1, <4>1, <4>2
        <3>1. t \in Held(w) /\ starts'[w] = starts[w] /\ t.id \in Ids
            BY <1>1, <3>0
        <3>2. Kept(rows[t.id], rows'[t.id])
            BY <1>3, <3>1 DEF QuietStep
        <3>. QED
            BY <1>2, <3>1, <3>2
    <2>. QED
        BY <2>1 DEF HeldFresh
<1>4. ASSUME NEW v \in Workers, ReadBack(v)
      PROVE  HeldFresh'
    <2>1. PICK i \in Ids : Held(v)' = Held(v) \cup {Snapshot(v, i)}
        BY <1>4, ReadStep
    <2>2. /\ \A w \in Workers \ {v} : Held(w)' = Held(w)
          /\ UNCHANGED <<rows, starts>>
        BY <1>4, ReadStep DEF Held
    <2>3. Right(v, Snapshot(v, i))
        BY <2>1, SnapshotType
    <2>4. ASSUME NEW w \in Workers, NEW t \in Held(w)'
          PROVE  Right(w, t)'
        <3>1. Right(w, t)
            BY <1>1, <2>1, <2>2, <2>3
        <3>. QED
            BY <2>2, <3>1 DEF Me
    <2>. QED
        BY <2>4 DEF HeldFresh
<1>5. CASE EnqueueStep
    <2>1. ASSUME NEW w \in Workers, NEW t \in Held(w)'
          PROVE  Right(w, t)'
        <3>1. t \in Held(w) /\ starts'[w] = starts[w] /\ t.id \in Ids
            BY <1>1, <1>5, EnqueuedRows DEF Held
        <3>2. rows'[t.id].status = "running" => rows'[t.id] = rows[t.id]
            BY <1>5, <3>1, EnqueuedRows
        <3>. QED
            BY <1>2, <3>1, <3>2
    <2>. QED
        BY <2>1 DEF HeldFresh
<1>6. ASSUME NEW v \in Workers, Claim(v)
      PROVE  HeldFresh'
    <2>0. /\ \A w \in Workers : Held(w)' = Held(w)
          /\ \A i \in Ids : rows'[i] = IF i \in Taken(v) THEN Claimed(v, rows[i]) ELSE rows[i]
          /\ starts' = starts
        BY <1>6, ClaimStep
    <2>1. ASSUME NEW w \in Workers, NEW t \in Held(w)'
          PROVE  Right(w, t)'
        <3>1. t \in Held(w) /\ t.id \in Ids /\ starts'[w] = starts[w]
            BY <1>1, <2>0
        <3>2. CASE t.id \in Taken(v)
            <4>1. rows'[t.id].claim = rows[t.id].claim + 1
                BY <2>0, <3>1, <3>2, ClaimedRow
            <4>. QED
                BY <1>1, <3>1, <4>1
        <3>3. CASE t.id \notin Taken(v)
            BY <1>2, <2>0, <3>1, <3>3
        <3>. QED
            BY <3>2, <3>3
    <2>. QED
        BY <2>1 DEF HeldFresh
<1>. QED
    BY <1>3, <1>4, <1>5, <1>6, StepKinds DEF QuietStep

\* A claim of a row is held once: every claim raises the version of its row, and a
\* process that reads a row back late finds that it is not its own.
OneHeldPerClaim ==
    \A v, w \in Workers : \A t \in Held(v), u \in Held(w) :
        t.id = u.id /\ t.claim = u.claim /\ (v = w \/ (t.own /\ u.own)) => v = w /\ t = u

LEMMA OneHeldStep ==
    ASSUME TypeInv, HeldFresh, OneHeldPerClaim, [Next]_vars
    PROVE  OneHeldPerClaim'
<1>1. CASE \A w \in Workers : Held(w)' \subseteq Held(w)
    BY <1>1 DEF OneHeldPerClaim
<1>2. ASSUME NEW x \in Workers, ReadBack(x)
      PROVE  OneHeldPerClaim'
    <2>1. PICK i \in gate[x].claimed : i \in Ids /\ Held(x)' = Held(x) \cup {Snapshot(x, i)}
        BY <1>2, ReadStep
    <2> DEFINE s == Snapshot(x, i)
    <2>2. /\ s.id = i /\ s.claim = rows[i].claim
          /\ s.own => rows[i].status = "running" /\ rows[i].owner = Me(x)
        BY <2>1, SnapshotType
    <2>. HIDE DEF s
    <2>3. \A w \in Workers : \A t \in Held(w)' : t \in Held(w) \/ (w = x /\ t = s)
        BY <1>2, <2>1, ReadStep DEF Held, s
    <2>4. ASSUME NEW w \in Workers, NEW t \in Held(w), t.id = s.id, t.claim = s.claim
          PROVE  w # x /\ ~ (t.own /\ s.own)
        <3>1. w # x
            BY <2>1, <2>2, <2>4 DEF TypeInv, TasksOK
        <3>2. ASSUME t.own, s.own
              PROVE  FALSE
            <4>1. rows[i].status = "running" /\ rows[i].owner = Me(x) /\ rows[i].owner = Me(w)
                BY <2>2, <2>4, <3>2 DEF HeldFresh
            <4>. QED
                BY <3>1, <4>1 DEF Me
        <3>. QED
            BY <3>1, <3>2
    <2>5. ASSUME NEW v \in Workers, NEW w \in Workers, NEW t \in Held(v)', NEW u \in Held(w)',
                 t.id = u.id, t.claim = u.claim, v = w \/ (t.own /\ u.own)
          PROVE  v = w /\ t = u
        <3>1. CASE t \in Held(v) /\ u \in Held(w)
            BY <2>5, <3>1 DEF OneHeldPerClaim
        <3>2. CASE t \in Held(v) /\ w = x /\ u = s
            BY <2>4, <2>5, <3>2
        <3>3. CASE v = x /\ t = s /\ u \in Held(w)
            BY <2>4, <2>5, <3>3
        <3>4. CASE v = x /\ t = s /\ w = x /\ u = s
            BY <3>4
        <3>. QED
            BY <2>3, <3>1, <3>2, <3>3, <3>4
    <2>. QED
        BY <2>5 DEF OneHeldPerClaim
<1>3. ASSUME NEW w \in Workers, Claim(w)
      PROVE  \A v \in Workers : Held(v)' \subseteq Held(v)
    BY <1>3, ClaimStep
<1>4. CASE EnqueueStep
    BY <1>1, <1>4 DEF EnqueueStep, Held
<1>. QED
    BY <1>1, <1>2, <1>3, <1>4, StepKinds DEF QuietStep, HoldsNoMore

\* The rows of the queue are never claimed, ended or given up once terminal.
LEMMA TerminalStep ==
    ASSUME TypeInv, HeldFresh, [Next]_vars, NEW i \in Ids, rows[i].status \in Terminal
    PROVE  rows'[i].status = rows[i].status /\ rows'[i].through = rows[i].through
<1>1. ~ Active(rows[i])
    BY DEF Active, Terminal
<1>2. CASE QuietStep
    BY <1>1, <1>2 DEF QuietStep, Kept
<1>3. CASE EnqueueStep
    BY <1>1, <1>3, EnqueuedRows DEF Active
<1>4. ASSUME NEW w \in Workers, Claim(w)
      PROVE  rows'[i] = rows[i]
    BY <1>1, <1>4, ClaimStep, ClaimedRow DEF Active
<1>. QED
    BY <1>2, <1>3, <1>4, StepKinds

\* The row a message is merged into, or inserted for, waits no longer than the
\* delay counted from the first message (enqueue()).
LEMMA AbsorbingTimely ==
    ASSUME NEW r \in Row, NEW t \in Nat
    PROVE  Timely(Absorbing(r, t))
<1> DEFINE q == Absorbing(r, t)
<1>1. /\ q.wait = CoalescedWait(r, r.count + 1) /\ q.type = r.type /\ q.age = r.age
      /\ r.age \in Nat
    BY AbsorbingRow DEF Row
<1>2. Before(MaxWait, r.age) \in Nat /\ Before(MemberDelay, r.age) \in Nat /\ Debounce \in Nat
    BY <1>1, SettingsAssumption, BeforeType
<1>3. ASSUME r.type = "relationship"
      PROVE  q.wait <= Before(MaxWait, r.age)
    <2>1. q.wait = Earlier(Debounce, Before(MaxWait, r.age))
        BY <1>1, <1>3 DEF CoalescedWait
    <2>. QED
        BY <1>2, <2>1, EarlierType
<1>4. ASSUME r.type = "member_facts"
      PROVE  q.wait <= Before(MemberDelay, r.age)
    <2>1. q.wait = 0 \/ q.wait = Before(MemberDelay, r.age)
        BY <1>1, <1>4 DEF CoalescedWait
    <2>. QED
        BY <1>2, <2>1
<1>. QED
    BY <1>1, <1>3, <1>4 DEF Timely

LEMMA DelayStep ==
    ASSUME TypeInv, HeldFresh, DelayBounded, [Next]_vars
    PROVE  DelayBounded'
<1>1. \A i \in Ids : Timely(rows[i])
    BY DEF DelayBounded, Timely
<1>2. SUFFICES \A i \in Ids' : Timely(rows'[i])
    BY DEF DelayBounded, Timely
<1>3. CASE QuietStep
    BY <1>1, <1>3 DEF QuietStep, Kept, Ids
<1>4. ASSUME NEW k \in JobTypes, NEW s \in Scopes, NEW t \in Nat, Coalesce(k, s, t)
      PROVE  \A i \in Ids' : Timely(rows'[i])
    <2>1. PICK i \in Ids : rows[i] \in Row /\ rows' = [rows EXCEPT ![i] = Absorbing(rows[i], t)]
        BY <1>4, CoalescedStep
    <2>2. Ids' = Ids /\ rows \in [Ids -> Row]
        BY <1>4, CoalescedStep DEF TypeInv, TypeOK
    <2>3. \A j \in Ids : rows'[j] = IF j = i THEN Absorbing(rows[i], t) ELSE rows[j]
        BY <2>1, <2>2
    <2>. QED
        BY <1>1, <2>1, <2>2, <2>3, AbsorbingTimely
<1>5. ASSUME NEW k \in JobTypes, NEW s \in Scopes, NEW t \in Nat, Insert(k, s, t)
      PROVE  \A i \in Ids' : Timely(rows'[i])
    <2>1. ASSUME NEW i \in Ids'
          PROVE  (i \in Ids /\ rows'[i] = rows[i])
                 \/ (rows'[i].type = k /\ rows'[i].wait = FirstWait(k) /\ rows'[i].age = 0)
        BY <1>5, <2>1 DEF Insert, Ids
    <2>2. /\ k = "relationship" => FirstWait(k) <= Before(MaxWait, 0)
          /\ k = "member_facts" => FirstWait(k) <= Before(MemberDelay, 0)
        BY SettingsAssumption DEF FirstWait, Before
    <2>. QED
        BY <1>1, <2>1, <2>2 DEF Timely
<1>6. ASSUME NEW w \in Workers, Claim(w)
      PROVE  \A i \in Ids' : Timely(rows'[i])
    <2>1. ASSUME NEW i \in Ids
          PROVE  Timely(rows'[i])
        <3>1. CASE i \in Taken(w)
            <4>1. rows'[i].status = "running"
                <5>1. rows'[i] = Claimed(w, rows[i])
                    BY <1>6, <3>1, ClaimStep
                <5>. QED
                    BY <3>1, <5>1, ClaimedRow
            <4>. QED
                BY <4>1 DEF Timely
        <3>2. CASE i \notin Taken(w)
            BY <1>1, <1>6, <3>2, ClaimStep
        <3>. QED
            BY <3>1, <3>2
    <2>. QED
        BY <1>6, <2>1, ClaimStep
<1>. QED
    BY <1>3, <1>4, <1>5, <1>6, StepKinds DEF EnqueueStep

\* A lease that is alive is respected: a row is given up by the task that owns it, by
\* its own process as it goes down, or by a clear; recovery takes lapsed leases only.
LEMMA LeaseStep ==
    ASSUME TypeInv, [Next]_vars, NEW i \in Ids,
           rows[i].status = "running", rows'[i].status # "running", rows[i].lease > 0
    PROVE  \/ rows'[i].status = "cancelled"
           \/ \E w \in Workers :
                /\ rows[i].owner = Me(w)
                /\ \/ ~ up'[w]
                   \/ \E t \in tasks[w] \ tasks'[w] : t.id = i /\ t.claim = rows[i].claim
<1>1. /\ rows \in [Ids -> Row] /\ rows[i] \in Row /\ up \in [Workers -> BOOLEAN]
      /\ tasks \in [Workers -> SUBSET Task]
    BY DEF TypeInv, TypeOK
<1>2. ASSUME NEW w \in Workers, NEW t \in tasks[w], NEW outcome, EndTask(w, t, outcome)
      PROVE  /\ rows[i].owner = Me(w)
             /\ \E u \in tasks[w] \ tasks'[w] : u.id = i /\ u.claim = rows[i].claim
    <2>1. t.id \in Ids
        BY DEF TypeInv, TasksOK, Held
    <2>2. Owned(w, t) /\ t.id = i
        BY <1>1, <1>2, <2>1 DEF EndTask
    <2>3. t \in tasks[w] \ tasks'[w]
        BY <1>1, <1>2 DEF EndTask
    <2>. QED
        BY <2>2, <2>3 DEF Owned
<1>3. ASSUME NEW w \in Workers, NEW t \in tasks[w], Finish(w, t) \/ FinalizeError(w, t)
      PROVE  /\ rows[i].owner = Me(w)
             /\ \E u \in tasks[w] \ tasks'[w] : u.id = i /\ u.claim = rows[i].claim
    BY <1>2, <1>3 DEF Finish, FinalizeError, Succeed, Fail, Defer, Continue
<1>4. ASSUME NEW w \in Workers,
             \/ OpenGate(w) \/ ReadBack(w) \/ Stop(w)
             \/ Exit(w) \/ Crash(w) \/ ClaimError(w)
      PROVE  FALSE
    BY <1>4 DEF OpenGate, ReadBack, Stop, Exit, Crash, ClaimError
<1>5. ASSUME NEW w \in Workers, NEW t \in tasks[w], Renew(w, t)
      PROVE  FALSE
    <2>1. t.id \in Ids
        BY DEF TypeInv, TasksOK, Held
    <2>2. rows'[i] = rows[i] \/ rows'[i] = [rows[i] EXCEPT !.lease = LeaseTime]
        BY <1>1, <1>5, <2>1 DEF Renew
    <2>. QED
        BY <1>1, <2>2 DEF Row
<1>6. ASSUME NEW w \in Workers, Claim(w)
      PROVE  FALSE
    <2>1. rows'[i] = IF i \in Taken(w) THEN Claimed(w, rows[i]) ELSE rows[i]
        BY <1>6, ClaimStep
    <2>. QED
        BY <2>1, ClaimedRow
<1>7. ASSUME NEW s \in Scopes, NEW k \in JobTypes, NEW t \in 1..MaxWatermark, Enqueue(k, s, t)
      PROVE  FALSE
    <2>1. EnqueueStep
        BY <1>7, BoundsAssumption DEF Enqueue, EnqueueStep, process
    <2>. QED
        BY <2>1, EnqueuedRows
<1>8. CASE Tick
    <2>1. rows'[i] = Ticked(rows[i])
        BY <1>1, <1>8 DEF Tick, Ticked
    <2>. QED
        BY <1>1, <2>1, TickedRow
<1>9. ASSUME NEW s \in PrivateScopes, Clear(s)
      PROVE  rows'[i].status = "cancelled"
    <2>1. \/ rows'[i] = rows[i]
          \/ rows'[i] = [rows[i] EXCEPT !.status = "cancelled", !.owner = NoOwner, !.lease = 0]
        BY <1>1, <1>9 DEF Clear
    <2>. QED
        BY <1>1, <2>1, CancelledRow
<1>10. ASSUME NEW switch \in Switches, Toggle(switch)
       PROVE  FALSE
    BY <1>10 DEF Toggle
<1>11. ASSUME NEW w \in Workers, Start(w)
       PROVE  FALSE
    <2>1. rows'[i] = Recovered(rows[i])
        BY <1>11 DEF Start
    <2>. QED
        BY <1>1, <2>1 DEF Recovered, Row
<1>12. ASSUME NEW w \in Workers, Cancel(w)
       PROVE  rows[i].owner = Me(w) /\ ~ up'[w]
    <2>1. rows'[i] = Released(w, rows[i])
        BY <1>12 DEF Cancel
    <2>. QED
        BY <1>1, <1>12, <2>1 DEF Released, Cancel
<1>13. CASE UNCHANGED vars
    BY <1>13 DEF vars
<1>. QED
    BY <1>3, <1>4, <1>5, <1>6, <1>7, <1>8, <1>9, <1>10, <1>11, <1>12, <1>13
    DEF Next, Work, Poll, Produce, Environment, Lifecycle, Faults

\* A row begins to run in a claim only, and the claim takes the oldest row of the
\* conversation that it may take.
LEMMA OrderStep ==
    ASSUME TypeInv, HeldFresh, [Next]_vars, NEW i \in Ids,
           rows[i].status = "pending", rows'[i].status = "running"
    PROVE  \E w \in Workers :
                /\ gate[w] # gate'[w]
                /\ rows'[i].owner = Me(w)
                /\ \A j \in Ids : j < i /\ rows[j].scope = rows[i].scope => ~ Claimable(w, j)
<1>1. PICK w \in Workers : Claim(w)
    <2>1. ~ QuietStep
        BY DEF QuietStep, Kept
    <2>2. ~ EnqueueStep
        BY EnqueuedRows
    <2>. QED
        BY <2>1, <2>2, StepKinds
<1>2. i \in Taken(w) /\ rows'[i] = Claimed(w, rows[i])
    BY <1>1, ClaimStep
<1>3. rows'[i].owner = Me(w)
    BY <1>2, ClaimedRow
<1>4. gate[w] # gate'[w]
    <2>1. gate[w].room > 0
        BY <1>1 DEF Claim
    <2>2. gate'[w] = [types |-> {}, room |-> 0, claimed |-> Taken(w), read |-> {}]
        BY <1>1, ClaimStep
    <2>. QED
        BY <2>1, <2>2
<1>5. ASSUME NEW j \in Ids, j < i, rows[j].scope = rows[i].scope
      PROVE  ~ Claimable(w, j)
    <2>1. i \in Heads(w)
        BY <1>2 DEF Taken, Runnable
    <2>. QED
        BY <1>5, <2>1 DEF Heads, Ids
<1>. QED
    BY <1>3, <1>4, <1>5

\* A process that runs carries row i: it took the row, or holds its present claim.
Carries(w, i) ==
    /\ up[w] /\ rows[i].owner = Me(w)
    /\ i \in gate[w].claimed \/ \E t \in Held(w) : t.id = i /\ t.claim = rows[i].claim

LEMMA CarriedIsAttended ==
    ASSUME NEW i
    PROVE  Attended(i) <=> rows[i].status = "running" /\ \E w \in Workers : Carries(w, i)
    BY DEF Attended, Carries, Held

\* The process goes on carrying the row while neither is touched.
LEMMA CarriedStays ==
    ASSUME NEW i, NEW w \in Workers, Carries(w, i),
           Held(w) \subseteq Held(w)', gate[w].claimed \subseteq gate'[w].claimed,
           up'[w], starts'[w] = starts[w],
           rows'[i].status = "running"
              => rows'[i].owner = rows[i].owner /\ rows'[i].claim = rows[i].claim
    PROVE  ~ Orphaned(i)'
<1>1. CASE rows'[i].status = "running"
    <2>1. Carries(w, i)'
        BY <1>1 DEF Carries, Me
    <2>2. Attended(i)'
        BY <1>1, <2>1 DEF Attended, Carries, Held
    <2>. QED
        BY <2>2 DEF Orphaned
<1>2. CASE rows'[i].status # "running"
    BY <1>2 DEF Orphaned
<1>. QED
    BY <1>1, <1>2

\* The ends of a task free the row that is its own.
LEMMA FinishFrees ==
    ASSUME TypeInv, NEW w \in Workers, NEW t \in tasks[w], Finish(w, t), Owned(w, t)
    PROVE  rows'[t.id].status # "running"
<1> DEFINE r == rows[t.id]
<1>1. t.id \in Ids /\ rows \in [Ids -> Row] /\ r \in Row
    BY DEF TypeInv, TypeOK, TasksOK, Held
<1>2. ASSUME NEW outcome, EndTask(w, t, outcome)
      PROVE  rows'[t.id] = outcome
    BY <1>1, <1>2 DEF EndTask
<1>3. ASSUME NEW status \in {"succeeded", "failed", "pending"}, NEW wait,
             EndTask(w, t, Freed(r, status, wait))
      PROVE  rows'[t.id].status # "running"
    BY <1>1, <1>2, <1>3 DEF Freed, Row
<1>4. CASE Succeed(w, t)
    BY <1>3, <1>4 DEF Succeed
<1>5. CASE \E retryable \in BOOLEAN : Fail(w, t, retryable)
    BY <1>3, <1>5 DEF Fail
<1>6. CASE Defer(w, t)
    BY <1>3, <1>6 DEF Defer
<1>7. CASE Continue(w, t)
    <2>1. rows'[t.id] = [Freed(r, "pending", 0) EXCEPT !.attempts = Before(r.attempts, 1)]
        BY <1>2, <1>7 DEF Continue
    <2>. QED
        BY <1>1, <2>1 DEF Freed, Row
<1>. QED
    BY <1>4, <1>5, <1>6, <1>7 DEF Finish

\* Unless a fault strikes, a running row keeps a process that carries it for as long as
\* it runs, and a row that begins to run gets one in the same step (claim(), stop()).
LEMMA OrphanStep ==
    ASSUME TypeInv, HeldFresh,
           Work \/ Produce \/ Environment \/ Lifecycle \/ UNCHANGED vars,
           NEW i \in Ids, ~ Orphaned(i)
    PROVE  ~ Orphaned(i)'
<1>1. /\ rows \in [Ids -> Row] /\ rows[i] \in Row /\ up \in [Workers -> BOOLEAN]
      /\ starts \in [Workers -> Nat] /\ tasks \in [Workers -> SUBSET Task]
      /\ gate \in [Workers -> Gate]
    BY DEF TypeInv, TypeOK
<1>2. CASE rows[i].status # "running"
    <2>1. CASE rows'[i].status # "running"
        BY <2>1 DEF Orphaned
    <2>2. CASE rows'[i].status = "running"
        <3>1. PICK w \in Workers : Claim(w)
            <4>1. ~ QuietStep
                BY <1>2, <2>2 DEF QuietStep, Kept
            <4>2. ~ EnqueueStep
                BY <1>2, <2>2, EnqueuedRows
            <4>. QED
                BY <4>1, <4>2, StepKinds DEF Next
        <3>2. /\ rows'[i] = IF i \in Taken(w) THEN Claimed(w, rows[i]) ELSE rows[i]
              /\ gate'[w] = [types |-> {}, room |-> 0, claimed |-> Taken(w), read |-> {}]
              /\ UNCHANGED <<up, starts>>
            BY <3>1, ClaimStep
        <3>3. i \in Taken(w) /\ rows'[i] = Claimed(w, rows[i])
            BY <1>2, <2>2, <3>2
        <3>4. rows'[i].owner = Me(w)
            BY <3>3, ClaimedRow
        <3>5. i \in gate'[w].claimed /\ up'[w]
            BY <3>1, <3>2, <3>3 DEF Claim
        <3>6. Attended(i)'
            BY <2>2, <3>2, <3>4, <3>5 DEF Attended, Me
        <3>. QED
            BY <3>6 DEF Orphaned
    <2>. QED
        BY <2>1, <2>2
<1>3. CASE rows[i].status = "running"
    <2>1. PICK w \in Workers : Carries(w, i)
        BY <1>3, CarriedIsAttended DEF Orphaned
    <2>a. up[w] /\ rows[i].owner = Me(w)
        BY <2>1 DEF Carries
    <2>2. ASSUME Held(w) \subseteq Held(w)', gate[w].claimed \subseteq gate'[w].claimed,
                 up'[w], starts'[w] = starts[w],
                 rows'[i].status = "running"
                    => rows'[i].owner = rows[i].owner /\ rows'[i].claim = rows[i].claim
          PROVE  ~ Orphaned(i)'
        BY <2>1, <2>2, CarriedStays
    <2>0. ASSUME gate'[w] = gate[w], tasks'[w] = tasks[w], up'[w], starts'[w] = starts[w],
                 rows'[i].status = "running"
                    => rows'[i].owner = rows[i].owner /\ rows'[i].claim = rows[i].claim
          PROVE  ~ Orphaned(i)'
        <3>1. Held(w)' = Held(w)
            BY <2>0 DEF Held
        <3>. QED
            BY <2>0, <2>2, <3>1
    <2>3. ASSUME NEW v \in Workers, OpenGate(v)
          PROVE  ~ Orphaned(i)'
        <3>1. UNCHANGED <<rows, starts, up, tasks>>
            BY <2>3 DEF OpenGate, process
        <3>2. gate'[w] = gate[w] \/ (gate[w].claimed = {} /\ gate[w].read = {})
            BY <1>1, <2>3 DEF OpenGate, NoClaim
        <3>3. gate[w].claimed \subseteq gate'[w].claimed /\ Held(w) \subseteq Held(w)'
            BY <3>1, <3>2 DEF Held
        <3>. QED
            BY <2>a, <2>2, <3>1, <3>3
    <2>14. ASSUME NEW v \in Workers, Stop(v)
           PROVE  ~ Orphaned(i)'
        BY <2>a, <2>0, <2>14 DEF Stop
    <2>15. ASSUME NEW v \in Workers, Exit(v)
           PROVE  ~ Orphaned(i)'
        <3>1. v # w
            BY <2>1, <2>15 DEF Exit, Carries, Held, NoClaim
        <3>2. up'[w] = up[w]
            BY <1>1, <2>15, <3>1 DEF Exit
        <3>. QED
            BY <2>a, <2>0, <2>15, <3>2 DEF Exit
    <2>4. ASSUME NEW v \in Workers, Claim(v)
          PROVE  ~ Orphaned(i)'
        <3>1. /\ rows'[i] = IF i \in Taken(v) THEN Claimed(v, rows[i]) ELSE rows[i]
              /\ UNCHANGED <<up, starts>> /\ Held(w)' = Held(w)
              /\ gate[v].claimed = {} /\ \A x \in Workers \ {v} : gate'[x] = gate[x]
            BY <2>4, ClaimStep
        <3>2. rows'[i] = rows[i]
            BY <1>3, <3>1, ClaimedRow
        <3>3. gate[w].claimed \subseteq gate'[w].claimed
            BY <3>1
        <3>. QED
            BY <2>a, <2>2, <3>1, <3>2, <3>3
    <2>16. ASSUME NEW v \in Workers, ReadBack(v)
           PROVE  ~ Orphaned(i)'
        <3>1. /\ UNCHANGED <<rows, up, starts>>
              /\ \A x \in Workers \ {v} : gate'[x] = gate[x] /\ tasks'[x] = tasks[x]
            BY <2>16, ReadStep
        <3>2. CASE v # w
            BY <2>a, <2>0, <3>1, <3>2
        <3>3. CASE v = w
            <4>1. PICK j \in gate[w].claimed :
                    /\ j \in Ids
                    /\ Held(w)' = Held(w) \cup {Snapshot(w, j)}
                    /\ gate'[w].claimed = gate[w].claimed \ {j}
                BY <2>16, <3>3, ReadStep
            <4>2. Snapshot(w, j).id = j /\ Snapshot(w, j).claim = rows[j].claim
                BY <4>1, SnapshotType
            <4>3. CASE i = j
                <5>1. Carries(w, i)'
                    BY <2>a, <3>1, <4>1, <4>2, <4>3 DEF Carries, Me
                <5>. QED
                    BY <1>3, <3>1, <5>1 DEF Orphaned, Attended, Carries, Held
            <4>4. CASE i # j
                <5>1. Carries(w, i)'
                    BY <2>1, <3>1, <4>1, <4>4 DEF Carries, Me
                <5>. QED
                    BY <1>3, <3>1, <5>1 DEF Orphaned, Attended, Carries, Held
            <4>. QED
                BY <4>3, <4>4
        <3>. QED
            BY <3>2, <3>3
    <2>5. ASSUME NEW v \in Workers, NEW u \in tasks[v], Finish(v, u)
          PROVE  ~ Orphaned(i)'
        <3>1. CASE u.id = i /\ Owned(v, u)
            <4>1. rows'[i].status # "running"
                BY <2>5, <3>1, FinishFrees
            <4>. QED
                BY <4>1 DEF Orphaned
        <3>2. CASE ~ (u.id = i /\ Owned(v, u))
            <4>1. PICK outcome : EndTask(v, u, outcome)
                BY <2>5 DEF Finish, Succeed, Fail, Defer, Continue
            <4>2. rows'[i] = rows[i]
                BY <1>1, <3>2, <4>1 DEF EndTask
            <4>3. UNCHANGED <<up, starts, gate>>
                BY <4>1 DEF EndTask, process
            <4>4. \A t \in tasks[w] : t \in tasks'[w] \/ (w = v /\ t = u)
                BY <1>1, <4>1 DEF EndTask
            <4>5. ~ (w = v /\ u.id = i /\ u.claim = rows[i].claim)
                BY <1>3, <2>a, <3>2 DEF Owned
            <4>6. Carries(w, i)'
                BY <2>1, <4>2, <4>3, <4>4, <4>5 DEF Carries, Held, Me
            <4>. QED
                BY <1>3, <4>2, <4>6 DEF Orphaned, Attended, Carries, Held
        <3>. QED
            BY <3>1, <3>2
    <2>6. ASSUME NEW v \in Workers, NEW u \in tasks[v], Renew(v, u)
          PROVE  ~ Orphaned(i)'
        <3>1. u.id \in Ids
            BY DEF TypeInv, TasksOK, Held
        <3>2. rows'[i] = rows[i] \/ rows'[i] = [rows[i] EXCEPT !.lease = LeaseTime]
            BY <1>1, <2>6, <3>1 DEF Renew
        <3>3. rows'[i].owner = rows[i].owner /\ rows'[i].claim = rows[i].claim
            BY <1>1, <3>2 DEF Row
        <3>. QED
            BY <2>a, <2>0, <2>6, <3>3 DEF Renew, process
    <2>7. ASSUME NEW s \in Scopes, NEW k \in JobTypes, NEW m \in 1..MaxWatermark, Enqueue(k, s, m)
          PROVE  ~ Orphaned(i)'
        <3>1. EnqueueStep
            BY <2>7, BoundsAssumption DEF Enqueue, EnqueueStep, process
        <3>2. rows'[i] = rows[i]
            BY <1>3, <3>1, EnqueuedRows
        <3>. QED
            BY <2>a, <2>0, <2>7, <3>2 DEF Enqueue, process
    <2>8. CASE Tick
        <3>1. rows'[i] = Ticked(rows[i])
            BY <1>1, <2>8 DEF Tick, Ticked
        <3>2. rows'[i].owner = rows[i].owner /\ rows'[i].claim = rows[i].claim
            BY <1>1, <3>1, TickedRow
        <3>. QED
            BY <2>a, <2>0, <2>8, <3>2 DEF Tick, process
    <2>9. ASSUME NEW s \in PrivateScopes, Clear(s)
          PROVE  ~ Orphaned(i)'
        <3>1. \/ rows'[i] = rows[i]
              \/ rows'[i] = [rows[i] EXCEPT !.status = "cancelled", !.owner = NoOwner, !.lease = 0]
            BY <1>1, <2>9 DEF Clear
        <3>2. rows'[i] = rows[i] \/ rows'[i].status # "running"
            BY <1>1, <3>1, CancelledRow
        <3>. QED
            BY <2>a, <2>0, <2>9, <3>2 DEF Clear, process
    <2>10. ASSUME NEW switch \in Switches, Toggle(switch)
           PROVE  ~ Orphaned(i)'
        BY <2>a, <2>0, <2>10 DEF Toggle, process
    <2>11. ASSUME NEW v \in Workers, Start(v)
           PROVE  ~ Orphaned(i)'
        <3>1. v # w /\ up'[w] /\ starts'[w] = starts[w] /\ tasks' = tasks /\ gate' = gate
            BY <1>1, <2>a, <2>11 DEF Start
        <3>2. rows'[i] = Recovered(rows[i])
            BY <2>11 DEF Start
        <3>3. rows'[i] = rows[i] \/ rows'[i].status # "running"
            BY <1>1, <3>2 DEF Recovered, Freed, Row
        <3>. QED
            BY <2>0, <3>1, <3>3
    <2>12. ASSUME NEW v \in Workers, Cancel(v)
           PROVE  ~ Orphaned(i)'
        <3>1. rows'[i] = Released(v, rows[i])
            BY <2>12 DEF Cancel
        <3>2. CASE v = w
            <4>1. rows'[i].status # "running"
                BY <1>1, <1>3, <2>a, <3>1, <3>2 DEF Released, Freed, Row
            <4>. QED
                BY <4>1 DEF Orphaned
        <3>3. CASE v # w
            <4>1. rows'[i] = rows[i]
                BY <2>a, <3>1, <3>3 DEF Released, Me
            <4>2. up'[w] /\ starts' = starts /\ tasks'[w] = tasks[w] /\ gate' = gate
                BY <1>1, <2>a, <2>12, <3>3 DEF Cancel
            <4>. QED
                BY <2>0, <4>1, <4>2
        <3>. QED
            BY <3>2, <3>3
    <2>13. CASE UNCHANGED vars
        BY <2>a, <2>0, <2>13 DEF vars, process
    <2>. QED
        BY <2>3, <2>4, <2>5, <2>6, <2>7, <2>8, <2>9, <2>10, <2>11, <2>12, <2>13, <2>14, <2>15, <2>16
        DEF Work, Poll, Produce, Environment, Lifecycle
<1>. QED
    BY <1>2, <1>3

-----------------------------------------------------------------------------
(* The theorems.  TypeInv makes the other parts inductive; of what a process   *)
(* holds, more is kept than the properties ask: the rows its claim has read    *)
(* back so far are held like the rows of its tasks.                            *)

IInv ==
    /\ TypeInv /\ HeldFresh /\ OneHeldPerClaim
    /\ OneRunnerPerScope /\ UniqueActive /\ DelayBounded

LEMMA Inductive == Spec => []IInv
<1>1. Init => IInv
    <2> SUFFICES ASSUME Init PROVE IInv
        OBVIOUS
    <2>1. Ids = {} /\ \A w \in Workers : Held(w) = {}
        BY DEF Init, Ids, Held, NoClaim
    <2>. QED
        BY <2>1, InitType
        DEF IInv, OneRunnerPerScope, UniqueActive, HeldFresh, OneHeldPerClaim, DelayBounded
<1>2. IInv /\ [Next]_vars => IInv'
    BY StepType, OneRunnerStep, UniqueStep, HeldStep, OneHeldStep, DelayStep DEF IInv
<1>. QED
    BY <1>1, <1>2, PTL DEF Spec

\* The tasks are among what the processes hold.
LEMMA HeldByTasks == IInv => SnapshotFresh /\ OneTaskPerClaim
<1> SUFFICES ASSUME IInv PROVE SnapshotFresh /\ OneTaskPerClaim
    OBVIOUS
<1>1. \A w \in Workers : tasks[w] \subseteq Held(w)
    BY DEF Held
<1>2. SnapshotFresh
    BY <1>1 DEF IInv, TypeInv, TasksOK, HeldFresh, SnapshotFresh, Owned
<1>3. OneTaskPerClaim
    BY <1>1 DEF IInv, OneHeldPerClaim, OneTaskPerClaim
<1>. QED
    BY <1>2, <1>3

\* The variables keep their types (the columns of memory_jobs, the worker's tasks).
THEOREM Typing == Spec => []TypeOK
<1>1. IInv => TypeOK
    BY DEF IInv, TypeInv
<1>. QED
    BY <1>1, Inductive, PTL

\* No row is tried more often than max_attempts, whatever mixture of failures,
\* lapsed leases, releases and continued batches it lives through (claim(),
\* finish(), defer(), continue_job()).
THEOREM Attempts == Spec => []AttemptsBounded
<1>1. IInv => AttemptsBounded
    BY DEF IInv, TypeInv
<1>. QED
    BY <1>1, Inductive, PTL

\* Any number of processes run at most one job of a conversation (claim()).
THEOREM Serial == Spec => []OneRunnerPerScope
<1>1. IInv => OneRunnerPerScope
    BY DEF IInv
<1>. QED
    BY <1>1, Inductive, PTL

\* A watermark is active at most once in the queue, so the unique index never
\* refuses a message handler's transaction (enqueue()).
THEOREM Unique == Spec => []UniqueActive
<1>1. IInv => UniqueActive
    BY DEF IInv
<1>. QED
    BY <1>1, Inductive, PTL

\* The watermark and the attempt a task acts on are those of the row, for as long
\* as the row is the task's (claim(), enqueue(), finish()).
THEOREM Fresh == Spec => []SnapshotFresh
<1>1. IInv => SnapshotFresh
    BY HeldByTasks
<1>. QED
    BY <1>1, Inductive, PTL

\* No two tasks work on the same claim of a row: a process has one, and of two
\* processes one read the row back when it was no longer its own (claim_version).
THEOREM Exclusive == Spec => []OneTaskPerClaim
<1>1. IInv => OneTaskPerClaim
    BY HeldByTasks
<1>. QED
    BY <1>1, Inductive, PTL

\* The pause before a relationship job and the filling of a member batch end within
\* their maximum counted from the first message, however many follow (enqueue()).
THEOREM Delays == Spec => []DelayBounded
<1>1. IInv => DelayBounded
    BY DEF IInv
<1>. QED
    BY <1>1, Inductive, PTL

\* All of it together, for every number of conversations, processes and rows: what
\* the queue's transactions guarantee in every state (jobs.py).
THEOREM Safe == Spec => []QueueIsSafe
<1>1. IInv => QueueIsSafe
    BY HeldByTasks DEF IInv, TypeInv, QueueIsSafe
<1>. QED
    BY <1>1, Inductive, PTL

\* A row that ended stays ended: late ends of tasks are discarded (finish(),
\* defer(), continue_job(), release_owned()).
THEOREM Final == Spec => TerminalIsFinal
<1>1. IInv /\ [Next]_vars
        => [\A i \in Ids : rows[i].status \in Terminal =>
                rows'[i].status = rows[i].status /\ rows'[i].through = rows[i].through]_vars
    BY TerminalStep DEF IInv
<1>. QED
    BY <1>1, Inductive, PTL DEF Spec, TerminalIsFinal

\* A row whose lease is alive is ended or given back only by the task that holds its
\* present claim, by its own process on the way down, or by a clear: no process that
\* starts takes it from a task that still works (recover_expired_leases(), finish()).
THEOREM Leases == Spec => LeaseRespected
<1>1. IInv /\ [Next]_vars
        => [\A i \in Ids :
                rows[i].status = "running" /\ rows'[i].status # "running" /\ rows[i].lease > 0 =>
                    \/ rows'[i].status = "cancelled"
                    \/ \E w \in Workers :
                        /\ rows[i].owner = Me(w)
                        /\ \/ ~ up'[w]
                           \/ \E t \in tasks[w] \ tasks'[w] :
                                t.id = i /\ t.claim = rows[i].claim]_vars
    BY LeaseStep DEF IInv
<1>. QED
    BY <1>1, Inductive, PTL DEF Spec, LeaseRespected

\* The jobs of a conversation are claimed oldest first, so a job that waits for its
\* backoff is not overtaken by a younger one (claim()).
THEOREM Order == Spec => ClaimedInOrder
<1>1. IInv /\ [Next]_vars
        => [\A i \in Ids :
                rows[i].status = "pending" /\ rows'[i].status = "running" =>
                    \E w \in Workers :
                        /\ gate[w] # gate'[w]
                        /\ rows'[i].owner = Me(w)
                        /\ \A j \in Ids :
                            j < i /\ rows[j].scope = rows[i].scope => ~ Claimable(w, j)]_vars
    BY OrderStep DEF IInv
<1>. QED
    BY <1>1, Inductive, PTL DEF Spec, ClaimedInOrder

\* Only a fault leaves a running row to nobody - a crash, a last update that raises or
\* a claim that cannot read back what it took: claims that return, stops, drains that
\* time out, restarts and clears never do (claim(), release_owned(), stop()).
THEOREM Attendance == Spec => OrphansNeedFaults
<1>1. IInv /\ [Next]_vars
        => [(\E i \in Ids : ~ Orphaned(i) /\ Orphaned(i)') => Faults]_vars
    BY OrphanStep DEF IInv, Next
<1>. QED
    BY <1>1, Inductive, PTL DEF Spec, OrphansNeedFaults

\* The four together, for every number of processes, conversations, rows and starts.
THEOREM Rightly == Spec => RowsMoveRightly
    BY Final, Leases, Order, Attendance DEF RowsMoveRightly

=============================================================================
