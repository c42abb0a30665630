---------------------------- MODULE Alerts_proofs -----------------------------
(* The alerts on messages: their delivery from the ledger, and the scans that      *)
(* decide on them and on what they disclose.                                       *)
(*                                                                                *)
(* What the ledger says of an alert is true, and a call to the platform never      *)
(* begins with an alert that an earlier one may have delivered: for any alerts,    *)
(* calls and limits, any number of restarts, of flips of the switch, of leases     *)
(* that lapse and of decisions of the operator.                                    *)
EXTENDS AlertDelivery, AlertScans, FiniteSetTheorems, SequenceTheorems, WellFoundedInduction, TLAPS

Attempt == Results \cup {"sending", "not_sent"}
Typed ==
    /\ enabled \in BOOLEAN /\ flips \in 0..MaxFlips
    /\ accepting \in [Services -> BOOLEAN] /\ restarts \in 0..MaxRestarts
    /\ place \in [Handlers -> {"new", "queued", "runs", "done"}]
    /\ row \in [Alerts -> Row] /\ attempts \in [Alerts -> Seq(Attempt)]
    /\ worker \in [Services -> {"none", "sleep", "pass", "busy"}] /\ run \in [Services -> Run]
    /\ stalls \in 0..MaxStalls /\ decisions \in 0..MaxDecisions /\ since \in [Alerts -> Nat]
    /\ proven \in SUBSET Alerts /\ risky \in SUBSET Alerts

(* A row r with the attempts seq, of which the operator has seen the first d: it is  *)
(* held exactly while it is leased or being sent; only the last attempt is open; the *)
(* limit leaves AttemptLimit attempts beyond those that were called off.             *)
Refused(seq, d) == {i \in d + 1..Len(seq) : seq[i] = "rejected"}
Fits(r, seq, d) ==
    LET n == Cardinality(Refused(seq, d)) IN
    /\ d <= Len(seq)
    /\ r.token # None <=> r.status \in {"leased", "sending"}
    /\ r.status = "none" => seq = <<>>
    /\ \A i \in 1..Len(seq) : seq[i] = "sending" <=> i = Len(seq) /\ r.status = "sending"
    /\ r.status = "sending" => d < Len(seq)
    /\ r.status \in {"none", "pending", "leased"} => n < AttemptLimit /\ r.limit = AttemptLimit + Len(seq) - n
    /\ r.status = "sending" => n < AttemptLimit /\ r.limit = AttemptLimit + Len(seq) - 1 - n
    /\ r.status = "exhausted" => n = AttemptLimit
    /\ r.status \in {"delivered", "delivery_unknown"} => n < AttemptLimit
RowsOK ==
    \A a \in Alerts :
        /\ Fits(row[a], attempts[a], since[a])
        /\ row[a].status = "delivered" => a \in proven
        /\ row[a].status \in {"none", "pending", "leased", "exhausted"} => a \notin risky

(* A run that still holds the row it is about to call, or that was refused, knows that *)
(* nothing has reached the group.                                                      *)
RunOK(s) ==
    /\ run[s].step \notin {"idle", "claim"} => run[s].alert \in Alerts
    /\ run[s].step = "finish" =>
        /\ run[s].outcome \in Results
        /\ run[s].outcome = "delivered" => run[s].alert \in proven
    /\ (\/ run[s].step \in {"gate", "guarded", "abort"}
        \/ (run[s].step = "finish" /\ run[s].outcome = "rejected"))
        => (Holds(s, "sending") => run[s].alert \notin risky)
RunsOK == \A s \in Services : RunOK(s)

IInv == Typed /\ RowsOK /\ RunsOK
-----------------------------------------------------------------------------
(* One row and its attempts.                                                     *)

\* The pause grows with the attempts, as far as MaxDelay.
LEMMA BackoffType ==
    ASSUME NEW n \in Nat \ {0}
    PROVE  Backoff(n) \in 0..MaxDelay
<1>1. PICK k : k = Least(n - 1, 6)
    OBVIOUS
<1>2. k \in 0..6
    BY <1>1 DEF Least
<1>3. 2^k \in Nat
    <2>1. 2^0 \in Nat /\ 2^1 \in Nat /\ 2^2 \in Nat /\ 2^3 \in Nat
        OBVIOUS
    <2>2. 2^4 \in Nat /\ 2^5 \in Nat /\ 2^6 \in Nat
        OBVIOUS
    <2>3. k = 0 \/ k = 1 \/ k = 2 \/ k = 3 \/ k = 4 \/ k = 5 \/ k = 6
        BY <1>2
    <2> QED  BY <2>1, <2>2, <2>3
<1>4. PICK m \in Nat : m = 2^k
    BY <1>3
<1>5. Backoff(n) = Least(MaxDelay, m)
    BY <1>1, <1>4 DEF Backoff
<1> QED  BY <1>5, BoundsAssumption DEF Least

LEMMA Few ==
    ASSUME NEW seq \in Seq(Attempt), NEW d \in Nat
    PROVE  IsFiniteSet(Refused(seq, d)) /\ Cardinality(Refused(seq, d)) \in Nat
<1>1. IsFiniteSet(d + 1..Len(seq))
    BY FS_Interval
<1>2. IsFiniteSet(Refused(seq, d))
    BY <1>1, FS_Subset DEF Refused
<1> QED  BY <1>2, FS_CardinalityType

LEMMA NoAttempts ==
    ASSUME NEW d \in Nat
    PROVE  <<>> \in Seq(Attempt) /\ Len(<<>>) = 0 /\ Cardinality(Refused(<<>>, d)) = 0
<1>1. Refused(<<>>, d) = {}
    BY DEF Refused
<1> QED  BY <1>1, FS_EmptySet

\* A row that is not being called passes between queued and leased.
LEMMA FitsWaiting ==
    ASSUME NEW r \in Row, NEW q \in Row, NEW seq \in Seq(Attempt), NEW d \in Nat, Fits(r, seq, d),
           r.status \in {"pending", "leased"}, q.status \in {"pending", "leased"},
           q.token # None <=> q.status = "leased", q.limit = r.limit
    PROVE  Fits(q, seq, d)
BY DEF Fits

LEMMA FitsSame ==
    ASSUME NEW r, NEW q, NEW seq, NEW d, Fits(r, seq, d),
           q.status = r.status, q.token = r.token, q.limit = r.limit
    PROVE  Fits(q, seq, d)
BY DEF Fits

\* A call begins: its attempt is the last one, and open.
LEMMA FitsBegun ==
    ASSUME NEW r \in Row, NEW q \in Row, NEW seq \in Seq(Attempt), NEW d \in Nat, Fits(r, seq, d),
           r.status = "leased", q.status = "sending", q.token # None, q.limit = r.limit
    PROVE  Fits(q, Append(seq, "sending"), d) /\ Append(seq, "sending") \in Seq(Attempt)
<1> DEFINE more == Append(seq, "sending")
<1>1. /\ more \in Seq(Attempt) /\ Len(more) = Len(seq) + 1 /\ more[Len(seq) + 1] = "sending"
      /\ \A i \in 1..Len(seq) : more[i] = seq[i]
    BY DEF Attempt
<1>2. Len(seq) \in Nat /\ d <= Len(seq)
    BY DEF Fits
<1> HIDE DEF more
<1>3. Refused(more, d) = Refused(seq, d)
    BY <1>1, <1>2 DEF Refused
<1>4. \A i \in 1..Len(more) : more[i] = "sending" <=> i = Len(more)
    <2>1. \A i \in 1..Len(seq) : seq[i] # "sending"
        BY DEF Fits
    <2> QED  BY <1>1, <1>2, <2>1
<1>5. Cardinality(Refused(seq, d)) \in Nat /\ AttemptLimit \in Nat
    BY Few, BoundsAssumption
<1>6. Fits(q, more, d)
    <2>1. Cardinality(Refused(seq, d)) < AttemptLimit
          /\ r.limit = AttemptLimit + Len(seq) - Cardinality(Refused(seq, d))
        BY DEF Fits
    <2> QED  BY <1>1, <1>2, <1>3, <1>4, <1>5, <2>1 DEF Fits
<1> QED  BY <1>1, <1>6 DEF more

\* The open attempt of a row ends.
LEMMA Closing ==
    ASSUME NEW r \in Row, NEW seq \in Seq(Attempt), NEW d \in Nat, Fits(r, seq, d), r.status = "sending",
           NEW o \in Attempt \ {"sending"}
    PROVE  /\ Closed(seq, o) \in Seq(Attempt) /\ Len(Closed(seq, o)) = Len(seq)
           /\ Len(seq) \in Nat \ {0} /\ d < Len(seq)
           /\ \A i \in 1..Len(seq) : Closed(seq, o)[i] # "sending"
           /\ Cardinality(Refused(Closed(seq, o), d)) =
                Cardinality(Refused(seq, d)) + (IF o = "rejected" THEN 1 ELSE 0)
<1> DEFINE end == Closed(seq, o)
           n == Len(seq)
<1>1. n \in Nat \ {0} /\ d < n /\ seq[n] = "sending" /\ \A i \in 1..n : seq[i] = "sending" <=> i = n
    BY DEF Fits
<1>2. end \in Seq(Attempt) /\ Len(end) = n /\ end[n] = o /\ \A i \in 1..n : i # n => end[i] = seq[i]
    BY <1>1 DEF Closed
<1> HIDE DEF end, n
<1>3. \A i \in 1..n : end[i] # "sending"
    BY <1>1, <1>2
<1>4. CASE o = "rejected"
    <2>1. Refused(end, d) = Refused(seq, d) \cup {n} /\ n \notin Refused(seq, d)
        BY <1>1, <1>2, <1>4 DEF Refused, n
    <2>2. IsFiniteSet(Refused(seq, d)) /\ Cardinality(Refused(seq, d)) \in Nat
        BY Few
    <2>3. Cardinality(Refused(end, d)) = Cardinality(Refused(seq, d)) + 1
        BY ONLY <2>1, <2>2, FS_AddElement
    <2> QED  BY ONLY <1>1, <1>2, <1>3, <1>4, <2>3 DEF n, end
<1>5. CASE o # "rejected"
    <2>1. Refused(end, d) = Refused(seq, d)
        BY <1>1, <1>2, <1>5 DEF Refused, n
    <2> QED  BY <1>1, <1>2, <1>3, <1>5, <2>1, Few DEF n, end
<1> QED  BY <1>4, <1>5

\* An attempt that is called off raises the limit, one that is refused counts against it,
\* and one that is unknown or delivered leaves the queue.
LEMMA FitsEnded ==
    ASSUME NEW r \in Row, NEW q \in Row, NEW seq \in Seq(Attempt), NEW d \in Nat, Fits(r, seq, d),
           r.status = "sending", NEW o \in Attempt \ {"sending"}, q.token = None,
           \/ o = "not_sent" /\ q.status = "pending" /\ q.limit = r.limit + 1
           \/ /\ o = "rejected" /\ q.limit = r.limit
              /\ q.status = IF Len(seq) >= r.limit THEN "exhausted" ELSE "pending"
           \/ o \in {"delivered", "delivery_unknown"} /\ q.status = o
    PROVE  Fits(q, Closed(seq, o), d)
<1> DEFINE n == Cardinality(Refused(seq, d))
           m == Cardinality(Refused(Closed(seq, o), d))
<1>1. n < AttemptLimit /\ r.limit = AttemptLimit + Len(seq) - 1 - n
    BY DEF Fits
<1>2. /\ Len(Closed(seq, o)) = Len(seq) /\ Len(seq) \in Nat /\ d < Len(seq)
      /\ \A i \in 1..Len(seq) : Closed(seq, o)[i] # "sending"
      /\ m = n + (IF o = "rejected" THEN 1 ELSE 0)
    BY Closing
<1>3. n \in Nat /\ AttemptLimit \in Nat
    BY Few, BoundsAssumption
<1>4. q.status # "none" /\ q.status # "leased" /\ q.status # "sending"
    BY DEF Results
<1> HIDE DEF n
<1>5. /\ q.status = "pending" => m < AttemptLimit /\ q.limit = AttemptLimit + Len(seq) - m
      /\ q.status = "exhausted" => m = AttemptLimit
      /\ q.status \in {"delivered", "delivery_unknown"} => m < AttemptLimit
    <2>1. CASE o = "not_sent" /\ q.status = "pending" /\ q.limit = r.limit + 1
        BY <1>1, <1>2, <1>3, <2>1
    <2>2. CASE /\ o = "rejected" /\ q.limit = r.limit
               /\ q.status = IF Len(seq) >= r.limit THEN "exhausted" ELSE "pending"
        BY <1>1, <1>2, <1>3, <2>2
    <2>3. CASE o \in {"delivered", "delivery_unknown"} /\ q.status = o
        BY <1>1, <1>2, <1>3, <2>3
    <2> QED  BY <2>1, <2>2, <2>3
<1> HIDE DEF m
<1>6. d <= Len(seq)
    BY <1>2
<1> QED  BY <1>2, <1>4, <1>5, <1>6 DEF Fits, m

\* The operator decides: the attempts so far are forgotten.
LEMMA FitsDecided ==
    ASSUME NEW r \in Row, NEW q \in Row, NEW seq \in Seq(Attempt), NEW d \in Nat, Fits(r, seq, d),
           r.status \in {"delivery_unknown", "exhausted"}, q.token = None,
           q.status \in {"pending", "delivered"}, q.limit = Len(seq) + AttemptLimit
    PROVE  Fits(q, seq, Len(seq))
<1>1. Len(seq) \in Nat /\ \A i \in 1..Len(seq) : seq[i] # "sending"
    BY DEF Fits
<1>2. Refused(seq, Len(seq)) = {} /\ Cardinality({}) = 0
    BY <1>1, FS_EmptySet DEF Refused
<1>3. AttemptLimit \in Nat \ {0}
    BY BoundsAssumption
<1> QED  BY <1>1, <1>2, <1>3 DEF Fits

-----------------------------------------------------------------------------
(* The state.                                                                    *)

Callers ==
    /\ run \in [Services -> Run] /\ worker \in [Services -> {"none", "sleep", "pass", "busy"}]
    /\ place \in [Handlers -> {"new", "queued", "runs", "done"}]
Stored == row \in [Alerts -> Row] /\ attempts \in [Alerts -> Seq(Attempt)] /\ since \in [Alerts -> Nat]

\* One row changes, with its attempts and what the operator has seen of them.
LEMMA OneRow ==
    ASSUME Stored, RowsOK, NEW a \in Alerts, NEW r \in Row, NEW seq \in Seq(Attempt), NEW d \in Nat,
           row' = [row EXCEPT ![a] = r], attempts' = [attempts EXCEPT ![a] = seq],
           since' = [since EXCEPT ![a] = d], Fits(r, seq, d),
           r.status = "delivered" => a \in proven',
           r.status \in {"none", "pending", "leased", "exhausted"} => a \notin risky',
           proven \subseteq proven', \A b \in Alerts : b # a /\ b \in risky' => b \in risky
    PROVE  Stored' /\ RowsOK'
<1>1. row' = [b \in Alerts |-> IF b = a THEN r ELSE row[b]]
      /\ attempts' = [b \in Alerts |-> IF b = a THEN seq ELSE attempts[b]]
      /\ since' = [b \in Alerts |-> IF b = a THEN d ELSE since[b]]
    BY DEF Stored
<1>2. Stored'
    BY <1>1 DEF Stored
<1>3. ASSUME NEW b \in Alerts
      PROVE  /\ Fits(row'[b], attempts'[b], since'[b])
             /\ row'[b].status = "delivered" => b \in proven'
             /\ row'[b].status \in {"none", "pending", "leased", "exhausted"} => b \notin risky'
    <2>1. CASE b = a
        BY <1>1, <2>1
    <2>2. CASE b # a
        <3>1. row'[b] = row[b] /\ attempts'[b] = attempts[b] /\ since'[b] = since[b]
            BY <1>1, <2>2
        <3>2. /\ Fits(row[b], attempts[b], since[b])
              /\ row[b].status = "delivered" => b \in proven
              /\ row[b].status \in {"none", "pending", "leased", "exhausted"} => b \notin risky
            BY DEF RowsOK
        <3> QED  BY <2>2, <3>1, <3>2
    <2> QED  BY <2>1, <2>2
<1>4. \A b \in Alerts : Fits(row[b], attempts[b], since[b])'
    BY <1>3
<1>5. RowsOK'
    BY <1>3 DEF RowsOK, Fits
<1> QED  BY <1>2, <1>5

\* A row that is being sent by a run that the step leaves alone was so before.
Unmoved(u) ==
    \A b \in Alerts : row'[b].status = "sending" /\ row'[b].token # u =>
        row[b].status = "sending" /\ row'[b].token = row[b].token /\ (b \in risky' => b \in risky)
LEMMA RunsStay ==
    ASSUME Callers, RunsOK, NEW u, u \in Services => RunOK(u)',
           \A s \in Services : s # u => run'[s] = run[s], proven \subseteq proven', Unmoved(u)
    PROVE  RunsOK'
<1> SUFFICES ASSUME NEW s \in Services, s # u  PROVE RunOK(s)'
    BY DEF RunsOK
<1>1. run'[s] = run[s] /\ RunOK(s)
    BY DEF RunsOK
<1>2. run[s].step \notin {"idle", "claim"} => run[s].alert \in Alerts
    BY <1>1 DEF RunOK
<1>3. run[s].alert \in Alerts /\ Holds(s, "sending")' =>
        Holds(s, "sending") /\ (run[s].alert \in risky' => run[s].alert \in risky)
    BY <1>1 DEF Holds, Unmoved
<1> QED  BY <1>1, <1>2, <1>3 DEF RunOK

\* A run that is over, or looks for its next row, knows nothing.
LEMMA RunFree ==
    ASSUME NEW s \in Services, run'[s].step \in {"idle", "claim"}
    PROVE  RunOK(s)'
BY DEF RunOK

LEMMA IdleRun == Idle \in Run /\ Idle.step = "idle" /\ Idle.alert = None /\ Idle.by = None
<1>1. Batch \in Nat
    BY BoundsAssumption
<1> QED  BY <1>1 DEF Idle, Run, Steps

\* A run ends or goes on to its next row.
LEMMA Ending ==
    ASSUME Callers, NEW s \in Services, EndRun(s) \/ GoesOn(s)
    PROVE  /\ Callers' /\ run'[s].step \in {"idle", "claim"}
           /\ \A u \in Services : u # s => run'[u] = run[u]
<1>1. run[s] \in Run /\ run[s].by \in Handlers \cup {None}
    BY DEF Callers, Run
<1>2. CASE EndRun(s)
    <2>1. run' = [run EXCEPT ![s] = Idle]
        BY <1>2 DEF EndRun
    <2>2. worker' \in [Services -> {"none", "sleep", "pass", "busy"}]
          /\ place' \in [Handlers -> {"new", "queued", "runs", "done"}]
        BY <1>1, <1>2 DEF EndRun, Callers
    <2> QED  BY <2>1, <2>2, IdleRun DEF Callers
<1>3. CASE GoesOn(s) /\ ~EndRun(s)
    <2>1. run[s].left > 1 /\ UNCHANGED <<place, worker>>
          /\ run' = [run EXCEPT ![s] = [@ EXCEPT !.step = "claim", !.left = run[s].left - 1, !.alert = None,
                                                 !.outcome = None]]
        BY <1>3 DEF GoesOn
    <2>2. PICK r : r = [run[s] EXCEPT !.step = "claim", !.left = run[s].left - 1, !.alert = None,
                                    !.outcome = None]
        OBVIOUS
    <2>3. run[s].left - 1 \in 0..Batch
        BY <1>1, <2>1, BoundsAssumption DEF Run
    <2>4. r \in Run /\ r.step = "claim"
        BY <1>1, <2>2, <2>3 DEF Run, Steps
    <2>5. run' = [run EXCEPT ![s] = r]
        BY <2>1, <2>2
    <2> QED  BY <2>1, <2>4, <2>5 DEF Callers
<1> QED  BY <1>2, <1>3

LEMMA Going ==
    ASSUME Callers, NEW s \in Services, NEW step \in Steps, Goes(s, step)
    PROVE  /\ Callers' /\ run'[s].step = step /\ run'[s].alert = run[s].alert
           /\ run'[s].outcome = run[s].outcome
           /\ \A u \in Services : u # s => run'[u] = run[u]
<1>1. run[s] \in Run
    BY DEF Callers
<1>2. PICK r : r = [run[s] EXCEPT !.step = step]
    OBVIOUS
<1>3. r \in Run /\ r.step = step /\ r.alert = run[s].alert /\ r.outcome = run[s].outcome
    BY <1>1, <1>2 DEF Run
<1>4. run' = [run EXCEPT ![s] = r] /\ UNCHANGED <<place, worker>>
    BY <1>2 DEF Goes
<1> QED  BY <1>3, <1>4 DEF Callers

\* The outcome of a call is saved in the row its run still holds.
LEMMA Saving ==
    ASSUME Stored, RowsOK, NEW s \in Services, run[s].alert \in Alerts, NEW o \in Results, Saves(s, o),
           UNCHANGED <<since, proven, risky>>,
           Holds(s, "sending") => /\ o = "delivered" => run[s].alert \in proven
                                  /\ o = "rejected" => run[s].alert \notin risky
    PROVE  /\ Stored' /\ RowsOK'
           /\ \A b \in Alerts : row'[b] # row[b] => /\ b = run[s].alert /\ row[b].token = s
                                                    /\ row'[b].status # "sending"
<1> DEFINE a == run[s].alert
<1>1. CASE ~Holds(s, "sending")
    <2>1. UNCHANGED <<row, attempts>>
        BY <1>1 DEF Saves, ledger
    <2>2. Stored' /\ \A b \in Alerts : row'[b] = row[b]
        BY <2>1 DEF Stored
    <2>3. \A b \in Alerts : Fits(row[b], attempts[b], since[b])'
        BY <2>1 DEF RowsOK, Fits
    <2>4. RowsOK'
        BY <2>1, <2>3 DEF RowsOK
    <2> QED  BY <2>2, <2>4
<1>2. CASE Holds(s, "sending")
    <2>1. /\ row[a] \in Row /\ attempts[a] \in Seq(Attempt) /\ since[a] \in Nat
          /\ row[a].status = "sending" /\ row[a].token = s /\ Fits(row[a], attempts[a], since[a])
        BY <1>2 DEF Stored, RowsOK, Holds
    <2>2. PICK n : n = Len(attempts[a])
        OBVIOUS
    <2>3. n \in Nat \ {0} /\ o \in Attempt \ {"sending"}
        BY <2>1, <2>2, Closing DEF Results, Attempt
    <2>4. PICK q : q = FinishedRow(row[a], o, n)
        OBVIOUS
    <2>5. PICK seq : seq = Closed(attempts[a], o)
        OBVIOUS
    <2>6. row' = [row EXCEPT ![a] = q] /\ attempts' = [attempts EXCEPT ![a] = seq]
        BY <1>2, <2>1, <2>2, <2>4, <2>5 DEF Saves
    <2>7. /\ q \in Row /\ q.token = None
          /\ o = "rejected" => /\ q.limit = row[a].limit
                               /\ q.status = IF n >= row[a].limit THEN "exhausted" ELSE "pending"
          /\ o # "rejected" => q.status = o
        <3>1. PICK wait \in 0..MaxDelay : wait = Backoff(n)
            BY <2>3, BackoffType
        <3>2. PICK status \in Statuses :
                /\ q = [row[a] EXCEPT !.status = status, !.token = None, !.lease = 0, !.wait = wait]
                /\ o = "rejected" => status = IF n >= row[a].limit THEN "exhausted" ELSE "pending"
                /\ o # "rejected" => status = o
            <4>1. CASE o = "rejected"
                <5>1. PICK status \in Statuses : status = IF n >= row[a].limit THEN "exhausted" ELSE "pending"
                    BY DEF Statuses
                <5> QED  BY <2>4, <3>1, <4>1, <5>1 DEF FinishedRow, AfterRejection, Freed
            <4>2. CASE o # "rejected"
                BY <2>4, <3>1, <4>2 DEF FinishedRow, Freed, Statuses, Results
            <4> QED  BY <4>1, <4>2
        <3>3. 0 \in 0..Lease
            BY BoundsAssumption
        <3> QED  BY <2>1, <3>2, <3>3 DEF Row
    <2>8. seq \in Seq(Attempt)
        BY <2>1, <2>3, <2>5, Closing
    <2>9. Fits(q, seq, since[a])
        <3>1. \/ /\ o = "rejected" /\ q.limit = row[a].limit
                 /\ q.status = IF Len(attempts[a]) >= row[a].limit THEN "exhausted" ELSE "pending"
              \/ o \in {"delivered", "delivery_unknown"} /\ q.status = o
            BY <2>2, <2>7 DEF Results
        <3> QED  BY <2>1, <2>3, <2>5, <2>7, <3>1, FitsEnded
    <2>10. PICK d \in Nat : d = since[a]
        BY <2>1
    <2>11. since' = [since EXCEPT ![a] = d]
        BY <2>10 DEF Stored
    <2>12. q.status = "delivered" => a \in proven'
        BY <1>2, <2>7
    <2>13. q.status \in {"none", "pending", "leased", "exhausted"} => a \notin risky'
        BY <1>2, <2>7 DEF Results
    <2>14. Stored' /\ RowsOK'
        BY <2>6, <2>7, <2>8, <2>9, <2>10, <2>11, <2>12, <2>13, OneRow
    <2>15. q.status # "sending"
        BY <2>7 DEF Results
    <2> QED  BY <2>1, <2>6, <2>14, <2>15 DEF Stored
<1> QED  BY <1>1, <1>2

Counted ==
    /\ enabled \in BOOLEAN /\ flips \in 0..MaxFlips
    /\ accepting \in [Services -> BOOLEAN] /\ restarts \in 0..MaxRestarts
    /\ stalls \in 0..MaxStalls /\ decisions \in 0..MaxDecisions
    /\ proven \in SUBSET Alerts /\ risky \in SUBSET Alerts
LEMMA Parts == IInv => Stored /\ Callers /\ Counted /\ RowsOK /\ RunsOK
BY DEF IInv, Typed, Stored, Callers, Counted
LEMMA Whole ==
    ASSUME Stored', Callers', Counted', RowsOK', RunsOK'
    PROVE  IInv'
BY DEF IInv, Typed, Stored, Callers, Counted

LEMMA RowsStay ==
    ASSUME Stored, RowsOK, UNCHANGED <<row, attempts, since>>, proven \subseteq proven',
           \A b \in Alerts : b \in risky' => b \in risky \/ row[b].status = "sending"
    PROVE  Stored' /\ RowsOK'
<1>1. \A b \in Alerts : Fits(row[b], attempts[b], since[b])'
    BY DEF RowsOK, Fits
<1> QED  BY <1>1 DEF Stored, RowsOK

-----------------------------------------------------------------------------
(* The steps of the ledger and of the runs.                                      *)

LEMMA EnqueueStep ==
    ASSUME IInv, NEW h \in Handlers, Enqueue(h)
    PROVE  IInv'
<1> DEFINE a == AlertOf[h]
<1>1. Stored /\ Callers /\ Counted /\ RowsOK /\ RunsOK /\ a \in Alerts
    BY Parts, AlertsAssumption
<1>2. UNCHANGED <<attempts, since, proven, risky, run, worker>> /\ Counted'
    BY <1>1 DEF Enqueue, Counted, switch, life, operator, known
<1>3. Callers'
    BY <1>1, <1>2 DEF Enqueue, Callers
<1>4. CASE UNCHANGED row
    <2>1. Stored' /\ RowsOK'
        BY <1>1, <1>2, <1>4, RowsStay
    <2>2. Unmoved(None) /\ None \notin Services
        BY <1>2, <1>4, AlertsAssumption DEF Unmoved
    <2>3. RunsOK'
        BY <1>1, <1>2, <2>2, RunsStay
    <2> QED  BY <1>2, <1>3, <2>1, <2>3, Whole
<1>5. CASE Enqueues(a) /\ row' = [row EXCEPT ![a] = [NoRow EXCEPT !.status = "pending"]]
    <2>1. PICK q : q = [NoRow EXCEPT !.status = "pending"]
        OBVIOUS
    <2>2. q \in Row /\ q.status = "pending" /\ q.token = None /\ q.limit = AttemptLimit
        BY <2>1, BoundsAssumption DEF NoRow, Row, Statuses
    <2>3. row[a].status = "none" /\ Fits(row[a], attempts[a], since[a]) /\ a \notin risky
          /\ attempts[a] \in Seq(Attempt) /\ since[a] \in Nat
        BY <1>1, <1>5 DEF Enqueues, RowsOK, Stored
    <2>4. PICK seq \in Seq(Attempt) : seq = attempts[a]
        BY <2>3
    <2>5. PICK d \in Nat : d = since[a]
        BY <2>3
    <2>6. seq = <<>> /\ d <= Len(seq)
        BY <2>3, <2>4, <2>5 DEF Fits
    <2>7. Fits(q, seq, d)
        <3>1. AttemptLimit \in Nat \ {0} /\ Len(seq) = 0 /\ Cardinality(Refused(seq, d)) = 0
            BY <2>6, NoAttempts, BoundsAssumption
        <3> QED  BY <2>2, <2>6, <3>1 DEF Fits
    <2>8. row' = [row EXCEPT ![a] = q] /\ attempts' = [attempts EXCEPT ![a] = seq]
          /\ since' = [since EXCEPT ![a] = d]
        BY <1>1, <1>2, <1>5, <2>1, <2>4, <2>5 DEF Stored
    <2>9. Stored' /\ RowsOK'
        BY <1>1, <1>2, <2>2, <2>3, <2>7, <2>8, OneRow
    <2>10. Unmoved(None) /\ None \notin Services
        BY <1>1, <1>2, <2>2, <2>8, AlertsAssumption DEF Unmoved, Stored
    <2>11. RunsOK'
        BY <1>1, <1>2, <2>10, RunsStay
    <2> QED  BY <1>2, <1>3, <2>9, <2>11, Whole
<1> QED  BY <1>4, <1>5 DEF Enqueue

\* A step that leaves the ledger and every run but that of u alone.
LEMMA Moving ==
    ASSUME IInv, NEW u, u \in Services => RunOK(u)', \A s \in Services : s # u => run'[s] = run[s],
           Callers', Counted', UNCHANGED <<row, attempts, since, proven, risky>>
    PROVE  IInv'
<1>1. Stored /\ Callers /\ RowsOK /\ RunsOK
    BY Parts
<1>2. Stored' /\ RowsOK'
    BY <1>1, RowsStay
<1>3. RunsOK'
    <2>1. Unmoved(u)
        BY DEF Unmoved
    <2> QED  BY <1>1, <2>1, RunsStay
<1> QED  BY <1>2, <1>3, Whole

LEMMA StartStep ==
    ASSUME IInv, \/ \E h \in Handlers : Deliver(h)
                 \/ \E s \in Services : WorkerDelivers(s)
    PROVE  IInv'
<1>1. Callers /\ Counted
    BY Parts
<1>2. PICK s \in Services, by \in Handlers \cup {None}, left \in 0..Batch : StartRun(s, by, left)
    <2>1. 1 \in 0..Batch /\ Batch \in 0..Batch /\ \A h \in Handlers : Home[h] \in Services
        BY BoundsAssumption, AlertsAssumption
    <2> QED  BY <2>1 DEF Deliver, WorkerDelivers
<1>3. PICK r \in Run : r.step = "claim" /\ r = [Idle EXCEPT !.step = "claim", !.by = by, !.left = left]
    BY IdleRun DEF Run, Idle, Steps
<1>4. run' = run \/ run' = [run EXCEPT ![s] = r]
    BY <1>2, <1>3 DEF StartRun
<1>5. UNCHANGED <<row, attempts, since, proven, risky>> /\ Counted'
    BY <1>1 DEF Deliver, WorkerDelivers, ledger, operator, known, Counted, switch, life
<1>6. Callers'
    <2>1. run' \in [Services -> Run]
        BY <1>1, <1>3, <1>4 DEF Callers
    <2>2. worker' \in [Services -> {"none", "sleep", "pass", "busy"}]
        BY <1>1 DEF Callers, Deliver, WorkerDelivers
    <2>3. place' \in [Handlers -> {"new", "queued", "runs", "done"}]
        BY <1>1 DEF Callers, Deliver, WorkerDelivers
    <2> QED  BY <2>1, <2>2, <2>3 DEF Callers
<1>7. CASE run' = run
    BY <1>5, <1>6, <1>7, Moving, AlertsAssumption
<1>8. CASE run' = [run EXCEPT ![s] = r]
    <2>1. run'[s].step = "claim" /\ \A u \in Services : u # s => run'[u] = run[u]
        BY <1>1, <1>3, <1>8 DEF Callers
    <2>2. RunOK(s)'
        BY <2>1, RunFree
    <2> QED  BY <1>5, <1>6, <2>1, <2>2, Moving
<1> QED  BY <1>4, <1>7, <1>8

\* A row after the lapsed leases are recovered.
LEMMA Recovering ==
    ASSUME Stored, RowsOK, NEW b \in Alerts
    PROVE  /\ Recovered(b) \in Row /\ RecoveredAttempts[b] \in Seq(Attempt)
           /\ Fits(Recovered(b), RecoveredAttempts[b], since[b])
           /\ Recovered(b) = row[b] \/ (row[b].lease = 0 /\ Recovered(b).token = None)
           /\ Recovered(b).status = "sending" => Recovered(b) = row[b]
           /\ Recovered(b).status = "delivered" => row[b].status = "delivered"
           /\ Recovered(b).status \in {"none", "pending", "leased", "exhausted"} =>
                row[b].status \in {"none", "pending", "leased", "exhausted"}
<1>1. /\ row[b] \in Row /\ attempts[b] \in Seq(Attempt) /\ since[b] \in Nat
      /\ Fits(row[b], attempts[b], since[b]) /\ row[b].wait \in 0..MaxDelay /\ 0 \in 0..Lease
    BY BoundsAssumption DEF Stored, RowsOK, Row
<1>2. CASE row[b].status = "leased" /\ Lapsed(b)
    <2>1. PICK q : q = [row[b] EXCEPT !.status = "pending", !.token = None, !.lease = 0, !.wait = row[b].wait]
        OBVIOUS
    <2>2. q \in Row /\ q.status = "pending" /\ q.token = None /\ q.limit = row[b].limit
        BY <1>1, <2>1 DEF Row, Statuses
    <2>3. Recovered(b) = q /\ RecoveredAttempts[b] = attempts[b]
        BY <1>2, <2>1 DEF Recovered, RecoveredAttempts, Freed
    <2>4. Fits(q, attempts[b], since[b])
        BY <1>1, <1>2, <2>2, FitsWaiting
    <2> QED  BY <1>1, <1>2, <2>2, <2>3, <2>4 DEF Lapsed
<1>3. CASE row[b].status = "sending" /\ Lapsed(b)
    <2>1. PICK q : q = [row[b] EXCEPT !.status = "delivery_unknown", !.token = None, !.lease = 0, !.wait = row[b].wait]
        OBVIOUS
    <2>2. q \in Row /\ q.status = "delivery_unknown" /\ q.token = None /\ q.limit = row[b].limit
        BY <1>1, <2>1 DEF Row, Statuses
    <2>3. Recovered(b) = q /\ RecoveredAttempts[b] = Closed(attempts[b], "delivery_unknown")
        BY <1>3, <2>1 DEF Recovered, RecoveredAttempts, Freed
    <2>4. "delivery_unknown" \in Attempt \ {"sending"}
        BY DEF Attempt, Results
    <2>5. Closed(attempts[b], "delivery_unknown") \in Seq(Attempt)
        BY <1>1, <1>3, <2>4, Closing
    <2>6. Fits(q, Closed(attempts[b], "delivery_unknown"), since[b])
        BY <1>1, <1>3, <2>2, <2>4, FitsEnded
    <2> QED  BY <1>3, <2>2, <2>3, <2>5, <2>6 DEF Lapsed
<1>4. CASE ~(row[b].status \in {"leased", "sending"} /\ Lapsed(b))
    <2>1. Recovered(b) = row[b] /\ RecoveredAttempts[b] = attempts[b]
        BY <1>4 DEF Recovered, RecoveredAttempts
    <2> QED  BY <1>1, <2>1
<1> QED  BY <1>2, <1>3, <1>4

LEMMA RecoverStep ==
    ASSUME IInv, NEW s \in Services, WorkerRecovers(s)
    PROVE  IInv'
<1>1. Stored /\ Callers /\ Counted /\ RowsOK /\ RunsOK
    BY Parts
<1>2. UNCHANGED <<since, proven, risky, run>> /\ Counted' /\ Callers'
    BY <1>1 DEF WorkerRecovers, Counted, Callers, switch, life, operator, known
<1>3. /\ row' = [b \in Alerts |-> Recovered(b)] /\ attempts' = RecoveredAttempts
    BY DEF WorkerRecovers
<1>4. Stored'
    <2>1. \A b \in Alerts : Recovered(b) \in Row /\ RecoveredAttempts[b] \in Seq(Attempt)
        BY <1>1, Recovering
    <2>2. RecoveredAttempts = [b \in Alerts |-> RecoveredAttempts[b]]
        BY DEF RecoveredAttempts
    <2>3. RecoveredAttempts \in [Alerts -> Seq(Attempt)]
        BY <2>1, <2>2
    <2> QED  BY <1>1, <1>2, <1>3, <2>1, <2>3 DEF Stored
<1>5. \A b \in Alerts : row'[b] = Recovered(b) /\ attempts'[b] = RecoveredAttempts[b] /\ since'[b] = since[b]
    BY <1>2, <1>3
<1>6. RowsOK'
    <2>1. \A b \in Alerts : Fits(row'[b], attempts'[b], since'[b])
        BY <1>1, <1>5, Recovering
    <2>2. \A b \in Alerts : Fits(row[b], attempts[b], since[b])'
        BY <2>1 DEF Fits
    <2>3. \A b \in Alerts : /\ row'[b].status = "delivered" => b \in proven
                            /\ row'[b].status \in {"none", "pending", "leased", "exhausted"} => b \notin risky
        BY <1>1, <1>5, Recovering DEF RowsOK
    <2> QED  BY <1>2, <2>2, <2>3 DEF RowsOK
<1>7. Unmoved(None) /\ None \notin Services
    BY <1>1, <1>2, <1>5, Recovering, AlertsAssumption DEF Unmoved
<1>8. RunsOK'
    BY <1>1, <1>2, <1>7, RunsStay
<1> QED  BY <1>2, <1>4, <1>6, <1>8, Whole

\* The run of s goes to a step and knows what it must.
LEMMA GoesStep ==
    ASSUME IInv, NEW s \in Services, NEW step \in Steps, Goes(s, step), run[s].alert \in Alerts,
           step # "finish",
           step \in {"gate", "guarded", "abort"} => (Holds(s, "sending") => run[s].alert \notin risky),
           Counted', UNCHANGED <<row, attempts, since, proven, risky>>
    PROVE  IInv'
<1>1. Callers
    BY Parts
<1>2. /\ Callers' /\ run'[s].step = step /\ run'[s].alert = run[s].alert
      /\ \A u \in Services : u # s => run'[u] = run[u]
    BY <1>1, Going
<1>3. RunOK(s)'
    BY <1>2 DEF RunOK, Holds
<1> QED  BY <1>2, <1>3, Moving

LEMMA JudgeStep ==
    ASSUME IInv, NEW s \in Services, Check(s) \/ Gate(s)
    PROVE  IInv'
<1>1. Counted' /\ UNCHANGED <<row, attempts, since, proven, risky>>
    BY Parts DEF Counted, Check, Gate, switch, life, ledger, operator, known
<1>2. run[s].alert \in Alerts /\ RunOK(s)
    BY Parts DEF RunsOK, RunOK, Check, Gate
<1>3. CASE Check(s)
    <2>1. PICK step \in {"begin", "release"} : Goes(s, step)
        BY <1>3 DEF Check
    <2> QED  BY <1>1, <1>2, <2>1, GoesStep DEF Steps
<1>4. CASE Gate(s)
    <2>1. PICK step \in {"guarded", "abort"} : Goes(s, step)
        BY <1>4 DEF Gate
    <2>2. Holds(s, "sending") => run[s].alert \notin risky
        BY <1>2, <1>4 DEF Gate, RunOK
    <2> QED  BY <1>1, <1>2, <2>1, <2>2, GoesStep DEF Steps
<1> QED  BY <1>3, <1>4

\* A run leaves its row, and goes on or ends.
LEMMA LeavesStep ==
    ASSUME IInv, NEW s \in Services, EndRun(s) \/ GoesOn(s), Stored', RowsOK', Counted',
           proven \subseteq proven', Unmoved(s)
    PROVE  IInv'
<1>1. Callers /\ RunsOK
    BY Parts
<1>2. /\ Callers' /\ run'[s].step \in {"idle", "claim"}
      /\ \A u \in Services : u # s => run'[u] = run[u]
    BY <1>1, Ending
<1>3. RunOK(s)'
    BY <1>2, RunFree
<1>4. RunsOK'
    BY <1>1, <1>2, <1>3, RunsStay
<1> QED  BY <1>2, <1>4, Whole

LEMMA ReleaseStep ==
    ASSUME IInv, NEW s \in Services, Release(s)
    PROVE  IInv'
<1> DEFINE a == run[s].alert
<1>1. /\ Stored /\ Callers /\ Counted /\ RowsOK /\ RunsOK /\ a \in Alerts /\ EndRun(s)
      /\ UNCHANGED <<attempts, since, proven, risky>> /\ Counted'
    BY Parts DEF RunsOK, RunOK, Release, Counted, switch, life, operator, known
<1>2. CASE ~Holds(s, "leased")
    <2>1. UNCHANGED row
        BY <1>2 DEF Release
    <2>2. Stored' /\ RowsOK'
        BY <1>1, <2>1, RowsStay
    <2>3. Unmoved(s)
        BY <1>1, <2>1 DEF Unmoved
    <2> QED  BY <1>1, <2>2, <2>3, LeavesStep
<1>3. CASE Holds(s, "leased")
    <2>1. row[a] \in Row /\ row[a].status = "leased" /\ Fits(row[a], attempts[a], since[a]) /\ a \notin risky
        BY <1>1, <1>3 DEF Holds, Stored, RowsOK
    <2>2. PICK q : q = [row[a] EXCEPT !.status = "pending", !.token = None, !.lease = 0, !.wait = 1]
        OBVIOUS
    <2>3. q \in Row /\ q.status = "pending" /\ q.token = None /\ q.limit = row[a].limit
        <3>1. 1 \in 0..MaxDelay /\ 0 \in 0..Lease
            BY BoundsAssumption
        <3>2. row[a].limit \in Nat /\ row[a].limit + 1 \in Nat
            BY <2>1 DEF Row
        <3> QED  BY <2>1, <2>2, <3>1, <3>2 DEF Row, Statuses
    <2>4. row' = [row EXCEPT ![a] = q]
        BY <1>3, <2>2 DEF Release, Freed
    <2>5. PICK seq \in Seq(Attempt) : seq = attempts[a]
        BY <1>1 DEF Stored
    <2>6. PICK d \in Nat : d = since[a]
        BY <1>1 DEF Stored
    <2>7. attempts' = [attempts EXCEPT ![a] = seq] /\ since' = [since EXCEPT ![a] = d] /\ Fits(q, seq, d)
        BY <1>1, <2>1, <2>3, <2>5, <2>6, FitsWaiting DEF Stored
    <2>8. Stored' /\ RowsOK'
        BY <1>1, <2>1, <2>3, <2>4, <2>7, OneRow
    <2>9. Unmoved(s)
        BY <1>1, <2>3, <2>4 DEF Unmoved, Stored
    <2> QED  BY <1>1, <2>8, <2>9, LeavesStep
<1> QED  BY <1>2, <1>3

LEMMA BeginStep ==
    ASSUME IInv, NEW s \in Services, BeginSend(s)
    PROVE  IInv'
<1> DEFINE a == run[s].alert
<1>1. /\ Stored /\ Callers /\ Counted /\ RowsOK /\ RunsOK /\ a \in Alerts
      /\ UNCHANGED <<since, proven, risky>> /\ Counted'
    BY Parts DEF RunsOK, RunOK, BeginSend, Counted, switch, life, operator, known
<1>2. CASE ~Begins(s)
    <2>1. UNCHANGED <<row, attempts>> /\ GoesOn(s)
        BY <1>2 DEF BeginSend, ledger
    <2>2. Stored' /\ RowsOK'
        BY <1>1, <2>1, RowsStay
    <2>3. Unmoved(s)
        BY <1>1, <2>1 DEF Unmoved
    <2> QED  BY <1>1, <2>1, <2>2, <2>3, LeavesStep
<1>3. CASE Begins(s)
    <2>1. /\ row[a] \in Row /\ row[a].status = "leased" /\ row[a].token = s /\ a \notin risky
          /\ Fits(row[a], attempts[a], since[a]) /\ s # None
        BY <1>1, <1>3, AlertsAssumption DEF Begins, Holds, Stored, RowsOK
    <2>2. PICK q : q = [row[a] EXCEPT !.status = "sending"]
        OBVIOUS
    <2>3. q \in Row /\ q.status = "sending" /\ q.token = s /\ q.limit = row[a].limit
        BY <2>1, <2>2 DEF Row, Statuses
    <2>4. row' = [row EXCEPT ![a] = q] /\ Goes(s, "gate")
        BY <1>3, <2>2 DEF BeginSend
    <2>5. PICK old \in Seq(Attempt) : old = attempts[a]
        BY <1>1 DEF Stored
    <2>6. PICK d \in Nat : d = since[a]
        BY <1>1 DEF Stored
    <2>7. Fits(q, Append(old, "sending"), d) /\ Append(old, "sending") \in Seq(Attempt)
        BY <2>1, <2>3, <2>5, <2>6, FitsBegun
    <2>8. PICK seq \in Seq(Attempt) : seq = Append(old, "sending")
        BY <2>7
    <2>9. attempts' = [attempts EXCEPT ![a] = seq] /\ since' = [since EXCEPT ![a] = d] /\ Fits(q, seq, d)
        BY <1>1, <1>3, <2>5, <2>6, <2>7, <2>8 DEF Stored, BeginSend
    <2>10. Stored' /\ RowsOK'
        BY <1>1, <2>3, <2>4, <2>9, OneRow
    <2>11. Unmoved(s)
        BY <1>1, <2>3, <2>4 DEF Unmoved, Stored
    <2>12. /\ Callers' /\ run'[s].step = "gate" /\ run'[s].alert = a
           /\ \A u \in Services : u # s => run'[u] = run[u]
        BY <1>1, <2>4, Going DEF Steps
    <2>13. RunOK(s)'
        BY <1>1, <2>1, <2>12 DEF RunOK
    <2>14. RunsOK'
        BY <1>1, <2>11, <2>12, <2>13, RunsStay
    <2> QED  BY <1>1, <2>10, <2>12, <2>14, Whole
<1> QED  BY <1>2, <1>3

LEMMA GuardedStep ==
    ASSUME IInv, NEW s \in Services, SendGuarded(s)
    PROVE  IInv'
<1> DEFINE a == run[s].alert
<1>1. /\ Stored /\ Callers /\ Counted /\ RowsOK /\ RunsOK /\ a \in Alerts
      /\ UNCHANGED <<row, attempts, since, proven>>
      /\ (Holds(s, "sending") => a \notin risky)
    BY Parts DEF RunsOK, RunOK, SendGuarded, ledger, operator
<1>2. PICK step \in {"calling", "abort"} : Goes(s, step) /\ (step = "abort" => risky' = risky)
      /\ (risky' = risky \/ (risky' = risky \cup {a} /\ Holds(s, "sending")))
    BY DEF SendGuarded
<1>3. Counted'
    BY <1>1, <1>2 DEF SendGuarded, Counted, switch, life, operator
<1>4. Stored' /\ RowsOK'
    <2>1. \A b \in Alerts : b \in risky' => b \in risky \/ row[b].status = "sending"
        BY <1>2 DEF Holds
    <2> QED  BY <1>1, <2>1, RowsStay
<1>5. Unmoved(s)
    BY <1>1, <1>2 DEF Unmoved, Holds
<1>6. /\ Callers' /\ run'[s].step = step /\ run'[s].alert = a
      /\ \A u \in Services : u # s => run'[u] = run[u]
    BY <1>1, <1>2, Going DEF Steps
<1>7. RunOK(s)'
    BY <1>1, <1>2, <1>6 DEF RunOK, Holds
<1>8. RunsOK'
    BY <1>1, <1>5, <1>6, <1>7, RunsStay
<1> QED  BY <1>3, <1>4, <1>6, <1>8, Whole

LEMMA AbortStep ==
    ASSUME IInv, NEW s \in Services, AbortUnsent(s)
    PROVE  IInv'
<1> DEFINE a == run[s].alert
<1>1. /\ Stored /\ Callers /\ Counted /\ RowsOK /\ RunsOK /\ a \in Alerts /\ EndRun(s)
      /\ UNCHANGED <<since, proven, risky>> /\ Counted' /\ (Holds(s, "sending") => a \notin risky)
    BY Parts DEF RunsOK, RunOK, AbortUnsent, Counted, switch, life, operator, known
<1>2. CASE ~Holds(s, "sending")
    <2>1. UNCHANGED <<row, attempts>>
        BY <1>2 DEF AbortUnsent, ledger
    <2>2. Stored' /\ RowsOK'
        BY <1>1, <2>1, RowsStay
    <2>3. Unmoved(s)
        BY <1>1, <2>1 DEF Unmoved
    <2> QED  BY <1>1, <2>2, <2>3, LeavesStep
<1>3. CASE Holds(s, "sending")
    <2>1. row[a] \in Row /\ row[a].status = "sending" /\ Fits(row[a], attempts[a], since[a])
          /\ attempts[a] \in Seq(Attempt) /\ since[a] \in Nat
        BY <1>1, <1>3 DEF Holds, Stored, RowsOK
    <2>2. PICK q : q = [row[a] EXCEPT !.status = "pending", !.token = None, !.lease = 0, !.wait = 1,
                                      !.limit = row[a].limit + 1]
        OBVIOUS
    <2>3. q \in Row /\ q.status = "pending" /\ q.token = None /\ q.limit = row[a].limit + 1
        <3>1. 1 \in 0..MaxDelay /\ 0 \in 0..Lease
            BY BoundsAssumption
        <3>2. row[a].limit \in Nat /\ row[a].limit + 1 \in Nat
            BY <2>1 DEF Row
        <3> QED  BY <2>1, <2>2, <3>1, <3>2 DEF Row, Statuses
    <2>4. row' = [row EXCEPT ![a] = q]
        BY <1>3, <2>2 DEF AbortUnsent, Aborted, Freed
    <2>5. "not_sent" \in Attempt \ {"sending"}
        BY DEF Attempt
    <2>6. PICK seq \in Seq(Attempt) : seq = Closed(attempts[a], "not_sent")
        BY <2>1, <2>5, Closing
    <2>7. PICK d \in Nat : d = since[a]
        BY <1>1 DEF Stored
    <2>8. attempts' = [attempts EXCEPT ![a] = seq] /\ since' = [since EXCEPT ![a] = d]
        BY <1>1, <1>3, <2>6, <2>7 DEF Stored, AbortUnsent
    <2>9. Fits(q, seq, d)
        BY <2>1, <2>3, <2>5, <2>6, <2>7, FitsEnded
    <2>10. Stored' /\ RowsOK'
        BY <1>1, <1>3, <2>3, <2>4, <2>8, <2>9, OneRow
    <2>11. Unmoved(s)
        BY <1>1, <2>3, <2>4 DEF Unmoved, Stored
    <2> QED  BY <1>1, <2>10, <2>11, LeavesStep
<1> QED  BY <1>2, <1>3

LEMMA AnswerStep ==
    ASSUME IInv, NEW s \in Services, NEW answer, Answer(s, answer)
    PROVE  IInv'
<1> DEFINE a == run[s].alert
<1>1. /\ Stored /\ Callers /\ Counted /\ RowsOK /\ RunsOK /\ a \in Alerts /\ run[s] \in Run
      /\ run[s].step = "calling" /\ UNCHANGED <<row, attempts, since>>
    BY Parts DEF RunsOK, RunOK, Answer, ledger, operator, Callers
<1>2. PICK o \in Results : o = OutcomeOf(answer)
    BY DEF OutcomeOf, Results
<1>3. PICK r \in Run : r.step = "finish" /\ r.outcome = o /\ r.alert = a
                       /\ r = [run[s] EXCEPT !.step = "finish", !.outcome = o]
    BY <1>1 DEF Run, Steps
<1>4. run' = [run EXCEPT ![s] = r]
    BY <1>2, <1>3 DEF Answer
<1>5. /\ proven \subseteq proven' /\ (o = "delivered" => a \in proven') /\ risky' \subseteq risky
      /\ (o = "rejected" /\ row[a].token = s => a \notin risky') /\ proven' \subseteq Alerts
    <2>1. CASE answer = "receipt"
        BY <1>1, <1>2, <2>1 DEF Answer, OutcomeOf, Counted
    <2>2. CASE answer = "refusal"
        BY <1>1, <1>2, <2>2 DEF Answer, OutcomeOf, Counted
    <2>3. CASE answer \notin {"receipt", "refusal"}
        BY <1>1, <1>2, <2>3 DEF Answer, OutcomeOf, Counted
    <2> QED  BY <2>1, <2>2, <2>3
<1>6. Counted'
    BY <1>1, <1>5 DEF Answer, Counted, switch, life, operator
<1>7. /\ Callers' /\ run'[s] = r /\ \A u \in Services : u # s => run'[u] = run[u]
    BY <1>1, <1>4 DEF Callers, Answer
<1>8. RunOK(s)'
    BY <1>1, <1>3, <1>5, <1>7 DEF RunOK, Holds
<1>9. Stored' /\ RowsOK'
    <2>1. \A b \in Alerts : b \in risky' => b \in risky \/ row[b].status = "sending"
        BY <1>5
    <2> QED  BY <1>1, <1>5, <2>1, RowsStay
<1>10. Unmoved(s)
    BY <1>1, <1>5 DEF Unmoved
<1>11. RunsOK'
    BY <1>1, <1>5, <1>7, <1>8, <1>10, RunsStay
<1> QED  BY <1>6, <1>7, <1>9, <1>11, Whole

\* What a run knows of its row lets its outcome be saved.
LEMMA SavesStep ==
    ASSUME IInv, NEW s \in Services, run[s].alert \in Alerts, NEW o \in Results, Saves(s, o),
           o = "delivery_unknown" \/ (run[s].step = "finish" /\ o = run[s].outcome),
           UNCHANGED <<since, proven, risky>>
    PROVE  Stored' /\ RowsOK' /\ Unmoved(s) /\ Unmoved(None)
<1>1. Stored /\ RowsOK /\ RunOK(s)
    BY Parts DEF RunsOK
<1>2. Holds(s, "sending") => /\ o = "delivered" => run[s].alert \in proven
                             /\ o = "rejected" => run[s].alert \notin risky
    BY <1>1 DEF RunOK
<1>3. /\ Stored' /\ RowsOK'
      /\ \A b \in Alerts : row'[b] # row[b] => /\ b = run[s].alert /\ row[b].token = s
                                               /\ row'[b].status # "sending"
    BY <1>1, <1>2, Saving
<1> QED  BY <1>3 DEF Unmoved

LEMMA FinishStep ==
    ASSUME IInv, NEW s \in Services, Finish(s)
    PROVE  IInv'
<1>1. /\ run[s].step = "finish" /\ run[s].alert \in Alerts /\ run[s].outcome \in Results
      /\ Saves(s, run[s].outcome) /\ GoesOn(s) /\ UNCHANGED <<since, proven, risky>> /\ Counted'
    BY Parts DEF RunsOK, RunOK, Finish, Counted, switch, life, operator, known
<1>2. Stored' /\ RowsOK' /\ Unmoved(s)
    BY <1>1, SavesStep
<1> QED  BY <1>1, <1>2, LeavesStep

LEMMA InterruptedStep ==
    ASSUME IInv, NEW s \in Services, Interrupted(s), UNCHANGED <<since, proven, risky>>
    PROVE  Stored' /\ RowsOK' /\ Unmoved(s)
<1>1. Stored /\ RowsOK /\ RunOK(s)
    BY Parts DEF RunsOK
<1>2. CASE run[s].step \in {"guarded", "calling"}
    <2>1. run[s].alert \in Alerts /\ Saves(s, "delivery_unknown") /\ "delivery_unknown" \in Results
        BY <1>1, <1>2 DEF RunOK, Interrupted, Results
    <2> QED  BY <2>1, SavesStep
<1>3. CASE run[s].step \notin {"guarded", "calling"}
    <2>1. UNCHANGED <<row, attempts>>
        BY <1>3 DEF Interrupted, ledger
    <2>2. Unmoved(s)
        BY <2>1 DEF Unmoved
    <2> QED  BY <1>1, <2>1, <2>2, RowsStay
<1> QED  BY <1>2, <1>3

LEMMA CancelStep ==
    ASSUME IInv, NEW h \in Handlers, CancelCall(h)
    PROVE  IInv'
<1>1. PICK s \in Services : s = Home[h]
    BY AlertsAssumption
<1>2. Interrupted(s) /\ EndRun(s) /\ UNCHANGED <<since, proven, risky>> /\ Counted'
    BY <1>1, Parts DEF CancelCall, Counted, switch, life, operator, known
<1>3. Stored' /\ RowsOK' /\ Unmoved(s)
    BY <1>2, InterruptedStep
<1> QED  BY <1>2, <1>3, LeavesStep

\* A process stops, or ends and is started again.
LEMMA LifeStep ==
    ASSUME IInv, NEW s \in Services, Stop(s) \/ Restart(s)
    PROVE  IInv'
<1>1. Stored /\ Callers /\ Counted /\ RowsOK /\ RunsOK
    BY Parts
<1>2. UNCHANGED <<since, proven, risky>> /\ Counted'
    <2>1. accepting' \in [Services -> BOOLEAN]
        BY <1>1 DEF Counted, Stop, Restart
    <2>2. restarts' \in 0..MaxRestarts
        BY <1>1, BoundsAssumption DEF Counted, Stop, Restart
    <2> QED  BY <1>1, <2>1, <2>2 DEF Counted, Stop, Restart, switch, operator, known
<1>3. run' = run \/ run' = [run EXCEPT ![s] = Idle]
    BY DEF Stop, Restart
<1>4. /\ run' \in [Services -> Run] /\ \A u \in Services : u # s => run'[u] = run[u]
      /\ run' # run => run'[s].step = "idle"
    BY <1>1, <1>3, IdleRun DEF Callers
<1>5. Callers'
    <2>1. worker' \in [Services -> {"none", "sleep", "pass", "busy"}]
        BY <1>1 DEF Callers, Stop, Restart
    <2>2. place' \in [Handlers -> {"new", "queued", "runs", "done"}]
        BY <1>1 DEF Callers, Stop, Restart
    <2> QED  BY <1>4, <2>1, <2>2 DEF Callers
<1>6. CASE Interrupted(s) /\ run' = [run EXCEPT ![s] = Idle]
    <2>1. Stored' /\ RowsOK' /\ Unmoved(s)
        BY <1>2, <1>6, InterruptedStep
    <2>2. run'[s].step = "idle"
        BY <1>1, <1>6, IdleRun DEF Callers
    <2>3. RunOK(s)'
        BY <2>2, RunFree
    <2>4. RunsOK'
        BY <1>1, <1>2, <1>4, <2>1, <2>3, RunsStay
    <2> QED  BY <1>2, <1>5, <2>1, <2>4, Whole
<1>7. CASE UNCHANGED <<row, attempts>>
    <2>1. CASE run' = run
        BY <1>2, <1>5, <1>7, <2>1, Moving, AlertsAssumption
    <2>2. CASE run' # run
        <3>1. RunOK(s)'
            BY <1>4, <2>2, RunFree
        <3> QED  BY <1>2, <1>4, <1>5, <1>7, <3>1, Moving
    <2> QED  BY <2>1, <2>2
<1> QED  BY <1>6, <1>7 DEF Stop, Restart, ledger

LEMMA ResolveStep ==
    ASSUME IInv, NEW a \in Alerts, NEW action \in {"retry", "confirm_delivered"}, Resolve(a, action)
    PROVE  IInv'
<1>1. Stored /\ Callers /\ Counted /\ RowsOK /\ RunsOK
    BY Parts
<1>2. /\ UNCHANGED <<attempts, run, place, worker>> /\ Callers' /\ risky' = risky \ {a}
      /\ (action # "retry" => a \in proven') /\ proven \subseteq proven' /\ proven' \subseteq Alerts
    BY <1>1 DEF Resolve, Callers, Counted
<1>3. Counted'
    BY <1>1, <1>2, BoundsAssumption DEF Resolve, Counted, switch, life
<1>4. /\ row[a] \in Row /\ row[a].status \in {"delivery_unknown", "exhausted"}
      /\ attempts[a] \in Seq(Attempt) /\ since[a] \in Nat /\ Fits(row[a], attempts[a], since[a])
    BY <1>1 DEF Resolve, Stored, RowsOK
<1>5. PICK status \in {"pending", "delivered"} :
        status = (IF action = "retry" THEN "pending" ELSE "delivered")
    OBVIOUS
<1>6. PICK seq \in Seq(Attempt) : seq = attempts[a]
    BY <1>4
<1>7. PICK n \in Nat : n = Len(seq)
    OBVIOUS
<1>8. PICK q : q = [row[a] EXCEPT !.status = status, !.token = None, !.lease = 0, !.wait = 0,
                                  !.limit = n + AttemptLimit]
    OBVIOUS
<1>9. q \in Row /\ q.status = status /\ q.token = None /\ q.limit = n + AttemptLimit
    <2>1. 0 \in 0..MaxDelay /\ 0 \in 0..Lease /\ n + AttemptLimit \in Nat
        BY BoundsAssumption
    <2> QED  BY <1>4, <1>8, <2>1 DEF Row, Statuses
<1>10. row' = [row EXCEPT ![a] = q]
    BY <1>5, <1>6, <1>7, <1>8 DEF Resolve, Granted, Freed
<1>11. attempts' = [attempts EXCEPT ![a] = seq] /\ since' = [since EXCEPT ![a] = n]
    BY <1>1, <1>2, <1>6, <1>7 DEF Resolve, Stored
<1>12. Fits(q, seq, n)
    BY <1>4, <1>6, <1>7, <1>9, FitsDecided
<1>13. (q.status = "delivered" => a \in proven') /\ a \notin risky'
    BY <1>2, <1>5, <1>9
<1>14. Stored' /\ RowsOK'
    BY <1>1, <1>2, <1>9, <1>10, <1>11, <1>12, <1>13, OneRow
<1>15. Unmoved(None) /\ None \notin Services
    BY <1>1, <1>2, <1>9, <1>10, AlertsAssumption DEF Unmoved, Stored
<1>16. RunsOK'
    BY <1>1, <1>2, <1>15, RunsStay
<1> QED  BY <1>2, <1>3, <1>14, <1>16, Whole

LEMMA FlipStep ==
    ASSUME IInv, Flip
    PROVE  IInv'
<1>1. Counted' /\ Callers' /\ UNCHANGED <<row, attempts, since, proven, risky, run>>
    BY Parts, BoundsAssumption DEF Flip, Counted, Callers, life, ledger, operator, known
<1> QED  BY <1>1, Moving, AlertsAssumption

\* Only rows that a process at work holds are stalled.
LEMMA FewStalled == Cardinality(Stalled) \in Nat
<1> DEFINE f == [s \in Services |-> run[s].alert]
           T == {run[s].alert : s \in Services}
<1>1. IsFiniteSet(T)
    <2>1. f \in Surjection(Services, T)
        BY DEF Surjection
    <2> QED  BY <2>1, FS_Surjection, AlertsAssumption
<1>2. Stalled \subseteq {run[s].alert : s \in Services}
    BY DEF Stalled
<1> HIDE DEF T
<1>3. Stalled \subseteq T
    BY <1>2 DEF T
<1> QED  BY <1>1, <1>3, FS_Subset, FS_CardinalityType

LEMMA TickStep ==
    ASSUME IInv, Tick
    PROVE  IInv'
<1>1. Stored /\ Callers /\ Counted /\ RowsOK /\ RunsOK
    BY Parts
<1>2. /\ UNCHANGED <<attempts, since, proven, risky, run>> /\ Callers' 
      /\ row' = [a \in Alerts |-> [row[a] EXCEPT !.lease = Earlier(@), !.wait = Earlier(@)]]
    BY <1>1 DEF Tick, Callers, operator, known
<1>3. Counted'
    <2>1. stalls' \in 0..MaxStalls
        <3>1. PICK n \in Nat : n = Cardinality(Stalled)
            BY FewStalled
        <3>2. stalls' = stalls + n /\ stalls + n <= MaxStalls
            BY <3>1 DEF Tick
        <3> QED  BY <1>1, <3>1, <3>2, BoundsAssumption DEF Counted
    <2> QED  BY <1>1, <2>1 DEF Tick, Counted, switch, life, operator, known
<1>4. ASSUME NEW a \in Alerts
      PROVE  /\ row'[a] \in Row /\ row'[a].status = row[a].status /\ row'[a].token = row[a].token
             /\ row'[a].limit = row[a].limit
    <2>1. row[a] \in Row /\ row[a].lease \in 0..Lease /\ row[a].wait \in 0..MaxDelay
        BY <1>1 DEF Stored, Row
    <2>2. Earlier(row[a].lease) \in 0..Lease /\ Earlier(row[a].wait) \in 0..MaxDelay
        BY <2>1, BoundsAssumption DEF Earlier
    <2>3. row'[a] = [row[a] EXCEPT !.lease = Earlier(row[a].lease), !.wait = Earlier(row[a].wait)]
        BY <1>2
    <2> QED  BY <2>1, <2>2, <2>3 DEF Row
<1>5. Stored'
    BY <1>1, <1>2, <1>4 DEF Stored
<1>6. RowsOK'
    <2>1. \A a \in Alerts : Fits(row[a], attempts[a], since[a]) /\ row[a] \in Row
        BY <1>1 DEF RowsOK, Stored
    <2>2. \A a \in Alerts : Fits(row'[a], attempts[a], since[a])
        BY <1>4, <2>1, FitsSame
    <2>3. \A a \in Alerts : Fits(row[a], attempts[a], since[a])'
        BY <1>2, <2>2 DEF Fits
    <2> QED  BY <1>1, <1>2, <1>4, <2>3 DEF RowsOK
<1>7. Unmoved(None) /\ None \notin Services
    BY <1>2, <1>4, AlertsAssumption DEF Unmoved
<1>8. RunsOK'
    BY <1>1, <1>2, <1>7, RunsStay
<1> QED  BY <1>2, <1>3, <1>5, <1>6, <1>8, Whole

LEMMA ClaimStep ==
    ASSUME IInv, NEW s \in Services, Claim(s)
    PROVE  IInv'
<1> DEFINE rows == [b \in Alerts |-> Recovered(b)]
<1>1. Stored /\ Callers /\ Counted /\ RowsOK /\ RunsOK
    BY Parts
<1>2. UNCHANGED <<since, proven, risky>> /\ Counted'
    BY <1>1 DEF Claim, Counted, switch, life, operator, known
<1>3. attempts' = RecoveredAttempts
    BY DEF Claim
<1>4. attempts' \in [Alerts -> Seq(Attempt)]
    <2>1. \A b \in Alerts : RecoveredAttempts[b] \in Seq(Attempt)
        BY <1>1, Recovering
    <2>2. RecoveredAttempts = [b \in Alerts |-> RecoveredAttempts[b]]
        BY DEF RecoveredAttempts
    <2> QED  BY <1>3, <2>1, <2>2
<1>5. \A b \in Alerts : rows[b] = Recovered(b) /\ attempts'[b] = RecoveredAttempts[b] /\ since'[b] = since[b]
    BY <1>2, <1>3
<1> HIDE DEF rows
<1>6. ASSUME NEW a \in Alerts \cup {None}, NEW q, row' \in [Alerts -> Row],
             \A b \in Alerts : b # a => row'[b] = rows[b],
             a \in Alerts => row'[a] = q /\ q.status = "leased" /\ q.token = s /\ q.limit = rows[a].limit
                             /\ rows[a].status = "pending"
      PROVE  Stored' /\ RowsOK' /\ Unmoved(s)
    <2>1. Stored'
        BY <1>1, <1>2, <1>4, <1>6 DEF Stored
    <2>2. ASSUME NEW b \in Alerts
          PROVE  /\ Fits(row'[b], attempts'[b], since'[b])
                 /\ row'[b].status = "delivered" => b \in proven
                 /\ row'[b].status \in {"none", "pending", "leased", "exhausted"} => b \notin risky
        <3>1. /\ rows[b] \in Row /\ attempts'[b] \in Seq(Attempt) /\ since'[b] \in Nat
              /\ Fits(rows[b], attempts'[b], since'[b])
              /\ rows[b].status = "delivered" => b \in proven
              /\ rows[b].status \in {"none", "pending", "leased", "exhausted"} => b \notin risky
            <4>1. /\ Recovered(b).status = "delivered" => row[b].status = "delivered"
                  /\ Recovered(b).status \in {"none", "pending", "leased", "exhausted"} =>
                        row[b].status \in {"none", "pending", "leased", "exhausted"}
                BY <1>1, Recovering
            <4>2. /\ Recovered(b) \in Row /\ RecoveredAttempts[b] \in Seq(Attempt)
                  /\ Fits(Recovered(b), RecoveredAttempts[b], since[b])
                BY <1>1, Recovering
            <4> QED  BY <1>1, <1>5, <4>1, <4>2 DEF RowsOK, Stored
        <3>2. CASE b = a
            <4>1. row'[b] \in Row /\ s # None
                BY <1>6, AlertsAssumption
            <4>2. Fits(row'[b], attempts'[b], since'[b])
                BY <1>6, <3>1, <3>2, <4>1, FitsWaiting
            <4> QED  BY <1>6, <3>1, <3>2, <4>2
        <3>3. CASE b # a
            BY <1>6, <3>1, <3>3
        <3> QED  BY <3>2, <3>3
    <2>3. RowsOK'
        <3>1. \A b \in Alerts : Fits(row[b], attempts[b], since[b])'
            BY <2>2 DEF Fits
        <3> QED  BY <1>2, <2>2, <3>1 DEF RowsOK
    <2>4. Unmoved(s)
        <3>1. \A b \in Alerts : Recovered(b).status = "sending" => Recovered(b) = row[b]
            BY <1>1, Recovering
        <3> QED  BY <1>2, <1>5, <1>6, <3>1 DEF Unmoved
    <2> QED  BY <2>1, <2>3, <2>4
<1>7. rows \in [Alerts -> Row]
    BY <1>1, Recovering DEF rows
<1>8. CASE row' = rows /\ EndRun(s)
    <2>1. Stored' /\ RowsOK' /\ Unmoved(s)
        BY <1>6, <1>7, <1>8, AlertsAssumption
    <2> QED  BY <1>2, <1>8, <2>1, LeavesStep
<1>9. CASE ~(row' = rows /\ EndRun(s))
    <2>1. PICK a \in Due(s, rows) :
            /\ row' = [rows EXCEPT ![a] = [@ EXCEPT !.status = "leased", !.token = s, !.lease = Lease]]
            /\ run' = [run EXCEPT ![s] = [@ EXCEPT !.step = "check", !.alert = a]]
            /\ UNCHANGED <<place, worker>>
        BY <1>9 DEF Claim, rows
    <2>2. a \in Alerts /\ rows[a].status = "pending" /\ rows[a] \in Row /\ run[s] \in Run
        BY <1>1, <1>7 DEF Due, Callers
    <2>3. PICK q : q = [rows[a] EXCEPT !.status = "leased", !.token = s, !.lease = Lease]
        OBVIOUS
    <2>4. q \in Row /\ q.status = "leased" /\ q.token = s /\ q.limit = rows[a].limit
        <3>1. Lease \in 0..Lease
            BY BoundsAssumption
        <3> QED  BY <2>2, <2>3, <3>1 DEF Row, Statuses
    <2>5. row' = [rows EXCEPT ![a] = q]
        BY <2>1, <2>3
    <2>6. PICK r : r = [run[s] EXCEPT !.step = "check", !.alert = a]
        OBVIOUS
    <2>7. r \in Run /\ r.step = "check" /\ r.alert = a /\ run' = [run EXCEPT ![s] = r]
        BY <2>1, <2>2, <2>6 DEF Run, Steps
    <2>8. Stored' /\ RowsOK' /\ Unmoved(s)
        <3>1. row' \in [Alerts -> Row] /\ row'[a] = q /\ \A b \in Alerts : b # a => row'[b] = rows[b]
            BY <1>7, <2>2, <2>4, <2>5
        <3> QED  BY <1>6, <2>2, <2>4, <3>1
    <2>9. /\ Callers' /\ run'[s].step = "check" /\ run'[s].alert = a
          /\ \A u \in Services : u # s => run'[u] = run[u]
        BY <1>1, <2>1, <2>7 DEF Callers
    <2>10. RunOK(s)'
        BY <2>2, <2>9 DEF RunOK
    <2>11. RunsOK'
        BY <1>1, <1>2, <2>8, <2>9, <2>10, RunsStay
    <2> QED  BY <1>2, <2>8, <2>9, <2>11, Whole
<1> QED  BY <1>8, <1>9

-----------------------------------------------------------------------------
(* The invariant and what follows from it.                                       *)

LEMMA Initially == Init => IInv
<1> SUFFICES ASSUME Init  PROVE IInv
    OBVIOUS
<1>1. NoRow \in Row /\ NoRow.status = "none" /\ NoRow.token = None /\ NoRow.limit = AttemptLimit
    BY BoundsAssumption DEF NoRow, Row, Statuses
<1>2. <<>> \in Seq(Attempt) /\ Len(<<>>) = 0 /\ Cardinality(Refused(<<>>, 0)) = 0
    BY NoAttempts
<1>3. Fits(NoRow, <<>>, 0)
    BY <1>1, <1>2, BoundsAssumption DEF Fits
<1>4. Typed
    BY <1>1, <1>2, IdleRun, BoundsAssumption DEF Init, Typed
<1>5. RowsOK
    <2>1. \A a \in Alerts : row[a] = NoRow /\ attempts[a] = <<>> /\ since[a] = 0 /\ risky = {}
        BY DEF Init
    <2> QED  BY <1>1, <1>3, <2>1 DEF RowsOK
<1>6. RunsOK
    BY IdleRun DEF Init, RunsOK, RunOK
<1> QED  BY <1>4, <1>5, <1>6 DEF IInv

LEMMA Preserved == IInv /\ [Next]_vars => IInv'
<1> SUFFICES ASSUME IInv, [Next]_vars  PROVE IInv'
    OBVIOUS
<1>1. ASSUME NEW h \in Handlers, Enqueue(h) \/ Deliver(h) \/ CancelCall(h)  PROVE IInv'
    BY <1>1, EnqueueStep, StartStep, CancelStep
<1>2. ASSUME NEW s \in Services, WorkerStep(s) \/ Stop(s) \/ Restart(s)  PROVE IInv'
    BY <1>2, RecoverStep, StartStep, LifeStep DEF WorkerStep
<1>3. ASSUME NEW s \in Services, RunStep(s)  PROVE IInv'
    BY <1>3, ClaimStep, JudgeStep, ReleaseStep, BeginStep, GuardedStep, AbortStep, FinishStep,
       AnswerStep DEF RunStep
<1>4. ASSUME NEW a \in Alerts, NEW action \in {"retry", "confirm_delivered"}, Resolve(a, action)
      PROVE  IInv'
    BY <1>4, ResolveStep
<1>5. CASE Flip \/ Tick
    BY <1>5, FlipStep, TickStep
<1>6. CASE UNCHANGED vars
    <2>1. Callers' /\ Counted' /\ UNCHANGED <<row, attempts, since, proven, risky, run>>
        BY <1>6, Parts DEF vars, Callers, Counted, switch, life, ledger, operator, known
    <2> QED  BY <2>1, Moving, AlertsAssumption
<1> QED  BY <1>1, <1>2, <1>3, <1>4, <1>5, <1>6 DEF Next

\* Every row fits its attempts, the calls and what the operator decided; a run that holds a
\* row it is about to call knows that nothing of it has reached the group.
THEOREM Inductive == Spec => []IInv
BY Initially, Preserved, PTL DEF Spec

\* What the ledger says of an alert is true, whatever is cut off, lapses or is decided
\* (outbox.py, DELIVERY.md).
THEOREM Truthful == Spec => []LedgerTruthful
<1>1. IInv => TypeOK
    BY DEF IInv, Typed, TypeOK, Attempt
<1>2. ASSUME IInv, NEW a \in Alerts
      PROVE  /\ row[a].status = "delivered" => a \in proven
             /\ row[a].status \in {"pending", "leased", "exhausted"} => a \notin risky
             /\ Rejected(a) <= AttemptLimit
             /\ row[a].status = "exhausted" <=> Rejected(a) = AttemptLimit /\ row[a].status # "none"
             /\ \A i \in 1..Len(attempts[a]) :
                 attempts[a][i] = "sending" <=> i = Len(attempts[a]) /\ row[a].status = "sending"
    <2>1. /\ Fits(row[a], attempts[a], since[a]) /\ row[a].status \in Statuses
          /\ attempts[a] \in Seq(Attempt) /\ since[a] \in Nat
          /\ row[a].status = "delivered" => a \in proven
          /\ row[a].status \in {"pending", "leased", "exhausted"} => a \notin risky
        BY <1>2 DEF IInv, RowsOK, Typed, Row
    <2>2. Rejected(a) = Cardinality(Refused(attempts[a], since[a])) /\ Rejected(a) \in Nat
        BY <2>1, Few DEF Rejected, Refusals, Refused
    <2>3. /\ row[a].status = "exhausted" => Rejected(a) = AttemptLimit
          /\ row[a].status # "exhausted" => Rejected(a) < AttemptLimit
        BY <2>1, <2>2 DEF Fits, Statuses
    <2>4. \A i \in 1..Len(attempts[a]) :
                attempts[a][i] = "sending" <=> i = Len(attempts[a]) /\ row[a].status = "sending"
        BY <2>1 DEF Fits
    <2>5. AttemptLimit \in Nat
        BY BoundsAssumption
    <2> QED  BY <2>1, <2>2, <2>3, <2>4, <2>5
<1>3. IInv => LedgerTruthful
    BY <1>1, <1>2 DEF LedgerTruthful
<1> QED  BY <1>3, Inductive, PTL

-----------------------------------------------------------------------------
(* What a step may never do.                                                     *)

\* A step of one run leaves the others where they are.
LEMMA OthersStay ==
    ASSUME Callers, NEW u \in Services, NEW s \in Services, s # u, RunStep(u)
    PROVE  run'[s] = run[s]
<1>1. CASE \E step \in Steps : Goes(u, step)
    BY <1>1, Going
<1>2. CASE EndRun(u) \/ GoesOn(u)
    BY <1>2, Ending
<1>3. CASE \E r : run' = [run EXCEPT ![u] = r]
    BY <1>3 DEF Callers
<1>4. Check(u) \/ Gate(u) \/ SendGuarded(u) => \E step \in Steps : Goes(u, step)
    BY DEF Check, Gate, SendGuarded, Steps
<1>5. Release(u) \/ AbortUnsent(u) \/ Finish(u) => EndRun(u) \/ GoesOn(u)
    BY DEF Release, AbortUnsent, Finish
<1>6. BeginSend(u) => GoesOn(u) \/ \E step \in Steps : Goes(u, step)
    BY DEF BeginSend, Steps
<1>7. Claim(u) \/ (\E answer \in {"receipt", "response", "refusal", "lost"} : Answer(u, answer))
        => EndRun(u) \/ \E r : run' = [run EXCEPT ![u] = r]
    BY DEF Claim, Answer
<1> QED  BY <1>1, <1>2, <1>3, <1>4, <1>5, <1>6, <1>7 DEF RunStep

\* Only the guarded send of a run begins its call.
LEMMA CallBegins ==
    ASSUME IInv, [Next]_vars, NEW s \in Services, run[s].step = "guarded", run'[s].step = "calling"
    PROVE  Open(s) /\ (Holds(s, "sending") => run[s].alert \notin risky)
<1>1. Callers /\ RunOK(s)
    BY Parts DEF RunsOK
<1>2. ASSUME NEW h \in Handlers, Enqueue(h) \/ Deliver(h) \/ CancelCall(h)  PROVE FALSE
    <2>1. Home[h] \in Services
        BY AlertsAssumption
    <2>2. CASE Deliver(h)
        <3>1. StartRun(Home[h], h, 1)
            BY <2>2 DEF Deliver
        <3> QED  BY <1>1, <2>1, <3>1 DEF StartRun, Idle, Callers
    <2>3. CASE CancelCall(h)
        BY <1>1, <2>1, <2>3, Ending DEF CancelCall
    <2> QED  BY <1>2, <2>2, <2>3 DEF Enqueue
<1>3. ASSUME NEW u \in Services, WorkerStep(u) \/ Stop(u) \/ Restart(u)  PROVE FALSE
    <2>1. CASE WorkerStep(u)
        BY <1>1, <2>1 DEF WorkerStep, WorkerRecovers, WorkerDelivers, StartRun, Idle, Callers
    <2>2. CASE Stop(u) \/ Restart(u)
        BY <1>1, <2>2 DEF Stop, Restart, Idle, Callers
    <2> QED  BY <1>3, <2>1, <2>2
<1>4. ASSUME NEW u \in Services, RunStep(u)  PROVE Open(s)
    <2>1. u = s
        BY <1>1, <1>4, OthersStay
    <2>2. SendGuarded(s)
        BY <1>4, <2>1 DEF RunStep, Claim, Check, Release, BeginSend, Gate, AbortUnsent, Finish, Answer
    <2>3. Calls(s)
        <3>1. PICK step \in {"calling", "abort"} : Goes(s, step) /\ (step = "calling" => Calls(s))
            BY <2>2 DEF SendGuarded
        <3>2. run'[s].step = step
            BY <1>1, <3>1, Going DEF Steps
        <3> QED  BY <3>1, <3>2
    <2> QED  BY <2>3 DEF Calls
<1>5. CASE UNCHANGED run
    BY <1>5
<1>6. Open(s)
    BY <1>2, <1>3, <1>4, <1>5 DEF Next, Resolve, Flip, Tick, vars
<1> QED  BY <1>1, <1>6 DEF RunOK

Leaves(a) ==
    \/ row[a].lease = 0
    \/ \E s \in Services : s = row[a].token /\ run[s].alert = a /\ run'[s] # run[s]

\* A row that its run changes is one the run holds, and the run moves.
LEMMA HolderLeaves ==
    ASSUME IInv, NEW s \in Services, NEW a \in Alerts, row'[a].token # row[a].token, run'[s] # run[s],
           UNCHANGED <<since, proven, risky>>,
           \/ Interrupted(s)
           \/ (run[s].step = "finish" /\ Saves(s, run[s].outcome))
    PROVE  Leaves(a)
<1>1. Stored /\ RowsOK /\ RunOK(s)
    BY Parts DEF RunsOK
<1>2. PICK o \in Results : Saves(s, o) /\ run[s].alert \in Alerts
                           /\ (o = "delivery_unknown" \/ (run[s].step = "finish" /\ o = run[s].outcome))
    BY <1>1 DEF Interrupted, ledger, RunOK, Results
<1>3. Holds(s, "sending") => /\ o = "delivered" => run[s].alert \in proven
                             /\ o = "rejected" => run[s].alert \notin risky
    BY <1>1, <1>2 DEF RunOK
<1>4. a = run[s].alert /\ row[a].token = s
    BY <1>1, <1>2, <1>3, Saving
<1> QED  BY <1>4 DEF Leaves

\* A row leaves the hands of its holder through the holder or after its lease.
LEMMA Handover ==
    ASSUME IInv, [Next]_vars, NEW a \in Alerts, row[a].token # None, row'[a].token # row[a].token
    PROVE  Leaves(a)
<1>1. Stored /\ Callers /\ RowsOK /\ RunsOK
    BY Parts
<1>2. row[a].status \in {"leased", "sending"}
    BY <1>1 DEF RowsOK, Fits
<1>3. ASSUME NEW h \in Handlers, Enqueue(h) \/ Deliver(h) \/ CancelCall(h)  PROVE Leaves(a)
    <2>1. PICK s \in Services : s = Home[h]
        BY AlertsAssumption
    <2>2. CASE Enqueue(h)
        BY <1>1, <1>2, <2>2, AlertsAssumption DEF Enqueue, Enqueues, Stored
    <2>3. CASE Deliver(h)
        BY <2>3 DEF Deliver, ledger
    <2>4. CASE CancelCall(h)
        <3>1. run[s].by = h /\ Interrupted(s) /\ EndRun(s) /\ UNCHANGED <<since, proven, risky>>
            BY <2>1, <2>4 DEF CancelCall, operator, known
        <3>2. run'[s].by = None /\ None # h
            BY <1>1, <3>1, AlertsAssumption, IdleRun DEF EndRun, Callers
        <3> QED  BY <3>1, <3>2, HolderLeaves
    <2> QED  BY <1>3, <2>2, <2>3, <2>4
<1>4. ASSUME NEW s \in Services, WorkerStep(s) \/ Stop(s) \/ Restart(s)  PROVE Leaves(a)
    <2>1. CASE WorkerRecovers(s)
        <3>1. row'[a] = Recovered(a)
            BY <2>1 DEF WorkerRecovers
        <3> QED  BY <1>1, <3>1, Recovering DEF Leaves
    <2>2. CASE WorkerDelivers(s) \/ Restart(s)
        BY <2>2 DEF WorkerDelivers, Restart, ledger
    <2>3. CASE Stop(s)
        <3>1. run[s].step # "idle" /\ run' = [run EXCEPT ![s] = Idle] /\ Interrupted(s)
              /\ UNCHANGED <<since, proven, risky>>
            BY <2>3 DEF Stop, ledger, operator, known
        <3>2. run'[s].step = "idle"
            BY <1>1, <3>1, IdleRun DEF Callers
        <3> QED  BY <3>1, <3>2, HolderLeaves
    <2> QED  BY <1>4, <2>1, <2>2, <2>3 DEF WorkerStep
<1>5. ASSUME NEW s \in Services, RunStep(s)  PROVE Leaves(a)
    <2>1. CASE Claim(s)
        <3>1. PICK rows : rows = [b \in Alerts |-> Recovered(b)]
            OBVIOUS
        <3>2. \/ row' = rows
              \/ \E b \in Due(s, rows) :
                    row' = [rows EXCEPT ![b] = [@ EXCEPT !.status = "leased", !.token = s, !.lease = Lease]]
            BY <2>1, <3>1 DEF Claim
        <3>3. rows[a] = Recovered(a) /\ \A b \in Due(s, rows) : b \in Alerts /\ rows[b].status = "pending"
            BY <3>1 DEF Due
        <3>4. row'[a] = Recovered(a) \/ Recovered(a).status = "pending"
            BY <3>1, <3>2, <3>3
        <3> QED  BY <1>1, <1>2, <3>4, Recovering DEF Leaves
    <2>2. CASE Check(s) \/ Gate(s) \/ SendGuarded(s) \/ (\E answer : Answer(s, answer))
        BY <2>2 DEF Check, Gate, SendGuarded, Answer, ledger
    <2>3. CASE Release(s) \/ AbortUnsent(s)
        <3>1. EndRun(s) /\ run[s].step # "idle"
            BY <2>3 DEF Release, AbortUnsent
        <3>2. run'[s].step = "idle"
            BY <1>1, <3>1, IdleRun DEF Callers, EndRun
        <3>3. a = run[s].alert /\ row[a].token = s
            BY <1>1, <2>3 DEF Release, AbortUnsent, Holds, Stored, ledger
        <3> QED  BY <3>1, <3>2, <3>3 DEF Leaves
    <2>4. CASE BeginSend(s)
        <3>1. PICK q : q = [row[run[s].alert] EXCEPT !.status = "sending"]
            OBVIOUS
        <3>2. row' = row \/ row' = [row EXCEPT ![run[s].alert] = q]
            BY <2>4, <3>1 DEF BeginSend, ledger
        <3>3. a = run[s].alert => q.token = row[a].token
            BY <1>1, <3>1 DEF Stored, Row
        <3> QED  BY <1>1, <3>2, <3>3 DEF Stored
    <2>5. CASE Finish(s)
        <3>1. run[s].step = "finish" /\ Saves(s, run[s].outcome) /\ GoesOn(s)
              /\ UNCHANGED <<since, proven, risky>>
            BY <2>5 DEF Finish, operator, known
        <3>2. run'[s].step \in {"idle", "claim"}
            BY <1>1, <3>1, Ending
        <3> QED  BY <3>1, <3>2, HolderLeaves
    <2> QED  BY <1>5, <2>1, <2>2, <2>3, <2>4, <2>5 DEF RunStep
<1>6. ASSUME NEW b \in Alerts, NEW action, Resolve(b, action)  PROVE Leaves(a)
    BY <1>1, <1>2, <1>6 DEF Resolve, Stored
<1>7. CASE Tick
    <2>1. row' = [b \in Alerts |-> [row[b] EXCEPT !.lease = Earlier(@), !.wait = Earlier(@)]]
          /\ row[a] \in Row
        BY <1>1, <1>7 DEF Tick, Stored
    <2>2. row'[a].token = row[a].token
        BY <2>1 DEF Row
    <2> QED  BY <2>2
<1>8. CASE UNCHANGED row
    BY <1>8
<1> QED  BY <1>3, <1>4, <1>5, <1>6, <1>7, <1>8 DEF Next, Flip, vars, ledger

\* A call begins with an open gate and never with an alert that an earlier call may have
\* delivered; a row leaves its holder through the holder or after its lease (deliver_pending,
\* _send_guarded in service.py; begin_send, _recover in outbox.py).
THEOREM Calling == Spec => CallsAreSafe
<1>1. ASSUME IInv, [Next]_vars
      PROVE  /\ \A s \in Services : (run[s].step = "guarded" /\ run'[s].step = "calling")
                    => Open(s) /\ (Holds(s, "sending") => run[s].alert \notin risky)
             /\ \A a \in Alerts : (row[a].token # None /\ row'[a].token # row[a].token)
                    => \/ row[a].lease = 0
                       \/ \E s \in Services : s = row[a].token /\ run[s].alert = a /\ run'[s] # run[s]
    <2>1. ASSUME NEW s \in Services, run[s].step = "guarded", run'[s].step = "calling"
          PROVE  Open(s) /\ (Holds(s, "sending") => run[s].alert \notin risky)
        BY <1>1, <2>1, CallBegins
    <2>2. ASSUME NEW a \in Alerts, row[a].token # None, row'[a].token # row[a].token  PROVE Leaves(a)
        BY <1>1, <2>2, Handover
    <2> QED  BY <2>1, <2>2 DEF Leaves
<1>2. IInv /\ [Next]_vars =>
        [/\ \A s \in Services : (run[s].step = "guarded" /\ run'[s].step = "calling")
                => Open(s) /\ (Holds(s, "sending") => run[s].alert \notin risky)
         /\ \A a \in Alerts : (row[a].token # None /\ row'[a].token # row[a].token)
                => \/ row[a].lease = 0
                   \/ \E s \in Services : s = row[a].token /\ run[s].alert = a /\ run'[s] # run[s]]_vars
    BY <1>1
<1> QED  BY <1>2, Inductive, PTL DEF Spec, CallsAreSafe

-----------------------------------------------------------------------------
(* The scans.  No admission, permit or guard leaks, an alert gives away no         *)
(* protected pattern, and no call ends with nothing that has missed a rule: for    *)
(* any rules, messages, limits and changes of the rules under way.  The two parts  *)
(* have nothing in common but their module.                                        *)

(* Where the calls are that hold an admission, a permit or the guard.           *)
Admitted == Scanning \cup {<<"persist", "admitted">>, <<"deliver", "admitted">>}
Guarded == {<<"persist", "guard">>, <<"deliver", "guard">>}
At(st, S) == {h \in Events : st[h] \in S}
HeldBy(st, S, n) == IsFiniteSet(At(st, S)) /\ n = Cardinality(At(st, S))
HeldByOne(st, S, g) == g \in BOOLEAN /\ (g <=> At(st, S) # {}) /\ \A h, e \in At(st, S) : h = e
SlotsOK ==
    /\ HeldBy(stage, Admitted, admitted) /\ admitted <= MaxAdmitted
    /\ HeldBy(stage, Threads, scans) /\ scans <= MaxScans
    /\ HeldByOne(stage, Guarded, guard)

Found == [manual : SUBSET Patterns, due : SUBSET Patterns, gen : Generations \cup {Absent},
          managed : SUBSET Rule, name : BOOLEAN, literal : SUBSET Patterns,
          legacy : BOOLEAN, over : BOOLEAN]
ScansTyped ==
    /\ on \in BOOLEAN /\ active \in Generations \cup {Absent} /\ upsets \in Nat
    /\ says \in [Events -> Messages \cup {Absent}] /\ fresh \in [Events -> BOOLEAN]
    /\ stage \in [Events -> Places] /\ found \in [Events -> Found] /\ DOMAIN report = Events
    /\ \A h \in Events : found[h].gen = Absent => found[h].managed = {}
(* The rules in force, and the last good ones, are among those that may be.     *)
RulesOK ==
    /\ file \in {"rules", "absent", "damaged"} \X SUBSET Patterns
    /\ memory \in SUBSET Patterns /\ possible \subseteq SUBSET Patterns
    /\ memory \in possible /\ InForce \in possible

(* What the scans of a text must bring to light.                                *)
Has(text, p) == \E i \in 1..Len(text) : Within(p, text[i])
Visible(hits, rs, text) ==
    /\ hits \subseteq rs /\ \A q \in hits : Has(text, q.pattern)
    /\ \A r \in rs : r.mode = "direct" /\ Has(text, r.pattern) =>
            \E q \in hits : q.strict = r.strict
Fresh(f) ==
    /\ f.gen = Absent /\ f.managed = {} /\ ~f.name /\ f.literal = {} /\ ~f.legacy /\ ~f.over
    /\ f.due \subseteq f.manual
(* What a call knows after the managed scan, and after the literal one.          *)
Managed(f, msg) ==
    /\ f.gen # Absent /\ (f.managed # {} \/ ~f.over) => Visible(f.managed, Entries[f.gen], msg.text)
Named(f, msg) ==
    (\E r \in f.managed : r.political) /\ (\E r \in f.managed : r.strict) =>
        f.name \/ \A p \in Protected(f.gen) : ~Within(p, msg.name)
Literal(f, msg) ==
    /\ \A p \in f.literal : Has(msg.text, p)
    /\ f.gen = Absent /\ ~f.over => f.legacy \/ \A p \in Legacy : ~Has(msg.text, p)
Unread(f) == f.literal = {} /\ ~f.legacy /\ f.due \subseteq f.manual
KnownAt(p, f, msg) ==
    /\ p = <<"managed", "waits">> \/ p = <<"managed", "runs">> => Fresh(f)
    /\ p = <<"managed", "names">> =>
        Managed(f, msg) /\ Unread(f) /\ ~f.over /\ ~f.name /\ f.gen # Absent
    /\ p \in {<<"managed", "ends">>, <<"literal", "waits">>, <<"literal", "runs">>} =>
        Managed(f, msg) /\ Named(f, msg) /\ Unread(f)
    /\ p \in {<<"excerpt", "waits">>, <<"excerpt", "runs">>, <<"persist", "admitted">>, <<"persist", "guard">>} =>
        Managed(f, msg) /\ Named(f, msg) /\ Literal(f, msg)
FoundOK ==
    \A h \in Events :
        /\ stage[h] = <<"new", "">> => found[h] = Unscanned
        /\ stage[h] # <<"new", "">> /\ stage[h][1] # "done" =>
            says[h] \in Messages /\ KnownAt(stage[h], found[h], says[h])
ScansInv == SlotsOK /\ ScansTyped /\ RulesOK /\ FoundOK /\ ProtectedStaysHidden
-----------------------------------------------------------------------------
(* Matching.  What is taken step by step only grows.                            *)

LEMMA LeastOf == ASSUME NEW S \in SUBSET Nat, S # {}
                 PROVE  \E m \in S : \A n \in S : m <= n
<1>1. PICK m \in S : \A n \in S : ~(<<n, m>> \in OpToRel(<, Nat))
    BY NatLessThanWellFounded, WFMin
<1>2. \A n \in S : ~(n < m)
    BY <1>1 DEF OpToRel
<1> QED  BY <1>2

LEMMA Grows ==
    ASSUME NEW n \in Nat, NEW f, \A k \in 1..n : f[k - 1] \subseteq f[k]
    PROVE  \A k \in 0..n : f[k] \subseteq f[n]
<1> SUFFICES ASSUME NEW k \in 0..n PROVE f[k] \subseteq f[n]
    OBVIOUS
<1> DEFINE Bad == {l \in k..n : ~(f[k] \subseteq f[l])}
<1>1. SUFFICES ASSUME Bad # {} PROVE FALSE
    <2>1. n \in k..n
        OBVIOUS
    <2> QED  BY <2>1
<1>2. Bad \in SUBSET Nat
    OBVIOUS
<1>3. PICK m \in Bad : \A l \in Bad : m <= l
    BY <1>1, <1>2, LeastOf
<1>4. m # k /\ m \in k..n
    OBVIOUS
<1>5. m - 1 \in k..n /\ m \in 1..n /\ ~(m <= m - 1)
    BY <1>4
<1>6. f[k] \subseteq f[m - 1]
    BY <1>3, <1>5
<1>7. f[m - 1] \subseteq f[m]
    BY <1>5
<1> QED  BY <1>3, <1>6, <1>7

LEMMA StaysWithin ==
    ASSUME NEW n \in Nat, NEW f, NEW G, f[0] \subseteq G,
           \A k \in 1..n : f[k - 1] \subseteq G => f[k] \subseteq G
    PROVE  \A k \in 0..n : f[k] \subseteq G
<1> DEFINE Bad == {l \in 0..n : ~(f[l] \subseteq G)}
<1>1. SUFFICES ASSUME Bad # {} PROVE FALSE
    OBVIOUS
<1>2. Bad \in SUBSET Nat
    OBVIOUS
<1>3. PICK m \in Bad : \A l \in Bad : m <= l
    BY <1>1, <1>2, LeastOf
<1>4. m # 0 /\ m \in 0..n
    OBVIOUS
<1>5. m - 1 \in 0..n /\ m \in 1..n /\ ~(m <= m - 1)
    BY <1>4
<1>6. f[m - 1] \subseteq G
    BY <1>3, <1>5
<1> QED  BY <1>3, <1>5, <1>6

\* One length: the matches from the left.
NewAt(set, segment, grouped, length, i, taken) ==
    {m \in MatchesAt(set, segment, i, i + length - 1) : Free(m, taken, grouped)}
FromLeft(f, n, set, segment, grouped, length, longer) ==
    f = [i \in 0..n |-> IF i = 0 THEN longer
                        ELSE f[i - 1] \cup NewAt(set, segment, grouped, length, i, f[i - 1])]
LEMMA FromLeftExists ==
    ASSUME NEW set, NEW segment, NEW grouped, NEW length, NEW longer
    PROVE  \A n \in Nat : \E f : FromLeft(f, n, set, segment, grouped, length, longer)
<1> DEFINE Is(f, n) == FromLeft(f, n, set, segment, grouped, length, longer)
           Bad == {n \in Nat : ~(\E f : Is(f, n))}
<1>1. SUFFICES ASSUME Bad # {} PROVE FALSE
    OBVIOUS
<1>2. PICK m \in Bad : \A l \in Bad : m <= l
    BY <1>1, LeastOf
<1>3. CASE m = 0
    <2> DEFINE f == [i \in 0..0 |-> longer]
    <2>1. f = [i \in 0..0 |-> IF i = 0 THEN longer
                ELSE f[i - 1] \cup NewAt(set, segment, grouped, length, i, f[i - 1])]
        OBVIOUS
    <2>2. Is(f, m)
        BY <1>3, <2>1 DEF FromLeft
    <2> QED  BY <1>2, <2>2
<1>4. CASE m # 0
    <2>1. m - 1 \in Nat /\ ~(m <= m - 1) /\ m \in Nat
        BY <1>4
    <2>2. \E g : Is(g, m - 1)
        BY <1>2, <2>1
    <2>3. PICK g : Is(g, m - 1)
        BY <2>2
    <2>4. g = [i \in 0..(m - 1) |-> IF i = 0 THEN longer
                ELSE g[i - 1] \cup NewAt(set, segment, grouped, length, i, g[i - 1])]
        BY <2>3 DEF FromLeft
    <2> DEFINE f == [i \in 0..m |-> IF i # m THEN g[i]
                     ELSE g[m - 1] \cup NewAt(set, segment, grouped, length, m, g[m - 1])]
               Next1(i) == IF i = 0 THEN longer
                           ELSE f[i - 1] \cup NewAt(set, segment, grouped, length, i, f[i - 1])
    <2>5. ASSUME NEW i \in 0..m PROVE f[i] = Next1(i)
        <3>1. CASE i = m
            <4>1. f[i - 1] = g[m - 1] /\ i # 0
                BY <1>4, <2>1, <3>1
            <4> QED  BY <3>1, <4>1
        <3>2. CASE i # m /\ i # 0
            <4>1. i \in 0..(m - 1) /\ i - 1 \in 0..m /\ i - 1 # m
                BY <2>1, <3>2
            <4>2. f[i - 1] = g[i - 1] /\ f[i] = g[i]
                BY <3>2, <4>1
            <4>3. g[i] = g[i - 1] \cup NewAt(set, segment, grouped, length, i, g[i - 1])
                BY <2>4, <3>2, <4>1
            <4> QED  BY <3>2, <4>2, <4>3
        <3>3. CASE i # m /\ i = 0
            <4>1. g[0] = longer
                BY <2>1, <2>4
            <4> QED  BY <3>3, <4>1
        <3> QED  BY <3>1, <3>2, <3>3
    <2>6. f = [i \in 0..m |-> Next1(i)]
        BY <2>5
    <2>7. Is(f, m)
        BY <2>6 DEF FromLeft
    <2> QED  BY <1>2, <2>7
<1> QED  BY <1>3, <1>4

LEMMA OfLength ==
    ASSUME NEW set, NEW segment, NEW grouped, NEW length, NEW longer, Len(segment) \in Nat
    PROVE  \E f : /\ TakenOfLength(set, segment, grouped, length, longer) = f[Len(segment)]
                  /\ FromLeft(f, Len(segment), set, segment, grouped, length, longer)
<1> DEFINE f == CHOOSE f : FromLeft(f, Len(segment), set, segment, grouped, length, longer)
<1>1. FromLeft(f, Len(segment), set, segment, grouped, length, longer)
    BY FromLeftExists
<1>2. TakenOfLength(set, segment, grouped, length, longer) = f[Len(segment)]
    BY DEF TakenOfLength, FromLeft, NewAt
<1> QED  BY <1>1, <1>2

\* A segment: the lengths from the longest.
Longest(f, n, set, segment, grouped) ==
    f = [k \in 0..n |-> IF k = 0 THEN {}
                        ELSE TakenOfLength(set, segment, grouped, Len(segment) + 1 - k, f[k - 1])]
LEMMA LongestExists ==
    ASSUME NEW set, NEW segment, NEW grouped
    PROVE  \A n \in Nat : \E f : Longest(f, n, set, segment, grouped)
<1> DEFINE Is(f, n) == Longest(f, n, set, segment, grouped)
           Bad == {n \in Nat : ~(\E f : Is(f, n))}
           Of(k, taken) == TakenOfLength(set, segment, grouped, Len(segment) + 1 - k, taken)
<1>1. SUFFICES ASSUME Bad # {} PROVE FALSE
    OBVIOUS
<1>2. PICK m \in Bad : \A l \in Bad : m <= l
    BY <1>1, LeastOf
<1>3. CASE m = 0
    <2> DEFINE f == [i \in 0..0 |-> {}]
    <2>1. f = [k \in 0..0 |-> IF k = 0 THEN {} ELSE Of(k, f[k - 1])]
        OBVIOUS
    <2>2. Is(f, m)
        BY <1>3, <2>1 DEF Longest
    <2> QED  BY <1>2, <2>2
<1>4. CASE m # 0
    <2>1. m - 1 \in Nat /\ ~(m <= m - 1) /\ m \in Nat
        BY <1>4
    <2>2. \E g : Is(g, m - 1)
        BY <1>2, <2>1
    <2>3. PICK g : Is(g, m - 1)
        BY <2>2
    <2>4. g = [k \in 0..(m - 1) |-> IF k = 0 THEN {} ELSE Of(k, g[k - 1])]
        BY <2>3 DEF Longest
    <2> DEFINE f == [k \in 0..m |-> IF k # m THEN g[k] ELSE Of(m, g[m - 1])]
               Next1(k) == IF k = 0 THEN {} ELSE Of(k, f[k - 1])
    <2>5. ASSUME NEW k \in 0..m PROVE f[k] = Next1(k)
        <3> HIDE DEF Of
        <3>1. CASE k = m
            <4>1. f[k - 1] = g[m - 1] /\ k # 0
                BY <1>4, <2>1, <3>1
            <4> QED  BY <3>1, <4>1
        <3>2. CASE k # m /\ k # 0
            <4>1. k \in 0..(m - 1) /\ k - 1 \in 0..m /\ k - 1 # m
                BY <2>1, <3>2
            <4>2. f[k - 1] = g[k - 1] /\ f[k] = g[k]
                BY <3>2, <4>1
            <4>3. g[k] = Of(k, g[k - 1])
                BY <2>4, <3>2, <4>1
            <4> QED  BY <3>2, <4>2, <4>3
        <3>3. CASE k # m /\ k = 0
            <4>1. g[0] = {}
                BY <2>1, <2>4
            <4> QED  BY <3>3, <4>1
        <3> QED  BY <3>1, <3>2, <3>3
    <2>6. f = [k \in 0..m |-> Next1(k)]
        BY <2>5
    <2>7. Is(f, m)
        BY <2>6 DEF Longest
    <2> QED  BY <1>2, <2>7
<1> QED  BY <1>3, <1>4

LEMMA TakenIs ==
    ASSUME NEW set, NEW segment, NEW grouped, Len(segment) \in Nat
    PROVE  \E f : /\ Taken(set, segment, grouped) = f[Len(segment)]
                  /\ Longest(f, Len(segment), set, segment, grouped)
<1> DEFINE f == CHOOSE f : Longest(f, Len(segment), set, segment, grouped)
<1>1. Longest(f, Len(segment), set, segment, grouped)
    BY LongestExists
<1>2. Taken(set, segment, grouped) = f[Len(segment)]
    BY DEF Taken, Longest
<1> QED  BY <1>1, <1>2

\* What is taken are matches, and whatever else matches meets one it competes with.
Spans(set, segment) ==
    {m \in [rule : set, start : 1..Len(segment), end : 1..Len(segment)] :
        m.start <= m.end /\ m.rule.pattern = SubSeq(segment, m.start, m.end)}
Beaten(m, taken, grouped) ==
    \E t \in taken : Overlap(t, m) /\ (grouped => SameGroup(t.rule, m.rule))
LEMMA OfLengthTakes ==
    ASSUME NEW set, NEW segment, NEW grouped, Len(segment) \in Nat, NEW length \in 1..Len(segment),
           NEW longer \in SUBSET Spans(set, segment)
    PROVE  LET T == TakenOfLength(set, segment, grouped, length, longer) IN
           /\ T \subseteq Spans(set, segment) /\ longer \subseteq T
           /\ \A i \in 1..Len(segment) : \A m \in MatchesAt(set, segment, i, i + length - 1) :
                m \in T \/ Beaten(m, T, grouped)
<1> DEFINE n == Len(segment)
           T == TakenOfLength(set, segment, grouped, length, longer)
           S == Spans(set, segment)
<1>1. PICK f : T = f[n] /\ FromLeft(f, n, set, segment, grouped, length, longer)
    BY OfLength
<1>2. /\ f[0] = longer
      /\ \A i \in 1..n : f[i] = f[i - 1] \cup NewAt(set, segment, grouped, length, i, f[i - 1])
    <2>1. f = [i \in 0..n |-> IF i = 0 THEN longer
                        ELSE f[i - 1] \cup NewAt(set, segment, grouped, length, i, f[i - 1])]
        BY <1>1 DEF FromLeft
    <2>2. 0 \in 0..n /\ \A i \in 1..n : i \in 0..n /\ i # 0
        OBVIOUS
    <2> HIDE DEF n
    <2> QED  BY <2>1, <2>2
<1>3. \A i \in 1..n : MatchesAt(set, segment, i, i + length - 1) \subseteq S
    BY DEF MatchesAt, Spans
<1> HIDE DEF T, S
<1>4. \A i \in 1..n : f[i - 1] \subseteq S => f[i] \subseteq S
    BY <1>2, <1>3 DEF NewAt
<1>5. f[n] \subseteq S
    <2>1. f[0] \subseteq S
        BY <1>2 DEF S
    <2>2. \A i \in 0..n : f[i] \subseteq S
        BY <1>4, <2>1, StaysWithin
    <2> QED  BY <2>2
<1>6. \A i \in 0..n : f[i] \subseteq f[n]
    <2>1. \A i \in 1..n : f[i - 1] \subseteq f[i]
        BY <1>2
    <2> QED  BY <2>1, Grows
<1>7. ASSUME NEW i \in 1..n, NEW m \in MatchesAt(set, segment, i, i + length - 1)
      PROVE  m \in f[n] \/ Beaten(m, f[n], grouped)
    <2>1. i \in 0..n /\ i - 1 \in 0..n
        OBVIOUS
    <2>2. CASE Free(m, f[i - 1], grouped)
        BY <1>2, <1>6, <2>1, <2>2 DEF NewAt
    <2>3. CASE ~Free(m, f[i - 1], grouped)
        BY <1>6, <2>1, <2>3 DEF Free, Beaten
    <2> QED  BY <2>2, <2>3
<1>8. longer \subseteq f[n]
    BY <1>2, <1>6
<1> QED  BY <1>1, <1>5, <1>7, <1>8 DEF T, S

LEMMA Takes ==
    ASSUME NEW set, NEW segment, NEW grouped, Len(segment) \in Nat
    PROVE  LET T == Taken(set, segment, grouped) IN
           /\ T \subseteq Spans(set, segment)
           /\ \A m \in Spans(set, segment) : m \in T \/ Beaten(m, T, grouped)
<1> DEFINE n == Len(segment)
           T == Taken(set, segment, grouped)
           S == Spans(set, segment)
           Of(k, taken) == TakenOfLength(set, segment, grouped, n + 1 - k, taken)
<1>1. PICK f : T = f[n] /\ Longest(f, n, set, segment, grouped)
    BY TakenIs
<1>2. f[0] = {} /\ \A k \in 1..n : f[k] = Of(k, f[k - 1])
    <2>1. f = [k \in 0..n |-> IF k = 0 THEN {} ELSE Of(k, f[k - 1])]
        BY <1>1 DEF Longest
    <2>2. 0 \in 0..n /\ \A k \in 1..n : k \in 0..n /\ k # 0
        OBVIOUS
    <2> HIDE DEF n, Of
    <2> QED  BY <2>1, <2>2
<1>3. ASSUME NEW k \in 1..n, NEW taken \in SUBSET S
      PROVE  /\ Of(k, taken) \subseteq S /\ taken \subseteq Of(k, taken)
             /\ \A i \in 1..n : \A m \in MatchesAt(set, segment, i, i + (n + 1 - k) - 1) :
                    m \in Of(k, taken) \/ Beaten(m, Of(k, taken), grouped)
    <2>1. n + 1 - k \in 1..n
        OBVIOUS
    <2> QED  BY <2>1, OfLengthTakes
<1> HIDE DEF T, S, Of
<1>4. \A k \in 0..n : f[k] \subseteq S
    <2>1. \A k \in 1..n : f[k - 1] \subseteq S => f[k] \subseteq S
        BY <1>2, <1>3
    <2>2. f[0] \subseteq S
        BY <1>2
    <2> QED  BY <2>1, <2>2, StaysWithin
<1>5. \A k \in 0..n : f[k] \subseteq f[n]
    <2>1. \A k \in 1..n : f[k - 1] \subseteq f[k]
        <3> TAKE k \in 1..n
        <3>1. f[k - 1] \in SUBSET S
            BY <1>4
        <3> QED  BY <1>2, <1>3, <3>1
    <2> QED  BY <2>1, Grows
<1>6. ASSUME NEW m \in S PROVE m \in f[n] \/ Beaten(m, f[n], grouped)
    <2>1. /\ m.start \in 1..n /\ m.end \in 1..n /\ m.start <= m.end /\ m.rule \in set
          /\ m.rule.pattern = SubSeq(segment, m.start, m.end)
          /\ m = [rule |-> m.rule, start |-> m.start, end |-> m.end]
        BY DEF S, Spans
    <2>2. PICK k \in 1..n : k = n - (m.end - m.start)
        BY <2>1
    <2>3. m.start + (n + 1 - k) - 1 = m.end
        BY <2>1, <2>2
    <2>4. m \in MatchesAt(set, segment, m.start, m.end)
        BY <2>1 DEF MatchesAt
    <2>5. f[k - 1] \in SUBSET S /\ f[k] \subseteq f[n]
        BY <1>4, <1>5
    <2>6. m \in MatchesAt(set, segment, m.start, m.start + (n + 1 - k) - 1)
        BY <2>3, <2>4
    <2>7. PICK taken : taken = f[k - 1]
        OBVIOUS
    <2>8. f[k] = Of(k, taken) /\ taken \in SUBSET S
        BY <1>2, <2>5, <2>7
    <2>9. \A i \in 1..n : \A x \in MatchesAt(set, segment, i, i + (n + 1 - k) - 1) :
                x \in f[k] \/ Beaten(x, f[k], grouped)
        <3>1. \A i \in 1..n : \A x \in MatchesAt(set, segment, i, i + (n + 1 - k) - 1) :
                    x \in Of(k, taken) \/ Beaten(x, Of(k, taken), grouped)
            BY ONLY <1>3, <2>8
        <3> QED  BY ONLY <2>8, <3>1
    <2>10. m \in f[k] \/ Beaten(m, f[k], grouped)
        BY ONLY <2>1, <2>6, <2>9
    <2> QED  BY <2>5, <2>10 DEF Beaten
<1>7. f[n] \subseteq S
    BY <1>4
<1> QED  BY <1>1, <1>6, <1>7 DEF T, S

\* A pattern within a segment has a span.
LEMMA SpanOf ==
    ASSUME NEW set, NEW segment \in Text
    PROVE  /\ \A r \in set : Within(r.pattern, segment) =>
                \E m \in Spans(set, segment) : m.rule = r
           /\ \A m \in Spans(set, segment) : m.rule \in set /\ Within(m.rule.pattern, segment)
<1>1. ASSUME NEW r \in set, Within(r.pattern, segment)
      PROVE  \E m \in Spans(set, segment) : m.rule = r
    <2>1. PICK i, j \in 1..Len(segment) : i <= j /\ SubSeq(segment, i, j) = r.pattern
        BY <1>1 DEF Within
    <2> DEFINE m == [rule |-> r, start |-> i, end |-> j]
    <2>2. m \in Spans(set, segment) /\ m.rule = r
        BY <2>1 DEF Spans
    <2> QED  BY <2>2
<1>2. ASSUME NEW m \in Spans(set, segment)
      PROVE  m.rule \in set /\ Within(m.rule.pattern, segment)
    BY DEF Spans, Within
<1> QED  BY <1>1, <1>2

\* A pattern within a pattern within a segment is within the segment.
LEMMA WithinWithin ==
    ASSUME NEW segment \in Text, NEW p, NEW q, Within(p, q), Within(q, segment)
    PROVE  Within(p, segment)
<1>1. PICK i, j \in 1..Len(segment) : i <= j /\ SubSeq(segment, i, j) = q
    BY DEF Within
<1>2. PICK a, b \in 1..Len(q) : a <= b /\ SubSeq(q, a, b) = p
    BY DEF Within
<1>3. segment \in Seq(STRING) /\ Len(segment) \in Nat
    BY DEF Text
<1>4. q \in Seq(STRING) /\ Len(q) = j - i + 1
    <2>1. PICK S : S = STRING
        OBVIOUS
    <2>2. \A k \in i..j : segment[k] \in S
        BY <1>3, <2>1
    <2>3. i \in Int /\ j \in Int
        OBVIOUS
    <2>4. SubSeq(segment, i, j) \in Seq(S) /\ Len(SubSeq(segment, i, j)) = IF i <= j THEN j - i + 1 ELSE 0
        BY ONLY <2>2, <2>3, SubSeqProperties
    <2> QED  BY <1>1, <2>1, <2>4
<1>5. SubSeq(segment, i + a - 1, i + b - 1) = p
    <2>1. a \in 1..j - i + 1 /\ b \in 1..j - i + 1
        BY <1>2, <1>4
    <2>2. SubSeq(SubSeq(segment, i, j), a, b) = SubSeq(segment, i + a - 1, i + b - 1)
        BY ONLY <1>1, <1>3, <2>1, SubSeqOfSubSeq
    <2> QED  BY <1>1, <1>2, <2>2
<1>6. i + a - 1 \in 1..Len(segment) /\ i + b - 1 \in 1..Len(segment) /\ i + a - 1 <= i + b - 1
    BY <1>1, <1>2, <1>3, <1>4
<1> QED  BY <1>5, <1>6 DEF Within
-----------------------------------------------------------------------------
(* The scans.                                                                    *)

LEMMA TextsAre == Texts \subseteq Seq(Text)
<1>1. ASSUME NEW m \in Messages PROVE m.text \in Seq(Text) /\ <<m.name>> \in Seq(Text)
    <2>1. m.text \in Seq(Text) /\ m.name \in Text
        BY RulesAssumption
    <2> QED  BY <2>1
<1> QED  BY <1>1 DEF Texts

\* A direct rule of a segment is hit, or one of its disclosure is.
LEMMA SegmentHits ==
    ASSUME NEW set \in SUBSET Rule, NEW segment \in Text
    PROVE  LET hits == InSegment(set, segment).hits IN
           /\ hits \subseteq set /\ \A q \in hits : Within(q.pattern, segment)
           /\ \A r \in set : r.mode = "direct" /\ Within(r.pattern, segment) =>
                \E q \in hits : q.strict = r.strict
<1> DEFINE T == Taken(set, segment, TRUE)
           hits == InSegment(set, segment).hits
<1>1. Len(segment) \in Nat
    BY DEF Text
<1>2. /\ T \subseteq Spans(set, segment)
      /\ \A m \in Spans(set, segment) : m \in T \/ Beaten(m, T, TRUE)
    BY <1>1, Takes
<1> HIDE DEF T
<1>3. /\ \A q \in hits : \E m \in T : m.rule = q
      /\ \A m \in T : m.rule.mode = "direct" => m.rule \in hits
    BY DEF InSegment, T
<1> HIDE DEF hits
<1>4. \A m \in T : m.rule \in set /\ Within(m.rule.pattern, segment)
    BY <1>2, SpanOf
<1>5. ASSUME NEW r \in set, r.mode = "direct", Within(r.pattern, segment)
      PROVE  \E q \in hits : q.strict = r.strict
    <2>1. PICK m \in Spans(set, segment) : m.rule = r
        BY <1>5, SpanOf
    <2>2. CASE m \in T
        BY <1>3, <1>5, <2>1, <2>2
    <2>3. CASE Beaten(m, T, TRUE)
        <3>1. PICK t \in T : SameGroup(t.rule, m.rule)
            BY <2>3 DEF Beaten
        <3>2. t.rule.strict = r.strict /\ t.rule.mode = "direct"
            BY <1>5, <2>1, <3>1 DEF SameGroup
        <3> QED  BY <1>3, <3>2
    <2> QED  BY <1>2, <2>2, <2>3
<1>6. hits \subseteq set /\ \A q \in hits : Within(q.pattern, segment)
    BY <1>3, <1>4
<1> QED  BY <1>5, <1>6 DEF hits

LEMMA ManagedFinds ==
    ASSUME NEW g \in Generations, NEW text \in Texts
    PROVE  LET scan == Limited(ManagedScans[g][text]) IN
           /\ scan.over \in BOOLEAN /\ scan.hits \subseteq Entries[g]
           /\ scan.over => scan.hits = {}
           /\ ~scan.over => Visible(scan.hits, Entries[g], text)
<1>1. ManagedScans[g][text] = ManagedScan(Entries[g], text)
    BY DEF ManagedScans
<1>2. Entries[g] \in SUBSET Rule
    BY RulesAssumption
<1>3. text \in Seq(Text)
    BY TextsAre
<1> DEFINE full == ManagedScan(Entries[g], text)
           Of(i) == InSegment(Entries[g], text[i])
           scan == Limited(full)
<1>4. full.over \in BOOLEAN /\ full.hits = UNION {Of(i).hits : i \in 1..Len(text)}
    <2>1. full = [over |-> full.over, hits |-> full.hits]
        BY DEF ManagedScan
    <2>2. full.over \in BOOLEAN
        BY DEF ManagedScan
    <2> DEFINE each == [i \in 1..Len(text) |-> InSegment(Entries[g], text[i])]
    <2>3. full.hits = UNION {each[i].hits : i \in 1..Len(text)}
        BY DEF ManagedScan
    <2>4. \A i \in 1..Len(text) : each[i] = Of(i)
        OBVIOUS
    <2> HIDE DEF each, Of, full
    <2>5. UNION {each[i].hits : i \in 1..Len(text)} = UNION {Of(i).hits : i \in 1..Len(text)}
        BY <2>4
    <2> QED  BY <2>2, <2>3, <2>5
<1>5. full = [over |-> full.over, hits |-> full.hits]
    BY DEF ManagedScan
<1>6. \A i \in 1..Len(text) :
        /\ Of(i).hits \subseteq Entries[g] /\ \A q \in Of(i).hits : Within(q.pattern, text[i])
        /\ \A r \in Entries[g] : r.mode = "direct" /\ Within(r.pattern, text[i]) =>
            \E q \in Of(i).hits : q.strict = r.strict
    <2> TAKE i \in 1..Len(text)
    <2>1. text[i] \in Text
        BY <1>3
    <2> QED  BY <1>2, <2>1, SegmentHits
<1> HIDE DEF full, Of
<1>7. Visible(full.hits, Entries[g], text)
    <2>1. full.hits \subseteq Entries[g]
        BY <1>4, <1>6
    <2>2. \A q \in full.hits : Has(text, q.pattern)
        BY <1>4, <1>6 DEF Has
    <2>3. ASSUME NEW r \in Entries[g], r.mode = "direct", Has(text, r.pattern)
          PROVE  \E q \in full.hits : q.strict = r.strict
        BY <1>4, <1>6, <2>3 DEF Has
    <2> QED  BY <2>1, <2>2, <2>3 DEF Visible
<1>8. scan.over = full.over /\ scan.hits = IF full.over THEN {} ELSE full.hits
    BY <1>4, <1>5 DEF Limited
<1>9. scan.over \in BOOLEAN /\ scan.hits \subseteq Entries[g]
    BY <1>4, <1>7, <1>8 DEF Visible
<1> HIDE DEF scan
<1>10. /\ scan.over => scan.hits = {}
       /\ ~scan.over => Visible(scan.hits, Entries[g], text)
    BY <1>4, <1>7, <1>8
<1> QED  BY <1>1, <1>9, <1>10 DEF scan, full

LEMMA LiteralFinds ==
    ASSUME NEW S \in SUBSET Text, S = {} \/ S = Legacy \/ S \in SUBSET Patterns, NEW text \in Texts
    PROVE  LET scan == LiteralScans[S][text] IN
           /\ scan.over \in BOOLEAN /\ scan.hits \subseteq S
           /\ \A p \in scan.hits : Has(text, p)
           /\ \A p \in S : Has(text, p) => scan.hits # {}
<1>1. LiteralScans[S][text] = LiteralScan(S, text)
    BY DEF LiteralScans
<1>2. text \in Seq(Text)
    BY TextsAre
<1> DEFINE set == AsRules(S)
           T(i) == Taken(set, text[i], FALSE)
           scan == LiteralScan(S, text)
<1>3. scan.over \in BOOLEAN
    BY DEF LiteralScan
<1>4. /\ \A p \in scan.hits : \E i \in 1..Len(text) : \E m \in T(i) : m.rule.pattern = p
      /\ \A i \in 1..Len(text) : \A m \in T(i) : m.rule.pattern \in scan.hits
    <2>1. scan.hits = UNION {{m.rule.pattern : m \in T(i)} : i \in 1..Len(text)}
        BY DEF LiteralScan
    <2> HIDE DEF T, scan
    <2> QED  BY <2>1
<1>5. /\ \A r \in set : r.pattern \in S
      /\ \A p \in S : \E r \in set : r.pattern = p
    <2> DEFINE Of(p) == [pattern |-> p, mode |-> "direct", strict |-> FALSE,
                         political |-> FALSE, about |-> {}]
    <2>1. set = {Of(p) : p \in S}
        BY DEF AsRules
    <2>2. \A p : Of(p).pattern = p
        OBVIOUS
    <2> HIDE DEF set, Of
    <2> QED  BY <2>1, <2>2
<1>6. \A i \in 1..Len(text) :
        /\ T(i) \subseteq Spans(set, text[i])
        /\ \A m \in Spans(set, text[i]) : m \in T(i) \/ Beaten(m, T(i), FALSE)
    <2> TAKE i \in 1..Len(text)
    <2>1. Len(text[i]) \in Nat
        BY <1>2 DEF Text
    <2> QED  BY <2>1, Takes
<1>7. \A i \in 1..Len(text) :
        /\ \A r \in set : Within(r.pattern, text[i]) => \E m \in Spans(set, text[i]) : m.rule = r
        /\ \A m \in Spans(set, text[i]) : m.rule \in set /\ Within(m.rule.pattern, text[i])
    <2> TAKE i \in 1..Len(text)
    <2>1. text[i] \in Text
        BY <1>2
    <2> QED  BY <2>1, SpanOf
<1> HIDE DEF T, scan, set
<1>8. ASSUME NEW p \in scan.hits PROVE p \in S /\ Has(text, p)
    <2>1. PICK i \in 1..Len(text) : \E m \in T(i) : m.rule.pattern = p
        BY <1>4
    <2>2. PICK m \in T(i) : m.rule.pattern = p
        BY <2>1
    <2>3. m.rule \in set /\ Within(p, text[i])
        BY <1>6, <1>7, <2>2
    <2> QED  BY <1>5, <2>2, <2>3 DEF Has
<1>9. ASSUME NEW p \in S, Has(text, p) PROVE scan.hits # {}
    <2>1. PICK i \in 1..Len(text) : Within(p, text[i])
        BY <1>9 DEF Has
    <2>2. PICK m \in Spans(set, text[i]) : TRUE
        BY <1>5, <1>7, <2>1
    <2>3. \E t : t \in T(i)
        BY <1>6, <2>2 DEF Beaten
    <2> QED  BY <1>4, <2>3
<1> QED  BY <1>1, <1>3, <1>8, <1>9 DEF scan
-----------------------------------------------------------------------------
(* Slots.  A call that moves takes or gives back what its two places differ in.  *)

Seat(p, S) == IF p \in S THEN 1 ELSE 0
LEMMA CountMoves ==
    ASSUME NEW st \in [Events -> Places], NEW S, NEW n, HeldBy(st, S, n), NEW h \in Events, NEW x
    PROVE  n \in Nat /\ HeldBy([st EXCEPT ![h] = x], S, n - Seat(st[h], S) + Seat(x, S))
<1> DEFINE A == At(st, S)
           B == At([st EXCEPT ![h] = x], S)
<1>1. IsFiniteSet(A) /\ n = Cardinality(A)
    BY DEF HeldBy
<1>2. n \in Nat
    BY <1>1, FS_CardinalityType
<1>3. (h \in A <=> st[h] \in S) /\ B = IF x \in S THEN A \cup {h} ELSE A \ {h}
    BY DEF At
<1> HIDE DEF A, B
<1>4. CASE x \in S
    <2>1. IsFiniteSet(B) /\ Cardinality(B) = IF h \in A THEN n ELSE n + 1
        BY <1>1, <1>3, <1>4, FS_AddElement
    <2>2. Cardinality(B) = n - Seat(st[h], S) + Seat(x, S)
        BY <1>2, <1>3, <1>4, <2>1 DEF Seat
    <2> QED  BY <1>2, <2>1, <2>2 DEF HeldBy, B
<1>5. CASE x \notin S
    <2>1. IsFiniteSet(B) /\ Cardinality(B) = IF h \in A THEN n - 1 ELSE n
        BY <1>1, <1>3, <1>5, FS_RemoveElement
    <2>2. Cardinality(B) = n - Seat(st[h], S) + Seat(x, S)
        BY <1>2, <1>3, <1>5, <2>1 DEF Seat
    <2> QED  BY <1>2, <2>1, <2>2 DEF HeldBy, B
<1> QED  BY <1>4, <1>5

LEMMA OneMoves ==
    ASSUME NEW st \in [Events -> Places], NEW S, NEW g, HeldByOne(st, S, g), NEW h \in Events, NEW x,
           x \in S => st[h] \in S \/ ~g
    PROVE  HeldByOne([st EXCEPT ![h] = x], S,
                     IF x \in S THEN TRUE ELSE IF st[h] \in S THEN FALSE ELSE g)
<1> DEFINE A == At(st, S)
           B == At([st EXCEPT ![h] = x], S)
<1>1. g \in BOOLEAN /\ (g <=> A # {}) /\ \A i, e \in A : i = e
    BY DEF HeldByOne
<1>2. (h \in A <=> st[h] \in S) /\ B = IF x \in S THEN A \cup {h} ELSE A \ {h}
    BY DEF At
<1> HIDE DEF A, B
<1>3. CASE x \in S
    <2>1. B = {h}
        BY <1>1, <1>2, <1>3
    <2> QED  BY <1>3, <2>1 DEF HeldByOne, B
<1>4. CASE x \notin S /\ st[h] \in S
    <2>1. B = {}
        BY <1>1, <1>2, <1>4
    <2> QED  BY <1>4, <2>1 DEF HeldByOne, B
<1>5. CASE x \notin S /\ st[h] \notin S
    <2>1. B = A
        BY <1>2, <1>5
    <2>2. HeldByOne([st EXCEPT ![h] = x], S, g)
        BY <1>1, <2>1 DEF HeldByOne, B
    <2> QED  BY <1>5, <2>2
<1> QED  BY <1>3, <1>4, <1>5

LEMMA SlotsMove ==
    ASSUME SlotsOK, stage \in [Events -> Places], NEW h \in Events, NEW x,
           stage' = [stage EXCEPT ![h] = x],
           admitted' = admitted - Seat(stage[h], Admitted) + Seat(x, Admitted),
           admitted' <= MaxAdmitted \/ admitted' <= admitted,
           scans' = scans - Seat(stage[h], Threads) + Seat(x, Threads),
           scans' <= MaxScans \/ scans' <= scans,
           guard' = IF x \in Guarded THEN TRUE ELSE IF stage[h] \in Guarded THEN FALSE ELSE guard,
           x \in Guarded => stage[h] \in Guarded \/ ~guard
    PROVE  SlotsOK'
<1>1. PICK a, b, c : a = admitted' /\ b = scans' /\ c = guard'
    OBVIOUS
<1>2. HeldBy(stage', Admitted, a) /\ HeldBy(stage', Threads, b) /\ admitted \in Nat /\ scans \in Nat
    BY <1>1, CountMoves DEF SlotsOK
<1>3. HeldByOne(stage', Guarded, c)
    BY <1>1, OneMoves DEF SlotsOK
<1>4. a \in Nat /\ b \in Nat
    BY <1>2, FS_CardinalityType DEF HeldBy
<1>5. a <= MaxAdmitted /\ b <= MaxScans
    BY <1>1, <1>2, <1>4, ScanBounds DEF SlotsOK
<1>6. /\ HeldBy(stage', Admitted, admitted') /\ HeldBy(stage', Threads, scans')
      /\ HeldByOne(stage', Guarded, guard') /\ admitted' <= MaxAdmitted /\ scans' <= MaxScans
    BY <1>1, <1>2, <1>3, <1>5
<1> QED  BY <1>6 DEF SlotsOK, HeldBy, HeldByOne, At, Admitted, Guarded

\* Which places hold what.
LEMMA ScanningHolds ==
    ASSUME NEW p \in Scanning
    PROVE  /\ p \in Admitted /\ p \notin Guarded /\ (p \in Threads <=> p[2] # "waits") /\ p \in Places
           /\ p[2] # "guard" /\ p[1] \in {"managed", "literal", "excerpt"} /\ p = <<p[1], p[2]>>
<1>1. PICK k \in {"managed", "literal", "excerpt"}, f \in Phases : p = <<k, f>>
    BY DEF Scanning
<1>2. p[1] = k /\ p[2] = f
    BY <1>1
<1>3. p \in Admitted /\ p \in Places
    BY DEF Admitted, Places
<1>4. p \notin Guarded /\ f # "guard"
    BY <1>1 DEF Guarded, Phases
<1>5. p \in Threads <=> f # "waits"
    BY <1>1 DEF Threads
<1> QED  BY <1>1, <1>2, <1>3, <1>4, <1>5

LEMMA AlertingHolds ==
    ASSUME NEW k \in {"persist", "deliver"}, NEW g \in {"admitted", "guard"}
    PROVE  /\ <<k, g>> \in Admitted <=> g = "admitted"
           /\ <<k, g>> \in Guarded <=> g = "guard"
           /\ <<k, g>> \notin Threads /\ <<k, g>> \in Places
BY DEF Admitted, Guarded, Scanning, Phases, Threads, Places, Alerting

LEMMA IdleHolds ==
    /\ \A e : /\ <<"done", e>> \notin Admitted /\ <<"done", e>> \notin Threads
              /\ <<"done", e>> \notin Guarded
    /\ \A e : /\ <<"new", e>> \notin Admitted /\ <<"new", e>> \notin Threads
              /\ <<"new", e>> \notin Guarded
    /\ \A e \in Endings : <<"done", e>> \in Places
BY DEF Admitted, Guarded, Scanning, Threads, Places

LEMMA PlacesAre ==
    ASSUME NEW p \in Places
    PROVE  \/ p \in Scanning
           \/ p = <<"new", "">>
           \/ p[1] = "done" /\ \E e \in Endings : p = <<"done", e>>
           \/ \E k \in {"persist", "deliver"}, g \in {"admitted", "guard"} :
                p = <<k, g>> /\ p[1] = k /\ p[2] = g
<1>1. CASE p \in {"done"} \X Endings
    <2>1. PICK e \in Endings : p = <<"done", e>>
        BY <1>1
    <2> QED  BY <2>1
<1>2. CASE p \in Alerting
    <2>1. PICK k \in {"persist", "deliver"}, g \in {"admitted", "guard"} : p = <<k, g>>
        BY <1>2 DEF Alerting
    <2> QED  BY <2>1
<1> QED  BY <1>1, <1>2 DEF Places

-----------------------------------------------------------------------------
(* Steps.                                                                        *)

\* What a call that finds nothing has seen to: the body of HitsAreReported.
Searched(f, msg) ==
    /\ \A p \in f.due : ~Has(msg.text, p)
    /\ IF f.gen = Absent
       THEN \A p \in Legacy : ~Has(msg.text, p)
       ELSE \A r \in Entries[f.gen] : r.mode = "direct" => ~Has(msg.text, r.pattern)
Looked ==
    \A h \in Events : (stage'[h] = <<"done", "nothing">> /\ stage[h] # stage'[h]) =>
                            Searched(found[h], says[h])
\* What an alert shows, for a message: the body of ProtectedStaysHidden.
Discreet(shown, msg) ==
    LET secrets == Protected(shown.gen)
        hidden == ~shown.excerpt /\ shown.terms = {} IN
    /\ shown.over => hidden
    /\ (\E p \in secrets : Has(msg.text, p)) =>
        /\ hidden
        /\ shown.name => \A p \in secrets : ~Within(p, msg.name)
    /\ \A t \in shown.terms, p \in secrets : ~Within(p, t)
LEMMA Discretion ==
    ProtectedStaysHidden <=> \A h \in Events : report[h] # Absent => Discreet(report[h], says[h])
BY DEF ProtectedStaysHidden, Discreet, HasPattern, Has

LEMMA SameReports ==
    ASSUME ProtectedStaysHidden, UNCHANGED <<report, says>>
    PROVE  ProtectedStaysHidden'
BY DEF ProtectedStaysHidden, HasPattern

Known == ScansTyped /\ RulesOK /\ FoundOK
LEMMA CallMoves ==
    ASSUME Known, NEW h \in Events, NEW x \in Places, NEW f \in Found,
           stage' = [stage EXCEPT ![h] = x], found' = [found EXCEPT ![h] = f],
           f.gen = Absent => f.managed = {}, x # <<"new", "">>,
           x[1] # "done" => says[h] \in Messages /\ KnownAt(x, f, says[h]),
           x = <<"done", "nothing">> => Searched(found[h], says[h]),
           UNCHANGED <<on, active, file, possible, says, fresh>>, upsets' \in Nat,
           memory' = memory \/ memory' = InForce, DOMAIN report' = Events
    PROVE  Known' /\ Looked
<1>1. ScansTyped'
    <2>1. /\ on' \in BOOLEAN /\ active' \in Generations \cup {Absent} /\ upsets' \in Nat
          /\ says' \in [Events -> Messages \cup {Absent}] /\ fresh' \in [Events -> BOOLEAN]
          /\ stage \in [Events -> Places] /\ found \in [Events -> Found]
          /\ \A e \in Events : found[e].gen = Absent => found[e].managed = {}
        BY DEF Known, ScansTyped
    <2>2. stage' \in [Events -> Places]
        BY <2>1
    <2>3. found' \in [Events -> Found]
        BY <2>1
    <2>4. \A e \in Events : found'[e].gen = Absent => found'[e].managed = {}
        BY <2>1
    <2> QED  BY <2>1, <2>2, <2>3, <2>4 DEF ScansTyped
<1>2. RulesOK'
    BY DEF Known, RulesOK, InForce, Readable
<1>3. stage \in [Events -> Places] /\ found \in [Events -> Found]
    BY DEF Known, ScansTyped
<1>4. \A e \in Events : e # h => stage'[e] = stage[e] /\ found'[e] = found[e]
    BY <1>3
<1>5. stage'[h] = x /\ found'[h] = f
    BY <1>3
<1>6. FoundOK'
    <2> SUFFICES ASSUME NEW e \in Events
                 PROVE  /\ stage'[e] = <<"new", "">> => found'[e] = Unscanned
                        /\ stage'[e] # <<"new", "">> /\ stage'[e][1] # "done" =>
                            says'[e] \in Messages /\ KnownAt(stage'[e], found'[e], says'[e])
        BY DEF FoundOK
    <2>1. CASE e = h
        BY <1>5, <2>1
    <2>2. CASE e # h
        BY <1>4, <2>2 DEF Known, FoundOK
    <2> QED  BY <2>1, <2>2
<1>7. Looked
    BY <1>4, <1>5 DEF Looked
<1> QED  BY <1>1, <1>2, <1>6, <1>7 DEF Known

LEMMA Returns ==
    ASSUME SlotsOK, Known, NEW h \in Events, NEW ending \in Endings, Return(h, ending),
           stage[h][1] \notin {"new", "done"}, scans' = scans - Seat(stage[h], Threads),
           ending = "nothing" => Searched(found[h], says[h]),
           found' = found \/ \E f \in Found : (f.gen = Absent => f.managed = {}) /\ found' = [found EXCEPT ![h] = f],
           UNCHANGED <<on, active, rules, says, fresh, report>>, upsets' \in Nat
    PROVE  SlotsOK' /\ Known' /\ Looked
<1> DEFINE x == <<"done", ending>>
<1>1. stage \in [Events -> Places] /\ found \in [Events -> Found] /\ DOMAIN report = Events
      /\ (found[h].gen = Absent => found[h].managed = {})
    BY DEF Known, ScansTyped
<1>2. stage' = [stage EXCEPT ![h] = x]
    BY DEF Return
<1>3. Seat(x, Admitted) = 0 /\ Seat(x, Threads) = 0 /\ x \notin Guarded /\ x \in Places
    BY IdleHolds DEF Seat
<1>4. stage[h] \in Places
    BY <1>1
<1>5. \/ stage[h] \in Scanning
      \/ \E k \in {"persist", "deliver"}, g \in {"admitted", "guard"} :
            stage[h] = <<k, g>> /\ stage[h][2] = g
    <2>1. stage[h] # <<"new", "">>
        <3>1. <<"new", "">>[1] = "new"
            OBVIOUS
        <3> QED  BY <3>1
    <2> QED  BY <1>4, <2>1, PlacesAre
<1>6. (stage[h][2] = "guard" <=> stage[h] \in Guarded) /\ (stage[h][2] # "guard" <=> stage[h] \in Admitted)
    <2>1. CASE stage[h] \in Scanning
        BY <2>1, ScanningHolds
    <2>2. ASSUME NEW k \in {"persist", "deliver"}, NEW g \in {"admitted", "guard"},
                 stage[h] = <<k, g>>, stage[h][2] = g
          PROVE  (stage[h][2] = "guard" <=> stage[h] \in Guarded) /\ (stage[h][2] # "guard" <=> stage[h] \in Admitted)
        <3>1. (stage[h] \in Admitted <=> g = "admitted") /\ (stage[h] \in Guarded <=> g = "guard")
            BY <2>2, AlertingHolds
        <3> QED  BY <2>2, <3>1
    <2> QED  BY <1>5, <2>1, <2>2
<1>7. /\ admitted' = admitted - Seat(stage[h], Admitted)
      /\ guard' = IF stage[h] \in Guarded THEN FALSE ELSE guard
    <2>1. admitted \in Nat
        BY FS_CardinalityType DEF SlotsOK, HeldBy
    <2>2. CASE stage[h][2] = "guard"
        <3>1. guard' = FALSE /\ admitted' = admitted
            BY <2>2 DEF Return
        <3>2. stage[h] \in Guarded /\ Seat(stage[h], Admitted) = 0
            BY <1>6, <2>2 DEF Seat
        <3>3. admitted' = admitted - Seat(stage[h], Admitted)
            BY ONLY <2>1, <3>1, <3>2
        <3> QED  BY <3>1, <3>2, <3>3
    <2>3. CASE stage[h][2] # "guard"
        <3>1. guard' = guard /\ admitted' = admitted - 1
            BY <2>3 DEF Return
        <3>2. stage[h] \notin Guarded /\ Seat(stage[h], Admitted) = 1
            BY <1>6, <2>3 DEF Seat
        <3>3. admitted' = admitted - Seat(stage[h], Admitted)
            BY ONLY <3>1, <3>2
        <3> QED  BY <3>1, <3>2, <3>3
    <2> QED  BY <2>2, <2>3
<1>8. admitted \in Nat /\ scans \in Nat
    BY FS_CardinalityType DEF SlotsOK, HeldBy
<1>9. SlotsOK'
    <2>1. /\ admitted' = admitted - Seat(stage[h], Admitted) + Seat(x, Admitted)
          /\ scans' = scans - Seat(stage[h], Threads) + Seat(x, Threads)
          /\ admitted' <= admitted /\ scans' <= scans
        BY <1>3, <1>7, <1>8 DEF Seat
    <2>2. guard' = IF x \in Guarded THEN TRUE ELSE IF stage[h] \in Guarded THEN FALSE ELSE guard
        BY <1>3, <1>7
    <2> HIDE DEF x
    <2> QED  BY <1>1, <1>2, <1>3, <2>1, <2>2, SlotsMove
<1>10. PICK f \in Found : (f.gen = Absent => f.managed = {}) /\ found' = [found EXCEPT ![h] = f]
    <2>1. CASE found' = found
        <3>1. found' = [found EXCEPT ![h] = found[h]] /\ found[h] \in Found
            BY <1>1, <2>1
        <3> QED  BY <1>1, <3>1
    <2> QED  BY <2>1
<1>11. x # <<"new", "">> /\ x[1] = "done" /\ (x = <<"done", "nothing">> => ending = "nothing")
    OBVIOUS
<1>12. UNCHANGED <<on, active, file, possible, says, fresh, memory>> /\ DOMAIN report' = Events
    BY <1>1 DEF rules
<1> HIDE DEF x
<1>13. Known' /\ Looked
    BY <1>2, <1>3, <1>10, <1>11, <1>12, CallMoves
<1> QED  BY <1>9, <1>13
LEMMA Moves ==
    ASSUME SlotsOK, Known, NEW h \in Events, NEW x \in Places, MovesTo(h, x),
           x \in Admitted <=> stage[h] \in Admitted, x \in Guarded <=> stage[h] \in Guarded,
           scans' = scans - Seat(stage[h], Threads) + Seat(x, Threads),
           scans' <= MaxScans \/ scans' <= scans, x[1] \notin {"new", "done"},
           says[h] \in Messages, NEW f \in Found, f.gen = Absent => f.managed = {},
           found' = [found EXCEPT ![h] = f], KnownAt(x, f, says[h]),
           UNCHANGED <<on, active, rules, says, fresh>>, upsets' \in Nat, DOMAIN report' = Events
    PROVE  SlotsOK' /\ Known' /\ Looked
<1>1. stage' = [stage EXCEPT ![h] = x] /\ UNCHANGED <<admitted, guard>>
    BY DEF MovesTo
<1>2. stage \in [Events -> Places]
    BY DEF Known, ScansTyped
<1>3. admitted \in Nat
    BY FS_CardinalityType DEF SlotsOK, HeldBy
<1>4. Seat(stage[h], Admitted) = Seat(x, Admitted) /\ Seat(x, Admitted) \in {0, 1}
    BY DEF Seat
<1>5. admitted' = admitted - Seat(stage[h], Admitted) + Seat(x, Admitted) /\ admitted' <= admitted
    BY <1>1, <1>3, <1>4
<1>6. HeldByOne(stage, Guarded, guard)
    BY DEF SlotsOK
<1>7. h \in At(stage, Guarded) <=> stage[h] \in Guarded
    BY DEF At
<1>8. guard' = IF x \in Guarded THEN TRUE ELSE IF stage[h] \in Guarded THEN FALSE ELSE guard
    <2>1. CASE x \in Guarded
        <3>1. guard = TRUE
            BY <1>6, <1>7, <2>1 DEF HeldByOne
        <3> QED  BY <1>1, <2>1, <3>1
    <2>2. CASE x \notin Guarded
        BY <1>1, <2>2
    <2> QED  BY <2>1, <2>2
<1>9. /\ admitted' <= MaxAdmitted \/ admitted' <= admitted
      /\ x \in Guarded => stage[h] \in Guarded \/ ~guard
    BY <1>5
<1>10. SlotsOK'
    <2>1. stage' = [stage EXCEPT ![h] = x]
        BY <1>1
    <2>2. admitted' = admitted - Seat(stage[h], Admitted) + Seat(x, Admitted)
        BY <1>5
    <2>3. scans' = scans - Seat(stage[h], Threads) + Seat(x, Threads)
        OBVIOUS
    <2>4. scans' <= MaxScans \/ scans' <= scans
        OBVIOUS
    <2>5. SlotsOK
        OBVIOUS
    <2> QED  BY ONLY <1>2, <1>8, <1>9, <2>1, <2>2, <2>3, <2>4, <2>5, SlotsMove
<1>11. x # <<"new", "">> /\ x # <<"done", "nothing">> /\ x[1] # "done"
    <2>1. <<"new", "">>[1] = "new" /\ <<"done", "nothing">>[1] = "done"
        OBVIOUS
    <2> QED  BY <2>1
<1>12. UNCHANGED <<on, active, file, possible, says, fresh, memory>>
    BY DEF rules
<1>13. Known' /\ Looked
    BY <1>1, <1>11, <1>12, CallMoves
<1> QED  BY <1>10, <1>13

\* A call under way: its message, and what it knows.
LEMMA Underway ==
    ASSUME Known, NEW h \in Events, stage[h][1] \notin {"new", "done"}
    PROVE  /\ says[h] \in Messages /\ KnownAt(stage[h], found[h], says[h])
           /\ stage[h] \in Places /\ found[h] \in Found
           /\ (found[h].gen = Absent => found[h].managed = {})
           /\ found = [found EXCEPT ![h] = found[h]]
           /\ DOMAIN report = Events /\ active \in Generations \cup {Absent} /\ upsets \in Nat
           /\ found \in [Events -> Found] /\ says[h].text \in Texts /\ <<says[h].name>> \in Texts
<1>1. /\ stage \in [Events -> Places] /\ found \in [Events -> Found]
      /\ \A e \in Events : found[e].gen = Absent => found[e].managed = {}
      /\ DOMAIN report = Events /\ active \in Generations \cup {Absent} /\ upsets \in Nat
    BY DEF Known, ScansTyped
<1>2. stage[h] # <<"new", "">> /\ stage[h][1] # "done"
    <2>1. <<"new", "">>[1] = "new"
        OBVIOUS
    <2> QED  BY <2>1
<1>3. says[h] \in Messages /\ KnownAt(stage[h], found[h], says[h])
    BY <1>2 DEF Known, FoundOK
<1>4. says[h].text \in Texts /\ <<says[h].name>> \in Texts
    BY <1>3 DEF Texts
<1>5. found = [found EXCEPT ![h] = found[h]]
    BY <1>1
<1> QED  BY <1>1, <1>3, <1>4, <1>5

\* From one phase of a scan to another; to the alert, from a thread that ends.
LEMMA ScanMoves ==
    ASSUME SlotsOK, Known, NEW h \in Events, NEW x \in Scanning, stage[h] \in Scanning, MovesTo(h, x),
           scans' = scans - Seat(stage[h], Threads) + Seat(x, Threads),
           scans' <= MaxScans \/ scans' <= scans,
           NEW f \in Found, f.gen = Absent => f.managed = {},
           found' = [found EXCEPT ![h] = f], KnownAt(x, f, says[h]),
           UNCHANGED <<on, active, rules, says, fresh, report>>, upsets' \in Nat
    PROVE  SlotsOK' /\ Known' /\ Looked
<1>1. \A p \in Scanning : p \in Admitted /\ p \notin Guarded /\ p \in Places /\ p[1] \notin {"new", "done"}
    BY ScanningHolds
<1>2. says[h] \in Messages /\ DOMAIN report' = Events
    BY <1>1, Underway
<1>3. x \in Places /\ x[1] \notin {"new", "done"}
    BY <1>1
<1>4. (x \in Admitted <=> stage[h] \in Admitted) /\ (x \in Guarded <=> stage[h] \in Guarded)
    BY <1>1
<1> QED  BY <1>2, <1>3, <1>4, Moves
\* What is known where, place by place.
LEMMA KnownBy ==
    ASSUME NEW f, NEW msg
    PROVE  /\ \A p \in {"waits", "runs"} : KnownAt(<<"managed", p>>, f, msg) <=> Fresh(f)
           /\ KnownAt(<<"managed", "names">>, f, msg) <=>
                Managed(f, msg) /\ Unread(f) /\ ~f.over /\ ~f.name /\ f.gen # Absent
           /\ KnownAt(<<"managed", "ends">>, f, msg) <=> Managed(f, msg) /\ Named(f, msg) /\ Unread(f)
           /\ \A p \in {"waits", "runs"} :
                KnownAt(<<"literal", p>>, f, msg) <=> Managed(f, msg) /\ Named(f, msg) /\ Unread(f)
           /\ \A p \in {"waits", "runs"} :
                KnownAt(<<"excerpt", p>>, f, msg) <=> Managed(f, msg) /\ Named(f, msg) /\ Literal(f, msg)
           /\ \A p \in {"admitted", "guard"} :
                KnownAt(<<"persist", p>>, f, msg) <=> Managed(f, msg) /\ Named(f, msg) /\ Literal(f, msg)
           /\ \A k : KnownAt(<<k, "orphaned">>, f, msg)
           /\ \A p : KnownAt(<<"deliver", p>>, f, msg)
BY DEF KnownAt

LEMMA BeginScanStep ==
    ASSUME SlotsOK, Known, NEW h \in Events, BeginScan(h)
    PROVE  SlotsOK' /\ Known' /\ Looked
<1>1. stage[h] \in Scanning /\ stage[h][2] = "waits" /\ scans < MaxScans
    BY DEF BeginScan, Permit
<1>2. PICK k \in {"managed", "literal", "excerpt"} : k = stage[h][1] /\ stage[h] = <<k, "waits">>
    BY <1>1, ScanningHolds
<1>3. k \notin {"new", "done"} /\ stage[h] \notin Threads /\ scans \in Nat
    BY <1>1, <1>2, ScanningHolds, FS_CardinalityType DEF SlotsOK, HeldBy
<1>4. KnownAt(<<k, "waits">>, found[h], says[h])
    BY <1>2, <1>3, Underway
<1>5. UNCHANGED <<on, active, rules, says, fresh, report>> /\ upsets' = upsets /\ found' = found
    BY DEF BeginScan
<1>6. CASE Eligible(h)
    <2>1. MovesTo(h, <<k, "runs">>) /\ scans' = scans + 1
        BY <1>2, <1>6 DEF BeginScan
    <2>2. <<k, "runs">> \in Scanning /\ <<k, "runs">>[2] = "runs"
        BY DEF Scanning, Phases
    <2>3. <<k, "runs">> \in Threads
        BY <2>2, ScanningHolds
    <2>4. scans' = scans - Seat(stage[h], Threads) + Seat(<<k, "runs">>, Threads) /\ scans' <= MaxScans
        BY <1>1, <1>3, <2>1, <2>3, ScanBounds DEF Seat
    <2>5. KnownAt(<<k, "runs">>, found[h], says[h])
        BY <1>4, KnownBy
    <2> QED  BY <1>1, <1>2, <1>3, <1>5, <2>1, <2>2, <2>4, <2>5, ScanMoves, Underway
<1>7. CASE ~Eligible(h)
    <2>1. Return(h, "closed") /\ scans' = scans
        BY <1>7 DEF BeginScan
    <2>2. scans' = scans - Seat(stage[h], Threads)
        BY <1>3, <2>1 DEF Seat
    <2>3. "closed" \in Endings /\ upsets \in Nat
        BY <1>2, <1>3, Underway DEF Endings
    <2> QED  BY <1>2, <1>3, <1>5, <2>1, <2>2, <2>3, Returns
<1> QED  BY <1>6, <1>7

LEMMA ManagedScanStep ==
    ASSUME SlotsOK, Known, NEW h \in Events, ScanManaged(h)
    PROVE  SlotsOK' /\ Known' /\ Looked
<1> DEFINE scan == IF active = Absent THEN [over |-> FALSE, hits |-> {}]
                   ELSE Limited(ManagedScans[active][says[h].text])
<1>1. stage[h] = <<"managed", "runs">> /\ stage[h][1] = "managed"
    BY DEF ScanManaged
<1>2. PICK x : x = <<"managed", IF (\E r \in scan.hits : r.political) /\ \E r \in scan.hits : r.strict
                            THEN "names" ELSE "ends">>
    OBVIOUS
<1>3. MovesTo(h, x)
    BY <1>2 DEF ScanManaged
<1>4. /\ says[h] \in Messages /\ Fresh(found[h]) /\ found[h] \in Found
      /\ active \in Generations \cup {Absent} /\ upsets \in Nat /\ found \in [Events -> Found]
      /\ says[h].text \in Texts
    <2>1. stage[h][1] \notin {"new", "done"}
        BY <1>1
    <2>2. KnownAt(<<"managed", "runs">>, found[h], says[h])
        BY <1>1, <2>1, Underway
    <2>3. Fresh(found[h])
        BY <2>2, KnownBy
    <2> QED  BY <2>1, <2>3, Underway
<1>5. /\ scan.over \in BOOLEAN /\ (scan.over => scan.hits = {})
      /\ active = Absent => scan.hits = {} /\ ~scan.over
      /\ active # Absent => scan.hits \subseteq Entries[active]
      /\ active # Absent /\ ~scan.over => Visible(scan.hits, Entries[active], says[h].text)
    <2>1. CASE active = Absent
        BY <2>1
    <2>2. CASE active # Absent
        BY <1>4, <2>2, ManagedFinds
    <2> QED  BY <2>1, <2>2
<1>6. found' = [found EXCEPT ![h].gen = active, ![h].managed = scan.hits, ![h].over = scan.over]
    BY DEF ScanManaged
<1> HIDE DEF scan
<1>7. scan.hits \in SUBSET Rule
    BY <1>4, <1>5, RulesAssumption
<1>8. PICK f : f = [found[h] EXCEPT !.gen = active, !.managed = scan.hits, !.over = scan.over]
    OBVIOUS
<1>9. f \in Found
    <2>1. PICK g \in Found : g = found[h]
        BY <1>4
    <2>2. PICK a, b, c : /\ a = active /\ a \in Generations \cup {Absent} /\ b = scan.hits
                        /\ b \in SUBSET Rule /\ c = scan.over /\ c \in BOOLEAN
        BY <1>4, <1>5, <1>7
    <2>3. [g EXCEPT !.gen = a, !.managed = b, !.over = c] \in Found
        BY ONLY <2>1, <2>2 DEF Found
    <2> QED  BY <1>8, <2>1, <2>2, <2>3
<1>10. /\ f.gen = active /\ f.managed = scan.hits /\ f.over = scan.over
       /\ f.name = found[h].name /\ f.literal = found[h].literal /\ f.legacy = found[h].legacy
       /\ f.due = found[h].due /\ f.manual = found[h].manual
    BY ONLY <1>4, <1>8 DEF Found
<1>11. found' = [found EXCEPT ![h] = f]
    BY <1>4, <1>6, <1>8
<1>12. KnownAt(x, f, says[h])
    <2>1. Managed(f, says[h]) /\ Unread(f)
        BY <1>4, <1>5, <1>10 DEF Managed, Unread, Fresh
    <2>2. CASE (\E r \in scan.hits : r.political) /\ \E r \in scan.hits : r.strict
        <3>1. ~f.over /\ ~f.name /\ f.gen # Absent
            BY <1>4, <1>5, <1>10, <2>2 DEF Fresh
        <3> QED  BY <1>2, <2>1, <2>2, <3>1, KnownBy
    <2>3. CASE ~((\E r \in scan.hits : r.political) /\ \E r \in scan.hits : r.strict)
        <3>1. Named(f, says[h])
            BY <1>10, <2>3 DEF Named
        <3> QED  BY <1>2, <2>1, <2>3, <3>1, KnownBy
    <2> QED  BY <2>2, <2>3
<1>13. PICK a, b : a = stage[h] /\ b = x
    OBVIOUS
<1>14. a \in Scanning /\ b \in Scanning /\ a \in Threads /\ b \in Threads
    <2>1. a = <<"managed", "runs">> /\ (b = <<"managed", "names">> \/ b = <<"managed", "ends">>)
        BY <1>1, <1>2, <1>13
    <2> QED  BY <2>1 DEF Scanning, Phases, Threads
<1>15. scans' = scans - Seat(stage[h], Threads) + Seat(x, Threads) /\ scans' <= scans
    <2>1. scans \in Nat /\ scans' = scans
        BY FS_CardinalityType DEF SlotsOK, HeldBy, ScanManaged
    <2> QED  BY <1>13, <1>14, <2>1 DEF Seat
<1>16. UNCHANGED <<on, active, rules, says, fresh, report>> /\ upsets' \in Nat
    BY <1>4 DEF ScanManaged
<1>17. f.gen = Absent => f.managed = {}
    BY <1>5, <1>10
<1> QED  BY <1>3, <1>9, <1>11, <1>12, <1>13, <1>14, <1>15, <1>16, <1>17, ScanMoves
LEMMA NameScanStep ==
    ASSUME SlotsOK, Known, NEW h \in Events, ScanName(h)
    PROVE  SlotsOK' /\ Known' /\ Looked
<1> DEFINE scan == Limited(ManagedScans[found[h].gen][<<says[h].name>>])
           g == found[h].gen
<1>1. stage[h] = <<"managed", "names">> /\ stage[h][1] = "managed"
    BY DEF ScanName
<1>2. PICK x : x = <<"managed", "ends">>
    OBVIOUS
<1>3. MovesTo(h, x)
    BY <1>2 DEF ScanName
<1>4. /\ says[h] \in Messages /\ found[h] \in Found /\ upsets \in Nat /\ found \in [Events -> Found]
      /\ <<says[h].name>> \in Texts
      /\ Managed(found[h], says[h]) /\ Unread(found[h]) /\ ~found[h].over /\ ~found[h].name
      /\ g # Absent
    <2>1. stage[h][1] \notin {"new", "done"}
        BY <1>1
    <2>2. KnownAt(<<"managed", "names">>, found[h], says[h])
        BY <1>1, <2>1, Underway
    <2>3. Managed(found[h], says[h]) /\ Unread(found[h]) /\ ~found[h].over /\ ~found[h].name /\ g # Absent
        BY <2>2, KnownBy
    <2> QED  BY <2>1, <2>3, Underway
<1>5. g \in Generations
    BY <1>4 DEF Found
<1>6. /\ scan.over \in BOOLEAN
      /\ ~scan.over => Visible(scan.hits, Entries[g], <<says[h].name>>)
    BY <1>4, <1>5, ManagedFinds
<1>7. PICK M \in SUBSET Rule : M = IF scan.over THEN {} ELSE found[h].managed
    BY <1>4 DEF Found
<1>8. PICK n \in BOOLEAN : n <=> \E r \in scan.hits : r.strict
    OBVIOUS
<1>9. PICK o \in BOOLEAN : o = scan.over
    BY <1>6
<1>10. found' = [found EXCEPT ![h].managed = IF scan.over THEN {} ELSE @, ![h].over = scan.over,
                              ![h].name = \E r \in scan.hits : r.strict]
    BY DEF ScanName
<1> HIDE DEF scan
<1>11. PICK f : f = [found[h] EXCEPT !.managed = M, !.over = o, !.name = n]
    OBVIOUS
<1>12. f \in Found
    <2>1. PICK e \in Found : e = found[h]
        BY <1>4
    <2>2. [e EXCEPT !.managed = M, !.over = o, !.name = n] \in Found
        BY ONLY <2>1 DEF Found
    <2> QED  BY <1>11, <2>1, <2>2
<1>13. /\ f.gen = g /\ f.managed = M /\ f.over = o /\ f.name = n
       /\ f.literal = found[h].literal /\ f.legacy = found[h].legacy
       /\ f.due = found[h].due /\ f.manual = found[h].manual
    BY ONLY <1>4, <1>11 DEF Found
<1>14. found' = [found EXCEPT ![h] = f]
    <2>1. n = \E r \in scan.hits : r.strict
        BY <1>8
    <2>2. found' = [found EXCEPT ![h] = [found[h] EXCEPT !.managed = IF scan.over THEN {} ELSE found[h].managed,
                        !.over = scan.over, !.name = \E r \in scan.hits : r.strict]]
        BY <1>4, <1>10
    <2> QED  BY <1>7, <1>9, <1>11, <2>1, <2>2
<1>15. Managed(f, says[h]) /\ Unread(f)
    <2>1. Unread(f)
        BY <1>4, <1>13 DEF Unread
    <2>2. CASE scan.over
        BY <1>7, <1>9, <1>13, <2>1, <2>2 DEF Managed
    <2>3. CASE ~scan.over
        BY <1>4, <1>7, <1>9, <1>13, <2>1, <2>3 DEF Managed
    <2> QED  BY <2>2, <2>3
<1>16. Named(f, says[h])
    <2>1. CASE scan.over
        BY <1>7, <1>13, <2>1 DEF Named
    <2>2. CASE ~scan.over /\ n
        BY <1>13, <2>2 DEF Named
    <2>3. CASE ~scan.over /\ ~n
        <3>1. \A r \in Entries[g] : r.mode = "direct" /\ r.strict => ~Has(<<says[h].name>>, r.pattern)
            BY <1>6, <1>8, <2>3 DEF Visible
        <3>2. \A p : Within(p, says[h].name) => Has(<<says[h].name>>, p)
            BY DEF Has
        <3>3. \A p \in Protected(g) : ~Within(p, says[h].name)
            BY <1>4, <3>1, <3>2 DEF Protected
        <3> QED  BY <1>13, <3>3 DEF Named
    <2> QED  BY <2>1, <2>2, <2>3
<1>17. KnownAt(x, f, says[h])
    BY <1>2, <1>15, <1>16, KnownBy
<1>18. PICK a, b : a = stage[h] /\ b = x
    OBVIOUS
<1>19. a \in Scanning /\ b \in Scanning /\ a \in Threads /\ b \in Threads
    <2>1. a = <<"managed", "names">> /\ b = <<"managed", "ends">>
        BY <1>1, <1>2, <1>18
    <2> QED  BY <2>1 DEF Scanning, Phases, Threads
<1>20. scans' = scans - Seat(stage[h], Threads) + Seat(x, Threads) /\ scans' <= scans
    <2>1. scans \in Nat /\ scans' = scans
        BY FS_CardinalityType DEF SlotsOK, HeldBy, ScanName
    <2> QED  BY <1>18, <1>19, <2>1 DEF Seat
<1>21. UNCHANGED <<on, active, rules, says, fresh, report>> /\ upsets' \in Nat
    BY <1>4 DEF ScanName
<1>22. f.gen = Absent => f.managed = {}
    BY <1>4, <1>13
<1> QED  BY <1>3, <1>12, <1>14, <1>17, <1>18, <1>19, <1>20, <1>21, <1>22, ScanMoves

\* The end of a thread.
LEMMA Concludes ==
    ASSUME SlotsOK, Known, NEW h \in Events, stage[h] \in Threads, scans' = scans - 1,
           NEW f \in Found, f.gen = Absent => f.managed = {}, found' = [found EXCEPT ![h] = f],
           \/ Return(h, "nothing") /\ Searched(found[h], says[h])
           \/ Return(h, "closed")
           \/ MovesTo(h, <<"persist", "admitted">>)
           \/ MovesTo(h, <<"excerpt", "waits">>),
           Managed(f, says[h]), Named(f, says[h]), Literal(f, says[h]),
           UNCHANGED <<on, active, rules, upsets, says, fresh, report>>
    PROVE  SlotsOK' /\ Known' /\ Looked
<1>1. stage[h] \in Scanning
    BY DEF Threads
<1>2. stage[h][1] \notin {"new", "done"} /\ stage[h] \in Admitted /\ stage[h] \notin Guarded
    BY <1>1, ScanningHolds
<1>3. scans \in Nat
    BY FS_CardinalityType DEF SlotsOK, HeldBy
<1>4. Seat(stage[h], Threads) = 1
    BY DEF Seat
<1>5. says[h] \in Messages /\ upsets' \in Nat /\ DOMAIN report' = Events
    BY <1>2, Underway
<1>6. UNCHANGED <<on, active, rules, says, fresh, report>> /\ UNCHANGED <<on, active, rules, says, fresh>>
    OBVIOUS
<1>7. \E e \in Found : (e.gen = Absent => e.managed = {}) /\ found' = [found EXCEPT ![h] = e]
    OBVIOUS
<1>8. scans' = scans - Seat(stage[h], Threads)
    BY <1>4
<1>9. CASE Return(h, "nothing") /\ Searched(found[h], says[h])
    <2>1. "nothing" \in Endings
        BY DEF Endings
    <2> QED  BY <1>2, <1>5, <1>6, <1>7, <1>8, <1>9, <2>1, Returns
<1>10. CASE Return(h, "closed")
    <2>1. "closed" \in Endings /\ "closed" # "nothing"
        BY DEF Endings
    <2> QED  BY <1>2, <1>5, <1>6, <1>7, <1>8, <1>10, <2>1, Returns
<1>11. CASE MovesTo(h, <<"persist", "admitted">>)
    <2>1. PICK x : x = <<"persist", "admitted">>
        OBVIOUS
    <2>2. x \in Admitted /\ x \notin Guarded /\ x \notin Threads /\ x \in Places /\ x[1] \notin {"new", "done"}
        BY <2>1, AlertingHolds
    <2>3. KnownAt(x, f, says[h])
        BY <2>1, KnownBy
    <2>4. scans' = scans - Seat(stage[h], Threads) + Seat(x, Threads) /\ scans' <= scans
        BY <1>3, <1>4, <2>2 DEF Seat
    <2>5. MovesTo(h, x)
        BY <1>11, <2>1
    <2> QED  BY <1>2, <1>5, <1>6, <2>2, <2>3, <2>4, <2>5, Moves
<1>12. CASE MovesTo(h, <<"excerpt", "waits">>)
    <2>1. PICK x : x = <<"excerpt", "waits">>
        OBVIOUS
    <2>2. x \in Scanning /\ x \notin Threads
        BY <2>1 DEF Scanning, Phases, Threads
    <2>3. KnownAt(x, f, says[h])
        BY <2>1, KnownBy
    <2>4. scans' = scans - Seat(stage[h], Threads) + Seat(x, Threads) /\ scans' <= scans
        BY <1>3, <1>4, <2>2 DEF Seat
    <2>5. MovesTo(h, x)
        BY <1>12, <2>1
    <2> QED  BY <1>1, <1>5, <1>6, <2>2, <2>3, <2>4, <2>5, ScanMoves
<1> QED  BY <1>9, <1>10, <1>11, <1>12
LEMMA Phase ==
    ASSUME NEW k \in {"managed", "literal", "excerpt"}, NEW f \in Phases
    PROVE  /\ <<k, f>> \in Scanning /\ <<k, f>>[1] = k /\ <<k, f>>[2] = f
           /\ <<k, f>> \in Threads <=> f # "waits"
BY DEF Scanning, Threads

LEMMA ConcludeIs ==
    ASSUME NEW h \in Events, NEW f, Conclude(h, f)
    PROVE  \/ Return(h, "nothing") /\ ~Hit(f)
           \/ Return(h, "closed")
           \/ MovesTo(h, <<"persist", "admitted">>)
           \/ MovesTo(h, <<"excerpt", "waits">>)
BY DEF Conclude

LEMMA EndManagedStep ==
    ASSUME SlotsOK, Known, NEW h \in Events, EndManaged(h)
    PROVE  SlotsOK' /\ Known' /\ Looked
<1>1. stage[h] = <<"managed", "ends">> /\ scans' = scans - 1
    BY DEF EndManaged
<1>2. /\ found[h] \in Found /\ upsets \in Nat /\ (found[h].gen = Absent => found[h].managed = {})
      /\ found = [found EXCEPT ![h] = found[h]]
      /\ Managed(found[h], says[h]) /\ Named(found[h], says[h]) /\ Unread(found[h])
    <2>1. stage[h][1] \notin {"new", "done"}
        BY <1>1
    <2>2. KnownAt(<<"managed", "ends">>, found[h], says[h])
        BY <1>1, <2>1, Underway
    <2>3. Managed(found[h], says[h]) /\ Named(found[h], says[h]) /\ Unread(found[h])
        BY <2>2, KnownBy
    <2> QED  BY <2>1, <2>3, Underway
<1>3. stage[h] \in Threads /\ stage[h] \in Scanning
    BY <1>1, Phase DEF Phases
<1>4. UNCHANGED <<on, active, rules, upsets, says, fresh, report>> /\ found' = [found EXCEPT ![h] = found[h]]
    BY <1>2 DEF EndManaged
<1>5. CASE found[h].manual # {} \/ (found[h].gen = Absent /\ Legacy # {})
    <2>1. MovesTo(h, <<"literal", "waits">>)
        BY <1>5 DEF EndManaged
    <2>2. PICK x : x = <<"literal", "waits">>
        OBVIOUS
    <2>3. x \in Scanning /\ x \notin Threads
        BY <2>2, Phase DEF Phases
    <2>4. KnownAt(x, found[h], says[h])
        BY <1>2, <2>2, KnownBy
    <2>5. scans' = scans - Seat(stage[h], Threads) + Seat(x, Threads) /\ scans' <= scans
        <3>1. scans \in Nat
            BY FS_CardinalityType DEF SlotsOK, HeldBy
        <3> QED  BY <1>1, <1>3, <2>3, <3>1 DEF Seat
    <2>6. MovesTo(h, x) /\ UNCHANGED <<on, active, rules, says, fresh, report>> /\ upsets' \in Nat
        BY <1>2, <1>4, <2>1, <2>2
    <2> QED  BY <1>2, <1>3, <1>4, <2>3, <2>4, <2>5, <2>6, ScanMoves
<1>6. CASE ~(found[h].manual # {} \/ (found[h].gen = Absent /\ Legacy # {}))
    <2>1. Conclude(h, found[h])
        BY <1>6 DEF EndManaged
    <2>2. Literal(found[h], says[h])
        BY <1>2, <1>6 DEF Literal, Unread
    <2>3. ~Hit(found[h]) => Searched(found[h], says[h])
        <3>1. found[h].due = {}
            BY <1>2, <1>6 DEF Unread
        <3>2. ASSUME ~Hit(found[h]), found[h].gen # Absent, NEW r \in Entries[found[h].gen], r.mode = "direct"
              PROVE  ~Has(says[h].text, r.pattern)
            BY <1>2, <3>2 DEF Hit, Managed, Visible
        <3> QED  BY <1>6, <3>1, <3>2 DEF Searched
    <2>4. \/ Return(h, "nothing") /\ Searched(found[h], says[h])
          \/ Return(h, "closed")
          \/ MovesTo(h, <<"persist", "admitted">>)
          \/ MovesTo(h, <<"excerpt", "waits">>)
        BY <2>1, <2>3, ConcludeIs
    <2> QED  BY <1>1, <1>2, <1>3, <1>4, <2>2, <2>4, Concludes
<1> QED  BY <1>5, <1>6

LEMMA EndLiteralStep ==
    ASSUME SlotsOK, Known, NEW h \in Events, EndLiteral(h)
    PROVE  SlotsOK' /\ Known' /\ Looked
<1> DEFINE manual == LiteralScans[found[h].manual][says[h].text]
           legacy == LiteralScans[IF found[h].gen = Absent THEN Legacy ELSE {}][says[h].text]
           over == manual.over \/ legacy.over
<1>1. stage[h] = <<"literal", "runs">> /\ scans' = scans - 1
    BY DEF EndLiteral
<1>2. /\ found[h] \in Found /\ upsets \in Nat /\ (found[h].gen = Absent => found[h].managed = {})
      /\ found \in [Events -> Found] /\ says[h].text \in Texts
      /\ Managed(found[h], says[h]) /\ Named(found[h], says[h]) /\ Unread(found[h])
    <2>1. stage[h][1] \notin {"new", "done"}
        BY <1>1
    <2>2. KnownAt(<<"literal", "runs">>, found[h], says[h])
        BY <1>1, <2>1, Underway
    <2>3. Managed(found[h], says[h]) /\ Named(found[h], says[h]) /\ Unread(found[h])
        BY <2>2, KnownBy
    <2> QED  BY <2>1, <2>3, Underway
<1>3. stage[h] \in Threads
    BY <1>1, Phase DEF Phases
<1>4. UNCHANGED <<on, active, rules, upsets, says, fresh, report>>
    BY DEF EndLiteral
<1>5. /\ manual.over \in BOOLEAN /\ manual.hits \subseteq found[h].manual
      /\ \A p \in manual.hits : Has(says[h].text, p)
      /\ \A p \in found[h].manual : Has(says[h].text, p) => manual.hits # {}
    <2>1. found[h].manual \in SUBSET Patterns /\ found[h].manual \in SUBSET Text
        BY <1>2, RulesAssumption DEF Found
    <2> QED  BY <1>2, <2>1, LiteralFinds
<1>6. /\ legacy.over \in BOOLEAN
      /\ found[h].gen = Absent => \A p \in Legacy : Has(says[h].text, p) => legacy.hits # {}
    <2>1. PICK S : S = IF found[h].gen = Absent THEN Legacy ELSE {}
        OBVIOUS
    <2>2. S \in SUBSET Text /\ (S = {} \/ S = Legacy)
        BY <2>1, RulesAssumption
    <2>3. /\ LiteralScans[S][says[h].text].over \in BOOLEAN
          /\ \A p \in S : Has(says[h].text, p) => LiteralScans[S][says[h].text].hits # {}
        BY <1>2, <2>2, LiteralFinds
    <2> QED  BY <2>1, <2>3
<1>7. /\ found' = [found EXCEPT ![h].literal = IF over THEN {} ELSE manual.hits,
                              ![h].legacy = ~over /\ legacy.hits # {}, ![h].over = @ \/ over]
      /\ Conclude(h, found'[h])
    BY DEF EndLiteral
<1> HIDE DEF manual, legacy
<1>8. PICK L \in SUBSET Patterns : L = IF over THEN {} ELSE manual.hits
    BY <1>2, <1>5 DEF Found
<1>9. PICK g \in BOOLEAN : g = (~over /\ legacy.hits # {})
    OBVIOUS
<1>10. PICK o \in BOOLEAN : o = (found[h].over \/ over)
    OBVIOUS
<1>11. PICK f : f = [found[h] EXCEPT !.literal = L, !.legacy = g, !.over = o]
    OBVIOUS
<1>12. f \in Found
    <2>1. PICK e \in Found : e = found[h]
        BY <1>2
    <2>2. [e EXCEPT !.literal = L, !.legacy = g, !.over = o] \in Found
        BY ONLY <2>1 DEF Found
    <2> QED  BY <1>11, <2>1, <2>2
<1>13. /\ f.gen = found[h].gen /\ f.managed = found[h].managed /\ f.name = found[h].name
       /\ f.literal = L /\ f.legacy = g /\ f.over = o
       /\ f.due = found[h].due /\ f.manual = found[h].manual
    BY ONLY <1>2, <1>11 DEF Found
<1>14. found' = [found EXCEPT ![h] = f]
    <2>1. found' = [found EXCEPT ![h] = [found[h] EXCEPT !.literal = IF over THEN {} ELSE manual.hits,
                              !.legacy = ~over /\ legacy.hits # {}, !.over = found[h].over \/ over]]
        BY <1>2, <1>7
    <2> QED  BY <1>8, <1>9, <1>10, <1>11, <2>1
<1>15. found'[h] = f
    BY <1>2, <1>14
<1>16. Managed(f, says[h])
    <2>1. ~f.over => ~found[h].over
        BY <1>10, <1>13
    <2> QED  BY <1>2, <1>13, <2>1 DEF Managed
<1>17. Named(f, says[h])
    BY <1>2, <1>13 DEF Named
<1>18. Literal(f, says[h])
    <2>1. \A p \in f.literal : Has(says[h].text, p)
        BY <1>5, <1>8, <1>13
    <2>2. ~f.over => ~over
        BY <1>10, <1>13
    <2>3. ASSUME f.gen = Absent, ~f.over PROVE f.legacy \/ \A p \in Legacy : ~Has(says[h].text, p)
        BY <1>6, <1>9, <1>13, <2>2, <2>3
    <2> QED  BY <2>1, <2>3 DEF Literal
<1>19. ~Hit(f) => Searched(found[h], says[h])
    <2> SUFFICES ASSUME ~Hit(f) PROVE Searched(found[h], says[h])
        OBVIOUS
    <2>1. f.managed = {} /\ L = {} /\ ~g /\ ~o
        BY <1>13 DEF Hit
    <2>2. ~over /\ ~found[h].over
        BY <1>10, <2>1
    <2>3. manual.hits = {} /\ legacy.hits = {}
        BY <1>8, <1>9, <2>1, <2>2
    <2>4. \A p \in found[h].due : ~Has(says[h].text, p)
        BY <1>2, <1>5, <2>3 DEF Unread
    <2>5. ASSUME found[h].gen # Absent, NEW r \in Entries[found[h].gen], r.mode = "direct"
          PROVE  ~Has(says[h].text, r.pattern)
        <3>1. Visible(found[h].managed, Entries[found[h].gen], says[h].text)
            BY <1>2, <2>2, <2>5 DEF Managed
        <3>2. found[h].managed = {}
            BY <1>13, <2>1
        <3> QED  BY <2>5, <3>1, <3>2 DEF Visible
    <2>6. found[h].gen = Absent => \A p \in Legacy : ~Has(says[h].text, p)
        BY <1>6, <2>3
    <2> QED  BY <2>4, <2>5, <2>6 DEF Searched
<1>20. \/ Return(h, "nothing") /\ Searched(found[h], says[h])
       \/ Return(h, "closed")
       \/ MovesTo(h, <<"persist", "admitted">>)
       \/ MovesTo(h, <<"excerpt", "waits">>)
    BY <1>7, <1>15, <1>19 DEF Conclude
<1>21. f.gen = Absent => f.managed = {}
    BY <1>2, <1>13
<1> QED  BY <1>1, <1>3, <1>4, <1>12, <1>14, <1>16, <1>17, <1>18, <1>20, <1>21, Concludes

LEMMA EndExcerptStep ==
    ASSUME SlotsOK, Known, NEW h \in Events, EndExcerpt(h)
    PROVE  SlotsOK' /\ Known' /\ Looked
<1>1. stage[h] = <<"excerpt", "runs">> /\ scans' = scans - 1 /\ MovesTo(h, <<"persist", "admitted">>)
    BY DEF EndExcerpt
<1>2. /\ found[h] \in Found /\ (found[h].gen = Absent => found[h].managed = {})
      /\ found = [found EXCEPT ![h] = found[h]]
      /\ Managed(found[h], says[h]) /\ Named(found[h], says[h]) /\ Literal(found[h], says[h])
    <2>1. stage[h][1] \notin {"new", "done"}
        BY <1>1
    <2>2. KnownAt(<<"excerpt", "runs">>, found[h], says[h])
        BY <1>1, <2>1, Underway
    <2>3. Managed(found[h], says[h]) /\ Named(found[h], says[h]) /\ Literal(found[h], says[h])
        BY <2>2, KnownBy
    <2> QED  BY <2>1, <2>3, Underway
<1>3. stage[h] \in Threads
    BY <1>1, Phase DEF Phases
<1>4. UNCHANGED <<on, active, rules, upsets, says, fresh, report>> /\ found' = [found EXCEPT ![h] = found[h]]
    BY <1>2 DEF EndExcerpt
<1> QED  BY <1>1, <1>2, <1>3, <1>4, Concludes
LEMMA EndOrphanStep ==
    ASSUME SlotsOK, Known, NEW h \in Events, EndOrphan(h)
    PROVE  SlotsOK' /\ Known' /\ Looked
<1>1. stage[h] \in Scanning /\ stage[h][2] = "orphaned" /\ scans' = scans - 1 /\ Return(h, "cancelled")
    BY DEF EndOrphan
<1>2. stage[h] \in Threads /\ stage[h][1] \notin {"new", "done"}
    BY <1>1, ScanningHolds
<1>3. scans' = scans - Seat(stage[h], Threads)
    BY <1>1, <1>2 DEF Seat
<1>4. "cancelled" \in Endings /\ "cancelled" # "nothing" /\ upsets \in Nat
    BY <1>2, Underway DEF Endings
<1>5. UNCHANGED <<on, active, rules, says, fresh, report>> /\ upsets' = upsets /\ found' = found
    BY DEF EndOrphan
<1> QED  BY <1>1, <1>2, <1>3, <1>4, <1>5, Returns

LEMMA CancelScanStep ==
    ASSUME SlotsOK, Known, NEW h \in Events, Cancel(h)
    PROVE  SlotsOK' /\ Known' /\ Looked
<1>1. stage[h][1] \notin {"new", "done"} /\ upsets' \in Nat
    <2>1. stage[h][1] \notin {"new", "done"}
        BY DEF Cancel
    <2>2. upsets \in Nat
        BY <2>1, Underway
    <2> QED  BY <2>1, <2>2 DEF Cancel, Upset
<1>2. UNCHANGED <<on, active, rules, says, fresh, report>> /\ found' = found /\ scans' = scans
    BY DEF Cancel
<1>3. scans \in Nat
    BY FS_CardinalityType DEF SlotsOK, HeldBy
<1>4. CASE stage[h] \in Threads
    <2>1. stage[h] \in Scanning
        BY <1>4 DEF Threads
    <2>2. PICK x : x = <<stage[h][1], "orphaned">>
        OBVIOUS
    <2>3. x \in Scanning /\ x \in Threads
        BY <2>1, <2>2, Phase, ScanningHolds DEF Phases
    <2>4. MovesTo(h, x)
        BY <1>4, <2>2 DEF Cancel, Abandon
    <2>5. KnownAt(x, found[h], says[h])
        BY <2>2, KnownBy
    <2>6. scans' = scans - Seat(stage[h], Threads) + Seat(x, Threads) /\ scans' <= scans
        BY <1>2, <1>3, <1>4, <2>3 DEF Seat
    <2>7. /\ found[h] \in Found /\ (found[h].gen = Absent => found[h].managed = {})
          /\ found' = [found EXCEPT ![h] = found[h]]
        BY <1>1, <1>2, Underway
    <2> QED  BY <1>1, <1>2, <2>1, <2>3, <2>4, <2>5, <2>6, <2>7, ScanMoves
<1>5. CASE stage[h] \notin Threads
    <2>1. Return(h, "cancelled")
        BY <1>5 DEF Cancel, Abandon
    <2>2. scans' = scans - Seat(stage[h], Threads)
        BY <1>2, <1>3, <1>5 DEF Seat
    <2>3. "cancelled" \in Endings /\ "cancelled" # "nothing"
        BY DEF Endings
    <2> QED  BY <1>1, <1>2, <2>1, <2>2, <2>3, Returns
<1> QED  BY <1>4, <1>5

\* An alert that is under way.
LEMMA AlertAt ==
    ASSUME Known, NEW h \in Events, stage[h][1] \in {"persist", "deliver"}
    PROVE  /\ stage[h] \notin Threads /\ stage[h][1] \notin {"new", "done"}
           /\ \E g \in {"admitted", "guard"} : stage[h] = <<stage[h][1], g>> /\ stage[h][2] = g
<1>1. stage[h] \in Places
    BY Underway
<1>2. stage[h] \notin Scanning
    BY ScanningHolds
<1>3. PICK k \in {"persist", "deliver"}, g \in {"admitted", "guard"} :
            stage[h] = <<k, g>> /\ stage[h][1] = k /\ stage[h][2] = g
    <2>1. stage[h] # <<"new", "">> /\ stage[h][1] # "done"
        <3>1. <<"new", "">>[1] = "new"
            OBVIOUS
        <3> QED  BY <3>1
    <2> QED  BY <1>1, <1>2, <2>1, PlacesAre
<1> QED  BY <1>3, AlertingHolds

LEMMA EndDeliveryStep ==
    ASSUME SlotsOK, Known, NEW h \in Events, EndDelivery(h)
    PROVE  SlotsOK' /\ Known' /\ Looked
<1>1. stage[h][1] = "deliver" /\ Return(h, "reported")
    BY DEF EndDelivery
<1>2. stage[h] \notin Threads /\ stage[h][1] \notin {"new", "done"}
    BY <1>1, AlertAt
<1>3. scans' = scans - Seat(stage[h], Threads)
    <2>1. scans \in Nat
        BY FS_CardinalityType DEF SlotsOK, HeldBy
    <2> QED  BY <1>2, <2>1 DEF Seat, EndDelivery
<1>4. "reported" \in Endings /\ "reported" # "nothing" /\ upsets \in Nat
    BY <1>2, Underway DEF Endings
<1>5. UNCHANGED <<on, active, rules, says, fresh, report>> /\ upsets' = upsets /\ found' = found
    BY DEF EndDelivery
<1> QED  BY <1>1, <1>2, <1>3, <1>4, <1>5, Returns

\* What is shown of a message that was scanned gives away no protected pattern.
LEMMA Renders ==
    ASSUME NEW f \in Found, NEW msg \in Messages, f.gen = Absent => f.managed = {},
           Managed(f, msg), Named(f, msg), Literal(f, msg)
    PROVE  Discreet(Rendered(f), msg)
<1> DEFINE shown == Rendered(f)
           secrets == Protected(f.gen)
           political == \E r \in f.managed : r.political
           strict == \E r \in f.managed : r.strict
<1>1. /\ shown.gen = f.gen /\ shown.over = f.over /\ shown.excerpt = ~Strict(f)
      /\ shown.name = NameShown(f) /\ shown.terms = TermsShown(f)
    BY DEF Rendered
<1>2. Strict(f) <=> f.over \/ f.legacy \/ strict
    BY DEF Strict
<1>3. Strict(f) => ~shown.excerpt /\ shown.terms = {}
    BY <1>1 DEF TermsShown
<1>4. \A t \in shown.terms : Has(msg.text, t)
    <2> SUFFICES ASSUME NEW t \in TermsShown(f) PROVE Has(msg.text, t)
        BY <1>1
    <2>1. ~Strict(f) /\ (t \in f.literal \/ \E r \in f.managed : r.pattern = t)
        BY DEF TermsShown
    <2>2. ASSUME NEW r \in f.managed, r.pattern = t PROVE Has(msg.text, t)
        <3>1. f.gen # Absent /\ f.managed # {}
            BY <2>2
        <3> QED  BY <2>2, <3>1 DEF Managed, Visible
    <2> QED  BY <2>1, <2>2 DEF Literal
<1>5. \A p \in secrets : Has(msg.text, p) => Strict(f)
    <2> SUFFICES ASSUME NEW p \in secrets, Has(msg.text, p), ~f.over PROVE Strict(f)
        BY <1>2
    <2>1. CASE f.gen = Absent
        BY <1>2, <2>1 DEF Literal, Protected
    <2>2. CASE f.gen # Absent
        <3>1. PICK r \in Entries[f.gen] : r.strict /\ r.mode = "direct" /\ r.pattern = p
            BY <2>2 DEF Protected
        <3>2. Visible(f.managed, Entries[f.gen], msg.text)
            BY <2>2 DEF Managed
        <3>3. PICK q \in f.managed : q.strict = r.strict
            BY <3>1, <3>2 DEF Visible
        <3>4. strict
            BY <3>1, <3>3
        <3> QED  BY <1>2, <3>4
    <2> QED  BY <2>1, <2>2
<1>6. ASSUME NEW p \in secrets, Has(msg.text, p), shown.name
      PROVE  \A s \in secrets : ~Within(s, msg.name)
    <2>1. Strict(f) /\ Political(f) /\ ~f.name /\ ~f.legacy
        BY <1>1, <1>5, <1>6 DEF NameShown
    <2>2. political /\ f.managed # {} /\ f.gen # Absent
        BY <2>1 DEF Political
    <2>3. strict
        <3>1. PICK r \in Entries[f.gen] : r.strict /\ r.mode = "direct" /\ r.pattern = p
            BY <2>2 DEF Protected
        <3>2. Visible(f.managed, Entries[f.gen], msg.text)
            BY <2>2 DEF Managed
        <3>3. PICK q \in f.managed : q.strict = r.strict
            BY <1>6, <3>1, <3>2 DEF Visible
        <3> QED  BY <3>1, <3>3
    <2> QED  BY <2>1, <2>2, <2>3 DEF Named
<1>7. ASSUME NEW t \in shown.terms, NEW p \in secrets PROVE ~Within(p, t)
    <2> SUFFICES ASSUME Within(p, t) PROVE FALSE
        OBVIOUS
    <2>1. PICK i \in 1..Len(msg.text) : Within(t, msg.text[i])
        BY <1>4 DEF Has
    <2>2. msg.text[i] \in Text
        BY RulesAssumption
    <2>3. Within(p, msg.text[i])
        BY <2>1, <2>2, WithinWithin
    <2>4. Has(msg.text, p)
        BY <2>3 DEF Has
    <2> QED  BY <1>3, <1>5, <2>4
<1> HIDE DEF shown
<1>8. shown.over => Strict(f)
    BY <1>1, <1>2
<1>9. Discreet(shown, msg)
    BY <1>1, <1>3, <1>5, <1>6, <1>7, <1>8 DEF Discreet
<1> QED  BY <1>9 DEF shown

LEMMA PersistStep ==
    ASSUME SlotsOK, Known, ProtectedStaysHidden, NEW h \in Events, PersistAlert(h)
    PROVE  SlotsOK' /\ Known' /\ Looked /\ ProtectedStaysHidden'
<1>1. stage[h][1] = "persist" /\ stage[h] \notin Threads /\ stage[h][1] \notin {"new", "done"}
    BY AlertAt DEF PersistAlert
<1>2. PICK g \in {"admitted", "guard"} : stage[h] = <<"persist", g>> /\ stage[h][2] = g
    BY <1>1, AlertAt
<1>3. scans \in Nat /\ scans' = scans
    BY FS_CardinalityType DEF SlotsOK, HeldBy, PersistAlert
<1>4. UNCHANGED <<on, active, rules, says, fresh>> /\ upsets' = upsets /\ found' = found /\ upsets \in Nat
    BY <1>1, Underway DEF PersistAlert
<1>5. ASSUME NEW e \in {"closed", "refused"}, Return(h, e), report' = report
      PROVE  SlotsOK' /\ Known' /\ Looked /\ ProtectedStaysHidden'
    <2>1. scans' = scans - Seat(stage[h], Threads)
        BY <1>1, <1>3 DEF Seat
    <2>2. e \in Endings /\ e # "nothing"
        BY DEF Endings
    <2>3. ProtectedStaysHidden'
        BY <1>4, <1>5, SameReports
    <2> QED  BY <1>1, <1>4, <1>5, <2>1, <2>2, <2>3, Returns
<1>6. ASSUME report' = [report EXCEPT ![h] = Rendered(found[h])], MovesTo(h, <<"deliver", stage[h][2]>>)
      PROVE  SlotsOK' /\ Known' /\ Looked /\ ProtectedStaysHidden'
    <2>1. /\ found[h] \in Found /\ (found[h].gen = Absent => found[h].managed = {})
          /\ found' = [found EXCEPT ![h] = found[h]]
          /\ says[h] \in Messages /\ DOMAIN report = Events
        BY <1>1, <1>4, Underway
    <2>2. Managed(found[h], says[h]) /\ Named(found[h], says[h]) /\ Literal(found[h], says[h])
        <3>1. KnownAt(<<"persist", g>>, found[h], says[h])
            BY <1>1, <1>2, Underway
        <3> QED  BY <3>1, KnownBy
    <2>3. PICK x : x = <<"deliver", g>>
        OBVIOUS
    <2>4. /\ x \in Admitted <=> stage[h] \in Admitted
          /\ x \in Guarded <=> stage[h] \in Guarded
          /\ x \notin Threads /\ x \in Places /\ x[1] \notin {"new", "done"}
        BY <1>2, <2>3, AlertingHolds
    <2>5. scans' = scans - Seat(stage[h], Threads) + Seat(x, Threads) /\ scans' <= scans
        BY <1>1, <1>3, <2>4 DEF Seat
    <2>6. KnownAt(x, found[h], says[h])
        BY <2>3, KnownBy
    <2>7. MovesTo(h, x) /\ DOMAIN report' = Events /\ upsets' \in Nat
        BY <1>2, <1>4, <1>6, <2>1, <2>3
    <2>8. SlotsOK' /\ Known' /\ Looked
        BY <1>4, <2>1, <2>4, <2>5, <2>6, <2>7, Moves
    <2>9. Discreet(Rendered(found[h]), says[h])
        BY <2>1, <2>2, Renders
    <2>10. \A e \in Events : report'[e] # Absent => Discreet(report'[e], says'[e])
        <3> TAKE e \in Events
        <3>1. says' = says
            BY <1>4
        <3>2. CASE e = h
            BY <1>6, <2>1, <2>9, <3>1, <3>2
        <3>3. CASE e # h
            <4>1. report'[e] = report[e]
                BY <1>6, <2>1, <3>3
            <4> QED  BY <3>1, <4>1, Discretion
        <3> QED  BY <3>2, <3>3
    <2>11. ProtectedStaysHidden'
        BY <2>10 DEF ProtectedStaysHidden, Discreet, HasPattern, Has
    <2> QED  BY <2>8, <2>11
<1> QED  BY <1>5, <1>6 DEF PersistAlert
LEMMA ArriveStep ==
    ASSUME SlotsOK, Known, NEW h \in Events, Arrive(h)
    PROVE  SlotsOK' /\ Known' /\ Looked
<1>1. /\ stage \in [Events -> Places] /\ found \in [Events -> Found] /\ upsets \in Nat
      /\ says[h] \in Messages /\ DOMAIN report = Events
    BY DEF Known, ScansTyped, Arrive
<1>2. stage[h] = <<"new", "">> /\ found[h] = Unscanned
    BY DEF Arrive, Known, FoundOK
<1>3. Seat(stage[h], Admitted) = 0 /\ Seat(stage[h], Threads) = 0 /\ stage[h] \notin Guarded
    BY <1>2, IdleHolds DEF Seat
<1>4. InForce \in possible /\ possible \subseteq SUBSET Patterns
    BY DEF Known, RulesOK
<1>5. UNCHANGED <<on, active, file, possible, says, fresh>> /\ upsets' \in Nat
      /\ DOMAIN report' = Events /\ scans' = scans
    BY <1>1 DEF Arrive
<1>6. admitted \in Nat /\ scans \in Nat /\ guard \in BOOLEAN
    BY FS_CardinalityType DEF SlotsOK, HeldBy, HeldByOne
<1>7. CASE admitted < MaxAdmitted
    <2>1. PICK x : x = <<"managed", "waits">>
        OBVIOUS
    <2>2. x \in Scanning /\ x \notin Threads
        BY <2>1, Phase DEF Phases
    <2>3. x \in Admitted /\ x \notin Guarded /\ x \in Places /\ x[1] \notin {"new", "done"}
        BY <2>2, ScanningHolds
    <2>4. /\ admitted' = admitted + 1 /\ memory' = InForce /\ guard' = guard
          /\ stage' = [stage EXCEPT ![h] = x]
          /\ found' = [found EXCEPT ![h].manual = InForce,
                                    ![h].due = {p \in Patterns : \A S \in possible : p \in S}]
        BY <1>7, <2>1 DEF Arrive
    <2>5. SlotsOK'
        <3>1. Seat(x, Admitted) = 1 /\ Seat(x, Threads) = 0
            BY <2>2, <2>3 DEF Seat
        <3>2. admitted' = admitted - Seat(stage[h], Admitted) + Seat(x, Admitted) /\ admitted' <= MaxAdmitted
            BY <1>3, <1>6, <1>7, <2>4, <3>1, ScanBounds
        <3>3. scans' = scans - Seat(stage[h], Threads) + Seat(x, Threads) /\ scans' <= scans
            BY <1>3, <1>5, <1>6, <3>1
        <3>4. guard' = IF x \in Guarded THEN TRUE ELSE IF stage[h] \in Guarded THEN FALSE ELSE guard
            BY <1>3, <2>3, <2>4
        <3> QED  BY <1>1, <2>3, <2>4, <3>2, <3>3, <3>4, SlotsMove
    <2>6. PICK M \in SUBSET Patterns : M = InForce
        BY <1>4
    <2>7. PICK D \in SUBSET Patterns : D = {p \in Patterns : \A S \in possible : p \in S}
        OBVIOUS
    <2>8. D \subseteq M
        BY <1>4, <2>6, <2>7
    <2>9. PICK f : f = [Unscanned EXCEPT !.manual = M, !.due = D]
        OBVIOUS
    <2>10. f \in Found
        <3>1. PICK e \in Found : e = Unscanned
            BY <1>1, <1>2
        <3>2. [e EXCEPT !.manual = M, !.due = D] \in Found
            BY ONLY <3>1 DEF Found
        <3> QED  BY <2>9, <3>1, <3>2
    <2>11. /\ f.gen = Absent /\ f.managed = {} /\ ~f.name /\ f.literal = {} /\ ~f.legacy /\ ~f.over
           /\ f.due = D /\ f.manual = M
        BY <2>9 DEF Unscanned
    <2>12. found' = [found EXCEPT ![h] = f]
        <3>1. found' = [found EXCEPT ![h] = [found[h] EXCEPT !.manual = InForce,
                            !.due = {p \in Patterns : \A S \in possible : p \in S}]]
            BY <1>1, <2>4
        <3> QED  BY <1>2, <2>6, <2>7, <2>9, <3>1
    <2>13. KnownAt(x, f, says[h])
        <3>1. Fresh(f)
            BY <2>8, <2>11 DEF Fresh
        <3> QED  BY <2>1, <3>1, KnownBy
    <2>14. x # <<"new", "">> /\ x # <<"done", "nothing">>
        BY <2>1
    <2> QED  BY <1>1, <1>5, <2>3, <2>4, <2>5, <2>10, <2>11, <2>12, <2>13, <2>14, CallMoves
<1>8. CASE ~(admitted < MaxAdmitted)
    <2>1. PICK x : x = IF guard THEN <<"done", "overload">> ELSE <<"persist", "guard">>
        OBVIOUS
    <2>2. /\ x \in Places /\ x \notin Admitted /\ x \notin Threads /\ (x \in Guarded <=> ~guard)
          /\ x # <<"new", "">> /\ x # <<"done", "nothing">> /\ (x[1] # "done" => ~guard)
        <3>1. CASE guard
            <4>1. x = <<"done", "overload">> /\ "overload" \in Endings
                BY <2>1, <3>1 DEF Endings
            <4> QED  BY <3>1, <4>1, IdleHolds
        <3>2. CASE ~guard
            <4>1. x = <<"persist", "guard">>
                BY <2>1, <3>2
            <4> QED  BY <3>2, <4>1, AlertingHolds
        <3> QED  BY <3>1, <3>2
    <2>3. /\ admitted' = admitted /\ memory' = memory /\ guard' = TRUE
          /\ stage' = [stage EXCEPT ![h] = x] /\ found' = [found EXCEPT ![h].over = ~guard]
        BY <1>8, <2>1 DEF Arrive
    <2>4. SlotsOK'
        <3>1. Seat(x, Admitted) = 0 /\ Seat(x, Threads) = 0
            BY <2>2 DEF Seat
        <3>2. admitted' = admitted - Seat(stage[h], Admitted) + Seat(x, Admitted) /\ admitted' <= admitted
            BY <1>3, <1>6, <2>3, <3>1
        <3>3. scans' = scans - Seat(stage[h], Threads) + Seat(x, Threads) /\ scans' <= scans
            BY <1>3, <1>5, <1>6, <3>1
        <3>4. guard' = IF x \in Guarded THEN TRUE ELSE IF stage[h] \in Guarded THEN FALSE ELSE guard
            BY <1>3, <1>6, <2>2, <2>3
        <3>5. x \in Guarded => stage[h] \in Guarded \/ ~guard
            BY <2>2
        <3> QED  BY <1>1, <2>3, <3>2, <3>3, <3>4, <3>5, SlotsMove
    <2>5. PICK o \in BOOLEAN : o = ~guard
        OBVIOUS
    <2>6. PICK f : f = [Unscanned EXCEPT !.over = o]
        OBVIOUS
    <2>7. f \in Found
        <3>1. PICK e \in Found : e = Unscanned
            BY <1>1, <1>2
        <3>2. [e EXCEPT !.over = o] \in Found
            BY ONLY <3>1 DEF Found
        <3> QED  BY <2>6, <3>1, <3>2
    <2>8. f.gen = Absent /\ f.managed = {} /\ f.literal = {} /\ f.over = o
        BY <2>6 DEF Unscanned
    <2>9. found' = [found EXCEPT ![h] = f]
        <3>1. found' = [found EXCEPT ![h] = [found[h] EXCEPT !.over = ~guard]]
            BY <1>1, <2>3
        <3> QED  BY <1>2, <2>5, <2>6, <3>1
    <2>10. x[1] # "done" => KnownAt(x, f, says[h])
        <3> SUFFICES ASSUME x[1] # "done" PROVE KnownAt(x, f, says[h])
            OBVIOUS
        <3>1. x = <<"persist", "guard">> /\ o
            BY <2>1, <2>2, <2>5
        <3>2. Managed(f, says[h]) /\ Named(f, says[h]) /\ Literal(f, says[h])
            BY <2>8, <3>1 DEF Managed, Named, Literal
        <3> QED  BY <3>1, <3>2, KnownBy
    <2> QED  BY <1>1, <1>5, <2>2, <2>3, <2>4, <2>7, <2>8, <2>9, <2>10, CallMoves
<1> QED  BY <1>7, <1>8

\* Steps that leave the calls alone.
LEMMA CallsKept ==
    ASSUME SlotsOK, Known, ProtectedStaysHidden, UNCHANGED <<says, calls>>,
           on' \in BOOLEAN, active' \in Generations \cup {Absent}, upsets' \in Nat,
           fresh' \in [Events -> BOOLEAN], RulesOK'
    PROVE  SlotsOK' /\ Known' /\ Looked /\ ProtectedStaysHidden'
<1>1. UNCHANGED <<says, stage, found, report, admitted, scans, guard>>
    BY DEF calls, slots
<1>2. SlotsOK'
    BY <1>1 DEF SlotsOK, HeldBy, HeldByOne, At, Admitted, Guarded
<1>3. ScansTyped'
    BY <1>1 DEF Known, ScansTyped
<1>4. FoundOK'
    BY <1>1 DEF Known, FoundOK
<1>5. ProtectedStaysHidden'
    BY <1>1, SameReports
<1>6. Looked
    BY <1>1 DEF Looked
<1> QED  BY <1>2, <1>3, <1>4, <1>5, <1>6 DEF Known

LEMMA PersistRules ==
    ASSUME RulesOK, NEW new, NEW kept, new \in SUBSET Patterns, kept \subseteq SUBSET Patterns,
           new \in kept, Persist(new, kept)
    PROVE  RulesOK'
<1>1. /\ file \in {"rules", "absent", "damaged"} \X SUBSET Patterns
      /\ possible \subseteq SUBSET Patterns /\ InForce \in possible
    BY DEF RulesOK
<1>2. File(new) = <<"rules", new>> /\ File(new) \in {"rules", "absent", "damaged"} \X SUBSET Patterns
      /\ File(new)[1] = "rules" /\ File(new)[2] = new
    BY DEF File
<1>3. CASE file' = File(new) /\ memory' = new /\ possible' = kept
    BY <1>2, <1>3 DEF RulesOK, InForce, Readable
<1>4. CASE file' \in {file, File(new)} /\ memory' = InForce /\ possible' = possible \cup kept
    <2>1. memory' \in possible' /\ memory' \in SUBSET Patterns /\ possible' \subseteq SUBSET Patterns
        BY <1>1, <1>4
    <2>2. CASE file' = file
        <3>1. InForce' = InForce
            BY <1>4, <2>2 DEF InForce, Readable
        <3> QED  BY <1>1, <1>4, <2>1, <2>2, <3>1 DEF RulesOK
    <2>3. CASE file' = File(new)
        <3>1. InForce' = new
            BY <1>2, <2>3 DEF InForce, Readable
        <3> QED  BY <1>2, <1>4, <2>1, <2>3, <3>1 DEF RulesOK
    <2> QED  BY <1>4, <2>2, <2>3
<1> QED  BY <1>3, <1>4 DEF Persist

LEMMA CommandStep ==
    ASSUME SlotsOK, Known, ProtectedStaysHidden, Command
    PROVE  SlotsOK' /\ Known' /\ Looked /\ ProtectedStaysHidden'
<1>1. PICK p \in Patterns : AddRule(p) \/ RemoveRule(p)
    BY DEF Command
<1>2. RulesOK /\ InForce \in possible /\ possible \subseteq SUBSET Patterns
    BY DEF Known, RulesOK
<1>3. ASSUME memory' = InForce, UNCHANGED <<file, possible>> PROVE RulesOK'
    BY <1>2, <1>3 DEF RulesOK, InForce, Readable
<1>4. RulesOK'
    <2>1. CASE AddRule(p)
        <3>1. CASE p \in InForce
            BY <1>3, <2>1, <3>1 DEF AddRule
        <3>2. CASE p \notin InForce
            <4>1. PICK new, kept : new = InForce \cup {p} /\ kept = {S \cup {p} : S \in possible}
                OBVIOUS
            <4>2. new \in SUBSET Patterns /\ kept \subseteq SUBSET Patterns /\ new \in kept
                BY <1>2, <4>1
            <4>3. Persist(new, kept)
                BY <2>1, <3>2, <4>1 DEF AddRule
            <4> QED  BY <1>2, <4>2, <4>3, PersistRules
        <3> QED  BY <3>1, <3>2
    <2>2. CASE RemoveRule(p)
        <3>1. CASE p \notin InForce
            BY <1>3, <2>2, <3>1 DEF RemoveRule
        <3>2. CASE p \in InForce
            <4>1. PICK new, kept : new = InForce \ {p} /\ kept = {S \ {p} : S \in possible}
                OBVIOUS
            <4>2. new \in SUBSET Patterns /\ kept \subseteq SUBSET Patterns /\ new \in kept
                BY <1>2, <4>1
            <4>3. Persist(new, kept)
                BY <2>2, <3>2, <4>1 DEF RemoveRule
            <4> QED  BY <1>2, <4>2, <4>3, PersistRules
        <3> QED  BY <3>1, <3>2
    <2> QED  BY <1>1, <2>1, <2>2
<1>5. UNCHANGED <<on, active, says, fresh, calls>> /\ upsets > 0 /\ upsets' = upsets - 1
    BY <1>1 DEF AddRule, RemoveRule, Upset
<1>6. upsets' \in Nat /\ on' \in BOOLEAN /\ active' \in Generations \cup {Absent} /\ fresh' \in [Events -> BOOLEAN]
    BY <1>5 DEF Known, ScansTyped
<1> QED  BY <1>4, <1>5, <1>6, CallsKept

LEMMA SurroundingsStep ==
    ASSUME SlotsOK, Known, ProtectedStaysHidden,
           \/ \E how \in {"absent", "damaged"} : Damage(how)
           \/ Toggle
           \/ \E g \in Generations \cup {Absent} : Activate(g)
           \/ \E h \in Events : Age(h)
    PROVE  SlotsOK' /\ Known' /\ Looked /\ ProtectedStaysHidden'
<1>1. /\ on \in BOOLEAN /\ active \in Generations \cup {Absent} /\ upsets \in Nat
      /\ fresh \in [Events -> BOOLEAN] /\ RulesOK
    BY DEF Known, ScansTyped
<1>2. ASSUME UNCHANGED rules PROVE RulesOK'
    BY <1>1, <1>2 DEF rules, RulesOK, InForce, Readable
<1>3. ASSUME NEW how \in {"absent", "damaged"}, Damage(how)
      PROVE  SlotsOK' /\ Known' /\ Looked /\ ProtectedStaysHidden'
    <2>1. file' = <<how, {}>> /\ UNCHANGED <<on, active, memory, possible, says, fresh, calls>> /\ upsets' \in Nat
        BY <1>1, <1>3 DEF Damage, Upset
    <2>2. InForce' = memory /\ file' \in {"rules", "absent", "damaged"} \X SUBSET Patterns
        BY <2>1 DEF InForce, Readable
    <2>3. RulesOK'
        BY <1>1, <2>1, <2>2 DEF RulesOK
    <2> QED  BY <1>1, <2>1, <2>3, CallsKept
<1>4. CASE Toggle
    <2>1. UNCHANGED <<active, rules, says, fresh, calls>> /\ upsets' \in Nat /\ on' \in BOOLEAN
        BY <1>1, <1>4 DEF Toggle, Upset
    <2> QED  BY <1>1, <1>2, <2>1, CallsKept
<1>5. ASSUME NEW g \in Generations \cup {Absent}, Activate(g)
      PROVE  SlotsOK' /\ Known' /\ Looked /\ ProtectedStaysHidden'
    <2>1. UNCHANGED <<on, rules, says, fresh, calls>> /\ upsets' \in Nat /\ active' = g
        BY <1>1, <1>5 DEF Activate, Upset
    <2> QED  BY <1>1, <1>2, <2>1, CallsKept
<1>6. ASSUME NEW h \in Events, Age(h)
      PROVE  SlotsOK' /\ Known' /\ Looked /\ ProtectedStaysHidden'
    <2>1. UNCHANGED <<on, active, rules, says, calls>> /\ upsets' \in Nat /\ fresh' \in [Events -> BOOLEAN]
        BY <1>1, <1>6 DEF Age, Upset
    <2> QED  BY <1>1, <1>2, <2>1, CallsKept
<1> QED  BY <1>3, <1>4, <1>5, <1>6

LEMMA StartAnewStep ==
    ASSUME SlotsOK, Known, ProtectedStaysHidden, StartAnew
    PROVE  SlotsOK' /\ Known' /\ Looked /\ ProtectedStaysHidden'
<1>1. /\ stage \in [Events -> Places] /\ RulesOK /\ upsets' \in Nat
      /\ UNCHANGED <<on, active, file, says, fresh, found, report>>
      /\ admitted' = 0 /\ scans' = 0 /\ guard' = FALSE
      /\ stage' = [h \in Events |-> IF stage[h][1] \in {"new", "done"} THEN stage[h] ELSE <<"done", "lost">>]
    BY DEF Known, ScansTyped, StartAnew, Upset
<1>2. \A h \in Events : \/ stage'[h] = stage[h] /\ stage[h][1] \in {"new", "done"}
                        \/ stage'[h] = <<"done", "lost">>
    BY <1>1
<1>3. ASSUME NEW h \in Events
      PROVE  /\ stage'[h] \in Places /\ stage'[h] \notin Admitted /\ stage'[h] \notin Threads
             /\ stage'[h] \notin Guarded /\ (stage'[h] = <<"new", "">> \/ stage'[h][1] = "done")
    <2>1. "lost" \in Endings
        BY DEF Endings
    <2>2. CASE stage'[h] = <<"done", "lost">>
        BY <2>1, <2>2, IdleHolds
    <2>3. CASE stage'[h] = stage[h] /\ stage[h][1] \in {"new", "done"}
        <3>1. stage[h] \in Places /\ stage[h] \notin Scanning
            BY <1>1, <2>3, ScanningHolds
        <3>2. \/ stage[h] = <<"new", "">>
              \/ stage[h][1] = "done" /\ \E e \in Endings : stage[h] = <<"done", e>>
              \/ stage[h][1] \in {"persist", "deliver"}
            BY <3>1, PlacesAre
        <3>3. \/ stage[h] = <<"new", "">>
              \/ stage[h][1] = "done" /\ \E e \in Endings : stage[h] = <<"done", e>>
            BY <2>3, <3>2
        <3> QED  BY <2>3, <3>1, <3>3, IdleHolds
    <2> QED  BY <1>2, <2>2, <2>3
<1>4. SlotsOK'
    <2>1. At(stage', Admitted) = {} /\ At(stage', Threads) = {} /\ At(stage', Guarded) = {}
        BY <1>3 DEF At
    <2>2. PICK n : n = 0
        OBVIOUS
    <2>3. HeldBy(stage', Admitted, n) /\ HeldBy(stage', Threads, n)
        BY <2>1, <2>2, FS_EmptySet DEF HeldBy
    <2>4. HeldByOne(stage', Guarded, FALSE)
        BY <2>1 DEF HeldByOne
    <2>5. HeldBy(stage', Admitted, admitted') /\ HeldBy(stage', Threads, scans')
        BY <1>1, <2>2, <2>3
    <2>6. HeldByOne(stage', Guarded, guard')
        BY <1>1, <2>4
    <2>7. admitted' <= MaxAdmitted /\ scans' <= MaxScans
        BY <1>1, ScanBounds
    <2> QED  BY <2>5, <2>6, <2>7 DEF SlotsOK, HeldBy, HeldByOne, At, Admitted, Guarded
<1>5. ScansTyped'
    <2>1. stage' \in [Events -> Places]
        BY <1>1, <1>3
    <2> QED  BY <1>1, <2>1 DEF Known, ScansTyped
<1>6. RulesOK'
    <2>1. memory' = (IF Readable THEN file[2] ELSE {}) /\ possible' = (IF Readable THEN possible ELSE {{}})
        BY DEF StartAnew
    <2>2. CASE Readable
        <3>1. memory' = InForce /\ possible' = possible /\ InForce' = InForce
            BY <1>1, <2>1, <2>2 DEF InForce, Readable
        <3> QED  BY <1>1, <3>1 DEF RulesOK
    <2>3. CASE ~Readable
        <3>1. memory' = {} /\ possible' = {{}} /\ InForce' = {}
            BY <1>1, <2>1, <2>3 DEF InForce, Readable
        <3> QED  BY <1>1, <3>1 DEF RulesOK
    <2> QED  BY <2>2, <2>3
<1>7. FoundOK'
    <2>1. \A h \in Events : stage'[h] = <<"new", "">> => stage[h] = <<"new", "">>
        <3>1. <<"done", "lost">> # <<"new", "">>
            OBVIOUS
        <3> QED  BY <1>2, <3>1
    <2>2. \A h \in Events : stage'[h] = <<"new", "">> => found'[h] = Unscanned
        BY <1>1, <2>1 DEF Known, FoundOK
    <2> QED  BY <1>3, <2>2 DEF FoundOK
<1>8. ProtectedStaysHidden'
    BY <1>1, SameReports
<1>9. Looked
    BY <1>2 DEF Looked
<1> QED  BY <1>4, <1>5, <1>6, <1>7, <1>8, <1>9 DEF Known
-----------------------------------------------------------------------------
(* The theorems.                                                                *)

LEMMA ScansBegin == ScanInit => ScansInv
<1> SUFFICES ASSUME ScanInit PROVE ScansInv
    OBVIOUS
<1>1. PICK c \in Cases : file = c.file /\ says = c.says /\ upsets = c.upsets
    BY DEF ScanInit
<1>2. /\ file \in {<<"absent", {}>>} \cup ({"rules"} \X SUBSET Patterns)
      /\ says \in [Events -> Messages \cup {Absent}] /\ upsets \in Nat
    BY <1>1, RulesAssumption
<1>3. /\ on = TRUE /\ active \in Generations \cup {Absent} /\ memory = file[2] /\ possible = {memory}
      /\ fresh = [h \in Events |-> TRUE] /\ stage = [h \in Events |-> <<"new", "">>]
      /\ found = [h \in Events |-> Unscanned] /\ report = [h \in Events |-> Absent]
      /\ admitted = 0 /\ scans = 0 /\ guard = FALSE
    BY DEF ScanInit
<1>4. file \in {"rules", "absent", "damaged"} \X SUBSET Patterns /\ file[2] \in SUBSET Patterns
    <2>1. CASE file = <<"absent", {}>>
        BY <2>1
    <2>2. CASE file \in {"rules"} \X SUBSET Patterns
        BY <2>2
    <2> QED  BY <1>2, <2>1, <2>2
<1>5. RulesOK
    <2>1. InForce = memory
        BY <1>3 DEF InForce
    <2> QED  BY <1>3, <1>4, <2>1 DEF RulesOK
<1>6. ScansTyped
    <2>1. PICK a, b : a = Absent /\ a \in Generations \cup {Absent} /\ b = {}
        OBVIOUS
    <2>2. PICK f : f = [manual |-> b, due |-> b, gen |-> a, managed |-> b, name |-> FALSE,
                        literal |-> b, legacy |-> FALSE, over |-> FALSE]
        OBVIOUS
    <2>3. f \in Found /\ f.managed = {}
        BY ONLY <2>1, <2>2 DEF Found
    <2>4. Unscanned \in Found /\ Unscanned.managed = {}
        BY <2>1, <2>2, <2>3 DEF Unscanned
    <2>5. <<"new", "">> \in Places
        BY DEF Places
    <2> HIDE DEF Unscanned
    <2> QED  BY <1>2, <1>3, <2>4, <2>5 DEF ScansTyped
<1>7. SlotsOK
    <2>1. At(stage, Admitted) = {} /\ At(stage, Threads) = {} /\ At(stage, Guarded) = {}
        BY <1>3, IdleHolds DEF At
    <2>2. PICK n : n = 0
        OBVIOUS
    <2>3. HeldBy(stage, Admitted, n) /\ HeldBy(stage, Threads, n)
        BY <2>1, <2>2, FS_EmptySet DEF HeldBy
    <2>4. HeldByOne(stage, Guarded, FALSE)
        BY <2>1 DEF HeldByOne
    <2>5. admitted <= MaxAdmitted /\ scans <= MaxScans
        <3>1. MaxAdmitted \in Nat /\ MaxScans \in Nat
            BY ScanBounds
        <3>2. admitted = 0 /\ scans = 0
            BY <1>3
        <3> QED  BY <3>1, <3>2
    <2> QED  BY <1>3, <2>2, <2>3, <2>4, <2>5 DEF SlotsOK
<1>8. FoundOK
    BY <1>3 DEF FoundOK
<1>9. ProtectedStaysHidden
    BY <1>3 DEF ProtectedStaysHidden
<1> QED  BY <1>5, <1>6, <1>7, <1>8, <1>9 DEF ScansInv

LEMMA ScansStep == ScansInv /\ [ScanNext]_watch => ScansInv' /\ Looked
<1> SUFFICES ASSUME ScansInv, [ScanNext]_watch PROVE ScansInv' /\ Looked
    OBVIOUS
<1>1. SlotsOK /\ Known /\ ProtectedStaysHidden
    BY DEF ScansInv, Known
<1>2. SUFFICES SlotsOK' /\ Known' /\ Looked /\ ProtectedStaysHidden'
    BY DEF ScansInv, Known
<1>3. ASSUME NEW h \in Events, Arrive(h) \/ CallStep(h) \/ Cancel(h)
      PROVE  SlotsOK' /\ Known' /\ Looked /\ ProtectedStaysHidden'
    <2>1. CASE PersistAlert(h)
        BY <1>1, <2>1, PersistStep
    <2>2. CASE \/ Arrive(h) \/ BeginScan(h) \/ ScanManaged(h) \/ ScanName(h) \/ EndManaged(h)
               \/ EndLiteral(h) \/ EndExcerpt(h) \/ EndDelivery(h) \/ EndOrphan(h) \/ Cancel(h)
        <3>1. SlotsOK' /\ Known' /\ Looked
            BY <1>1, <2>2, ArriveStep, BeginScanStep, ManagedScanStep, NameScanStep, EndManagedStep, EndLiteralStep,
               EndExcerptStep, EndDeliveryStep, EndOrphanStep, CancelScanStep
        <3>2. UNCHANGED <<report, says>>
            BY <2>2 DEF Arrive, BeginScan, ScanManaged, ScanName, EndManaged, EndLiteral, EndExcerpt,
                        EndDelivery, EndOrphan, Cancel
        <3> QED  BY <1>1, <3>1, <3>2, SameReports
    <2> QED  BY <1>3, <2>1, <2>2 DEF CallStep
<1>4. CASE \/ \E how \in {"absent", "damaged"} : Damage(how)
           \/ Toggle
           \/ \E g \in Generations \cup {Absent} : Activate(g)
           \/ \E h \in Events : Age(h)
    BY <1>1, <1>4, SurroundingsStep
<1>5. CASE Command
    BY <1>1, <1>5, CommandStep
<1>6. CASE StartAnew
    BY <1>1, <1>6, StartAnewStep
<1>7. CASE UNCHANGED watch
    <2>1. UNCHANGED <<on, active, rules, upsets, says, fresh, calls>>
        BY <1>7 DEF watch
    <2>2. RulesOK'
        BY <1>1, <2>1 DEF Known, rules, RulesOK, InForce, Readable
    <2>3. on' \in BOOLEAN /\ active' \in Generations \cup {Absent} /\ upsets' \in Nat /\ fresh' \in [Events -> BOOLEAN]
        BY <1>1, <2>1 DEF Known, ScansTyped
    <2> QED  BY <1>1, <2>1, <2>2, <2>3, CallsKept
<1> QED  BY <1>3, <1>4, <1>5, <1>6, <1>7 DEF ScanNext

\* The invariant that carries the others: the slots and the types, the rules that may be in
\* force, what each call knows of its message at its place, and what the alerts disclose.
THEOREM ScansInvariant == ScanSpec => []ScansInv
BY ScansBegin, ScansStep, PTL DEF ScanSpec

\* The admissions, permits and the guard are held by the calls under way, one each, and by
\* no others; the variables have their types.
THEOREM SlotsAgree == ScanSpec => []SlotsMatch
<1>1. ScansInv => SlotsMatch
    <2> SUFFICES ASSUME ScansInv PROVE SlotsMatch
        OBVIOUS
    <2>1. SlotsOK /\ ScansTyped /\ RulesOK
        BY DEF ScansInv
    <2>2. admitted \in Nat /\ scans \in Nat
        BY <2>1, FS_CardinalityType DEF SlotsOK, HeldBy
    <2>3. admitted \in 0..MaxAdmitted /\ scans \in 0..MaxScans
        BY <2>1, <2>2, ScanBounds DEF SlotsOK
    <2>4. ASSUME NEW h \in Events
          PROVE  /\ found[h].due \cup found[h].manual \cup found[h].literal \subseteq Patterns
                 /\ found[h].gen \in Generations \cup {Absent}
                 /\ found[h].gen = Absent => found[h].managed = {}
                 /\ {found[h].name, found[h].legacy, found[h].over} \subseteq BOOLEAN
        <3>1. found[h] \in Found
            BY <2>1 DEF ScansTyped
        <3> QED  BY <2>1, <3>1 DEF ScansTyped, Found
    <2>5. ScanTypeOK
        BY <2>1, <2>3, <2>4 DEF ScanTypeOK, ScansTyped, RulesOK, SlotsOK, HeldByOne
    <2>6. /\ admitted = Cardinality({h \in Events : stage[h] \in Scanning \cup
                                        {<<"persist", "admitted">>, <<"deliver", "admitted">>}})
          /\ scans = Cardinality({h \in Events : stage[h] \in Threads})
        BY <2>1 DEF SlotsOK, HeldBy, At, Admitted
    <2>7. guard = \E h \in Events : stage[h] \in Alerting /\ stage[h][2] = "guard"
        <3>1. \A p : p \in Guarded <=> p \in Alerting /\ p[2] = "guard"
            BY DEF Guarded, Alerting
        <3>2. guard \in BOOLEAN /\ (guard <=> \E h \in Events : stage[h] \in Guarded)
            BY <2>1 DEF SlotsOK, HeldByOne, At
        <3> QED  BY <3>1, <3>2
    <2> QED  BY <2>5, <2>6, <2>7 DEF SlotsMatch
<1> QED  BY <1>1, ScansInvariant, PTL

\* An alert gives away no protected pattern: no excerpt, no terms and no sender whose name
\* has one, whatever the rules, their overlaps, the generations and the limits.
THEOREM SecretsStayHidden == ScanSpec => []ProtectedStaysHidden
<1>1. ScansInv => ProtectedStaysHidden
    BY DEF ScansInv
<1> QED  BY <1>1, ScansInvariant, PTL

\* A call ends with nothing only when the message has no rule that was in force as it came.
THEOREM NothingOverlooked == ScanSpec => HitsAreReported
<1>1. ScansInv /\ [ScanNext]_watch =>
        [\A h \in Events :
            (stage'[h] = <<"done", "nothing">> /\ stage[h] # stage'[h]) =>
                /\ \A p \in found[h].due : ~HasPattern(h, p)
                /\ IF found[h].gen = Absent
                   THEN \A p \in Legacy : ~HasPattern(h, p)
                   ELSE \A r \in Entries[found[h].gen] : r.mode = "direct" => ~HasPattern(h, r.pattern)]_watch
    BY ScansStep DEF Looked, Searched, HasPattern, Has
<1> QED  BY <1>1, ScansInvariant, PTL DEF ScanSpec, HitsAreReported
===============================================================================
