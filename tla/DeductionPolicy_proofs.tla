----------------------- MODULE DeductionPolicy_proofs -----------------------
(* Invariants of DeductionPolicy, for any lengths, limits, statuses, severities *)
(* and numbers of mutes.                                                        *)
EXTENDS MCDeductionPolicy, FiniteSetTheorems, SequenceTheorems, TLAPS

-----------------------------------------------------------------------------
(* The projection.  Sound is what every helper of the code keeps whatever the   *)
(* status is; Fits relates cycle and tag to the status.                         *)

Sound(s) ==
    /\ s \in Scope
    /\ s.cycle.type \in Settling => s.ops < MaxOps
    /\ s.cycle.type # "none" => s.tag = TagOf(s.cycle.type)
    /\ s.cycle.type = "none" =>
        s.cycle.status = "none" /\ (s.tag = "none" \/ s.reason = "terminal_status")
    /\ s.cycle.type # "none" => s.cycle.id > 0
    /\ s.cycle.status = "pending_decision" => Asked(s)

Fits(s) ==
    /\ s.cycle.type \in {"normal", "slow", "stop"} => s.status \in {"ok", "consulted"}
    /\ s.cycle.type = "final_warning" => s.status = "warned"
    /\ s.cycle.type = "none" /\ s.status # "gone" => s.tag = "none"

\* What a step may not touch in the books, or only increase as Reduce does.
SameBooks(s, q) ==
    q.total = s.total /\ q.deduct = s.deduct /\ q.ops = s.ops

LEMMA NoCycleType == NoCycle \in Cycle /\ NoCycle.type = "none" /\ NoCycle.status = "none"
    BY DEF NoCycle, Cycle, CycleTypes

LEMMA LengthType ==
    ASSUME NEW type \in CycleTypes, NEW level \in Nat
    PROVE  Length(type, level) \in Nat
    BY LengthsAssumption DEF Length, CycleTypes

LEMMA SetNoCycleSound ==
    ASSUME NEW s \in Scope, NEW reason \in {"zero_count", "operation_limit"}
    PROVE  LET q == SetNoCycle(s, reason) IN
           /\ Sound(q) /\ SameBooks(s, q)
           /\ q.cycle.type = "none" /\ q.tag = "none"
           /\ q.status = s.status /\ q.pending = s.pending /\ q.last = s.last
<1> DEFINE q == SetNoCycle(s, reason)
<1>1. q \in Scope
    BY NoCycleType DEF SetNoCycle, Scope
<1>2. q.cycle = NoCycle /\ q.tag = "none" /\ q.status = s.status /\ q.pending = s.pending
      /\ q.last = s.last /\ SameBooks(s, q)
    BY DEF SetNoCycle, Scope, SameBooks
<1>. QED
    BY <1>1, <1>2, NoCycleType DEF Sound, Asked, Settling

LEMMA SetTerminalSound ==
    ASSUME NEW s \in Scope
    PROVE  LET q == SetTerminal(s) IN
           /\ Sound(q) /\ SameBooks(s, q)
           /\ q.cycle.type = "none" /\ q.tag = s.tag
           /\ q.status = s.status /\ q.pending = s.pending /\ q.last = s.last
<1> DEFINE q == SetTerminal(s)
<1>1. q \in Scope
    BY NoCycleType DEF SetTerminal, Scope
<1>2. q.cycle = NoCycle /\ q.tag = s.tag /\ q.status = s.status /\ q.pending = s.pending
      /\ q.last = s.last /\ SameBooks(s, q) /\ q.reason = "terminal_status"
    BY DEF SetTerminal, Scope, SameBooks
<1>. QED
    BY <1>1, <1>2, NoCycleType DEF Sound, Asked, Settling

LEMMA NewCycleSound ==
    ASSUME NEW s \in Scope, NEW type \in CycleTypes, NEW at \in Nat, NEW seq \in Nat,
           type \in Settling => s.ops < MaxOps
    PROVE  LET q == NewCycle(s, type, at, seq) IN
           /\ Sound(q) /\ SameBooks(s, q)
           /\ q.cycle.type = type /\ q.cycle.status = "active"
           /\ q.status = s.status /\ q.pending = s.pending /\ q.last = s.last
<1> DEFINE level == IF type = "slow" THEN s.slowLevel + 1 ELSE s.slowLevel
           c == [NoCycle EXCEPT !.id = s.lastCycle + 1, !.type = type,
                                !.status = "active", !.start = at,
                                !.due = at + Length(type, level), !.seq = seq]
           q == NewCycle(s, type, at, seq)
<1>1. level \in Nat /\ s.lastCycle + 1 \in Nat
    BY DEF Scope
<1>2. at + Length(type, level) \in Nat
    BY <1>1, LengthType
<1>3. c \in Cycle /\ c.type = type /\ c.status = "active" /\ c.id = s.lastCycle + 1
    BY <1>1, <1>2 DEF NoCycle, Cycle
<1>4. TagOf(type) \in {"none", "slow", "stop"}
    BY DEF TagOf, CycleTypes
<1>5. q \in Scope
    <2>1. q = [s EXCEPT !.tag = TagOf(type), !.slowLevel = level, !.reason = "none",
                        !.lastCycle = @ + 1, !.cycle = c]
        BY DEF NewCycle
    <2>. HIDE DEF c, level, q
    <2>. QED
        BY <1>1, <1>3, <1>4, <2>1 DEF Scope
<1>6. /\ q.cycle = c /\ q.tag = TagOf(type) /\ q.status = s.status /\ q.pending = s.pending
      /\ q.last = s.last /\ SameBooks(s, q)
    BY DEF NewCycle, Scope, SameBooks
<1>7. c.id > 0
    BY <1>3 DEF Scope
<1>. QED
    BY <1>3, <1>5, <1>6, <1>7 DEF Sound, Asked, SameBooks, CycleTypes

\* What starting a cycle gives: that cycle, or none with the reason and the tag.
Opens(s, q, type) ==
    /\ Sound(q) /\ SameBooks(s, q)
    /\ q.status = s.status /\ q.pending = s.pending /\ q.last = s.last
    /\ q.cycle.type \in {type, "none"} /\ q.cycle.status \in {"active", "none"}
    /\ s.status = "gone" => q.cycle.type = "none"
    /\ q.cycle.type = "none" /\ s.status # "gone" => q.tag = "none"

LEMMA StartCycleOpens ==
    ASSUME NEW s \in Scope, NEW type \in CycleTypes, NEW at \in Nat, NEW seq \in Nat
    PROVE  Opens(s, StartCycle(s, type, at, seq), type)
<1> DEFINE q == StartCycle(s, type, at, seq)
<1>1. CASE s.status = "gone"
    <2>1. q = SetTerminal(s)
        BY <1>1 DEF StartCycle
    <2>. QED
        BY <1>1, <2>1, SetTerminalSound DEF Opens, Sound
<1>2. CASE s.status # "gone" /\ s.ops >= MaxOps /\ type \in Settling
    <2>1. q = SetNoCycle(s, "operation_limit")
        BY <1>2 DEF StartCycle
    <2>. QED
        BY <1>2, <2>1, SetNoCycleSound DEF Opens, Sound
<1>3. CASE s.status # "gone" /\ ~ (s.ops >= MaxOps /\ type \in Settling)
    <2>1. s.ops \in Nat /\ MaxOps \in Nat
        BY LimitsAssumption DEF Scope
    <2>2. CASE Current(s) = 0 /\ type = "normal"
        <3>1. q = SetNoCycle(s, "zero_count")
            BY <1>3, <2>2 DEF StartCycle
        <3>. QED
            BY <1>3, <3>1, SetNoCycleSound DEF Opens, Sound
    <2>3. CASE ~ (Current(s) = 0 /\ type = "normal")
        <3>1. q = NewCycle(s, type, at, seq)
            BY <1>3, <2>3 DEF StartCycle
        <3>2. type \in Settling => s.ops < MaxOps
            BY <1>3, <2>1
        <3>3. type # "none"
            BY DEF CycleTypes
        <3>. QED
            BY <1>3, <3>1, <3>2, <3>3, NewCycleSound DEF Opens
    <2>. QED
        BY <2>2, <2>3
<1>. QED
    BY <1>1, <1>2, <1>3

LEMMA NextNormalOpens ==
    ASSUME NEW s \in Scope, NEW at \in Nat
    PROVE  Opens(s, NextNormal(s, at), "normal")
<1> DEFINE q == NextNormal(s, at)
<1>1. CASE q = SetNoCycle(s, "zero_count")
    BY <1>1, SetNoCycleSound DEF Opens, Sound
<1>2. CASE q = SetNoCycle(s, "operation_limit")
    BY <1>2, SetNoCycleSound DEF Opens, Sound
<1>3. CASE q = StartCycle(s, "normal", at, 0)
    BY <1>3, StartCycleOpens DEF CycleTypes
<1>. QED
    BY <1>1, <1>2, <1>3 DEF NextNormal

\* Closing a cycle, asking and resolving keep the projection's type; what they
\* leave alone is read off their definitions.
LEMMA CloseCycleType ==
    ASSUME NEW s \in Scope
    PROVE  LET q == CloseCycle(s) IN
           /\ q \in Scope /\ SameBooks(s, q) /\ q.status = s.status
           /\ q.pending = s.pending /\ q.last = s.last /\ q.tag = s.tag
    BY NoCycleType DEF CloseCycle, Scope, SameBooks

LEMMA UntaggedType ==
    ASSUME NEW s \in Scope
    PROVE  LET q == [s EXCEPT !.tag = "none"] IN
           /\ q \in Scope /\ SameBooks(s, q) /\ q.status = s.status
           /\ q.pending = s.pending /\ q.last = s.last
    BY DEF Scope, SameBooks

LEMMA ResolveType ==
    ASSUME NEW s \in Scope, NEW actions
    PROVE  LET q == Resolve(s, actions) IN
           /\ q \in Scope /\ SameBooks(s, q) /\ q.status = s.status
           /\ q.cycle = s.cycle /\ q.tag = s.tag /\ q.last = s.last
           /\ q.pending = s.pending \ actions
    BY DEF Resolve, Scope, SameBooks

LEMMA AskSound ==
    ASSUME NEW s, Sound(s), NEW action \in Actions
    PROVE  LET q == Ask(s, action) IN
           /\ Sound(q) /\ SameBooks(s, q) /\ q.status = s.status
           /\ q.cycle = s.cycle /\ q.tag = s.tag /\ q.last = s.last
           /\ q.pending = s.pending \cup {action} /\ q.reason = s.reason
<1> DEFINE q == Ask(s, action)
<1>1. s \in Scope
    BY DEF Sound
<1>2. q \in Scope
    BY <1>1 DEF Ask, Scope
<1>3. /\ SameBooks(s, q) /\ q.status = s.status /\ q.cycle = s.cycle /\ q.tag = s.tag
      /\ q.last = s.last /\ q.pending = s.pending \cup {action} /\ q.reason = s.reason
    BY <1>1 DEF Ask, Scope, SameBooks
<1>4. Asked(s) => Asked(q)
    BY <1>3 DEF Asked
<1>. QED
    BY <1>2, <1>3, <1>4 DEF Sound, SameBooks

\* A cycle that waits while its question is open.
LEMMA AwaitSound ==
    ASSUME NEW s, Sound(s), s.cycle.type # "none", Asked(s)
    PROVE  LET q == Await(s) IN
           /\ Sound(q) /\ SameBooks(s, q) /\ q.status = s.status
           /\ q.cycle.type = s.cycle.type /\ q.tag = s.tag /\ q.last = s.last
           /\ q.pending = s.pending
<1> DEFINE q == Await(s)
<1>1. s \in Scope /\ s.cycle \in Cycle
    BY DEF Sound, Scope
<1>2. [s.cycle EXCEPT !.status = "pending_decision"] \in Cycle
    BY <1>1 DEF Cycle
<1>3. q \in Scope
    BY <1>1, <1>2 DEF Await, Scope
<1>4. /\ SameBooks(s, q) /\ q.status = s.status /\ q.tag = s.tag
      /\ q.last = s.last /\ q.pending = s.pending
      /\ q.cycle.type = s.cycle.type /\ q.cycle.id = s.cycle.id
    BY <1>1 DEF Await, Scope, Cycle, SameBooks
<1>5. Asked(q)
    BY <1>4 DEF Asked
<1>. QED
    BY <1>3, <1>4, <1>5 DEF Sound, SameBooks

-----------------------------------------------------------------------------
(* The books: n is the number of records.                                       *)

Books(s, n) ==
    /\ s.ops <= MaxOps
    /\ s.ops <= s.deduct /\ s.deduct <= 2 * s.ops
    /\ s.deduct <= n /\ s.total <= n

LEMMA SameBooksKept ==
    ASSUME NEW s, NEW q, NEW n \in Nat, SameBooks(s, q), Books(s, n)
    PROVE  Books(q, n)
    BY DEF SameBooks, Books

\* A reduction is one operation and at most two, and within the records.
LEMMA ReduceBooks ==
    ASSUME NEW s \in Scope, NEW amount \in {1, 2}, NEW n \in Nat, Books(s, n)
    PROVE  LET q == Reduce(s, amount) IN
           /\ q \in Scope /\ Books(q, n) /\ q.status = s.status
           /\ q.cycle = s.cycle /\ q.tag = s.tag /\ q.last = s.last
           /\ q.pending = s.pending
<1> DEFINE q == Reduce(s, amount)
<1>1. s.total \in Nat /\ s.deduct \in Nat /\ s.ops \in Nat /\ MaxOps \in Nat
    BY LimitsAssumption DEF Scope
<1>2. CASE Current(s) >= amount /\ s.ops < MaxOps
    <2>1. q = [s EXCEPT !.deduct = @ + amount, !.ops = @ + 1]
        BY <1>2 DEF Reduce
    <2>2. s.deduct + amount \in Nat /\ s.ops + 1 \in Nat
        BY <1>1
    <2>3. q \in Scope /\ q.deduct = s.deduct + amount /\ q.ops = s.ops + 1 /\ q.total = s.total
        BY <2>1, <2>2 DEF Scope
    <2>4. s.deduct + amount <= s.total
        BY <1>1, <1>2 DEF Current
    <2>5. Books(q, n)
        BY <1>1, <1>2, <2>3, <2>4 DEF Books
    <2>6. /\ q.status = s.status /\ q.cycle = s.cycle /\ q.tag = s.tag /\ q.last = s.last
          /\ q.pending = s.pending
        BY <2>1 DEF Scope
    <2>. QED
        BY <2>3, <2>5, <2>6
<1>3. CASE ~ (Current(s) >= amount /\ s.ops < MaxOps)
    BY <1>3 DEF Reduce
<1>. QED
    BY <1>2, <1>3

\* Counting the records up to an instant, or all of them.
LEMMA TotalAtType ==
    ASSUME mutes \in Seq(Mute), NEW t \in Nat
    PROVE  TotalAt(t) \in Nat /\ TotalAt(t) <= Len(mutes)
<1>1. Len(mutes) \in Nat /\ DOMAIN mutes = 1..Len(mutes)
    BY LenProperties
<1>2. IsFiniteSet(1..Len(mutes)) /\ Cardinality(1..Len(mutes)) = Len(mutes)
    BY <1>1, FS_Interval
<1>3. {i \in DOMAIN mutes : mutes[i].at <= t} \in SUBSET (1..Len(mutes))
    BY <1>1
<1>. QED
    BY <1>2, <1>3, FS_Subset, FS_CardinalityType DEF TotalAt

Recounted(s, q) ==
    /\ q \in Scope /\ Books(q, Len(mutes)) /\ q.ops = s.ops
    /\ q.status = s.status /\ q.cycle = s.cycle /\ q.tag = s.tag /\ q.last = s.last
    /\ q.pending = s.pending /\ q.lastCycle = s.lastCycle /\ q.reason = s.reason

LEMMA SyncedBooks ==
    ASSUME mutes \in Seq(Mute), NEW s \in Scope, Books(s, Len(mutes)), NEW t \in Nat
    PROVE  Recounted(s, SyncedAt(s, t)) /\ Recounted(s, Synced(s))
<1>1. Len(mutes) \in Nat /\ TotalAt(t) \in Nat /\ TotalAt(t) <= Len(mutes)
    BY TotalAtType, LenProperties
<1>2. ASSUME NEW m \in Nat, m <= Len(mutes)
      PROVE  Recounted(s, [s EXCEPT !.total = m])
    BY <1>2 DEF Scope, Books, Recounted
<1>3. Recounted(s, SyncedAt(s, t))
    BY <1>1, <1>2 DEF SyncedAt
<1>4. Recounted(s, Synced(s))
    BY <1>1, <1>2 DEF Synced
<1>. QED
    BY <1>3, <1>4

\* The count a projection is left with stays sound under a recount.
LEMMA RecountedSound ==
    ASSUME NEW s, NEW q, Sound(s), Recounted(s, q)
    PROVE  Sound(q) /\ (Fits(s) => Fits(q))
    BY DEF Sound, Recounted, Asked, Fits

-----------------------------------------------------------------------------
(* One turn of the settlement loop.                                             *)

Keeps(s, q) ==
    /\ Sound(q) /\ Books(q, Len(mutes)) /\ q.last = s.last
    /\ Fits(s) => Fits(q)

\* A cycle that follows a closed one fits a status that may have it.
LEMMA OpensKeeps ==
    ASSUME NEW s, NEW base \in Scope, NEW q, NEW type \in CycleTypes,
           Len(mutes) \in Nat, Opens(base, q, type), Books(base, Len(mutes)),
           base.last = s.last,
           Fits(s) => base.status \in (IF type = "final_warning" THEN {"warned"}
                                       ELSE {"ok", "consulted"})
    PROVE  Keeps(s, q)
<1>1. Books(q, Len(mutes))
    BY SameBooksKept DEF Opens
<1>2. Fits(s) => Fits(q)
    BY DEF Opens, Fits, CycleTypes
<1>. QED
    BY <1>1, <1>2 DEF Keeps, Opens

LEMMA AskKeeps ==
    ASSUME NEW s, NEW q, NEW action \in Actions, Len(mutes) \in Nat, Keeps(s, q)
    PROVE  Keeps(s, Ask(q, action))
<1>1. Sound(q)
    BY DEF Keeps
<1>2. /\ Sound(Ask(q, action)) /\ SameBooks(q, Ask(q, action))
      /\ Ask(q, action).status = q.status /\ Ask(q, action).cycle = q.cycle
      /\ Ask(q, action).tag = q.tag /\ Ask(q, action).last = q.last
    BY <1>1, AskSound
<1>3. Books(Ask(q, action), Len(mutes))
    BY <1>2, SameBooksKept DEF Keeps
<1>. QED
    BY <1>2, <1>3 DEF Keeps, Fits

LEMMA AwaitKeeps ==
    ASSUME NEW s, NEW q, Len(mutes) \in Nat, Keeps(s, q), q.cycle.type # "none", Asked(q)
    PROVE  Keeps(s, Await(q))
<1>1. Sound(q)
    BY DEF Keeps
<1>2. /\ Sound(Await(q)) /\ SameBooks(q, Await(q))
      /\ Await(q).status = q.status /\ Await(q).cycle.type = q.cycle.type
      /\ Await(q).tag = q.tag /\ Await(q).last = q.last
    BY <1>1, AwaitSound
<1>3. Books(Await(q), Len(mutes))
    BY <1>2, SameBooksKept DEF Keeps
<1>. QED
    BY <1>2, <1>3 DEF Keeps, Fits

LEMMA AskAwaitKeeps ==
    ASSUME NEW s, NEW q, NEW action \in Actions, Len(mutes) \in Nat, Keeps(s, q),
           q.cycle.type # "none", Asked(Ask(q, action))
    PROVE  Keeps(s, Await(Ask(q, action)))
<1>1. Keeps(s, Ask(q, action))
    BY AskKeeps
<1>2. Ask(q, action).cycle = q.cycle
    BY AskSound DEF Keeps
<1>. QED
    BY <1>1, <1>2, AwaitKeeps

LEMMA ActiveCycle ==
    ASSUME NEW s, Sound(s), s.cycle.type # "none"
    PROVE  /\ s \in Scope /\ s.cycle \in Cycle /\ s.cycle.type \in CycleTypes
           /\ s.cycle.due \in Nat /\ s.cycle.start \in Nat /\ s.cycle.seq \in Nat
    BY DEF Sound, Scope, Cycle

\* Closing a cycle without its tag, whatever comes next.
LEMMA ClosedType ==
    ASSUME NEW s \in Scope, NEW n \in Nat, Books(s, n)
    PROVE  LET q == [CloseCycle(s) EXCEPT !.tag = "none"] IN
           /\ q \in Scope /\ Books(q, n) /\ q.status = s.status /\ q.last = s.last
<1>1. /\ CloseCycle(s) \in Scope /\ SameBooks(s, CloseCycle(s))
      /\ CloseCycle(s).status = s.status /\ CloseCycle(s).last = s.last
    BY CloseCycleType
<1>2. Books(CloseCycle(s), n)
    BY <1>1, SameBooksKept
<1> DEFINE q == [CloseCycle(s) EXCEPT !.tag = "none"]
<1>3. q \in Scope /\ SameBooks(CloseCycle(s), q) /\ q.status = s.status /\ q.last = s.last
    BY <1>1, UntaggedType
<1>4. Books(q, n)
    BY <1>2, <1>3, SameBooksKept
<1>. QED
    BY <1>3, <1>4

LEMMA SettleStopKeeps ==
    ASSUME Len(mutes) \in Nat, NEW s, Keeps(s, s), s.cycle.type = "stop"
    PROVE  Keeps(s, SettleStop(s))
<1>1. "stop_decision" \in Actions
    BY DEF Actions
<1>2. Asked(Ask(s, "stop_decision"))
    BY <1>1, AskSound DEF Keeps, Asked, Settling
<1>. QED
    BY <1>1, <1>2, AskAwaitKeeps DEF SettleStop

LEMMA SettleFinalKeeps ==
    ASSUME mutes \in Seq(Mute), NEW s, Keeps(s, s), s.cycle.type = "final_warning"
    PROVE  Keeps(s, SettleFinal(s))
<1> DEFINE due == s.cycle.due
           synced == SyncedAt(s, due)
           consulted == [synced EXCEPT !.status = "consulted"]
           reduced == Reduce(consulted, 2)
           base == [CloseCycle(reduced) EXCEPT !.tag = "none"]
           next == NextNormal(base, due)
<1>1. Len(mutes) \in Nat /\ s \in Scope /\ due \in Nat /\ Books(s, Len(mutes))
    BY ActiveCycle, LenProperties DEF Keeps
<1>2. synced \in Scope /\ Books(synced, Len(mutes)) /\ synced.last = s.last
    BY <1>1, SyncedBooks DEF Recounted
<1>3. /\ consulted \in Scope /\ Books(consulted, Len(mutes))
      /\ consulted.last = s.last /\ consulted.status = "consulted"
    BY <1>2 DEF Scope, AllStatus, Books
<1>4. /\ reduced \in Scope /\ Books(reduced, Len(mutes)) /\ reduced.last = s.last
      /\ reduced.status = "consulted"
    BY <1>1, <1>3, ReduceBooks
<1>5. base \in Scope /\ Books(base, Len(mutes)) /\ base.last = s.last /\ base.status = "consulted"
    BY <1>1, <1>4, ClosedType
<1>6. Keeps(s, next)
    <2>1. Opens(base, next, "normal")
        BY <1>1, <1>5, NextNormalOpens
    <2>2. base.status \in {"ok", "consulted"}
        BY <1>5
    <2>. QED
        BY <1>1, <1>5, <2>1, <2>2, OpensKeeps DEF CycleTypes
<1>7. Keeps(s, Ask(next, "final_warning_recovery_review"))
    BY <1>1, <1>6, AskKeeps DEF Actions
<1>8. "remove_member" \in s.pending => Keeps(s, Await(s))
    BY <1>1, AwaitKeeps DEF Asked, Settling
<1>. QED
    BY <1>6, <1>7, <1>8 DEF SettleFinal

LEMMA CloseRejectedKeeps ==
    ASSUME Len(mutes) \in Nat, NEW s \in Scope, s.cycle.type \in Settling, s.cycle.id > 0,
           s.cycle.type = "slow" => s.ops < MaxOps /\ s.tag = "slow",
           Books(s, Len(mutes))
    PROVE  Keeps(s, CloseRejected(s))
<1> DEFINE base == [CloseCycle(s) EXCEPT !.tag = "none"]
<1>1. s.cycle \in Cycle /\ s.cycle.due \in Nat /\ ExtendLen \in Nat
    BY LengthsAssumption DEF Scope, Cycle
<1>2. CASE s.cycle.type = "normal"
    <2>1. base \in Scope /\ Books(base, Len(mutes)) /\ base.last = s.last /\ base.status = s.status
        BY ClosedType
    <2>2. Opens(base, StartCycle(base, "normal", s.cycle.due, 0), "normal")
        BY <1>1, <2>1, StartCycleOpens DEF CycleTypes
    <2>3. Fits(s) => base.status \in {"ok", "consulted"}
        BY <1>2, <2>1 DEF Fits
    <2>. QED
        BY <1>2, <2>1, <2>2, <2>3, OpensKeeps DEF CloseRejected, CycleTypes
<1>3. CASE s.cycle.type # "normal"
    <2> DEFINE c == Extended(s.cycle)
               q == [s EXCEPT !.cycle = c]
    <2>1. s.cycle.due + ExtendLen \in Nat /\ s.cycle.type = "slow"
        BY <1>1, <1>3 DEF Settling
    <2>2. c \in Cycle
        BY <1>1, <2>1 DEF Cycle, Extended
    <2>3. c.status = "active" /\ c.type = "slow" /\ c.id = s.cycle.id
        BY <1>1, <2>1 DEF Cycle, Extended
    <2>4. q = CloseRejected(s)
        BY <1>3 DEF CloseRejected
    <2>5. /\ q \in Scope /\ q.cycle = c /\ q.status = s.status /\ q.tag = s.tag /\ q.last = s.last
          /\ q.ops = s.ops /\ q.deduct = s.deduct /\ q.total = s.total
        BY <2>2 DEF Scope
    <2>6. Sound(q)
        BY <2>1, <2>3, <2>5 DEF Sound, TagOf, Asked
    <2>7. Books(q, Len(mutes)) /\ (Fits(s) => Fits(q))
        BY <2>1, <2>3, <2>5 DEF Books, Fits
    <2>. QED
        BY <2>4, <2>5, <2>6, <2>7 DEF Keeps
<1>. QED
    BY <1>2, <1>3

LEMMA SettleCycleKeeps ==
    ASSUME mutes \in Seq(Mute), NEW s, Keeps(s, s), s.cycle.type \in Settling
    PROVE  Keeps(s, SettleCycle(s))
<1> DEFINE due == s.cycle.due
           synced == SyncedAt(s, due)
           reduced == Reduce(synced, 1)
           base == [CloseCycle(reduced) EXCEPT !.tag = "none"]
           next == NextNormal(base, due)
<1>1. /\ Len(mutes) \in Nat /\ s \in Scope /\ due \in Nat /\ Books(s, Len(mutes))
      /\ s.cycle.type # "none"
    BY ActiveCycle, LenProperties DEF Keeps, Settling
<1>2. s.pending \cap {"stop_suggestion", "duration_review"} # {} => Keeps(s, Await(s))
    BY <1>1, AwaitKeeps DEF Asked, Settling
<1>3. Keeps(s, CloseRejected(s))
    BY <1>1, CloseRejectedKeeps DEF Keeps, Sound, TagOf, Settling
<1>4. Keeps(s, Await(Ask(s, "stop_suggestion")))
    <2>1. "stop_suggestion" \in Actions
        BY DEF Actions
    <2>2. Asked(Ask(s, "stop_suggestion"))
        BY <2>1, AskSound DEF Keeps, Asked, Settling
    <2>. QED
        BY <1>1, <2>1, <2>2, AskAwaitKeeps
<1>5. Keeps(s, next)
    <2>1. /\ synced \in Scope /\ Books(synced, Len(mutes)) /\ synced.last = s.last
          /\ synced.status = s.status
        BY <1>1, SyncedBooks DEF Recounted
    <2>2. /\ reduced \in Scope /\ Books(reduced, Len(mutes)) /\ reduced.last = s.last
          /\ reduced.status = s.status
        BY <1>1, <2>1, ReduceBooks
    <2>3. base \in Scope /\ Books(base, Len(mutes)) /\ base.last = s.last /\ base.status = s.status
        BY <1>1, <2>2, ClosedType
    <2>4. Opens(base, next, "normal")
        BY <1>1, <2>3, NextNormalOpens
    <2>5. Fits(s) => base.status \in {"ok", "consulted"}
        BY <2>3 DEF Fits, Settling
    <2>. QED
        BY <1>1, <2>3, <2>4, <2>5, OpensKeeps DEF CycleTypes
<1>. QED
    BY <1>2, <1>3, <1>4, <1>5 DEF SettleCycle, SettleGood

LEMMA SettleTurnKeeps ==
    ASSUME mutes \in Seq(Mute), NEW s, Keeps(s, s), s.cycle.type # "none"
    PROVE  Keeps(s, SettleTurn(s))
<1>1. Len(mutes) \in Nat /\ s.cycle.type \in CycleTypes
    BY ActiveCycle, LenProperties DEF Keeps
<1>2. CASE s.cycle.type = "stop"
    <2>1. SettleTurn(s) = SettleStop(s)
        BY <1>2 DEF SettleTurn, Settling
    <2>. QED
        BY <1>1, <1>2, <2>1, SettleStopKeeps
<1>3. CASE s.cycle.type = "final_warning"
    <2>1. SettleTurn(s) = SettleFinal(s)
        BY <1>3 DEF SettleTurn, Settling
    <2>. QED
        BY <1>3, <2>1, SettleFinalKeeps
<1>4. CASE s.cycle.type \in Settling
    <2>1. SettleTurn(s) = SettleCycle(s)
        BY <1>4 DEF SettleTurn, Settling
    <2>. QED
        BY <1>4, <2>1, SettleCycleKeeps
<1>. QED
    BY <1>1, <1>2, <1>3, <1>4 DEF CycleTypes, Settling

-----------------------------------------------------------------------------
(* What the inputs do.  First the changes that leave a cycle what it is.        *)

LEMMA CycleKeeps ==
    ASSUME NEW s, NEW q, Keeps(s, q), NEW c \in Cycle,
           c.id = q.cycle.id, c.type = q.cycle.type, c.status = q.cycle.status
    PROVE  LET r == [q EXCEPT !.cycle = c] IN
           /\ Keeps(s, r) /\ r.cycle = c /\ r.pending = q.pending /\ r.ops = q.ops
           /\ r.slowLevel = q.slowLevel
<1> DEFINE r == [q EXCEPT !.cycle = c]
<1>1. q \in Scope
    BY DEF Keeps, Sound
<1>2. r \in Scope
    BY <1>1 DEF Scope
<1>3. /\ r.cycle = c /\ r.status = q.status /\ r.tag = q.tag /\ r.reason = q.reason
      /\ r.pending = q.pending /\ r.last = q.last /\ SameBooks(q, r) /\ r.slowLevel = q.slowLevel
    BY <1>1 DEF Scope, SameBooks
<1>4. Asked(q) => Asked(r)
    BY <1>3 DEF Asked
<1>5. Sound(r)
    BY <1>2, <1>3, <1>4 DEF Keeps, Sound, SameBooks
<1>6. Books(r, Len(mutes)) /\ (Fits(q) => Fits(r))
    BY <1>3 DEF Keeps, Books, SameBooks, Fits
<1>. QED
    BY <1>3, <1>5, <1>6 DEF Keeps, SameBooks

LEMMA CountInStopKeeps ==
    ASSUME NEW s, Keeps(s, s), NEW sev
    PROVE  LET q == CountInStop(s, sev) IN
           Keeps(s, q) /\ q.cycle.type = s.cycle.type /\ q.cycle.id = s.cycle.id
<1> DEFINE c == [s.cycle EXCEPT !.light = @ + One(sev, "light"), !.severe = @ + One(sev, "severe")]
<1>1. s \in Scope /\ s.cycle \in Cycle
    BY DEF Keeps, Sound, Scope
<1>2. One(sev, "light") \in Nat /\ One(sev, "severe") \in Nat
    BY DEF One
<1>3. s.cycle.light + One(sev, "light") \in Nat /\ s.cycle.severe + One(sev, "severe") \in Nat
    BY <1>1, <1>2 DEF Cycle
<1>4. c \in Cycle /\ c.id = s.cycle.id /\ c.type = s.cycle.type /\ c.status = s.cycle.status
    BY <1>1, <1>3 DEF Cycle
<1>5. CountInStop(s, sev) = [s EXCEPT !.cycle = c]
    BY <1>1 DEF CountInStop, Scope, Cycle
<1>. HIDE DEF c
<1>6. Keeps(s, [s EXCEPT !.cycle = c]) /\ [s EXCEPT !.cycle = c].cycle = c
    BY <1>4, CycleKeeps
<1>. QED
    BY <1>4, <1>5, <1>6

LEMMA KeepsTrans ==
    ASSUME NEW s, NEW q, NEW r, Keeps(s, q), Keeps(q, r)
    PROVE  Keeps(s, r)
    BY DEF Keeps

LEMMA KeepsSelf ==
    ASSUME NEW s, NEW q, Keeps(s, q)
    PROVE  Keeps(q, q)
    BY DEF Keeps

LEMMA CountInFinalKeeps ==
    ASSUME Len(mutes) \in Nat, NEW s, Keeps(s, s), s.cycle.type = "final_warning", NEW sev
    PROVE  Keeps(s, CountInFinal(s, sev))
<1> DEFINE q == CountInStop(s, sev)
<1>1. Keeps(s, q) /\ q.cycle.type = "final_warning"
    BY CountInStopKeeps
<1>2. "remove_member" \in Actions
    BY DEF Actions
<1>3. Asked(Ask(q, "remove_member"))
    BY <1>1, <1>2, AskSound DEF Keeps, Asked, Settling
<1>. QED
    BY <1>1, <1>2, <1>3, AskAwaitKeeps DEF CountInFinal

LEMMA MuteStartsKeeps ==
    ASSUME Len(mutes) \in Nat, now \in Nat, NEW s, Keeps(s, s), NEW sev,
           Fits(s) => s.status \in {"ok", "consulted"}
    PROVE  Keeps(s, MuteStarts(s, sev))
<1> DEFINE type == IF Current(s) >= SlowAt \/ s.status = "consulted" THEN "slow" ELSE "normal"
           started == StartCycle(s, type, now, 0)
<1>1. s \in Scope /\ type \in CycleTypes /\ type # "final_warning"
    BY DEF Keeps, Sound, CycleTypes
<1>2. Opens(s, started, type)
    BY <1>1, StartCycleOpens
<1>3. Keeps(s, started)
    BY <1>1, <1>2, OpensKeeps DEF Keeps
<1>4. Keeps(s, Ask(started, "stop_suggestion"))
    BY <1>3, AskKeeps DEF Actions
<1>. QED
    BY <1>3, <1>4 DEF MuteStarts

LEMMA EnterSlowKeeps ==
    ASSUME NEW s, Keeps(s, s), s.cycle.type \in Settling
    PROVE  Keeps(s, EnterSlow(s))
<1> DEFINE due == s.cycle.start + Length("slow", s.slowLevel + 1)
           c == [s.cycle EXCEPT !.type = "slow", !.slowLight = 0, !.extended = FALSE, !.due = due]
           q == EnterSlow(s)
<1>1. s \in Scope /\ s.cycle \in Cycle /\ s.slowLevel + 1 \in Nat
    BY DEF Keeps, Sound, Scope
<1>2. due \in Nat
    BY <1>1, LengthType DEF Cycle, CycleTypes
<1>3. c \in Cycle /\ c.type = "slow" /\ c.status = s.cycle.status /\ c.id = s.cycle.id
    BY <1>1, <1>2 DEF Cycle, CycleTypes
<1>4. q = [s EXCEPT !.tag = "slow", !.slowLevel = @ + 1, !.reason = "none", !.cycle = c]
    BY DEF EnterSlow
<1>5. q \in Scope
    BY <1>1, <1>3, <1>4 DEF Scope
<1>6. /\ q.cycle = c /\ q.tag = "slow" /\ q.status = s.status /\ q.pending = s.pending
      /\ q.last = s.last /\ SameBooks(s, q)
    BY <1>1, <1>4 DEF Scope, SameBooks
<1>7. Asked(s) => Asked(q)
    BY <1>3, <1>6 DEF Asked, Settling
<1>8. Sound(q)
    BY <1>3, <1>5, <1>6, <1>7 DEF Keeps, Sound, SameBooks, TagOf, Settling
<1>9. Books(q, Len(mutes)) /\ (Fits(s) => Fits(q))
    BY <1>3, <1>6 DEF Keeps, Books, SameBooks, Fits, Settling
<1>. QED
    BY <1>6, <1>8, <1>9 DEF Keeps

LEMMA CountedType ==
    ASSUME NEW d \in Cycle, NEW sev
    PROVE  LET c == Counted(d, sev) IN
           c \in Cycle /\ c.id = d.id /\ c.type = d.type /\ c.status = d.status
<1> DEFINE more == IF d.type = "slow" THEN One(sev, "light") ELSE 0
<1>1. One(sev, "light") \in Nat /\ One(sev, "severe") \in Nat /\ more \in Nat
    BY DEF One
<1>2. d.light \in Nat /\ d.severe \in Nat /\ d.normalLight \in Nat /\ d.slowLight \in Nat
    BY DEF Cycle
<1>3. /\ d.light + One(sev, "light") \in Nat
      /\ d.severe + One(sev, "severe") \in Nat
      /\ d.normalLight + One(sev, "light") \in Nat
      /\ d.slowLight + more \in Nat
    <2>1. \A a, b \in Nat : a + b \in Nat
        OBVIOUS
    <2>. HIDE DEF more
    <2>. QED
        BY <1>1, <1>2, <2>1, Zenon
<1>. QED
    BY <1>3 DEF Cycle, Counted

LEMMA MuteCountsKeeps ==
    ASSUME Len(mutes) \in Nat, NEW s, Keeps(s, s), s.cycle.type \in Settling, NEW sev
    PROVE  Keeps(s, MuteCounts(s, sev))
<1> DEFINE slow == s.cycle.type = "slow"
           c == Counted(s.cycle, sev)
           counted == [s EXCEPT !.cycle = Counted(@, sev)]
           entered == IF ~ slow /\ Current(s) >= SlowAt THEN EnterSlow(counted) ELSE counted
           d == [entered.cycle EXCEPT !.due = @ + ExtendLen, !.extended = TRUE]
           extended == [entered EXCEPT !.cycle = d]
           longer == IF /\ entered.cycle.type = "slow"
                        /\ entered.cycle.slowLight = 2 /\ ~ entered.cycle.extended
                     THEN [entered EXCEPT !.cycle.due = @ + ExtendLen, !.cycle.extended = TRUE]
                     ELSE entered
<1>1. s \in Scope /\ s.cycle \in Cycle
    BY DEF Keeps, Sound, Scope
<1>4. c \in Cycle /\ c.id = s.cycle.id /\ c.type = s.cycle.type /\ c.status = s.cycle.status
    BY <1>1, CountedType
<1>5. Keeps(s, counted) /\ counted.cycle = c
    <2>1. counted = [s EXCEPT !.cycle = c]
        BY <1>1 DEF Scope
    <2>. HIDE DEF c, counted
    <2>2. Keeps(s, [s EXCEPT !.cycle = c]) /\ [s EXCEPT !.cycle = c].cycle = c
        BY <1>4, CycleKeeps
    <2>. QED
        BY <2>1, <2>2
<1>6. Keeps(s, entered)
    <2>1. Keeps(counted, counted) /\ counted.cycle.type \in Settling
        BY <1>4, <1>5, KeepsSelf
    <2>. HIDE DEF counted
    <2>2. Keeps(s, EnterSlow(counted))
        BY <1>5, <2>1, EnterSlowKeeps, KeepsTrans
    <2>. QED
        BY <1>5, <2>2
<1>6a. MuteCounts(s, sev) =
        IF sev = "severe" \/ longer.cycle.normalLight >= 3 \/ longer.cycle.slowLight >= 3
        THEN Ask(longer, "stop_suggestion") ELSE longer
    BY Zenon DEF MuteCounts
<1>. HIDE DEF entered
<1>7. entered \in Scope /\ entered.cycle \in Cycle
    BY <1>6 DEF Keeps, Sound, Scope
<1>8. entered.cycle.due + ExtendLen \in Nat
    BY <1>7, LengthsAssumption DEF Cycle
<1>9. d \in Cycle /\ d.id = entered.cycle.id /\ d.type = entered.cycle.type
      /\ d.status = entered.cycle.status
    BY <1>7, <1>8 DEF Cycle
<1>10. Keeps(s, extended)
    <2>. HIDE DEF d
    <2>. QED
        BY <1>6, <1>9, CycleKeeps
<1>11. [entered EXCEPT !.cycle.due = @ + ExtendLen, !.cycle.extended = TRUE] = extended
    BY <1>7 DEF Scope, Cycle
<1>12. Keeps(s, longer)
    BY <1>6, <1>10, <1>11
<1>. HIDE DEF longer
<1>14. Keeps(s, Ask(longer, "stop_suggestion"))
    BY <1>12, AskKeeps DEF Actions
<1>. QED
    BY <1>12, <1>6a, <1>14

\* A member the policy meets under a last warning is put under observation.
LEMMA OpenedKeeps ==
    ASSUME Len(mutes) \in Nat, NEW s, Keeps(s, s)
    PROVE  LET q == Opened(s) IN
           /\ Keeps(s, q) /\ q.status = s.status
           /\ q.status = "warned" => q.cycle.type # "none"
<1> DEFINE q == StartCycle(s, "final_warning", 0, 0)
<1>1. s \in Scope /\ "final_warning" \in CycleTypes /\ 0 \in Nat
    BY DEF Keeps, Sound, CycleTypes
<1>2. CASE s.cycle.type = "none" /\ s.status = "warned"
    <2>1. Opens(s, q, "final_warning")
        BY <1>1, StartCycleOpens
    <2>2. Keeps(s, q)
        BY <1>1, <1>2, <2>1, OpensKeeps DEF Keeps
    <2>3. q = NewCycle(s, "final_warning", 0, 0)
        BY <1>2 DEF StartCycle, Settling
    <2>4. q.cycle.type = "final_warning"
        BY <1>1, <2>3, NewCycleSound DEF Settling
    <2>. QED
        BY <1>2, <2>1, <2>2, <2>4 DEF Opened, Opens
<1>3. CASE ~ (s.cycle.type = "none" /\ s.status = "warned")
    BY <1>3 DEF Opened
<1>. QED
    BY <1>2, <1>3

\* A record in a stop is counted in it or waits; one in a settling cycle is
\* counted, and one without a cycle starts a cycle.
LEMMA AfterMuteKeeps ==
    ASSUME Len(mutes) \in Nat, now \in Nat, NEW s, Keeps(s, s), Fits(s), NEW sev,
           s.status # "gone", s.status = "warned" => s.cycle.type # "none"
    PROVE  Keeps(s, AfterMute(s, sev))
<1>1. s \in Scope /\ Books(s, Len(mutes)) /\ s.cycle.type \in CycleTypes \cup {"none"}
    BY DEF Keeps, Sound, Scope, Cycle
<1>2. CASE s.cycle.type = "stop"
    BY <1>2, CountInStopKeeps DEF AfterMute
<1>3. CASE s.cycle.type = "final_warning"
    BY <1>3, CountInFinalKeeps DEF AfterMute
<1>4. CASE s.cycle.type \notin {"stop", "final_warning"}
    <2>1. Keeps(s, SetNoCycle(s, "operation_limit"))
        <3>1. LET q == SetNoCycle(s, "operation_limit") IN
              /\ Sound(q) /\ SameBooks(s, q) /\ q.cycle.type = "none" /\ q.tag = "none"
              /\ q.last = s.last
            BY <1>1, SetNoCycleSound
        <3>. QED
            BY <1>1, <3>1, SameBooksKept DEF Keeps, Fits
    <2>2. CASE s.cycle.type = "none"
        <3>1. s.status \in {"ok", "consulted"}
            BY <1>1, <2>2 DEF Scope, AllStatus
        <3>. QED
            BY <1>4, <2>1, <2>2, <3>1, MuteStartsKeeps DEF AfterMute
    <2>3. CASE s.cycle.type \in Settling
        <3>1. Keeps(s, MuteCounts(s, sev))
            BY <2>3, MuteCountsKeeps
        <3>. QED
            BY <1>4, <2>1, <2>3, <3>1 DEF AfterMute, Settling
    <2>. QED
        BY <1>1, <1>4, <2>2, <2>3 DEF CycleTypes, Settling
<1>. QED
    BY <1>2, <1>3, <1>4

\* A recount or an applied input starts from a projection that is sound.
LEMMA StatusKeeps ==
    ASSUME NEW s, NEW q \in Scope, Len(mutes) \in Nat, Sound(s), Books(s, Len(mutes)),
           SameBooks(s, q), q.cycle = s.cycle, q.tag = s.tag, q.pending = s.pending,
           q.reason = s.reason
    PROVE  Sound(q) /\ Books(q, Len(mutes))
    BY SameBooksKept DEF Sound, SameBooks, Asked

\* A cycle opened for a status that may have it.
LEMMA StartKeeps ==
    ASSUME Len(mutes) \in Nat, NEW s \in Scope, Books(s, Len(mutes)),
           NEW type \in CycleTypes, NEW at \in Nat, NEW seq \in Nat,
           s.status \in (IF type = "final_warning" THEN {"warned"} ELSE {"ok", "consulted"})
    PROVE  LET q == StartCycle(s, type, at, seq) IN
           Sound(q) /\ Books(q, Len(mutes)) /\ Fits(q)
<1> DEFINE q == StartCycle(s, type, at, seq)
<1>1. Opens(s, q, type)
    BY StartCycleOpens
<1>2. Keeps(s, q)
    BY <1>1, OpensKeeps
<1>3. Sound(q) /\ Books(q, Len(mutes))
    BY <1>2 DEF Keeps
<1>4. Fits(q)
    BY <1>1 DEF Opens, Fits, CycleTypes
<1>. QED
    BY <1>3, <1>4

\* The same after the present cycle was closed and questions were resolved.
LEMMA ReopenKeeps ==
    ASSUME Len(mutes) \in Nat, NEW s \in Scope, Books(s, Len(mutes)), NEW actions,
           NEW type \in CycleTypes, NEW at \in Nat, NEW seq \in Nat,
           s.status \in (IF type = "final_warning" THEN {"warned"} ELSE {"ok", "consulted"})
    PROVE  LET q == StartCycle(Resolve(CloseCycle(s), actions), type, at, seq) IN
           Sound(q) /\ Books(q, Len(mutes)) /\ Fits(q)
<1> DEFINE closed == CloseCycle(s)
           base == Resolve(closed, actions)
<1>1. closed \in Scope /\ SameBooks(s, closed) /\ closed.status = s.status
    BY CloseCycleType
<1>2. base \in Scope /\ SameBooks(closed, base) /\ base.status = s.status
    BY <1>1, ResolveType
<1>3. Books(base, Len(mutes))
    BY <1>1, <1>2, SameBooksKept
<1>. QED
    BY <1>2, <1>3, StartKeeps

-----------------------------------------------------------------------------
(* The inductive invariant.                                                     *)

\* A mute that has its stop waits for none.
MutesOK == \A i \in DOMAIN mutes : mutes[i].owner # 0 => mutes[i].after = 0
\* The record of a mute under way is not marked yet.
Unmarked ==
    op.kind = "mute" =>
        Len(mutes) > 0 /\ mutes[Len(mutes)].owner = 0 /\ mutes[Len(mutes)].after = 0

IInv ==
    /\ now \in Nat /\ mutes \in Seq(Mute) /\ op \in Op
    /\ Sound(scope) /\ Books(scope, Len(mutes))
    /\ op.kind # "status" => Fits(scope)
    /\ MutesOK /\ Unmarked

\* What every step is shown to do to the projection.
GoodScope(s, n) == Sound(s) /\ Books(s, n)

LEMMA IdleType == Idle \in Op /\ Idle.kind = "idle"
    BY DEF Idle, Op, AllStatus

LEMMA InitInv == Init => IInv
<1>1. SUFFICES ASSUME NEW n \in Baselines, NEW status \in Targets \cup {"ok"},
                      NEW migrated \in BOOLEAN,
                      now = 0,
                      mutes = [i \in 1..n |-> [at |-> 0, sev |-> "light", owner |-> 0, after |-> 0]],
                      op = Idle,
                      scope = IF migrated
                              THEN StartCycle(Fresh(status, n), InitialType(status, n), 0, 0)
                              ELSE Fresh(status, n)
               PROVE  IInv
    BY DEF Init
<1> DEFINE fresh == Fresh(status, n)
           type == InitialType(status, n)
<1>2. n \in Nat /\ status \in AllStatus
    BY LimitsAssumption, InputsAssumption DEF AllStatus
<1>3. mutes \in [1..n -> Mute]
    BY <1>1 DEF Mute, AllSeverities
<1>4. mutes \in Seq(Mute) /\ Len(mutes) = n /\ DOMAIN mutes = 1..n
    BY <1>2, <1>3, SeqDef, LenProperties
<1>5. MutesOK
    BY <1>1, <1>4 DEF MutesOK
<1>6. /\ fresh \in Scope /\ fresh.cycle = NoCycle /\ fresh.tag = "none" /\ fresh.status = status
      /\ fresh.total = n /\ fresh.deduct = 0 /\ fresh.ops = 0
    BY <1>2, NoCycleType DEF Fresh, Scope
<1>7. Books(fresh, n)
    BY <1>2, <1>6, LimitsAssumption DEF Books
<1>8. Sound(fresh) /\ Fits(fresh)
    BY <1>6, NoCycleType DEF Sound, Fits, Asked, Settling
<1>9. GoodScope(scope, n) /\ Fits(scope)
    <2>1. CASE ~ migrated
        BY <1>1, <1>7, <1>8, <2>1 DEF GoodScope
    <2>2. CASE migrated /\ status = "gone"
        <3>1. scope = SetTerminal(fresh)
            BY <1>1, <1>6, <2>2 DEF StartCycle
        <3>2. Sound(SetTerminal(fresh)) /\ SameBooks(fresh, SetTerminal(fresh))
              /\ SetTerminal(fresh).cycle.type = "none" /\ SetTerminal(fresh).status = "gone"
            BY <1>6, <2>2, SetTerminalSound
        <3>3. Books(scope, n) /\ Fits(scope)
            BY <1>2, <1>7, <3>1, <3>2, SameBooksKept DEF Fits
        <3>. QED
            BY <3>1, <3>2, <3>3 DEF GoodScope
    <2>3. CASE migrated /\ status # "gone"
        <3>1. type \in CycleTypes
              /\ fresh.status \in (IF type = "final_warning" THEN {"warned"} ELSE {"ok", "consulted"})
            BY <1>2, <1>6, <2>3 DEF InitialType, CycleTypes, AllStatus
        <3>2. scope = StartCycle(fresh, type, 0, 0)
            BY <1>1, <2>3
        <3>. HIDE DEF fresh, type
        <3>. QED
            BY <1>2, <1>4, <1>6, <1>7, <3>1, <3>2, StartKeeps DEF GoodScope
    <2>. QED
        BY <2>1, <2>2, <2>3
<1>. QED
    BY <1>1, <1>4, <1>5, <1>9, IdleType DEF IInv, Unmarked, GoodScope

\* The steps that leave the mutes alone come down to their projection.
LEMMA ScopeStep ==
    ASSUME IInv, mutes' = mutes, now' \in Nat, op' \in Op, op'.kind # "mute",
           Sound(scope'), Books(scope', Len(mutes)), op'.kind # "status" => Fits(scope')
    PROVE  IInv'
    BY DEF IInv, MutesOK, Unmarked

LEMMA TickStep == IInv /\ Tick => IInv'
<1>. SUFFICES ASSUME IInv, Tick PROVE IInv'
    OBVIOUS
<1>1. now' \in Nat /\ mutes' = mutes /\ scope' = scope /\ op' = Idle
    BY DEF Tick, IInv
<1>. QED
    BY <1>1, IdleType, ScopeStep DEF Tick, IInv

LEMMA SettleStep == IInv /\ Settle => IInv'
<1>. SUFFICES ASSUME IInv, Settle PROVE IInv'
    OBVIOUS
<1>1. Keeps(scope, scope) /\ mutes \in Seq(Mute)
    BY DEF IInv, Keeps
<1>2. scope.cycle.type # "none"
    BY DEF IInv, Sound, Settle, Overdue
<1>3. Keeps(scope, SettleTurn(scope))
    BY <1>1, <1>2, SettleTurnKeeps
<1>4. scope' = SettleTurn(scope) /\ now' = now /\ mutes' = mutes /\ op' = op
    BY DEF Settle
<1>. HIDE DEF IInv, Keeps
<1>5. Sound(scope') /\ Books(scope', Len(mutes)) /\ (Fits(scope) => Fits(scope'))
    BY <1>3, <1>4 DEF Keeps
<1>. QED
    BY <1>4, <1>5 DEF IInv, MutesOK, Unmarked

LEMMA MaintenanceStep == IInv /\ (BeginMaintenance \/ EndMaintenance) => IInv'
<1>. SUFFICES ASSUME IInv, BeginMaintenance \/ EndMaintenance PROVE IInv'
    OBVIOUS
<1>1. scope' = scope /\ mutes' = mutes /\ now' = now
    BY DEF BeginMaintenance, EndMaintenance
<1>2. op' \in Op /\ op'.kind \in {"idle", "maintenance"}
    BY IdleType DEF BeginMaintenance, EndMaintenance, Op, Idle
<1>3. op.kind # "status"
    BY IdleType DEF BeginMaintenance, EndMaintenance, ReadyFor
<1>. QED
    BY <1>1, <1>2, <1>3, ScopeStep DEF IInv

LEMMA BeginStatusStep == IInv /\ (\E to \in Targets : BeginStatus(to)) => IInv'
<1>. SUFFICES ASSUME IInv, NEW to \in Targets, BeginStatus(to) PROVE IInv'
    OBVIOUS
<1> DEFINE q == [Synced(scope) EXCEPT !.status = to]
<1>1. scope \in Scope /\ Len(mutes) \in Nat /\ to \in AllStatus
    BY LenProperties, InputsAssumption DEF IInv, Sound
<1>2. Recounted(scope, Synced(scope)) /\ 0 \in Nat
    BY <1>1, SyncedBooks DEF IInv
<1>3. Sound(Synced(scope)) /\ Synced(scope) \in Scope /\ Books(Synced(scope), Len(mutes))
    BY <1>2, RecountedSound DEF IInv, Recounted
<1>4. /\ q \in Scope /\ SameBooks(Synced(scope), q) /\ q.cycle = Synced(scope).cycle
      /\ q.tag = Synced(scope).tag /\ q.pending = Synced(scope).pending
      /\ q.reason = Synced(scope).reason
    BY <1>1, <1>3 DEF Scope, SameBooks
<1>5. Sound(q) /\ Books(q, Len(mutes))
    BY <1>1, <1>3, <1>4, StatusKeeps
<1>6. scope' = q /\ mutes' = mutes /\ now' = now
    BY DEF BeginStatus
<1>7. op' \in Op /\ op'.kind = "status"
    BY <1>1 DEF BeginStatus, Op, Scope, AllStatus
<1>. HIDE DEF q
<1>. QED
    BY <1>5, <1>6, <1>7, ScopeStep DEF IInv

LEMMA StartStopStep == IInv /\ StartStop => IInv'
<1>. SUFFICES ASSUME IInv, StartStop PROVE IInv'
    OBVIOUS
<1>1. scope \in Scope /\ Len(mutes) \in Nat /\ now \in Nat /\ Books(scope, Len(mutes))
    BY LenProperties DEF IInv, Sound
<1>2. scope.status \in {"ok", "consulted"} /\ mutes' = mutes /\ now' = now /\ op' = Idle
    BY DEF StartStop, Decides
<1>3. scope' = StartCycle(Resolve(CloseCycle(scope), {"stop_suggestion"}), "stop", now, 1)
    BY DEF StartStop
<1>4. Sound(scope') /\ Books(scope', Len(mutes)) /\ Fits(scope')
    BY <1>1, <1>2, <1>3, ReopenKeeps DEF CycleTypes
<1>. QED
    BY <1>1, <1>2, <1>4, IdleType, ScopeStep

LEMMA ClearStopStep == IInv /\ ClearStop => IInv'
<1>. SUFFICES ASSUME IInv, ClearStop PROVE IInv'
    OBVIOUS
<1> DEFINE synced == Synced(scope)
           reduced == Reduce(synced, 1)
           base == Resolve(CloseCycle(reduced), {"stop_decision"})
           closed == [base EXCEPT !.tag = "none"]
<1>1. scope \in Scope /\ Len(mutes) \in Nat /\ now \in Nat /\ Books(scope, Len(mutes))
      /\ mutes \in Seq(Mute)
    BY LenProperties DEF IInv, Sound
<1>2. scope.status \in {"ok", "consulted"} /\ mutes' = mutes /\ now' = now /\ op' = Idle
    BY DEF ClearStop, Decides
<1>3. synced \in Scope /\ Books(synced, Len(mutes)) /\ synced.status = scope.status
    BY <1>1, SyncedBooks DEF Recounted
<1>4. reduced \in Scope /\ Books(reduced, Len(mutes)) /\ reduced.status = scope.status
    BY <1>1, <1>3, ReduceBooks
<1>5. base \in Scope /\ Books(base, Len(mutes)) /\ base.status = scope.status
    BY <1>1, <1>4, CloseCycleType, ResolveType, SameBooksKept
<1>6. closed \in Scope /\ Books(closed, Len(mutes)) /\ closed.status = scope.status
    BY <1>1, <1>5, UntaggedType, SameBooksKept
<1>7. scope' = NextNormal(closed, now)
    BY DEF ClearStop
<1>8. Opens(closed, NextNormal(closed, now), "normal")
    BY <1>1, <1>6, NextNormalOpens
<1>9. Keeps(closed, scope')
    BY <1>1, <1>2, <1>6, <1>7, <1>8, OpensKeeps DEF CycleTypes
<1>10. Fits(scope')
    BY <1>2, <1>6, <1>7, <1>8 DEF Opens, Fits, CycleTypes
<1>. QED
    BY <1>1, <1>2, <1>9, <1>10, IdleType, ScopeStep DEF Keeps

LEMMA RejectSuggestionStep == IInv /\ RejectSuggestion => IInv'
<1>. SUFFICES ASSUME IInv, RejectSuggestion PROVE IInv'
    OBVIOUS
<1> DEFINE base == Resolve(scope, {"stop_suggestion"})
           c == [scope.cycle EXCEPT !.rejected = TRUE]
           q == [base EXCEPT !.cycle = c]
<1>1. scope \in Scope /\ Len(mutes) \in Nat /\ now \in Nat /\ Books(scope, Len(mutes))
      /\ Sound(scope) /\ scope.cycle \in Cycle
    BY LenProperties DEF IInv, Sound, Scope
<1>2. /\ scope.status \in {"ok", "consulted"} /\ mutes' = mutes /\ now' = now /\ op' = Idle
      /\ scope.cycle.type \in Settling /\ op = Idle
    BY DEF RejectSuggestion, Decides
<1>3. Fits(scope)
    BY <1>2, IdleType DEF IInv
<1>4. c \in Cycle /\ c.type = scope.cycle.type /\ c.id = scope.cycle.id /\ c.status = scope.cycle.status
    BY <1>1 DEF Cycle
<1>5. /\ base \in Scope /\ SameBooks(scope, base) /\ base.status = scope.status
      /\ base.cycle = scope.cycle /\ base.tag = scope.tag
    BY <1>1, ResolveType
<1>6. /\ q \in Scope /\ SameBooks(scope, q) /\ q.status = scope.status
      /\ q.cycle = c /\ q.tag = scope.tag
    BY <1>4, <1>5 DEF Scope, SameBooks
<1>7. Books(q, Len(mutes)) /\ Fits(q)
    BY <1>1, <1>3, <1>4, <1>6, SameBooksKept DEF Fits
<1>8. [base EXCEPT !.cycle.rejected = TRUE] = q
    BY <1>5, <1>1 DEF Scope
<1>9. scope' = IF scope.cycle.status = "pending_decision" THEN CloseRejected(q) ELSE q
    BY <1>8 DEF RejectSuggestion
<1>10. CASE scope.cycle.status = "pending_decision"
    <2>1. q.cycle.type \in Settling /\ q.cycle.id > 0
        BY <1>1, <1>2, <1>4, <1>6 DEF Sound, Settling
    <2>2. q.cycle.type = "slow" => q.ops < MaxOps /\ q.tag = "slow"
        BY <1>1, <1>4, <1>6 DEF Sound, SameBooks, TagOf, Settling
    <2>. HIDE DEF q
    <2>3. Keeps(q, CloseRejected(q))
        BY <1>1, <1>6, <1>7, <2>1, <2>2, CloseRejectedKeeps
    <2>. QED
        BY <1>1, <1>2, <1>7, <1>9, <1>10, <2>3, IdleType, ScopeStep DEF Keeps
<1>11. CASE scope.cycle.status # "pending_decision"
    <2>1. Sound(q)
        BY <1>1, <1>2, <1>4, <1>6, <1>11 DEF Sound, SameBooks, Settling
    <2>. QED
        BY <1>1, <1>2, <1>7, <1>9, <1>11, <2>1, IdleType, ScopeStep
<1>. QED
    BY <1>10, <1>11

LEMMA ApplyStatusStep == IInv /\ ApplyStatus => IInv'
<1>. SUFFICES ASSUME IInv, ApplyStatus PROVE IInv'
    OBVIOUS
<1> DEFINE s == [scope EXCEPT !.status = op.to, !.last = op.to]
<1>1. /\ scope \in Scope /\ Len(mutes) \in Nat /\ now \in Nat /\ Books(scope, Len(mutes))
      /\ Sound(scope) /\ op.to \in AllStatus
    BY LenProperties DEF IInv, Sound, Op
<1>2. mutes' = mutes /\ now' = now /\ op' = Idle
    BY DEF ApplyStatus
<1>3. /\ s \in Scope /\ SameBooks(scope, s) /\ s.cycle = scope.cycle /\ s.tag = scope.tag
      /\ s.pending = scope.pending /\ s.reason = scope.reason /\ s.status = op.to
    BY <1>1 DEF Scope, SameBooks
<1>4. Sound(s) /\ Books(s, Len(mutes))
    BY <1>1, <1>3, StatusKeeps
<1>5. scope' = CASE op.to = "gone" -> BecomeGone(s)
                 [] op.to = "warned" -> BecomeWarned(s)
                 [] op.to = "consulted" -> BecomeConsulted(s)
                 [] op.to = "ok" -> BecomeOk(s)
    BY DEF ApplyStatus
<1>. HIDE DEF s
<1>6. SUFFICES Sound(scope') /\ Books(scope', Len(mutes)) /\ Fits(scope')
    BY <1>1, <1>2, IdleType, ScopeStep
<1>7. CASE op.to = "gone"
    <2>1. scope' = SetTerminal(Resolve(s, Actions))
        BY <1>5, <1>7 DEF BecomeGone
    <2>2. /\ Resolve(s, Actions) \in Scope /\ SameBooks(s, Resolve(s, Actions))
          /\ Resolve(s, Actions).status = "gone"
        BY <1>3, <1>7, ResolveType
    <2>3. /\ Sound(scope') /\ SameBooks(Resolve(s, Actions), scope')
          /\ scope'.cycle.type = "none" /\ scope'.status = "gone"
        BY <2>1, <2>2, SetTerminalSound
    <2>. QED
        BY <1>1, <1>4, <2>2, <2>3, SameBooksKept DEF Fits
<1>8. CASE op.to = "warned"
    <2>1. scope' = StartCycle(Resolve(CloseCycle(s), {"stop_suggestion", "stop_decision"}),
                              "final_warning", now, 0)
        BY <1>5, <1>8 DEF BecomeWarned
    <2>. QED
        BY <1>1, <1>3, <1>4, <1>8, <2>1, ReopenKeeps DEF CycleTypes
<1>9. CASE op.to = "consulted"
    <2>1. scope' = StartCycle(CloseCycle(s), "slow", now, 0)
        BY <1>5, <1>9 DEF BecomeConsulted
    <2>2. /\ CloseCycle(s) \in Scope /\ Books(CloseCycle(s), Len(mutes))
          /\ CloseCycle(s).status = "consulted"
        BY <1>1, <1>3, <1>4, <1>9, CloseCycleType, SameBooksKept
    <2>. QED
        BY <1>1, <2>1, <2>2, StartKeeps DEF CycleTypes
<1>10. CASE op.to = "ok"
    <2>1. scope' = BecomeOk(s)
        BY <1>5, <1>10
    <2>2. CASE Recovering(s)
        <3> DEFINE type == IF Current(s) >= SlowAt THEN "slow" ELSE "normal"
        <3>1. scope' = StartCycle(Resolve(CloseCycle(s),
                                          {"stop_suggestion", "stop_decision", "remove_member"}),
                                  type, now, 0)
            BY <2>1, <2>2 DEF BecomeOk
        <3>2. type \in CycleTypes /\ type # "final_warning"
            BY DEF CycleTypes
        <3>. HIDE DEF type
        <3>. QED
            BY <1>1, <1>3, <1>4, <1>10, <3>1, <3>2, ReopenKeeps
    <2>3. CASE ~ Recovering(s)
        <3>1. scope' = s
            BY <2>1, <2>3 DEF BecomeOk
        <3>2. s.reason # "terminal_status" /\ s.cycle.type # "final_warning"
            BY <2>3 DEF Recovering
        <3>3. Fits(s)
            BY <1>3, <1>4, <1>10, <3>2 DEF Fits, Sound
        <3>. QED
            BY <1>4, <3>1, <3>3
    <2>. QED
        BY <2>2, <2>3
<1>. QED
    BY <1>1, <1>7, <1>8, <1>9, <1>10 DEF AllStatus

LEMMA BeginMuteStep == IInv /\ (\E sev \in Severities : BeginMute(sev)) => IInv'
<1>. SUFFICES ASSUME IInv, NEW sev \in Severities, BeginMute(sev) PROVE IInv'
    OBVIOUS
<1> DEFINE m == [at |-> now, sev |-> sev, owner |-> 0, after |-> 0]
           q == [scope EXCEPT !.total = Len(mutes) + 1]
<1>1. /\ scope \in Scope /\ Len(mutes) \in Nat /\ now \in Nat /\ mutes \in Seq(Mute)
      /\ Sound(scope) /\ Books(scope, Len(mutes)) /\ MutesOK
    BY LenProperties DEF IInv, Sound
<1>2. /\ op = Idle /\ mutes' = Append(mutes, m) /\ scope' = q /\ now' = now
      /\ op' = [Idle EXCEPT !.kind = "mute"]
    BY DEF BeginMute
<1>3. m \in Mute
    BY <1>1, InputsAssumption DEF Mute
<1>4. /\ mutes' \in Seq(Mute) /\ Len(mutes') = Len(mutes) + 1
      /\ \A i \in 1..Len(mutes) : mutes'[i] = mutes[i]
      /\ mutes'[Len(mutes) + 1] = m
    BY <1>1, <1>2, <1>3, AppendProperties
<1>5. DOMAIN mutes = 1..Len(mutes) /\ DOMAIN mutes' = 1..(Len(mutes) + 1)
    BY <1>1, <1>4, LenProperties
<1>6. MutesOK'
    <2>1. \A i \in 1..(Len(mutes) + 1) : i \in 1..Len(mutes) \/ i = Len(mutes) + 1
        BY <1>1
    <2>2. m.owner = 0
        OBVIOUS
    <2>. HIDE DEF m
    <2>. QED
        BY <1>1, <1>4, <1>5, <2>1, <2>2 DEF MutesOK
<1>7. /\ q \in Scope /\ q.status = scope.status /\ q.cycle = scope.cycle /\ q.tag = scope.tag
      /\ q.pending = scope.pending /\ q.reason = scope.reason /\ q.ops = scope.ops
      /\ q.deduct = scope.deduct /\ q.total = Len(mutes) + 1
    BY <1>1 DEF Scope
<1>8. Books(q, Len(mutes) + 1)
    <2>. HIDE DEF q
    <2>1. scope.ops \in Nat /\ scope.deduct \in Nat /\ scope.total \in Nat
        BY <1>1 DEF Scope
    <2>2. Books(scope, Len(mutes)) /\ Len(mutes) \in Nat
        BY <1>1
    <2>. QED
        BY ONLY <1>7, <2>1, <2>2 DEF Books
<1>9. Sound(q) /\ (Fits(scope) => Fits(q))
    <2>. HIDE DEF q
    <2>1. Sound(scope)
        BY <1>1
    <2>. QED
        BY ONLY <1>7, <2>1 DEF Sound, Asked, Fits
<1>10. Fits(scope)
    BY <1>2, IdleType DEF IInv
<1>11. op' \in Op /\ op'.kind = "mute"
    BY <1>2 DEF Idle, Op, AllStatus
<1>12. Unmarked'
    BY <1>1, <1>4 DEF Unmarked
<1>. HIDE DEF q
<1>. QED
    BY <1>1, <1>2, <1>4, <1>6, <1>8, <1>9, <1>10, <1>11, <1>12 DEF IInv

LEMMA ApplyUnknownStep == IInv /\ ApplyUnknown => IInv'
<1>. SUFFICES ASSUME IInv, ApplyUnknown PROVE IInv'
    OBVIOUS
<1> DEFINE s == Synced(scope)
<1>1. scope \in Scope /\ Len(mutes) \in Nat /\ mutes \in Seq(Mute) /\ 0 \in Nat
    BY LenProperties DEF IInv, Sound
<1>2. op.kind = "mute" /\ mutes' = mutes /\ now' = now /\ op' = Idle
      /\ scope' = Ask(s, "duration_review")
    BY DEF ApplyUnknown, ReadyFor
<1>3. Recounted(scope, s)
    BY <1>1, SyncedBooks DEF IInv
<1>4. Sound(s) /\ Fits(s) /\ Books(s, Len(mutes))
    BY <1>2, <1>3, RecountedSound DEF IInv, Recounted
<1>5. Keeps(s, Ask(s, "duration_review"))
    BY <1>1, <1>4, AskKeeps DEF Keeps, Actions
<1>. QED
    BY <1>2, <1>4, <1>5, IdleType, ScopeStep DEF Keeps, IInv

\* A mute under way is judged in the cycle, or after it, at most in one of them.
LEMMA MarkedType ==
    ASSUME NEW m \in Mute, m.owner = 0, m.after = 0, NEW s, Sound(s)
    PROVE  Marked(m, s) \in Mute /\ (Marked(m, s).owner # 0 => Marked(m, s).after = 0)
<1>1. s.cycle.id \in Nat
    BY DEF Sound, Scope, Cycle
<1>. QED
    BY <1>1 DEF Marked, Mute

LEMMA ApplyMuteStep == IInv /\ ApplyMute => IInv'
<1>. SUFFICES ASSUME IInv, ApplyMute PROVE IInv'
    OBVIOUS
<1> DEFINE s == Opened(Synced(scope))
           n == Len(mutes)
           sev == mutes[n].sev
<1>1. /\ scope \in Scope /\ n \in Nat /\ mutes \in Seq(Mute) /\ 0 \in Nat /\ now \in Nat
      /\ DOMAIN mutes = 1..n
    BY LenProperties DEF IInv, Sound
<1>2. op.kind = "mute" /\ now' = now /\ op' = Idle
    BY DEF ApplyMute, ReadyFor
<1>3. n > 0 /\ n \in DOMAIN mutes /\ mutes[n] \in Mute /\ mutes[n].owner = 0 /\ mutes[n].after = 0
    <2>1. n > 0 /\ mutes[n].owner = 0 /\ mutes[n].after = 0
        BY <1>2 DEF IInv, Unmarked
    <2>2. n \in 1..n
        BY <1>1, <2>1
    <2>. QED
        BY <1>1, <2>1, <2>2, ElementOfSeq
<1>4. Recounted(scope, Synced(scope))
    BY <1>1, SyncedBooks DEF IInv
<1>5. Keeps(Synced(scope), Synced(scope)) /\ Fits(Synced(scope))
    BY <1>2, <1>4, RecountedSound DEF IInv, Recounted, Keeps
<1>6. /\ Keeps(s, s) /\ Fits(s)
      /\ s.status = "warned" => s.cycle.type # "none"
    BY <1>1, <1>5, OpenedKeeps, KeepsSelf DEF Keeps
<1>7. /\ s.status = "gone" => scope' = SetTerminal(s) /\ mutes' = mutes
      /\ s.status # "gone" => /\ scope' = AfterMute(s, sev)
                              /\ mutes' = [mutes EXCEPT ![n] = Marked(mutes[n], s)]
    BY <1>1, <1>3 DEF ApplyMute
<1>. HIDE DEF s, sev
<1>8. Sound(scope') /\ Books(scope', n) /\ Fits(scope')
    <2>1. CASE s.status = "gone"
        <3>1. /\ Sound(scope') /\ SameBooks(s, scope') /\ scope'.cycle.type = "none"
              /\ scope'.status = "gone"
            BY <1>6, <1>7, <2>1, SetTerminalSound DEF Keeps, Sound
        <3>. QED
            BY <1>1, <1>6, <3>1, SameBooksKept DEF Keeps, Fits
    <2>2. CASE s.status # "gone"
        <3>1. Keeps(s, AfterMute(s, sev))
            BY <1>1, <1>6, <2>2, AfterMuteKeeps
        <3>. QED
            BY <1>6, <1>7, <2>2, <3>1 DEF Keeps
    <2>. QED
        BY <2>1, <2>2
<1>9. mutes' \in Seq(Mute) /\ Len(mutes') = n /\ MutesOK'
    <2>1. CASE s.status = "gone"
        BY <1>1, <1>7, <2>1 DEF IInv, MutesOK
    <2>2. CASE s.status # "gone"
        <3> DEFINE m == Marked(mutes[n], s)
        <3>1. m \in Mute /\ (m.owner # 0 => m.after = 0)
            BY <1>3, <1>6, MarkedType DEF Keeps
        <3>2. mutes' = [mutes EXCEPT ![n] = m]
            BY <1>7, <2>2
        <3>. HIDE DEF m
        <3>3. /\ mutes' \in Seq(Mute) /\ Len(mutes') = n
              /\ \A i \in 1..n : mutes'[i] = IF i = n THEN m ELSE mutes[i]
            BY <1>1, <1>3, <3>1, <3>2, ExceptSeq
        <3>4. DOMAIN mutes' = 1..n
            BY <3>3, LenProperties
        <3>. QED
            BY <1>1, <3>1, <3>3, <3>4 DEF IInv, MutesOK
    <2>. QED
        BY <2>1, <2>2
<1>. QED
    BY <1>1, <1>2, <1>8, <1>9, IdleType DEF IInv, Unmarked

LEMMA TransferredType ==
    ASSUME NEW m \in Mute, m.owner # 0 => m.after = 0, NEW old \in Cycle, NEW new \in Cycle, old.id > 0
    PROVE  LET t == Transferred(m, old, new) IN
           /\ t \in Mute /\ (t.owner # 0 => t.after = 0)
           /\ m.owner # 0 => t = m
<1>1. new.id \in Nat /\ old.id \in Nat /\ m.owner \in Nat /\ m.after \in Nat
    BY DEF Cycle, Mute
<1>2. CASE m.after # old.id
    BY <1>2 DEF Transferred
<1>3. CASE m.after = old.id
    <2>1. m.owner = 0
        BY <1>1, <1>3
    <2>2. Transferred(m, old, new) \in {[m EXCEPT !.owner = new.id, !.after = 0],
                                       [m EXCEPT !.after = new.id]}
        BY <1>3 DEF Transferred
    <2>. QED
        BY <1>1, <2>1, <2>2 DEF Mute
<1>. QED
    BY <1>2, <1>3

LEMMA SubsetCount ==
    ASSUME mutes \in Seq(Mute), NEW T \in SUBSET DOMAIN mutes
    PROVE  Cardinality(T) \in Nat
<1>1. Len(mutes) \in Nat /\ DOMAIN mutes = 1..Len(mutes)
    BY LenProperties
<1>2. IsFiniteSet(1..Len(mutes)) /\ T \in SUBSET (1..Len(mutes))
    BY <1>1, FS_Interval
<1>. QED
    BY <1>2, FS_Subset, FS_CardinalityType

LEMMA RenewStopStep == IInv /\ RenewStop => IInv'
<1>. SUFFICES ASSUME IInv, RenewStop PROVE IInv'
    OBVIOUS
<1> DEFINE old == scope.cycle
           next == Renewed(scope)
           Waited(sev) == Cardinality({i \in DOMAIN mutes :
                              /\ mutes[i].after = old.id /\ mutes[i].sev = sev
                              /\ mutes[i].at <= next.cycle.due})
           c == [next.cycle EXCEPT !.light = Waited("light"), !.severe = Waited("severe")]
           n == Len(mutes)
<1>1. /\ scope \in Scope /\ n \in Nat /\ mutes \in Seq(Mute) /\ DOMAIN mutes = 1..n
      /\ Books(scope, n) /\ old \in Cycle /\ now \in Nat /\ MutesOK
    BY LenProperties DEF IInv, Sound, Scope
<1>2. /\ scope.status \in {"ok", "consulted"} /\ op = Idle /\ op' = Idle /\ now' = now
      /\ old.type = "stop"
    BY DEF RenewStop, Decides, StopIsOver
<1>3. old.id > 0 /\ old.due \in Nat /\ old.seq + 1 \in Nat
    BY <1>1, <1>2 DEF IInv, Sound, Cycle
<1>4. Sound(next) /\ Books(next, n) /\ Fits(next)
    BY <1>1, <1>2, <1>3, ReopenKeeps DEF Renewed, CycleTypes
<1>5. next.cycle \in Cycle /\ next \in Scope
    BY <1>4 DEF Sound, Scope
<1>6. /\ scope' = [next EXCEPT !.cycle.light = Waited("light"), !.cycle.severe = Waited("severe")]
      /\ mutes' = [i \in DOMAIN mutes |-> Transferred(mutes[i], old, next.cycle)]
    BY DEF RenewStop
<1>. HIDE DEF next
<1>7. Waited("light") \in Nat /\ Waited("severe") \in Nat
    BY <1>1, SubsetCount
<1>8. c \in Cycle /\ c.id = next.cycle.id /\ c.type = next.cycle.type /\ c.status = next.cycle.status
    <2>. HIDE DEF Waited
    <2>. QED
        BY <1>5, <1>7 DEF Cycle
<1>9. scope' = [next EXCEPT !.cycle = c]
    <2>. HIDE DEF Waited
    <2>. QED
        BY <1>5, <1>6 DEF Scope, Cycle
<1>10. Keeps(next, scope')
    <2>1. Keeps(next, next)
        BY <1>4 DEF Keeps
    <2>. HIDE DEF c
    <2>. QED
        BY <1>8, <1>9, <2>1, CycleKeeps
<1>11. Sound(scope') /\ Books(scope', n) /\ Fits(scope')
    BY <1>4, <1>10 DEF Keeps
<1>12. \A i \in 1..n : /\ mutes[i] \in Mute /\ (mutes[i].owner # 0 => mutes[i].after = 0)
    BY <1>1, ElementOfSeq DEF MutesOK
<1>13. \A i \in 1..n : /\ mutes'[i] \in Mute /\ (mutes'[i].owner # 0 => mutes'[i].after = 0)
    BY <1>1, <1>3, <1>5, <1>6, <1>12, TransferredType
<1>14. mutes' \in Seq(Mute) /\ Len(mutes') = n /\ MutesOK'
    <2>1. mutes' \in [1..n -> Mute]
        BY <1>1, <1>6, <1>13
    <2>2. mutes' \in Seq(Mute) /\ Len(mutes') = n /\ DOMAIN mutes' = 1..n
        BY <1>1, <2>1, SeqDef, LenProperties
    <2>. QED
        BY <1>13, <2>2 DEF MutesOK
<1>. QED
    BY <1>1, <1>2, <1>11, <1>14, IdleType DEF IInv, Unmarked

-----------------------------------------------------------------------------
(* The theorems.                                                                *)

LEMMA NextStep == IInv /\ [Next]_vars => IInv'
<1>1. CASE UNCHANGED vars
    BY <1>1 DEF vars, IInv, MutesOK, Unmarked
<1>2. CASE Next
    BY <1>2, TickStep, SettleStep, MaintenanceStep, BeginStatusStep, BeginMuteStep,
       ApplyUnknownStep, ApplyMuteStep, ApplyStatusStep, StartStopStep, ClearStopStep,
       RenewStopStep, RejectSuggestionStep
       DEF Next, Input, Apply, Command
<1>. QED
    BY <1>1, <1>2

\* The invariant holds in every state.
THEOREM Inductive == Spec => []IInv
<1>1. IInv /\ [Next]_vars => IInv'
    BY NextStep
<1>. QED
    BY <1>1, InitInv, PTL DEF Spec

\* The variables keep their types: the projection row, its cycle and the records
\* (v102_policy_state, v102_policy_cycles, the mute events).
THEOREM Typing == Spec => []TypeOK
<1>1. IInv => TypeOK
    BY DEF IInv, Sound, TypeOK
<1>. QED
    BY <1>1, Inductive, PTL

\* The status decides which cycle a member can be in, and no cycle that would
\* reduce is open once the operations are used up, whatever _start_cycle() is
\* asked for and in whatever order commands, statuses and mutes come.
THEOREM Allowed == Spec => []CycleAllowed
<1>1. IInv => CycleAllowed
    BY DEF IInv, Sound, Fits, CycleAllowed
<1>. QED
    BY <1>1, Inductive, PTL

\* The tag of the projection is the one of its cycle.
THEOREM Tagged == Spec => []TagMatchesCycle
<1>1. IInv => TagMatchesCycle
    BY DEF IInv, Sound, Fits, TagMatchesCycle, CycleTypes, Scope, Cycle
<1>. QED
    BY <1>1, Inductive, PTL

\* A cycle in pending_decision waits for an action that is open.
THEOREM Decidable == Spec => []DecisionIsAsked
<1>1. IInv => DecisionIsAsked
    BY DEF IInv, Sound, DecisionIsAsked
<1>. QED
    BY <1>1, Inductive, PTL

\* What _apply_reduction() takes from a count stays within the records and the
\* operations that are allowed.
THEOREM Accounted == Spec => []DeductionsAccounted
<1>1. IInv => DeductionsAccounted
    BY DEF IInv, Books, DeductionsAccounted
<1>. QED
    BY <1>1, Inductive, PTL

\* What the policy guarantees of a member in every state, for every length of the
\* cycles, every limit of the operations and every course of inputs and commands.
THEOREM Holds == Spec => []PolicyIsSound
<1>. QED
    BY Typing, Allowed, Tagged, Decidable, Accounted, PTL DEF PolicyIsSound

OwnersKept ==
    \A i \in DOMAIN mutes : mutes[i].owner # 0 =>
        mutes'[i].owner = mutes[i].owner /\ mutes'[i].after = 0

LEMMA OwnersStep == IInv /\ [Next]_vars => OwnersKept
<1>. SUFFICES ASSUME IInv, [Next]_vars PROVE OwnersKept
    OBVIOUS
<1>1. /\ Len(mutes) \in Nat /\ mutes \in Seq(Mute) /\ DOMAIN mutes = 1..Len(mutes)
      /\ MutesOK /\ now \in Nat
    BY LenProperties DEF IInv
<1>2. CASE mutes' = mutes
    BY <1>1, <1>2 DEF MutesOK, OwnersKept
<1>3. CASE \E sev \in Severities : BeginMute(sev)
    <2>1. PICK sev \in Severities : BeginMute(sev)
        BY <1>3
    <2> DEFINE m == [at |-> now, sev |-> sev, owner |-> 0, after |-> 0]
    <2>2. mutes' = Append(mutes, m) /\ m \in Mute
        BY <1>1, <2>1, InputsAssumption DEF BeginMute, Mute
    <2>. HIDE DEF m
    <2>3. \A i \in 1..Len(mutes) : mutes'[i] = mutes[i]
        BY <1>1, <2>2, AppendProperties
    <2>. QED
        BY <1>1, <2>3 DEF MutesOK, OwnersKept
<1>4. CASE ApplyMute
    <2>1. mutes[Len(mutes)].owner = 0
        BY <1>4 DEF IInv, Unmarked, ApplyMute, ReadyFor
    <2>2. \A i \in DOMAIN mutes : i # Len(mutes) => mutes'[i] = mutes[i]
        BY <1>4 DEF ApplyMute
    <2>. QED
        BY <1>1, <2>1, <2>2 DEF MutesOK, OwnersKept
<1>5. CASE RenewStop
    <2> DEFINE next == Renewed(scope)
    <2>1. /\ scope.cycle \in Cycle /\ scope.cycle.id > 0 /\ scope.cycle.due \in Nat
          /\ scope.cycle.seq + 1 \in Nat /\ scope \in Scope /\ Books(scope, Len(mutes))
          /\ scope.status \in {"ok", "consulted"}
        <3>1. /\ Sound(scope) /\ Books(scope, Len(mutes))
              /\ scope.cycle.type = "stop" /\ scope.status \in {"ok", "consulted"}
            BY <1>5 DEF IInv, RenewStop, StopIsOver, Decides
        <3>2. scope \in Scope /\ scope.cycle.id > 0
            BY <3>1 DEF Sound
        <3>3. scope.cycle \in Cycle
            BY <3>2 DEF Scope
        <3>4. scope.cycle.due \in Nat /\ scope.cycle.seq \in Nat
            BY <3>3 DEF Cycle
        <3>. QED
            BY <3>1, <3>2, <3>3, <3>4
    <2>2. Sound(next)
        BY <1>1, <2>1, ReopenKeeps DEF Renewed, CycleTypes
    <2>3. next.cycle \in Cycle
        BY <2>2 DEF Sound, Scope
    <2>4. \A i \in DOMAIN mutes : mutes'[i] = Transferred(mutes[i], scope.cycle, next.cycle)
        BY <1>5 DEF RenewStop
    <2>. HIDE DEF next
    <2>5. \A i \in 1..Len(mutes) : mutes[i] \in Mute
        BY <1>1, ElementOfSeq
    <2>6. \A i \in DOMAIN mutes : mutes[i].owner # 0 => mutes'[i] = mutes[i]
        BY <1>1, <2>1, <2>3, <2>4, <2>5, TransferredType DEF MutesOK
    <2>. QED
        BY <1>1, <2>6 DEF MutesOK, OwnersKept
<1>. QED
    BY <1>2, <1>3, <1>4, <1>5
       DEF Next, vars, Tick, Input, BeginStatus, BeginMaintenance, Settle, Apply, ApplyUnknown,
           ApplyStatus, EndMaintenance, Command, StartStop, ClearStop, RejectSuggestion

\* The stop a mute is judged in is decided once, by the event that names it or by
\* the one transfer of _transfer_waiting_stop_evaluations() that reaches it.
THEOREM Final == Spec => OwnerIsFinal
<1>1. IInv /\ [Next]_vars => OwnersKept
    BY OwnersStep
<1>2. Spec => [][OwnersKept]_vars
    BY <1>1, Inductive, PTL DEF Spec
<1>. QED
    BY <1>2 DEF OwnersKept, OwnerIsFinal

-----------------------------------------------------------------------------
(* Every mute of a stop is judged.  The rules below speak of a projection s,    *)
(* the records ms and an instant t.                                             *)

InStop(c) == c.type \in {"stop", "final_warning"}

\* A stop has its number, its end and its place in a series; it waits for a
\* decision only when it is over.
Placed(s, t) ==
    /\ InStop(s.cycle) => 0 < s.cycle.id /\ s.cycle.id <= s.lastCycle
    /\ s.cycle.type = "stop" => s.cycle.due = s.cycle.start + StopLen /\ s.cycle.seq > 0
    /\ s.cycle.type = "stop" /\ s.cycle.status = "pending_decision" => s.cycle.due <= t

\* No record is from the future, of its time or of the cycles that exist.
Marks(s, ms, t) ==
    \A i \in DOMAIN ms :
        ms[i].at <= t /\ ms[i].owner <= s.lastCycle /\ ms[i].after <= s.lastCycle

OwnedIn(ms, id, sev) == {i \in DOMAIN ms : ms[i].owner = id /\ ms[i].sev = sev}
Tallied(s, ms) ==
    InStop(s.cycle) =>
        /\ s.cycle.light = Cardinality(OwnedIn(ms, s.cycle.id, "light"))
        /\ s.cycle.severe = Cardinality(OwnedIn(ms, s.cycle.id, "severe"))

Waits(s, ms) ==
    \A i \in DOMAIN ms :
        s.cycle.type = "stop" /\ ms[i].after = s.cycle.id => ms[i].at >= s.cycle.due

SeriesStart(c) == c.start - (c.seq - 1) * StopLen
\* Every record since the series of stops started has its stop, apart from k.
Recalled(s, ms, k) ==
    s.cycle.type = "stop" =>
        \A i \in DOMAIN ms :
            /\ i # k
            /\ ms[i].at > SeriesStart(s.cycle)
            /\ ms[i].sev # "unknown"
            => ms[i].owner # 0 \/ ms[i].after = s.cycle.id

Judging(s, ms, t) == Placed(s, t) /\ Marks(s, ms, t) /\ Tallied(s, ms) /\ Waits(s, ms)

\* The record of the mute under way, which is judged when it is applied.
UnderWay == IF op.kind = "mute" THEN Len(mutes) ELSE 0

JInv ==
    /\ Judging(scope, mutes, now)
    /\ Recalled(scope, mutes, UnderWay)
    /\ op.kind = "mute" => mutes[Len(mutes)].at = now

\* What a step that leaves the records alone may do to the cycle: stop no more,
\* start one that is new, or leave the present one in its place.
Starts(s, q, t) ==
    /\ q.lastCycle = s.lastCycle + 1 /\ q.cycle.id = q.lastCycle
    /\ q.cycle.light = 0 /\ q.cycle.severe = 0 /\ q.cycle.status = "active"
    /\ q.cycle.type = "stop" =>
        /\ s.cycle.type # "stop"
        /\ q.cycle.start = t /\ q.cycle.due = t + StopLen /\ q.cycle.seq = 1
Stays(s, q, t) ==
    /\ q.cycle.id = s.cycle.id /\ q.cycle.type = s.cycle.type
    /\ q.cycle.start = s.cycle.start /\ q.cycle.due = s.cycle.due /\ q.cycle.seq = s.cycle.seq
    /\ q.cycle.light = s.cycle.light /\ q.cycle.severe = s.cycle.severe
    /\ q.cycle.status = s.cycle.status \/ q.cycle.due <= t
Moves(s, q, t) ==
    /\ s.lastCycle <= q.lastCycle
    /\ ~ InStop(q.cycle) \/ Starts(s, q, t) \/ Stays(s, q, t)

LEMMA RecordFields ==
    ASSUME NEW ms \in Seq(Mute)
    PROVE  \A i \in DOMAIN ms : ms[i].at \in Nat /\ ms[i].owner \in Nat /\ ms[i].after \in Nat
<1>1. DOMAIN ms = 1..Len(ms) /\ \A i \in 1..Len(ms) : ms[i] \in Mute
    BY ElementOfSeq, LenProperties
<1>. QED
    BY <1>1 DEF Mute

LEMMA MarksKept ==
    ASSUME NEW ms \in Seq(Mute), NEW s \in Scope, NEW q \in Scope, NEW t \in Nat, NEW u \in Nat,
           Marks(s, ms, t), t <= u, s.lastCycle <= q.lastCycle
    PROVE  Marks(q, ms, u)
<1>1. s.lastCycle \in Nat /\ q.lastCycle \in Nat
    BY DEF Scope
<1>2. \A i \in DOMAIN ms : ms[i].at \in Nat /\ ms[i].owner \in Nat /\ ms[i].after \in Nat
    BY RecordFields
<1>3. ASSUME NEW i \in DOMAIN ms
      PROVE  ms[i].at <= u /\ ms[i].owner <= q.lastCycle /\ ms[i].after <= q.lastCycle
    <2>1. ms[i].at <= t /\ ms[i].owner <= s.lastCycle /\ ms[i].after <= s.lastCycle
        BY <1>3 DEF Marks
    <2>2. PICK a \in Nat, o \in Nat, w \in Nat : a = ms[i].at /\ o = ms[i].owner /\ w = ms[i].after
        BY <1>2, <1>3
    <2>3. a <= t /\ o <= s.lastCycle /\ w <= s.lastCycle
        BY ONLY <2>1, <2>2
    <2>4. a <= u /\ o <= q.lastCycle /\ w <= q.lastCycle
        BY <1>1, <2>3
    <2>. QED
        BY ONLY <2>2, <2>4
<1>. QED
    BY <1>3 DEF Marks

\* No record names a cycle that was not there.
LEMMA NoneOwned ==
    ASSUME NEW ms \in Seq(Mute), NEW s \in Scope, NEW t, Marks(s, ms, t), NEW sev
    PROVE  OwnedIn(ms, s.lastCycle + 1, sev) = {}
<1>1. s.lastCycle \in Nat
    BY DEF Scope
<1>2. \A i \in DOMAIN ms : ms[i].owner # s.lastCycle + 1
    <2>1. \A i \in DOMAIN ms : ms[i].owner \in Nat /\ ms[i].owner <= s.lastCycle
        BY RecordFields DEF Marks
    <2>. QED
        BY <1>1, <2>1
<1>. QED
    BY <1>2 DEF OwnedIn

LEMMA MovesJudging ==
    ASSUME NEW ms \in Seq(Mute), NEW s \in Scope, NEW q \in Scope, NEW t \in Nat, NEW u \in Nat,
           Judging(s, ms, t), t <= u, Moves(s, q, u), NEW k, Recalled(s, ms, k)
    PROVE  Judging(q, ms, u) /\ Recalled(q, ms, k)
<1>1. Marks(q, ms, u)
    BY MarksKept DEF Judging, Moves
<1>2. \A i \in DOMAIN ms : ms[i].at \in Nat /\ ms[i].owner \in Nat /\ ms[i].after \in Nat
    BY RecordFields
<1>3. /\ s.lastCycle \in Nat /\ q.lastCycle \in Nat /\ s.cycle \in Cycle /\ q.cycle \in Cycle
      /\ StopLen \in Nat
    BY LengthsAssumption DEF Scope
<1>4. CASE ~ InStop(q.cycle)
    BY <1>1, <1>4 DEF InStop, Judging, Placed, Tallied, Waits, Recalled
<1>5. CASE Starts(s, q, u)
    <2>1. Placed(q, u)
        BY <1>3, <1>5 DEF Placed, Starts
    <2>2. Tallied(q, ms)
        <3>1. /\ OwnedIn(ms, q.cycle.id, "light") = {} /\ OwnedIn(ms, q.cycle.id, "severe") = {}
            BY <1>5, NoneOwned DEF Starts, Judging
        <3>. QED
            BY <1>5, <3>1, FS_EmptySet DEF Tallied, Starts
    <2>3. Waits(q, ms)
        BY <1>2, <1>3, <1>5 DEF Waits, Judging, Marks, Starts
    <2>4. Recalled(q, ms, k)
        <3>1. q.cycle.type = "stop" => SeriesStart(q.cycle) = u
            BY <1>3, <1>5 DEF SeriesStart, Starts
        <3>. QED
            BY <1>1, <1>2, <3>1 DEF Recalled, Marks
    <2>. QED
        BY <1>1, <2>1, <2>2, <2>3, <2>4 DEF Judging
<1>6. CASE Stays(s, q, u)
    <2>1. Placed(q, u)
        <3>1. s.cycle.due \in Nat
            BY <1>3 DEF Cycle
        <3>2. s.cycle.id \in Nat
            BY <1>3 DEF Cycle
        <3>. QED
            BY <1>3, <1>6, <3>1, <3>2 DEF Placed, Stays, Judging, Moves, InStop
    <2>2. Tallied(q, ms)
        BY <1>6 DEF Tallied, Stays, Judging, InStop
    <2>3. Waits(q, ms)
        BY <1>6 DEF Waits, Stays, Judging
    <2>4. Recalled(q, ms, k)
        BY <1>6 DEF Recalled, Stays, SeriesStart
    <2>. QED
        BY <1>1, <2>1, <2>2, <2>3, <2>4 DEF Judging
<1>. QED
    BY <1>4, <1>5, <1>6 DEF Moves

\* The numbers of the cycles only grow.
LEMMA NoCycleMoves ==
    ASSUME NEW s \in Scope, NEW reason, NEW t
    PROVE  Moves(s, SetNoCycle(s, reason), t) /\ Moves(s, SetTerminal(s), t)
<1>1. s.lastCycle \in Nat
    BY DEF Scope
<1>2. /\ SetNoCycle(s, reason).cycle = NoCycle /\ SetNoCycle(s, reason).lastCycle = s.lastCycle
      /\ SetTerminal(s).cycle = NoCycle /\ SetTerminal(s).lastCycle = s.lastCycle
    BY DEF SetNoCycle, SetTerminal, Scope
<1>. QED
    BY <1>1, <1>2, NoCycleType DEF Moves, InStop

LEMMA NewCycleMoves ==
    ASSUME NEW s \in Scope, NEW type \in CycleTypes, NEW at \in Nat, NEW seq \in Nat
    PROVE  LET q == NewCycle(s, type, at, seq) IN
           /\ s.lastCycle <= q.lastCycle
           /\ q.lastCycle = s.lastCycle + 1 /\ q.cycle.id = q.lastCycle /\ q.cycle.type = type
           /\ q.cycle.light = 0 /\ q.cycle.severe = 0 /\ q.cycle.status = "active"
           /\ q.cycle.start = at /\ q.cycle.seq = seq
           /\ type = "stop" => q.cycle.due = at + StopLen
<1>1. s.lastCycle \in Nat
    BY DEF Scope
<1>2. NewCycle(s, type, at, seq).lastCycle = s.lastCycle + 1
    BY DEF NewCycle, Scope
<1>3. PICK due : /\ due = at + Length(type, IF type = "slow" THEN s.slowLevel + 1 ELSE s.slowLevel)
                 /\ type = "stop" => due = at + StopLen
    BY DEF Length
<1>4. NewCycle(s, type, at, seq).cycle =
        [NoCycle EXCEPT !.id = s.lastCycle + 1, !.type = type, !.status = "active",
                        !.start = at, !.due = due, !.seq = seq]
    BY <1>3 DEF NewCycle, Scope
<1>. QED
    BY <1>1, <1>2, <1>3, <1>4 DEF NoCycle

LEMMA StartCycleMoves ==
    ASSUME NEW s \in Scope, NEW type \in CycleTypes, NEW at \in Nat, NEW seq \in Nat, NEW t \in Nat,
           type = "stop" => s.cycle.type # "stop" /\ at = t /\ seq = 1
    PROVE  Moves(s, StartCycle(s, type, at, seq), t)
<1>1. Moves(s, NewCycle(s, type, at, seq), t)
    BY NewCycleMoves DEF Moves, Starts
<1>. QED
    BY <1>1, NoCycleMoves DEF StartCycle

LEMMA NextNormalMoves ==
    ASSUME NEW s \in Scope, NEW at \in Nat, NEW t \in Nat
    PROVE  Moves(s, NextNormal(s, at), t)
<1>1. Moves(s, StartCycle(s, "normal", at, 0), t)
    BY StartCycleMoves DEF CycleTypes
<1>. QED
    BY <1>1, NoCycleMoves DEF NextNormal

\* A step from a projection whose cycle was closed, or that differs in the books
\* and the questions only.
LEMMA MovesClosed ==
    ASSUME NEW s, NEW base, NEW q, NEW t, Moves(base, q, t),
           base.lastCycle = s.lastCycle, base.cycle.type = "none",
           s.cycle.type # "stop" \/ q.cycle.type # "stop"
    PROVE  Moves(s, q, t)
    BY DEF Moves, Starts, Stays, InStop

LEMMA MovesSame ==
    ASSUME NEW s, NEW base, NEW q, NEW t, Moves(base, q, t),
           base.lastCycle = s.lastCycle, base.cycle = s.cycle
    PROVE  Moves(s, q, t)
    BY DEF Moves, Starts, Stays

LEMMA SameMoves ==
    ASSUME NEW s \in Scope, NEW q, NEW t, q.lastCycle = s.lastCycle, q.cycle = s.cycle
    PROVE  Moves(s, q, t)
<1>1. s.lastCycle \in Nat
    BY DEF Scope
<1>. QED
    BY <1>1 DEF Moves, Stays

LEMMA AskMoves ==
    ASSUME NEW s \in Scope, NEW q \in Scope, NEW t, NEW action, Moves(s, q, t)
    PROVE  Moves(s, Ask(q, action), t)
<1>1. Ask(q, action).lastCycle = q.lastCycle /\ Ask(q, action).cycle = q.cycle
    BY DEF Ask, Scope
<1>. QED
    BY <1>1 DEF Moves, Starts, Stays

\* Closing, resolving and untagging leave the number of the last cycle.
LEMMA LastKept ==
    ASSUME NEW s \in Scope, NEW actions
    PROVE  /\ CloseCycle(s).lastCycle = s.lastCycle /\ CloseCycle(s).cycle = NoCycle
           /\ Resolve(s, actions).lastCycle = s.lastCycle
           /\ [s EXCEPT !.tag = "none"].lastCycle = s.lastCycle
           /\ [s EXCEPT !.tag = "none"].cycle = s.cycle
    BY DEF CloseCycle, Resolve, Scope

LEMMA ResolvedKeeps ==
    ASSUME NEW s \in Scope, NEW actions
    PROVE  LET q == Resolve(CloseCycle(s), actions) IN
           q \in Scope /\ q.lastCycle = s.lastCycle /\ q.cycle.type = "none"
<1>1. PICK closed \in Scope : /\ closed = CloseCycle(s) /\ closed.lastCycle = s.lastCycle
                              /\ closed.cycle.type = "none"
    BY CloseCycleType, LastKept, NoCycleType
<1>2. /\ Resolve(closed, actions) \in Scope /\ Resolve(closed, actions).cycle = closed.cycle
      /\ Resolve(closed, actions).lastCycle = closed.lastCycle
    BY ResolveType, LastKept
<1>. QED
    BY <1>1, <1>2

LEMMA UntaggedKeeps ==
    ASSUME NEW s \in Scope, s.cycle.type = "none"
    PROVE  LET q == [s EXCEPT !.tag = "none"] IN
           q \in Scope /\ q.lastCycle = s.lastCycle /\ q.cycle.type = "none"
    BY UntaggedType, LastKept

LEMMA ClosedKeeps ==
    ASSUME NEW s \in Scope
    PROVE  LET q == [CloseCycle(s) EXCEPT !.tag = "none"] IN
           q \in Scope /\ q.lastCycle = s.lastCycle /\ q.cycle.type = "none"
<1>1. PICK closed \in Scope : /\ closed = CloseCycle(s) /\ closed.lastCycle = s.lastCycle
                              /\ closed.cycle.type = "none"
    BY CloseCycleType, LastKept, NoCycleType
<1>. QED
    BY <1>1, UntaggedKeeps

LEMMA ReduceLast ==
    ASSUME NEW s \in Scope, NEW amount
    PROVE  Reduce(s, amount).lastCycle = s.lastCycle
    BY DEF Reduce, Scope

LEMMA ConsultedType ==
    ASSUME NEW s \in Scope
    PROVE  LET q == [s EXCEPT !.status = "consulted"] IN
           q \in Scope /\ q.lastCycle = s.lastCycle /\ SameBooks(s, q)
    BY DEF Scope, AllStatus, SameBooks

LEMMA CloseRejectedMoves ==
    ASSUME NEW s \in Scope, s.cycle.type \in Settling, NEW t \in Nat
    PROVE  Moves(s, CloseRejected(s), t)
<1>1. s.cycle \in Cycle /\ s.cycle.due \in Nat /\ s.lastCycle \in Nat
    BY DEF Scope, Cycle
<1>2. CASE s.cycle.type = "normal"
    <2>1. PICK base \in Scope : /\ base = [CloseCycle(s) EXCEPT !.tag = "none"]
                                /\ base.lastCycle = s.lastCycle /\ base.cycle.type = "none"
        BY ClosedKeeps
    <2>2. Moves(base, StartCycle(base, "normal", s.cycle.due, 0), t)
        BY <1>1, StartCycleMoves DEF CycleTypes
    <2>. QED
        BY <1>2, <2>1, <2>2, MovesClosed DEF CloseRejected
<1>3. CASE s.cycle.type # "normal"
    <2>1. CloseRejected(s).cycle = Extended(s.cycle) /\ CloseRejected(s).lastCycle = s.lastCycle
        BY <1>3 DEF CloseRejected, Scope
    <2>2. Extended(s.cycle).type = s.cycle.type
        BY <1>1 DEF Extended, Cycle
    <2>. QED
        BY <1>1, <2>1, <2>2 DEF Moves, InStop, Settling
<1>. QED
    BY <1>2, <1>3

\* One turn of the settlement, of a cycle that is due.
LEMMA SettleTurnMoves ==
    ASSUME mutes \in Seq(Mute), NEW s, Keeps(s, s), s.cycle.type # "none",
           NEW t \in Nat, s.cycle.due <= t
    PROVE  Moves(s, SettleTurn(s), t)
<1>1. /\ s \in Scope /\ s.cycle \in Cycle /\ s.cycle.due \in Nat /\ Books(s, Len(mutes))
      /\ s.lastCycle \in Nat /\ Len(mutes) \in Nat
    BY ActiveCycle, LenProperties DEF Keeps, Scope
<1>2. ASSUME NEW q \in Scope, q.lastCycle = s.lastCycle, q.cycle = s.cycle
      PROVE  Moves(s, Await(q), t)
    <2>1. Await(q).cycle = [s.cycle EXCEPT !.status = "pending_decision"]
          /\ Await(q).lastCycle = s.lastCycle
        BY <1>2 DEF Await, Scope
    <2>. QED
        BY <1>1, <2>1 DEF Moves, Stays, Cycle
<1>3. Moves(s, Await(s), t)
    BY <1>1, <1>2
<1>4. ASSUME NEW action \in Actions PROVE Moves(s, Await(Ask(s, action)), t)
    <2>1. Ask(s, action) \in Scope /\ Ask(s, action).cycle = s.cycle
          /\ Ask(s, action).lastCycle = s.lastCycle
        BY <1>1 DEF Ask, Scope
    <2>. QED
        BY <1>2, <2>1
\* A reduction and the normal cycle after it, of s itself or under a new status.
<1>5. ASSUME s.cycle.type # "stop",
             NEW p \in Scope, p.lastCycle = s.lastCycle, Books(p, Len(mutes)), NEW amount \in {1, 2}
      PROVE  LET next == NextNormal([CloseCycle(Reduce(p, amount)) EXCEPT !.tag = "none"], s.cycle.due)
             IN next \in Scope /\ Moves(s, next, t)
    <2>1. PICK r \in Scope : r = Reduce(p, amount) /\ r.lastCycle = s.lastCycle
        BY <1>1, <1>5, ReduceBooks, ReduceLast
    <2>2. PICK base \in Scope : /\ base = [CloseCycle(r) EXCEPT !.tag = "none"]
                                /\ base.lastCycle = s.lastCycle /\ base.cycle.type = "none"
        BY <2>1, ClosedKeeps
    <2>3. Moves(base, NextNormal(base, s.cycle.due), t)
        BY <1>1, NextNormalMoves
    <2>4. Moves(s, NextNormal(base, s.cycle.due), t)
        BY <1>5, <2>2, <2>3, MovesClosed
    <2>5. NextNormal(base, s.cycle.due) \in Scope
        BY <1>1, NextNormalOpens DEF Opens, Sound
    <2>. QED
        BY <2>1, <2>2, <2>4, <2>5
<1>6. PICK synced \in Scope : /\ synced = SyncedAt(s, s.cycle.due)
                              /\ synced.lastCycle = s.lastCycle /\ Books(synced, Len(mutes))
    BY <1>1, SyncedBooks DEF Recounted
<1>7. CASE s.cycle.type = "stop"
    BY <1>4, <1>7 DEF SettleTurn, SettleStop, Actions, Settling
<1>8. CASE s.cycle.type = "final_warning"
    <2>1. PICK p \in Scope : /\ p = [synced EXCEPT !.status = "consulted"]
                             /\ p.lastCycle = s.lastCycle /\ Books(p, Len(mutes))
        BY <1>1, <1>6, ConsultedType, SameBooksKept
    <2>2. PICK next \in Scope :
            /\ next = NextNormal([CloseCycle(Reduce(p, 2)) EXCEPT !.tag = "none"], s.cycle.due)
            /\ Moves(s, next, t)
        BY <1>5, <1>8, <2>1
    <2>3. Moves(s, Ask(next, "final_warning_recovery_review"), t)
        BY <1>1, <2>2, AskMoves
    <2>4. SettleTurn(s) \in {Await(s), next, Ask(next, "final_warning_recovery_review")}
        BY <1>6, <1>8, <2>1, <2>2 DEF SettleTurn, SettleFinal, Settling
    <2>. QED
        BY <1>3, <2>2, <2>3, <2>4
<1>9. CASE s.cycle.type \in Settling
    <2>1. Moves(s, SettleGood(s), t)
        BY <1>5, <1>6, <1>9 DEF SettleGood, Settling
    <2>2. Moves(s, CloseRejected(s), t)
        BY <1>1, <1>9, CloseRejectedMoves
    <2>3. SettleTurn(s) \in {Await(s), CloseRejected(s), Await(Ask(s, "stop_suggestion")),
                             SettleGood(s)}
        BY <1>9 DEF SettleTurn, SettleCycle, Settling
    <2>. QED
        BY <1>3, <1>4, <2>1, <2>2, <2>3 DEF Actions
<1>. QED
    BY <1>1, <1>7, <1>8, <1>9, ActiveCycle DEF Keeps, CycleTypes, Settling

\* A cycle other than a stop that follows one which was closed.
LEMMA RestartMoves ==
    ASSUME NEW s, NEW base \in Scope, base.lastCycle = s.lastCycle, base.cycle.type = "none",
           NEW type \in CycleTypes, type # "stop", NEW at \in Nat, NEW seq \in Nat, NEW t \in Nat
    PROVE  Moves(s, StartCycle(base, type, at, seq), t)
<1>1. Moves(base, StartCycle(base, type, at, seq), t)
    BY StartCycleMoves
<1>2. StartCycle(base, type, at, seq).cycle.type # "stop"
    BY StartCycleOpens DEF Opens
<1>. QED
    BY <1>1, <1>2, MovesClosed

-----------------------------------------------------------------------------
(* JInv is inductive, given IInv before and after the step.                     *)

\* Renewing moves no endpoint, and nothing else restarts a series.
SeriesKept ==
    scope.cycle.type = "stop" /\ scope'.cycle.type = "stop" =>
        SeriesStart(scope'.cycle) = SeriesStart(scope.cycle)

LEMMA MovesSeries ==
    ASSUME NEW s, NEW q, NEW t, Moves(s, q, t), s.cycle.type = "stop", q.cycle.type = "stop"
    PROVE  SeriesStart(q.cycle) = SeriesStart(s.cycle)
    BY DEF Moves, Starts, Stays, InStop, SeriesStart

LEMMA MoveStep ==
    ASSUME IInv, IInv', JInv, mutes' = mutes, now <= now', Moves(scope, scope', now'),
           op'.kind = "mute" => op.kind = "mute" /\ now' = now,
           op.kind = "mute" /\ op'.kind # "mute" => mutes[Len(mutes)].sev = "unknown"
    PROVE  JInv' /\ SeriesKept
<1>1. /\ mutes \in Seq(Mute) /\ scope \in Scope /\ scope' \in Scope /\ now \in Nat /\ now' \in Nat
      /\ Len(mutes) \in Nat /\ DOMAIN mutes = 1..Len(mutes)
    BY LenProperties DEF IInv, Sound
<1>2. PICK k : k = UnderWay
    OBVIOUS
<1>3. Judging(scope, mutes, now) /\ Recalled(scope, mutes, k)
    BY <1>2 DEF JInv
<1>4. Judging(scope', mutes, now') /\ Recalled(scope', mutes, k)
    BY ONLY <1>1, <1>3, now <= now', Moves(scope, scope', now'), MovesJudging
<1>5. Recalled(scope', mutes, UnderWay')
    <2>1. UnderWay' = k \/ (UnderWay' = 0 /\ k = Len(mutes) /\ mutes[k].sev = "unknown")
        BY <1>2 DEF UnderWay
    <2>. QED
        BY <1>1, <1>4, <2>1 DEF Recalled
<1>6. op'.kind = "mute" => mutes'[Len(mutes')].at = now'
    BY DEF JInv
<1>7. SeriesKept
    BY MovesSeries DEF SeriesKept
<1>. QED
    BY <1>4, <1>5, <1>6, <1>7 DEF JInv

LEMMA QuietJudged ==
    ASSUME IInv, IInv', JInv,
           Tick \/ BeginMaintenance \/ EndMaintenance \/ ApplyUnknown
           \/ (\E to \in Targets : BeginStatus(to))
    PROVE  JInv' /\ SeriesKept
<1>1. scope'.cycle = scope.cycle /\ scope'.lastCycle = scope.lastCycle
    <2>1. scope \in Scope
        BY DEF IInv, Sound
    <2>2. \A action : /\ Ask(Synced(scope), action).cycle = scope.cycle
                      /\ Ask(Synced(scope), action).lastCycle = scope.lastCycle
        BY <2>1 DEF Ask, Synced, Scope
    <2>3. \A to : LET q == [Synced(scope) EXCEPT !.status = to] IN
                  q.cycle = scope.cycle /\ q.lastCycle = scope.lastCycle
        BY <2>1 DEF Synced, Scope
    <2>. QED
        BY <2>2, <2>3 DEF Tick, BeginMaintenance, EndMaintenance, ApplyUnknown, BeginStatus
<1>2. mutes' = mutes /\ now <= now'
    BY DEF IInv, Tick, BeginMaintenance, EndMaintenance, ApplyUnknown, BeginStatus
<1>3. /\ op'.kind # "mute"
      /\ op.kind = "mute" => mutes[Len(mutes)].sev = "unknown"
    BY DEF Tick, BeginMaintenance, EndMaintenance, ApplyUnknown, BeginStatus, ReadyFor, Idle
<1>4. Moves(scope, scope', now')
    BY <1>1, SameMoves DEF IInv, Sound
<1>. QED
    BY <1>2, <1>3, <1>4, MoveStep

LEMMA SettleJudged ==
    ASSUME IInv, IInv', JInv, Settle
    PROVE  JInv' /\ SeriesKept
<1>1. Keeps(scope, scope) /\ mutes \in Seq(Mute) /\ now \in Nat
    BY DEF IInv, Keeps
<1>2. scope.cycle.type # "none"
    BY DEF IInv, Sound, Settle, Overdue
<1>3. scope.cycle.due <= now
    <2>1. scope.cycle.due \in Nat
        BY <1>1, <1>2, ActiveCycle DEF Keeps
    <2>. QED
        BY <1>1, <2>1 DEF Settle, Overdue
<1>4. Moves(scope, SettleTurn(scope), now)
    BY <1>1, <1>2, <1>3, SettleTurnMoves
<1>5. scope' = SettleTurn(scope) /\ now' = now /\ mutes' = mutes /\ op' = op
    BY DEF Settle
<1>. QED
    BY <1>1, <1>4, <1>5, MoveStep

LEMMA CommandJudged ==
    ASSUME IInv, IInv', JInv, StartStop \/ ClearStop \/ RejectSuggestion
    PROVE  JInv' /\ SeriesKept
<1>1. /\ scope \in Scope /\ now \in Nat /\ mutes \in Seq(Mute) /\ Books(scope, Len(mutes))
      /\ Len(mutes) \in Nat /\ scope.lastCycle \in Nat
    BY LenProperties DEF IInv, Sound, Scope
<1>2. now' = now /\ mutes' = mutes /\ op'.kind = "idle" /\ op.kind = "idle"
    BY IdleType DEF StartStop, ClearStop, RejectSuggestion, Decides
<1>3. SUFFICES Moves(scope, scope', now)
    BY <1>1, <1>2, MoveStep
<1>4. CASE StartStop
    <2>1. PICK base \in Scope : /\ base = Resolve(CloseCycle(scope), {"stop_suggestion"})
                                /\ base.lastCycle = scope.lastCycle /\ base.cycle.type = "none"
        BY <1>1, ResolvedKeeps
    <2>2. scope' = StartCycle(base, "stop", now, 1) /\ scope.cycle.type # "stop"
        BY <1>4, <2>1 DEF StartStop
    <2>3. Moves(base, scope', now)
        BY <1>1, <2>1, <2>2, StartCycleMoves DEF CycleTypes
    <2>. QED
        BY <2>1, <2>2, <2>3, MovesClosed
<1>5. CASE ClearStop
    <2>1. PICK synced \in Scope : /\ synced = Synced(scope) /\ synced.lastCycle = scope.lastCycle
                                  /\ Books(synced, Len(mutes))
        BY <1>1, SyncedBooks DEF Recounted
    <2>2. PICK reduced \in Scope : reduced = Reduce(synced, 1) /\ reduced.lastCycle = scope.lastCycle
        BY <1>1, <2>1, ReduceBooks, ReduceLast
    <2>3. PICK base \in Scope : /\ base = Resolve(CloseCycle(reduced), {"stop_decision"})
                                /\ base.lastCycle = scope.lastCycle /\ base.cycle.type = "none"
        BY <2>2, ResolvedKeeps
    <2>4. PICK closed \in Scope : /\ closed = [base EXCEPT !.tag = "none"]
                                  /\ closed.lastCycle = scope.lastCycle /\ closed.cycle.type = "none"
        BY <2>3, UntaggedKeeps
    <2>5. scope' = NextNormal(closed, now)
        BY <1>5, <2>1, <2>2, <2>3, <2>4 DEF ClearStop
    <2>6. Moves(closed, scope', now) /\ scope'.cycle.type # "stop"
        BY <1>1, <2>4, <2>5, NextNormalMoves, NextNormalOpens DEF Opens
    <2>. QED
        BY <2>4, <2>6, MovesClosed
<1>6. CASE RejectSuggestion
    <2>1. PICK base \in Scope : /\ base = Resolve(scope, {"stop_suggestion"})
                                /\ base.lastCycle = scope.lastCycle /\ base.cycle = scope.cycle
        BY <1>1, ResolveType, LastKept
    <2>2. PICK q \in Scope : /\ q = [base EXCEPT !.cycle.rejected = TRUE]
                             /\ q.lastCycle = scope.lastCycle /\ q.cycle.type = scope.cycle.type
        <3>0. scope.cycle \in Cycle
            BY <1>1 DEF Scope
        <3>1. PICK c \in Cycle : c = [scope.cycle EXCEPT !.rejected = TRUE] /\ c.type = scope.cycle.type
            <4>1. LET d == [scope.cycle EXCEPT !.rejected = TRUE] IN
                  d \in Cycle /\ d.type = scope.cycle.type
                BY ONLY <3>0 DEF Cycle
            <4>. QED
                BY ONLY <4>1
        <3>2. [base EXCEPT !.cycle.rejected = TRUE] = [base EXCEPT !.cycle = c]
            BY <2>1, <3>1 DEF Scope
        <3>3. LET r == [base EXCEPT !.cycle = c] IN
              r \in Scope /\ r.lastCycle = base.lastCycle /\ r.cycle = c
            BY <3>1 DEF Scope
        <3>. QED
            BY <2>1, <3>1, <3>2, <3>3
    <2>3. scope.cycle.type \in Settling /\ scope' \in {CloseRejected(q), q}
        BY <1>6, <2>1, <2>2 DEF RejectSuggestion
    <2>4. Moves(q, CloseRejected(q), now)
        BY <1>1, <2>2, <2>3, CloseRejectedMoves
    <2>5. Moves(scope, CloseRejected(q), now)
        <3>1. q.cycle.type \notin {"stop", "final_warning"}
            BY <2>2, <2>3 DEF Settling
        <3>. QED
            BY <2>2, <2>4, <3>1 DEF Moves, Starts, Stays, InStop
    <2>6. Moves(scope, q, now)
        BY <1>1, <2>2, <2>3 DEF Moves, InStop, Settling
    <2>. QED
        BY <2>3, <2>5, <2>6
<1>. QED
    BY <1>4, <1>5, <1>6

LEMMA ApplyStatusJudged ==
    ASSUME IInv, IInv', JInv, ApplyStatus
    PROVE  JInv' /\ SeriesKept
<1> DEFINE s == [scope EXCEPT !.status = op.to, !.last = op.to]
<1>1. scope \in Scope /\ now \in Nat /\ op.to \in AllStatus
    BY DEF IInv, Sound, Op
<1>2. now' = now /\ mutes' = mutes /\ op'.kind = "idle" /\ op.kind = "status"
    BY IdleType DEF ApplyStatus, ReadyFor
<1>3. s \in Scope /\ s.cycle = scope.cycle /\ s.lastCycle = scope.lastCycle
    BY <1>1 DEF Scope
<1>4. scope' = CASE op.to = "gone" -> BecomeGone(s)
                 [] op.to = "warned" -> BecomeWarned(s)
                 [] op.to = "consulted" -> BecomeConsulted(s)
                 [] op.to = "ok" -> BecomeOk(s)
    BY DEF ApplyStatus
<1>. HIDE DEF s
<1>5. SUFFICES Moves(s, scope', now)
    BY <1>1, <1>2, <1>3, MovesSame, MoveStep
<1>6. CASE op.to = "gone"
    <2>1. PICK base \in Scope : /\ base = Resolve(s, Actions)
                                /\ base.lastCycle = s.lastCycle /\ base.cycle = s.cycle
        BY <1>3, ResolveType, LastKept
    <2>2. scope' = SetTerminal(base)
        BY <1>4, <1>6, <2>1 DEF BecomeGone
    <2>3. Moves(base, SetTerminal(base), now)
        BY NoCycleMoves
    <2>. QED
        BY <2>1, <2>2, <2>3, MovesSame
<1>7. CASE op.to = "warned"
    <2>1. PICK base \in Scope : /\ base = Resolve(CloseCycle(s), {"stop_suggestion", "stop_decision"})
                                /\ base.lastCycle = s.lastCycle /\ base.cycle.type = "none"
        BY <1>3, ResolvedKeeps
    <2>2. scope' = StartCycle(base, "final_warning", now, 0)
        BY <1>4, <1>7, <2>1 DEF BecomeWarned
    <2>. QED
        BY <1>1, <2>1, <2>2, RestartMoves DEF CycleTypes
<1>8. CASE op.to = "consulted"
    <2>1. PICK base \in Scope : /\ base = CloseCycle(s)
                                /\ base.lastCycle = s.lastCycle /\ base.cycle.type = "none"
        BY <1>3, CloseCycleType, LastKept, NoCycleType
    <2>2. scope' = StartCycle(base, "slow", now, 0)
        BY <1>4, <1>8, <2>1 DEF BecomeConsulted
    <2>. QED
        BY <1>1, <2>1, <2>2, RestartMoves DEF CycleTypes
<1>9. CASE op.to = "ok"
    <2>1. scope' = BecomeOk(s)
        BY <1>4, <1>9
    <2>2. PICK base \in Scope :
            /\ base = Resolve(CloseCycle(s), {"stop_suggestion", "stop_decision", "remove_member"})
            /\ base.lastCycle = s.lastCycle /\ base.cycle.type = "none"
        BY <1>3, ResolvedKeeps
    <2>3. PICK type \in {"normal", "slow"} :
            scope' = IF ~ Recovering(s) THEN s ELSE StartCycle(base, type, now, 0)
        BY <2>1, <2>2 DEF BecomeOk
    <2>4. Moves(s, StartCycle(base, type, now, 0), now)
        BY <1>1, <2>2, <2>3, RestartMoves DEF CycleTypes
    <2>. QED
        BY <1>3, <2>3, <2>4, SameMoves
<1>. QED
    BY ONLY <1>1, <1>6, <1>7, <1>8, <1>9 DEF AllStatus

\* A new record is under way and belongs to no cycle yet.
LEMMA BeginMuteJudged ==
    ASSUME IInv, IInv', JInv, NEW sev \in Severities, BeginMute(sev)
    PROVE  JInv' /\ SeriesKept
<1>1. /\ mutes \in Seq(Mute) /\ scope \in Scope /\ now \in Nat /\ sev \in AllSeverities
      /\ Len(mutes) \in Nat /\ DOMAIN mutes = 1..Len(mutes) /\ scope.lastCycle \in Nat
      /\ scope.cycle.id \in Nat
    <2>1. /\ mutes \in Seq(Mute) /\ scope \in Scope /\ now \in Nat /\ sev \in AllSeverities
        BY InputsAssumption DEF IInv, Sound
    <2>2. Len(mutes) \in Nat /\ DOMAIN mutes = 1..Len(mutes)
        BY ONLY <2>1, LenProperties
    <2>3. scope.lastCycle \in Nat /\ scope.cycle \in Cycle
        BY ONLY <2>1 DEF Scope
    <2>4. scope.cycle.id \in Nat
        BY ONLY <2>3 DEF Cycle
    <2>. QED
        BY ONLY <2>1, <2>2, <2>3, <2>4
<1>2. PICK m \in Mute : /\ m = [at |-> now, sev |-> sev, owner |-> 0, after |-> 0]
                        /\ m.at = now /\ m.owner = 0 /\ m.after = 0
    <2>1. [at |-> now, sev |-> sev, owner |-> 0, after |-> 0] \in Mute
        BY ONLY <1>1 DEF Mute
    <2>. QED
        BY <2>1
<1>3. mutes' = Append(mutes, m) /\ now' = now /\ op.kind = "idle" /\ op'.kind = "mute"
    BY <1>2, IdleType DEF BeginMute, Idle
<1>4. scope'.cycle = scope.cycle /\ scope'.lastCycle = scope.lastCycle
    BY <1>1 DEF BeginMute, Scope
<1>5. /\ Len(mutes') = Len(mutes) + 1 /\ mutes' \in Seq(Mute)
      /\ \A i \in 1..Len(mutes) : mutes'[i] = mutes[i]
      /\ mutes'[Len(mutes) + 1] = m
    BY <1>1, <1>3, AppendProperties
<1>6. /\ DOMAIN mutes' = 1..(Len(mutes) + 1)
      /\ \A i \in DOMAIN mutes' : i \in DOMAIN mutes \/ i = Len(mutes) + 1
    BY <1>1, <1>5, LenProperties
<1>7. Judging(scope, mutes, now) /\ Recalled(scope, mutes, 0)
    BY <1>3 DEF JInv, UnderWay
<1>8. Placed(scope', now')
    BY <1>3, <1>4, <1>7 DEF Judging, Placed
<1>9. Marks(scope', mutes', now')
    BY <1>1, <1>2, <1>3, <1>4, <1>5, <1>6, <1>7 DEF Judging, Marks
<1>10. Tallied(scope', mutes')
    <2>1. SUFFICES ASSUME InStop(scope.cycle) PROVE Tallied(scope', mutes')
        BY <1>4 DEF Tallied
    <2>2. scope.cycle.id # 0
        BY <1>1, <1>7, <2>1 DEF Judging, Placed
    <2>3. ASSUME NEW x PROVE OwnedIn(mutes', scope.cycle.id, x) = OwnedIn(mutes, scope.cycle.id, x)
        BY <1>1, <1>2, <1>5, <1>6, <2>2 DEF OwnedIn
    <2>. QED
        BY <1>4, <1>7, <2>1, <2>3 DEF Judging, Tallied
<1>11. Waits(scope', mutes')
    <2>1. scope.cycle.type = "stop" => scope.cycle.id # 0
        BY <1>1, <1>7 DEF Judging, Placed, InStop
    <2>. QED
        BY <1>1, <1>2, <1>4, <1>5, <1>6, <1>7, <2>1 DEF Judging, Waits
<1>12. Recalled(scope', mutes', UnderWay')
    <2>1. UnderWay' = Len(mutes) + 1
        BY <1>3, <1>5 DEF UnderWay
    <2>2. \A i \in DOMAIN mutes : i # 0
        BY <1>1
    <2>. QED
        BY <1>1, <1>4, <1>5, <1>6, <1>7, <2>1, <2>2 DEF Recalled
<1>13. SeriesKept
    BY <1>4 DEF SeriesKept
<1>. QED
    BY <1>2, <1>3, <1>5, <1>8, <1>9, <1>10, <1>11, <1>12, <1>13 DEF JInv, Judging

LEMMA OwnedCount ==
    ASSUME NEW ms \in Seq(Mute), NEW id, NEW sev
    PROVE  /\ IsFiniteSet(OwnedIn(ms, id, sev))
           /\ Cardinality(OwnedIn(ms, id, sev)) \in Nat
<1>1. Len(ms) \in Nat /\ DOMAIN ms = 1..Len(ms)
    BY LenProperties
<1>2. IsFiniteSet(1..Len(ms)) /\ OwnedIn(ms, id, sev) \in SUBSET (1..Len(ms))
    BY <1>1, FS_Interval DEF OwnedIn
<1>. QED
    BY <1>2, FS_Subset, FS_CardinalityType

\* The last record is given to the stop that is open, and counted in it.
Takes(ms, n, s, q, t, r) ==
    /\ ms \in Seq(Mute) /\ n = Len(ms) /\ n > 0 /\ ms[n].owner = 0 /\ ms[n].after = 0
    /\ s \in Scope /\ q \in Scope /\ t \in Nat
    /\ Judging(s, ms, t) /\ Recalled(s, ms, n) /\ InStop(s.cycle)
    /\ q.lastCycle = s.lastCycle /\ q.cycle.id = s.cycle.id /\ q.cycle.type = s.cycle.type
    /\ q.cycle.start = s.cycle.start /\ q.cycle.due = s.cycle.due /\ q.cycle.seq = s.cycle.seq
    /\ q.cycle.type = "stop" => q.cycle.status = s.cycle.status
    /\ q.cycle.light = s.cycle.light + One(ms[n].sev, "light")
    /\ q.cycle.severe = s.cycle.severe + One(ms[n].sev, "severe")
    /\ r \in Seq(Mute) /\ Len(r) = n
    /\ \A i \in 1..n : i # n => r[i] = ms[i]
    /\ r[n] = [ms[n] EXCEPT !.owner = s.cycle.id]
LEMMA OwnJudged ==
    ASSUME NEW ms, NEW n, NEW s, NEW q, NEW t, NEW r, Takes(ms, n, s, q, t, r)
    PROVE  Judging(q, r, t) /\ Recalled(q, r, 0)
<1>. SUFFICES ASSUME ms \in Seq(Mute), n = Len(ms), n > 0, ms[n].owner = 0, ms[n].after = 0,
                     s \in Scope, q \in Scope, t \in Nat,
                     Judging(s, ms, t), Recalled(s, ms, n), InStop(s.cycle),
                     q.lastCycle = s.lastCycle, q.cycle.id = s.cycle.id, q.cycle.type = s.cycle.type,
                     q.cycle.start = s.cycle.start, q.cycle.due = s.cycle.due, q.cycle.seq = s.cycle.seq,
                     q.cycle.type = "stop" => q.cycle.status = s.cycle.status,
                     q.cycle.light = s.cycle.light + One(ms[n].sev, "light"),
                     q.cycle.severe = s.cycle.severe + One(ms[n].sev, "severe"),
                     r \in Seq(Mute), Len(r) = n,
                     \A i \in 1..n : i # n => r[i] = ms[i],
                     r[n] = [ms[n] EXCEPT !.owner = s.cycle.id]
              PROVE  Judging(q, r, t) /\ Recalled(q, r, 0)
    BY DEF Takes
<1>1. /\ n \in Nat /\ DOMAIN ms = 1..n /\ DOMAIN r = 1..n /\ n \in 1..n
      /\ s.cycle \in Cycle /\ s.cycle.id \in Nat /\ s.lastCycle \in Nat
      /\ s.cycle.light \in Nat /\ s.cycle.severe \in Nat
    <2>1. n \in Nat /\ DOMAIN ms = 1..n /\ DOMAIN r = 1..n
        BY LenProperties
    <2>2. s.cycle \in Cycle /\ s.lastCycle \in Nat
        BY DEF Scope
    <2>3. s.cycle.id \in Nat /\ s.cycle.light \in Nat /\ s.cycle.severe \in Nat
        BY ONLY <2>2 DEF Cycle
    <2>. QED
        BY <2>1, <2>2, <2>3
<1>2. ms[n] \in Mute
    BY <1>1, ElementOfSeq
<1>3. /\ r[n].owner = s.cycle.id /\ r[n].after = 0
      /\ r[n].at = ms[n].at /\ r[n].sev = ms[n].sev
    BY <1>2 DEF Mute
<1>4. s.cycle.id # 0 /\ s.cycle.id <= s.lastCycle
    BY <1>1 DEF Judging, Placed
<1>5. \A i \in 1..n : /\ r[i].at = ms[i].at /\ r[i].sev = ms[i].sev /\ r[i].after = ms[i].after
                      /\ r[i].owner = IF i = n THEN s.cycle.id ELSE ms[i].owner
    BY <1>3
<1>6. Placed(q, t)
    BY DEF Judging, Placed, InStop
<1>7. Marks(q, r, t)
    BY <1>1, <1>4, <1>5 DEF Judging, Marks
<1>8. ASSUME NEW x
      PROVE  Cardinality(OwnedIn(r, s.cycle.id, x)) =
                Cardinality(OwnedIn(ms, s.cycle.id, x)) + One(ms[n].sev, x)
    <2>1. n \notin OwnedIn(ms, s.cycle.id, x)
        BY <1>4 DEF OwnedIn
    <2>2. IsFiniteSet(OwnedIn(ms, s.cycle.id, x)) /\ Cardinality(OwnedIn(ms, s.cycle.id, x)) \in Nat
        BY OwnedCount
    <2>3. CASE ms[n].sev = x
        <3>1. OwnedIn(r, s.cycle.id, x) = OwnedIn(ms, s.cycle.id, x) \cup {n}
            BY <1>1, <1>5, <2>3 DEF OwnedIn
        <3>2. Cardinality(OwnedIn(ms, s.cycle.id, x) \cup {n}) = Cardinality(OwnedIn(ms, s.cycle.id, x)) + 1
            BY ONLY <2>1, <2>2, FS_AddElement
        <3>3. One(ms[n].sev, x) = 1
            BY ONLY <2>3 DEF One
        <3>. QED
            BY ONLY <3>1, <3>2, <3>3
    <2>4. CASE ms[n].sev # x
        <3>1. OwnedIn(r, s.cycle.id, x) = OwnedIn(ms, s.cycle.id, x)
            BY <1>1, <1>5, <2>1, <2>4 DEF OwnedIn
        <3>2. One(ms[n].sev, x) = 0
            BY ONLY <2>4 DEF One
        <3>. QED
            BY ONLY <2>2, <3>1, <3>2
    <2>. QED
        BY <2>3, <2>4
<1>9. Tallied(q, r)
    BY <1>8 DEF Judging, Tallied
<1>10. Waits(q, r)
    BY <1>1, <1>5 DEF Judging, Waits
<1>11. Recalled(q, r, 0)
    BY <1>1, <1>4, <1>5 DEF Recalled, SeriesStart
<1>. QED
    BY <1>6, <1>7, <1>9, <1>10, <1>11 DEF Judging

\* The last record comes when the stop is over and was bad: it waits.
LEMMA WaitJudged ==
    ASSUME NEW ms \in Seq(Mute), NEW n, n = Len(ms), n > 0, ms[n].owner = 0, ms[n].after = 0,
           NEW s \in Scope, NEW t \in Nat, ms[n].at = t,
           Judging(s, ms, t), Recalled(s, ms, n),
           s.cycle.type = "stop", s.cycle.status = "pending_decision",
           NEW r \in Seq(Mute), Len(r) = n,
           \A i \in 1..n : i # n => r[i] = ms[i],
           r[n] = [ms[n] EXCEPT !.after = s.cycle.id]
    PROVE  Judging(s, r, t) /\ Recalled(s, r, 0)
<1>1. /\ n \in Nat /\ DOMAIN ms = 1..n /\ DOMAIN r = 1..n /\ n \in 1..n
      /\ s.cycle \in Cycle /\ s.cycle.id \in Nat /\ s.lastCycle \in Nat /\ s.cycle.due \in Nat
    BY LenProperties DEF Scope, Cycle
<1>2. ms[n] \in Mute
    BY <1>1, ElementOfSeq
<1>3. /\ r[n].owner = 0 /\ r[n].after = s.cycle.id
      /\ r[n].at = ms[n].at /\ r[n].sev = ms[n].sev
    BY <1>2 DEF Mute
<1>4. s.cycle.id <= s.lastCycle /\ s.cycle.due <= t
    BY <1>1 DEF Judging, Placed, InStop
<1>5. \A i \in 1..n : /\ r[i].at = ms[i].at /\ r[i].sev = ms[i].sev /\ r[i].owner = ms[i].owner
                      /\ r[i].after = IF i = n THEN s.cycle.id ELSE ms[i].after
    BY <1>3
<1>6. Marks(s, r, t)
    BY <1>1, <1>4, <1>5 DEF Judging, Marks
<1>7. Tallied(s, r)
    <2>1. ASSUME NEW x PROVE OwnedIn(r, s.cycle.id, x) = OwnedIn(ms, s.cycle.id, x)
        BY <1>1, <1>5 DEF OwnedIn
    <2>. QED
        BY <2>1 DEF Judging, Tallied
<1>8. Waits(s, r)
    BY <1>1, <1>4, <1>5 DEF Judging, Waits
<1>9. Recalled(s, r, 0)
    BY <1>1, <1>5 DEF Recalled
<1>. QED
    BY <1>6, <1>7, <1>8, <1>9 DEF Judging

\* What counting a record in a cycle leaves alone; the end of a cycle moves away only.
Advances(s, q) ==
    /\ q.lastCycle = s.lastCycle /\ q.cycle.type \in Settling /\ q.cycle.start = s.cycle.start
    /\ q.cycle.status = s.cycle.status /\ q.cycle.rejected = s.cycle.rejected
    /\ q.pending = s.pending /\ q.deduct = s.deduct
    /\ (s.cycle.type = "normal" => s.cycle.due = s.cycle.start + NormalLen) =>
        s.cycle.due <= q.cycle.due
    /\ q.cycle.type = "normal" => s.cycle.type = "normal" /\ q.cycle.due = s.cycle.due

LEMMA AdvancesTrans ==
    ASSUME NEW s \in Scope, NEW q \in Scope, NEW r \in Scope, Advances(s, q), Advances(q, r)
    PROVE  Advances(s, r)
<1>1. /\ s.cycle \in Cycle /\ q.cycle \in Cycle /\ r.cycle \in Cycle
    BY DEF Scope
<1>2. s.cycle.due \in Nat /\ q.cycle.due \in Nat /\ r.cycle.due \in Nat
    BY <1>1 DEF Cycle
<1>. QED
    BY <1>2 DEF Advances

LEMMA CountedAdvances ==
    ASSUME NEW s \in Scope, s.cycle.type \in Settling, NEW sev
    PROVE  LET q == [s EXCEPT !.cycle = Counted(@, sev)] IN
           /\ Advances(s, q) /\ q \in Scope /\ q.cycle.type = s.cycle.type
           /\ q.cycle.normalLight = s.cycle.normalLight + One(sev, "light")
<1>1. s.cycle \in Cycle /\ s.cycle.due \in Nat
    BY DEF Scope, Cycle
<1>2. PICK c \in Cycle : /\ c = Counted(s.cycle, sev) /\ c.type = s.cycle.type
                         /\ c.status = s.cycle.status
    BY <1>1, CountedType
<1>3. /\ c.start = s.cycle.start /\ c.due = s.cycle.due /\ c.rejected = s.cycle.rejected
      /\ c.normalLight = s.cycle.normalLight + One(sev, "light")
    BY <1>1, <1>2 DEF Counted, Cycle
<1>4. LET q == [s EXCEPT !.cycle = c] IN
      /\ q \in Scope /\ q.cycle = c /\ q.lastCycle = s.lastCycle /\ q.pending = s.pending
      /\ q.deduct = s.deduct
    BY <1>2 DEF Scope
<1>5. [s EXCEPT !.cycle = Counted(@, sev)] = [s EXCEPT !.cycle = c]
    BY <1>2
<1>. QED
    BY <1>1, <1>2, <1>3, <1>4, <1>5 DEF Advances

\* The slow cycle that a normal one turns into ends no earlier.
LEMMA EnterSlowAdvances ==
    ASSUME NEW s \in Scope, s.cycle.type = "normal"
    PROVE  LET q == EnterSlow(s) IN
           /\ q \in Scope /\ Advances(s, q) /\ q.cycle.normalLight = s.cycle.normalLight
<1>1. s.cycle \in Cycle /\ s.cycle.start \in Nat /\ s.cycle.due \in Nat /\ s.slowLevel \in Nat
    BY DEF Scope, Cycle
<1>2. PICK due \in Nat : /\ due = s.cycle.start + Length("slow", s.slowLevel + 1)
                         /\ s.cycle.start + NormalLen <= due
    <2>1. PICK more \in Nat : more = SlowStep * (s.slowLevel + 1)
        <3>1. \A x, y \in Nat : x * (y + 1) \in Nat
            OBVIOUS
        <3>. QED
            BY <1>1, <3>1, LengthsAssumption
    <2>2. Length("slow", s.slowLevel + 1) = NormalLen + more
        BY <2>1 DEF Length
    <2>. QED
        BY <1>1, <2>1, <2>2, LengthsAssumption
<1>3. PICK c \in Cycle : /\ c = [s.cycle EXCEPT !.type = "slow", !.slowLight = 0,
                                                !.extended = FALSE, !.due = due]
                         /\ c.type = "slow" /\ c.start = s.cycle.start /\ c.due = due
                         /\ c.status = s.cycle.status /\ c.rejected = s.cycle.rejected
                         /\ c.normalLight = s.cycle.normalLight
    <2>1. LET c == [s.cycle EXCEPT !.type = "slow", !.slowLight = 0, !.extended = FALSE, !.due = due] IN
          /\ c \in Cycle /\ c.type = "slow" /\ c.start = s.cycle.start /\ c.due = due
          /\ c.status = s.cycle.status /\ c.rejected = s.cycle.rejected
          /\ c.normalLight = s.cycle.normalLight
        BY <1>1, <1>2 DEF Cycle, CycleTypes
    <2>. QED
        BY <2>1
<1>4. EnterSlow(s) = [s EXCEPT !.tag = "slow", !.slowLevel = @ + 1, !.reason = "none", !.cycle = c]
    BY <1>1, <1>2, <1>3 DEF EnterSlow
<1>5. PICK q \in Scope :
        /\ q = EnterSlow(s) /\ q.cycle = c /\ q.lastCycle = s.lastCycle
        /\ q.pending = s.pending /\ q.deduct = s.deduct
    <2>1. LET q == [s EXCEPT !.tag = "slow", !.slowLevel = @ + 1, !.reason = "none", !.cycle = c] IN
          /\ q \in Scope /\ q.cycle = c /\ q.lastCycle = s.lastCycle /\ q.pending = s.pending
          /\ q.deduct = s.deduct
        <3>1. s \in Scope /\ s.slowLevel + 1 \in Nat /\ c \in Cycle
            BY <1>1
        <3>. QED
            BY ONLY <3>1 DEF Scope
    <2>. QED
        BY <1>4, <2>1
<1>6. Advances(s, q)
    BY <1>1, <1>2, <1>3, <1>5 DEF Advances, Settling
<1>. QED
    BY <1>3, <1>5, <1>6

\* Counting moves the end of the cycle away only, and asks when it was one too many.
LEMMA MuteCountsCycle ==
    ASSUME NEW s \in Scope, s.cycle.type \in Settling, NEW sev
    PROVE  \E r \in Scope :
            /\ Advances(s, r) /\ r.cycle.normalLight = s.cycle.normalLight + One(sev, "light")
            /\ MuteCounts(s, sev) =
                 IF sev = "severe" \/ r.cycle.normalLight >= 3 \/ r.cycle.slowLight >= 3
                 THEN Ask(r, "stop_suggestion") ELSE r
<1>1. PICK counted \in Scope :
        /\ counted = [s EXCEPT !.cycle = Counted(@, sev)]
        /\ Advances(s, counted) /\ counted.cycle.type = s.cycle.type
        /\ counted.cycle.normalLight = s.cycle.normalLight + One(sev, "light")
    BY CountedAdvances
<1>2. PICK entered \in Scope :
        /\ entered = IF s.cycle.type # "slow" /\ Current(s) >= SlowAt
                     THEN EnterSlow(counted) ELSE counted
        /\ Advances(s, entered) /\ entered.cycle.normalLight = counted.cycle.normalLight
    <2>1. CASE s.cycle.type # "slow" /\ Current(s) >= SlowAt
        <3>1. counted.cycle.type = "normal"
            BY <1>1, <2>1 DEF Settling
        <3>2. /\ EnterSlow(counted) \in Scope /\ Advances(counted, EnterSlow(counted))
              /\ EnterSlow(counted).cycle.normalLight = counted.cycle.normalLight
            BY <3>1, EnterSlowAdvances
        <3>3. Advances(s, EnterSlow(counted))
            BY <1>1, <3>2, AdvancesTrans
        <3>. QED
            BY <2>1, <3>2, <3>3
    <2>2. CASE ~ (s.cycle.type # "slow" /\ Current(s) >= SlowAt)
        BY <1>1, <2>2
    <2>. QED
        BY <2>1, <2>2
<1>3. PICK longer \in Scope :
        /\ longer = IF /\ entered.cycle.type = "slow"
                       /\ entered.cycle.slowLight = 2 /\ ~ entered.cycle.extended
                    THEN [entered EXCEPT !.cycle.due = @ + ExtendLen, !.cycle.extended = TRUE]
                    ELSE entered
        /\ Advances(s, longer) /\ longer.cycle.normalLight = counted.cycle.normalLight
    <2>1. entered.cycle \in Cycle
        BY <1>2 DEF Scope
    <2>2. PICK due \in Nat : due = entered.cycle.due + ExtendLen /\ entered.cycle.due <= due
        <3>1. entered.cycle.due \in Nat /\ ExtendLen \in Nat
            BY <2>1, LengthsAssumption DEF Cycle
        <3>. QED
            BY ONLY <3>1
    <2>3. PICK d \in Cycle : /\ d = [entered.cycle EXCEPT !.due = due, !.extended = TRUE]
                             /\ d.type = entered.cycle.type /\ d.start = entered.cycle.start
                             /\ d.due = due /\ d.status = entered.cycle.status
                             /\ d.rejected = entered.cycle.rejected
                             /\ d.normalLight = entered.cycle.normalLight
        <3>1. LET d == [entered.cycle EXCEPT !.due = due, !.extended = TRUE] IN
              /\ d \in Cycle /\ d.type = entered.cycle.type /\ d.start = entered.cycle.start
              /\ d.due = due /\ d.status = entered.cycle.status
              /\ d.rejected = entered.cycle.rejected
              /\ d.normalLight = entered.cycle.normalLight
            BY ONLY <2>1, <2>2 DEF Cycle
        <3>. QED
            BY ONLY <3>1
    <2>4. [entered EXCEPT !.cycle.due = @ + ExtendLen, !.cycle.extended = TRUE]
            = [entered EXCEPT !.cycle = d]
        <3>1. d = [entered.cycle EXCEPT !.due = @ + ExtendLen, !.extended = TRUE]
            BY ONLY <2>1, <2>2, <2>3
        <3>2. [entered EXCEPT !.cycle.due = @ + ExtendLen, !.cycle.extended = TRUE]
                = [entered EXCEPT !.cycle =
                        [entered.cycle EXCEPT !.due = @ + ExtendLen, !.extended = TRUE]]
            BY ONLY <1>2, <2>1 DEF Scope, Cycle
        <3>. QED
            BY ONLY <3>1, <3>2
    <2>5. LET q == [entered EXCEPT !.cycle = d] IN
          /\ q \in Scope /\ q.cycle = d /\ q.lastCycle = entered.lastCycle
          /\ q.pending = entered.pending /\ q.deduct = entered.deduct
        BY ONLY <1>2, <2>3 DEF Scope
    <2>6. ASSUME /\ entered.cycle.type = "slow"
                 /\ entered.cycle.slowLight = 2 /\ ~ entered.cycle.extended
          PROVE  Advances(s, [entered EXCEPT !.cycle = d])
        <3>1. Advances(entered, [entered EXCEPT !.cycle = d])
            <4>1. PICK q \in Scope : /\ q = [entered EXCEPT !.cycle = d]
                                     /\ q.cycle = d /\ q.lastCycle = entered.lastCycle
                                     /\ q.pending = entered.pending /\ q.deduct = entered.deduct
                BY ONLY <2>5
            <4>. QED
                BY <2>1, <2>2, <2>3, <2>6, <4>1 DEF Advances, Settling
        <3>. QED
            BY <1>2, <2>5, <3>1, AdvancesTrans
    <2>7. CASE /\ entered.cycle.type = "slow"
               /\ entered.cycle.slowLight = 2 /\ ~ entered.cycle.extended
        <3>1. PICK q \in Scope : /\ q = [entered EXCEPT !.cycle = d]
                                 /\ q.cycle = d /\ Advances(s, q)
            BY ONLY <2>5, <2>6, <2>7
        <3>2. q.cycle.normalLight = counted.cycle.normalLight
            BY ONLY <1>2, <2>3, <3>1
        <3>. QED
            BY ONLY <2>4, <2>7, <3>1, <3>2
    <2>8. CASE ~ (/\ entered.cycle.type = "slow"
                  /\ entered.cycle.slowLight = 2 /\ ~ entered.cycle.extended)
        BY ONLY <1>2, <2>8
    <2>. QED
        BY ONLY <2>7, <2>8
<1>4. MuteCounts(s, sev) =
        IF sev = "severe" \/ longer.cycle.normalLight >= 3 \/ longer.cycle.slowLight >= 3
        THEN Ask(longer, "stop_suggestion") ELSE longer
    <2> DEFINE slow == s.cycle.type = "slow"
               counted0 == [s EXCEPT !.cycle = Counted(@, sev)]
               entered0 == IF ~ slow /\ Current(s) >= SlowAt THEN EnterSlow(counted0) ELSE counted0
               longer0 == IF /\ entered0.cycle.type = "slow"
                             /\ entered0.cycle.slowLight = 2 /\ ~ entered0.cycle.extended
                          THEN [entered0 EXCEPT !.cycle.due = @ + ExtendLen, !.cycle.extended = TRUE]
                          ELSE entered0
    <2>1. MuteCounts(s, sev) =
            IF sev = "severe" \/ longer0.cycle.normalLight >= 3 \/ longer0.cycle.slowLight >= 3
            THEN Ask(longer0, "stop_suggestion") ELSE longer0
        BY ONLY Zenon DEF MuteCounts
    <2>2. counted = counted0
        BY <1>1
    <2>. HIDE DEF counted0
    <2>3. entered = entered0
        BY ONLY <1>2, <2>2
    <2>. HIDE DEF entered0
    <2>4. longer = longer0
        BY ONLY <1>3, <2>3
    <2>. HIDE DEF longer0
    <2>. QED
        BY ONLY <2>1, <2>4
<1>. QED
    BY <1>1, <1>3, <1>4

LEMMA MuteCountsLast ==
    ASSUME NEW s \in Scope, s.cycle.type \in Settling, NEW sev
    PROVE  LET q == MuteCounts(s, sev) IN
           q.lastCycle = s.lastCycle /\ q.cycle.type \in Settling
<1>1. PICK r \in Scope : /\ Advances(s, r)
                         /\ MuteCounts(s, sev) \in {Ask(r, "stop_suggestion"), r}
    BY MuteCountsCycle
<1>2. Ask(r, "stop_suggestion").lastCycle = r.lastCycle /\ Ask(r, "stop_suggestion").cycle = r.cycle
    BY DEF Ask, Scope
<1>. QED
    BY ONLY <1>1, <1>2 DEF Advances

\* Outside a stop a record ends at most in a cycle that is none.
LEMMA AfterMuteElsewhere ==
    ASSUME Len(mutes) \in Nat, now \in Nat, NEW s, Keeps(s, s), NEW sev, ~ InStop(s.cycle)
    PROVE  LET q == AfterMute(s, sev) IN s.lastCycle <= q.lastCycle /\ ~ InStop(q.cycle)
<1>1. s \in Scope /\ s.lastCycle \in Nat /\ s.cycle.type \in CycleTypes \cup {"none"}
    BY DEF Keeps, Sound, Scope, Cycle
<1>2. LET q == SetNoCycle(s, "operation_limit") IN s.lastCycle <= q.lastCycle /\ ~ InStop(q.cycle)
    <2>1. SetNoCycle(s, "operation_limit").cycle.type = "none"
        BY <1>1, SetNoCycleSound
    <2>2. Moves(s, SetNoCycle(s, "operation_limit"), now)
        BY <1>1, NoCycleMoves
    <2>. QED
        BY <2>1, <2>2 DEF Moves, InStop
<1>3. LET q == MuteStarts(s, sev) IN s.lastCycle <= q.lastCycle /\ ~ InStop(q.cycle)
    <2>1. PICK type \in {"slow", "normal"} :
            type = IF Current(s) >= SlowAt \/ s.status = "consulted" THEN "slow" ELSE "normal"
        OBVIOUS
    <2>2. PICK started \in Scope : /\ started = StartCycle(s, type, now, 0)
                                   /\ s.lastCycle <= started.lastCycle /\ ~ InStop(started.cycle)
        <3>1. Opens(s, StartCycle(s, type, now, 0), type)
            BY <1>1, <2>1, StartCycleOpens DEF CycleTypes
        <3>2. Moves(s, StartCycle(s, type, now, 0), now)
            BY <1>1, <2>1, StartCycleMoves DEF CycleTypes
        <3>. QED
            BY <2>1, <3>1, <3>2 DEF Opens, Sound, Moves, InStop
    <2>3. /\ Ask(started, "stop_suggestion").lastCycle = started.lastCycle
          /\ Ask(started, "stop_suggestion").cycle = started.cycle
        BY <2>2 DEF Ask, Scope
    <2>4. MuteStarts(s, sev) \in {started, Ask(started, "stop_suggestion")}
        BY <2>1, <2>2 DEF MuteStarts
    <2>. QED
        BY ONLY <2>2, <2>3, <2>4
<1>4. s.cycle.type \in Settling =>
        LET q == MuteCounts(s, sev) IN s.lastCycle <= q.lastCycle /\ ~ InStop(q.cycle)
    <2>1. SUFFICES ASSUME s.cycle.type \in Settling
                   PROVE  LET q == MuteCounts(s, sev) IN
                          s.lastCycle <= q.lastCycle /\ ~ InStop(q.cycle)
        OBVIOUS
    <2>2. MuteCounts(s, sev).lastCycle = s.lastCycle /\ MuteCounts(s, sev).cycle.type \in Settling
        BY <1>1, <2>1, MuteCountsLast
    <2>. QED
        BY <1>1, <2>2 DEF InStop, Settling
<1>. QED
    BY <1>1, <1>2, <1>3, <1>4 DEF AfterMute, InStop, CycleTypes, Settling

\* The cycle of a projection in which a record is counted.
LEMMA CountInStopCycle ==
    ASSUME NEW s \in Scope, NEW sev
    PROVE  /\ CountInStop(s, sev).lastCycle = s.lastCycle
           /\ CountInStop(s, sev).cycle =
                [s.cycle EXCEPT !.light = @ + One(sev, "light"), !.severe = @ + One(sev, "severe")]
    BY DEF CountInStop, Scope, Cycle

LEMMA CountedFields ==
    ASSUME NEW c \in Cycle, NEW light, NEW severe
    PROVE  LET d == [c EXCEPT !.light = light, !.severe = severe] IN
           /\ d.id = c.id /\ d.type = c.type /\ d.status = c.status /\ d.start = c.start
           /\ d.due = c.due /\ d.seq = c.seq /\ d.light = light /\ d.severe = severe
    BY DEF Cycle

LEMMA AwaitFields ==
    ASSUME NEW s \in Scope, NEW action \in Actions
    PROVE  LET q == Await(Ask(s, action)) IN
           /\ q.lastCycle = s.lastCycle
           /\ q.cycle.id = s.cycle.id /\ q.cycle.type = s.cycle.type /\ q.cycle.start = s.cycle.start
           /\ q.cycle.due = s.cycle.due /\ q.cycle.seq = s.cycle.seq
           /\ q.cycle.light = s.cycle.light /\ q.cycle.severe = s.cycle.severe
<1>1. PICK p \in Scope : p = Ask(s, action) /\ p.cycle = s.cycle /\ p.lastCycle = s.lastCycle
    <2>1. /\ Ask(s, action) \in Scope /\ Ask(s, action).cycle = s.cycle
          /\ Ask(s, action).lastCycle = s.lastCycle
        BY DEF Ask, Scope
    <2>. QED
        BY <2>1
<1>2. s.cycle \in Cycle
    BY DEF Scope
<1>3. Await(p).cycle = [s.cycle EXCEPT !.status = "pending_decision"] /\ Await(p).lastCycle = s.lastCycle
    BY <1>1 DEF Await, Scope
<1>. QED
    BY <1>1, <1>2, <1>3 DEF Cycle

LEMMA ApplyMuteJudged ==
    ASSUME IInv, IInv', JInv, ApplyMute
    PROVE  JInv' /\ SeriesKept
<1>1. PICK n : n = Len(mutes)
    OBVIOUS
<1>2. /\ mutes \in Seq(Mute) /\ scope \in Scope /\ now \in Nat /\ n \in Nat /\ DOMAIN mutes = 1..n
      /\ Len(mutes) \in Nat /\ mutes' \in Seq(Mute) /\ scope' \in Scope /\ Books(scope, n)
    BY <1>1, LenProperties DEF IInv, Sound
<1>3. now' = now /\ op.kind = "mute" /\ op'.kind = "idle"
    BY IdleType DEF ApplyMute, ReadyFor
<1>4. n > 0 /\ n \in 1..n /\ mutes[n].owner = 0 /\ mutes[n].after = 0 /\ mutes[n].at = now
    BY <1>1, <1>2, <1>3 DEF IInv, Unmarked, JInv
<1>5. PICK synced : /\ synced = Synced(scope) /\ Keeps(synced, synced)
                    /\ synced.cycle = scope.cycle /\ synced.lastCycle = scope.lastCycle
    <2>1. Recounted(scope, Synced(scope))
        BY <1>1, <1>2, SyncedBooks
    <2>. QED
        BY <2>1, RecountedSound DEF IInv, Recounted, Keeps
<1>6. PICK s : /\ s = Opened(synced) /\ Keeps(s, s)
    BY <1>2, <1>5, OpenedKeeps, KeepsSelf
<1>7. s \in Scope /\ synced \in Scope /\ s.cycle \in Cycle /\ s.lastCycle \in Nat
    BY <1>5, <1>6 DEF Keeps, Sound, Scope
<1>8. Moves(scope, s, now)
    <2>1. Moves(synced, StartCycle(synced, "final_warning", 0, 0), now)
        BY <1>2, <1>7, StartCycleMoves DEF CycleTypes
    <2>2. Moves(synced, s, now)
        BY <1>6, <1>7, <2>1, SameMoves DEF Opened
    <2>. QED
        BY <1>5, <2>2, MovesSame
<1>9. Judging(s, mutes, now) /\ Recalled(s, mutes, n)
    <2>1. Judging(scope, mutes, now) /\ Recalled(scope, mutes, n)
        BY <1>1, <1>3 DEF JInv, UnderWay
    <2>. QED
        BY <1>2, <1>7, <1>8, <2>1, MovesJudging
<1>10. PICK sev : sev = mutes[n].sev
    OBVIOUS
<1>11. /\ s.status = "gone" => scope' = SetTerminal(s) /\ mutes' = mutes
       /\ s.status # "gone" => /\ scope' = AfterMute(s, sev)
                               /\ mutes' = [mutes EXCEPT ![n] = Marked(@, s)]
    BY <1>1, <1>5, <1>6, <1>10 DEF ApplyMute
<1>12. SUFFICES /\ Judging(scope', mutes', now) /\ Recalled(scope', mutes', 0)
                /\ scope'.cycle.type = "stop" =>
                    s.cycle.type = "stop" /\ SeriesStart(scope'.cycle) = SeriesStart(s.cycle)
    BY <1>3, <1>8, MovesSeries DEF JInv, UnderWay, SeriesKept
<1>13. CASE s.status = "gone"
    <2>1. Moves(s, scope', now) /\ scope'.cycle.type = "none"
        BY <1>7, <1>11, <1>13, NoCycleMoves, SetTerminalSound
    <2>2. Judging(scope', mutes, now)
        BY <1>2, <1>7, <1>9, <2>1, MovesJudging
    <2>. QED
        BY <1>11, <1>13, <2>1, <2>2 DEF Recalled
<1>14. ASSUME s.status # "gone"
       PROVE  /\ Len(mutes') = n
              /\ \A i \in 1..n : i # n => mutes'[i] = mutes[i]
              /\ mutes'[n] = Marked(mutes[n], s)
    <2>1. mutes' = [mutes EXCEPT ![n] = Marked(mutes[n], s)]
        BY <1>2, <1>4, <1>11, <1>14
    <2>2. DOMAIN mutes' = 1..n
        BY <1>2, <2>1
    <2>. QED
        BY <1>2, <1>4, <2>1, <2>2, LenProperties
<1>15. CASE s.status # "gone" /\ ~ InStop(s.cycle)
    <2>1. scope.lastCycle \in Nat /\ s.lastCycle <= scope'.lastCycle /\ ~ InStop(scope'.cycle)
        BY <1>2, <1>6, <1>11, <1>15, AfterMuteElsewhere DEF Scope
    <2>2. Marked(mutes[n], s) = mutes[n]
        BY <1>15 DEF Marked, InStop
    <2>3. DOMAIN mutes' = 1..n /\ \A i \in 1..n : mutes'[i] = mutes[i]
        BY <1>2, <1>14, <1>15, <2>2, LenProperties
    <2>4. Marks(scope', mutes, now)
        BY <1>2, <1>7, <1>9, <2>1, MarksKept DEF Judging
    <2>5. Marks(scope', mutes', now)
        BY <1>2, <2>3, <2>4 DEF Marks
    <2>. QED
        BY <2>1, <2>5 DEF Judging, Placed, Tallied, Waits, Recalled, InStop
<1>16. CASE s.status # "gone" /\ AwaitsBad(s)
    <2>1. /\ scope' = s /\ s.cycle.type = "stop" /\ s.cycle.status = "pending_decision"
          /\ mutes'[n] = [mutes[n] EXCEPT !.after = s.cycle.id]
        BY <1>11, <1>14, <1>16 DEF AfterMute, AwaitsBad, Marked
    <2>. QED
        BY <1>1, <1>2, <1>4, <1>7, <1>9, <1>14, <1>16, <2>1, WaitJudged
<1>17. CASE s.status # "gone" /\ InStop(s.cycle) /\ ~ AwaitsBad(s)
    <2>1. mutes'[n] = [mutes[n] EXCEPT !.owner = s.cycle.id]
        BY <1>14, <1>17 DEF Marked, InStop
    <2>2. PICK q \in Scope : q = CountInStop(s, sev)
        BY <1>6, CountInStopKeeps DEF Keeps, Sound
    <2>3. /\ q.lastCycle = s.lastCycle
          /\ q.cycle.id = s.cycle.id /\ q.cycle.type = s.cycle.type /\ q.cycle.start = s.cycle.start
          /\ q.cycle.due = s.cycle.due /\ q.cycle.seq = s.cycle.seq
          /\ q.cycle.status = s.cycle.status
          /\ q.cycle.light = s.cycle.light + One(sev, "light")
          /\ q.cycle.severe = s.cycle.severe + One(sev, "severe")
        <3>1. /\ q.lastCycle = s.lastCycle
              /\ q.cycle = [s.cycle EXCEPT !.light = s.cycle.light + One(sev, "light"),
                                           !.severe = s.cycle.severe + One(sev, "severe")]
            <4>1. /\ q.lastCycle = s.lastCycle
                  /\ q.cycle = [s.cycle EXCEPT !.light = @ + One(sev, "light"),
                                               !.severe = @ + One(sev, "severe")]
                BY <1>7, <2>2, CountInStopCycle
            <4>. QED
                BY ONLY <4>1
        <3>. QED
            BY <1>7, <3>1, CountedFields
    <2>4. scope' = q \/ (scope' = Await(Ask(q, "remove_member")) /\ s.cycle.type # "stop")
        BY <1>11, <1>17, <2>2 DEF AfterMute, CountInFinal, InStop
    <2>5. /\ scope'.lastCycle = q.lastCycle
          /\ scope'.cycle.id = q.cycle.id /\ scope'.cycle.type = q.cycle.type
          /\ scope'.cycle.start = q.cycle.start /\ scope'.cycle.due = q.cycle.due
          /\ scope'.cycle.seq = q.cycle.seq
          /\ scope'.cycle.light = q.cycle.light /\ scope'.cycle.severe = q.cycle.severe
          /\ scope'.cycle.type = "stop" => scope'.cycle.status = q.cycle.status
        BY <2>3, <2>4, AwaitFields DEF Actions
    <2>. QED
        <3>1. Judging(scope', mutes', now) /\ Recalled(scope', mutes', 0)
            <4>1. /\ Len(mutes') = n /\ \A i \in 1..n : i # n => mutes'[i] = mutes[i]
                  /\ scope'.cycle.type = "stop" => scope'.cycle.status = s.cycle.status
                BY ONLY <1>14, <1>17, <2>3, <2>5
            <4>2. /\ scope'.lastCycle = s.lastCycle /\ scope'.cycle.id = s.cycle.id
                  /\ scope'.cycle.type = s.cycle.type /\ scope'.cycle.start = s.cycle.start
                  /\ scope'.cycle.due = s.cycle.due /\ scope'.cycle.seq = s.cycle.seq
                  /\ scope'.cycle.light = s.cycle.light + One(mutes[n].sev, "light")
                  /\ scope'.cycle.severe = s.cycle.severe + One(mutes[n].sev, "severe")
                BY ONLY <1>10, <2>3, <2>5
            <4>3. Takes(mutes, n, s, scope', now, mutes')
                BY ONLY <1>1, <1>2, <1>4, <1>7, <1>9, <1>17, <2>1, <4>1, <4>2 DEF Takes
            <4>. QED
                BY ONLY <1>3, <4>3, OwnJudged
        <3>. QED
            BY <2>3, <2>5, <3>1 DEF SeriesStart
<1>. QED
    BY <1>13, <1>15, <1>16, <1>17 DEF AwaitsBad, InStop

\* What a transfer does to a record: nothing, or it gets the new stop, or it
\* waits for the one after it.
LEMMA TransferredFields ==
    ASSUME NEW m \in Mute, NEW old, NEW new
    PROVE  LET r == Transferred(m, old, new) IN
           /\ r.at = m.at /\ r.sev = m.sev
           /\ m.after # old.id => r = m
           /\ m.after = old.id /\ m.at <= new.due => r.owner = new.id /\ r.after = 0
           /\ m.after = old.id /\ ~ (m.at <= new.due) => r.owner = m.owner /\ r.after = new.id
    BY DEF Transferred, Mute

\* The stop that follows one in a series.
LEMMA RenewedStop ==
    ASSUME NEW s, Sound(s), s.cycle.type = "stop", s.status \in {"ok", "consulted"}
    PROVE  LET q == Renewed(s) IN
           /\ q \in Scope /\ q.lastCycle = s.lastCycle + 1 /\ q.cycle.id = s.lastCycle + 1
           /\ q.cycle.type = "stop" /\ q.cycle.status = "active"
           /\ q.cycle.start = s.cycle.due /\ q.cycle.due = s.cycle.due + StopLen
           /\ q.cycle.seq = s.cycle.seq + 1
<1>1. s \in Scope /\ s.cycle.due \in Nat /\ s.cycle.seq + 1 \in Nat
    BY ActiveCycle
<1>2. PICK base \in Scope : /\ base = Resolve(CloseCycle(s), {"stop_decision"})
                            /\ base.lastCycle = s.lastCycle /\ base.status = s.status
    BY <1>1, ResolvedKeeps, CloseCycleType, ResolveType
<1>3. Renewed(s) = NewCycle(base, "stop", s.cycle.due, s.cycle.seq + 1)
    BY <1>2 DEF Renewed, StartCycle, Settling
<1>4. "stop" \in CycleTypes /\ "stop" \notin Settling
    BY DEF CycleTypes, Settling
<1>5. Sound(NewCycle(base, "stop", s.cycle.due, s.cycle.seq + 1))
    BY ONLY <1>1, <1>2, <1>4, NewCycleSound
<1>6. NewCycle(base, "stop", s.cycle.due, s.cycle.seq + 1) \in Scope
    BY ONLY <1>5 DEF Sound
<1>7. PICK q : q = NewCycle(base, "stop", s.cycle.due, s.cycle.seq + 1)
    OBVIOUS
<1>8. /\ q.lastCycle = base.lastCycle + 1 /\ q.cycle.id = q.lastCycle /\ q.cycle.type = "stop"
      /\ q.cycle.status = "active" /\ q.cycle.start = s.cycle.due /\ q.cycle.seq = s.cycle.seq + 1
      /\ q.cycle.due = s.cycle.due + StopLen
    BY ONLY <1>1, <1>2, <1>4, <1>7, NewCycleMoves
<1>. QED
    BY ONLY <1>2, <1>3, <1>6, <1>7, <1>8

LEMMA RenewStopJudged ==
    ASSUME IInv, IInv', JInv, RenewStop
    PROVE  JInv' /\ SeriesKept
<1>1. PICK n, old : n = Len(mutes) /\ old = scope.cycle
    OBVIOUS
<1>2. /\ mutes \in Seq(Mute) /\ scope \in Scope /\ now \in Nat /\ n \in Nat /\ DOMAIN mutes = 1..n
      /\ Sound(scope) /\ old \in Cycle /\ scope.lastCycle \in Nat
    BY <1>1, LenProperties DEF IInv, Sound, Scope
<1>3. /\ now' = now /\ op.kind = "idle" /\ op'.kind = "idle" /\ old.type = "stop"
      /\ scope.status \in {"ok", "consulted"}
    BY <1>1, IdleType DEF RenewStop, Decides, StopIsOver
<1>4. PICK next \in Scope :
        /\ next = Renewed(scope)
        /\ next.lastCycle = scope.lastCycle + 1 /\ next.cycle.id = scope.lastCycle + 1
        /\ next.cycle.type = "stop" /\ next.cycle.status = "active"
        /\ next.cycle.start = old.due /\ next.cycle.due = old.due + StopLen
        /\ next.cycle.seq = old.seq + 1
    BY <1>1, <1>2, <1>3, RenewedStop
<1>5. PICK id, due : id = next.cycle.id /\ due = next.cycle.due
    OBVIOUS
<1>6. \A i \in 1..n : mutes[i] \in Mute /\ mutes[i].at \in Nat /\ mutes[i].owner \in Nat
                      /\ mutes[i].after \in Nat
    BY <1>1, <1>2, ElementOfSeq, RecordFields
<1>7. DOMAIN mutes' = 1..n /\ \A i \in 1..n :
        /\ mutes'[i].at = mutes[i].at /\ mutes'[i].sev = mutes[i].sev
        /\ mutes[i].after # old.id => mutes'[i] = mutes[i]
        /\ mutes[i].after = old.id /\ mutes[i].at <= due => mutes'[i].owner = id /\ mutes'[i].after = 0
        /\ mutes[i].after = old.id /\ ~ (mutes[i].at <= due) =>
                mutes'[i].owner = mutes[i].owner /\ mutes'[i].after = id
    <2>1. mutes' = [i \in 1..n |-> Transferred(mutes[i], old, next.cycle)]
        BY <1>1, <1>2, <1>4 DEF RenewStop
    <2>. QED
        BY <1>5, <1>6, <2>1, TransferredFields
<1>8. Judging(scope, mutes, now) /\ Recalled(scope, mutes, 0)
    BY <1>3 DEF JInv, UnderWay
<1>9. /\ \A i \in 1..n : /\ mutes[i].at <= now /\ mutes[i].owner <= scope.lastCycle
                         /\ mutes[i].after <= scope.lastCycle
      /\ old.due = old.start + StopLen /\ old.seq > 0 /\ 0 < old.id /\ old.id <= scope.lastCycle
    BY <1>1, <1>2, <1>3, <1>8 DEF Judging, Marks, Placed, InStop
<1>10. /\ id = scope.lastCycle + 1 /\ due = old.due + StopLen
       /\ old.due \in Nat /\ old.start \in Nat /\ old.seq \in Nat /\ StopLen \in Nat /\ old.id \in Nat
    BY <1>2, <1>4, <1>5, LengthsAssumption DEF Cycle
\* The new counters are the records that waited and lie before the new end.
<1>11. ASSUME NEW x
       PROVE  OwnedIn(mutes', id, x) =
                {i \in 1..n : mutes[i].after = old.id /\ mutes[i].sev = x /\ mutes[i].at <= due}
    <2>1. \A i \in 1..n : mutes[i].owner # id
        BY <1>2, <1>6, <1>9, <1>10
    <2>. QED
        BY <1>7, <2>1 DEF OwnedIn
<1>12. /\ scope'.lastCycle = id
       /\ scope'.cycle.id = id /\ scope'.cycle.type = "stop" /\ scope'.cycle.status = "active"
       /\ scope'.cycle.start = old.due /\ scope'.cycle.due = due /\ scope'.cycle.seq = old.seq + 1
       /\ scope'.cycle.light = Cardinality(OwnedIn(mutes', id, "light"))
       /\ scope'.cycle.severe = Cardinality(OwnedIn(mutes', id, "severe"))
    <2>1. PICK light, severe :
            /\ light = Cardinality(OwnedIn(mutes', id, "light"))
            /\ severe = Cardinality(OwnedIn(mutes', id, "severe"))
        OBVIOUS
    <2>2. scope' = [next EXCEPT !.cycle.light = light, !.cycle.severe = severe]
        BY <1>1, <1>2, <1>4, <1>5, <1>11, <2>1 DEF RenewStop
    <2>3. next.cycle \in Cycle
        BY <1>4 DEF Scope
    <2>4. /\ scope'.lastCycle = next.lastCycle
          /\ scope'.cycle = [next.cycle EXCEPT !.light = light, !.severe = severe]
        BY ONLY <1>4, <2>2, <2>3 DEF Scope, Cycle
    <2>. QED
        BY <1>4, <1>5, <2>1, <2>3, <2>4, CountedFields
<1>13. Placed(scope', now)
    BY <1>2, <1>10, <1>12 DEF Placed, InStop
<1>14. Marks(scope', mutes', now)
    <2>1. ASSUME NEW i \in 1..n
          PROVE  mutes'[i].at <= now /\ mutes'[i].owner <= id /\ mutes'[i].after <= id
        <3>1. PICK last \in Nat, at \in Nat, owner \in Nat, after \in Nat :
                /\ last = scope.lastCycle /\ at = mutes[i].at /\ owner = mutes[i].owner
                /\ after = mutes[i].after
            BY <1>2, <1>6, <2>1
        <3>2. at <= now /\ owner <= last /\ after <= last /\ id = last + 1
            BY <1>9, <1>10, <2>1, <3>1
        <3>3. owner <= id /\ after <= id /\ id <= id /\ 0 <= id
            BY ONLY <3>1, <3>2
        <3>. QED
            BY ONLY <1>7, <2>1, <3>1, <3>2, <3>3
    <2>. QED
        BY <1>7, <1>12, <2>1 DEF Marks
<1>15. Tallied(scope', mutes')
    BY <1>12 DEF Tallied
<1>16. Waits(scope', mutes')
    <2>1. ASSUME NEW i \in 1..n, mutes'[i].after = id PROVE mutes'[i].at >= due
        <3>1. mutes[i].after # id /\ id # 0
            BY <1>2, <1>6, <1>9, <1>10
        <3>2. mutes[i].after = old.id /\ ~ (mutes[i].at <= due)
            BY <1>7, <2>1, <3>1
        <3>3. due \in Nat /\ mutes[i].at \in Nat
            BY <1>6, <1>10
        <3>. QED
            BY <1>7, <3>2, <3>3
    <2>. QED
        BY <1>7, <1>12, <2>1 DEF Waits
\* The series keeps its start.
<1>17. SeriesStart(scope'.cycle) = SeriesStart(old)
    <2>1. PICK k \in Nat : k = old.seq - 1
        BY <1>9, <1>10
    <2>2. SeriesStart(scope'.cycle) = old.due - (k + 1) * StopLen
        BY <1>10, <1>12, <2>1 DEF SeriesStart
    <2>3. SeriesStart(old) = old.start - k * StopLen
        BY <2>1 DEF SeriesStart
    <2>4. (k + 1) * StopLen = k * StopLen + StopLen /\ k * StopLen \in Nat
        BY ONLY <1>10, <2>1
    <2>. QED
        BY ONLY <1>9, <1>10, <2>2, <2>3, <2>4
<1>18. Recalled(scope', mutes', 0)
    <2>1. \A i \in 1..n :
            mutes[i].at > SeriesStart(old) /\ mutes[i].sev # "unknown" =>
                mutes[i].owner # 0 \/ mutes[i].after = old.id
        BY <1>1, <1>2, <1>3, <1>8 DEF Recalled
    <2>2. id # 0
        BY <1>2, <1>10
    <2>. QED
        BY <1>7, <1>12, <1>17, <2>1, <2>2 DEF Recalled
<1>. QED
    BY <1>1, <1>3, <1>13, <1>14, <1>15, <1>16, <1>17, <1>18 DEF JInv, Judging, UnderWay, SeriesKept

LEMMA JudgedStep ==
    ASSUME IInv, IInv', JInv, [Next]_vars
    PROVE  JInv' /\ SeriesKept
<1>1. CASE UNCHANGED vars
    BY <1>1 DEF vars, JInv, UnderWay, SeriesKept
<1>2. CASE Next
    BY <1>2, QuietJudged, SettleJudged, CommandJudged, ApplyStatusJudged, BeginMuteJudged,
       ApplyMuteJudged, RenewStopJudged DEF Next, Input, Apply, Command
<1>. QED
    BY <1>1, <1>2

LEMMA InitJudged == Init => JInv
<1>1. SUFFICES ASSUME NEW n \in Baselines, NEW status \in Targets \cup {"ok"},
                      NEW migrated \in BOOLEAN, IInv,
                      now = 0,
                      mutes = [i \in 1..n |-> [at |-> 0, sev |-> "light", owner |-> 0, after |-> 0]],
                      op = Idle,
                      scope = IF migrated
                              THEN StartCycle(Fresh(status, n), InitialType(status, n), 0, 0)
                              ELSE Fresh(status, n)
               PROVE  JInv
    BY InitInv DEF Init
<1> DEFINE fresh == Fresh(status, n)
<1>2. /\ n \in Nat /\ status \in AllStatus /\ 0 \in Nat /\ mutes \in Seq(Mute) /\ scope \in Scope
      /\ DOMAIN mutes = 1..n
    BY <1>1, LimitsAssumption, InputsAssumption DEF AllStatus, IInv, Sound
<1>3. fresh \in Scope /\ fresh.cycle = NoCycle /\ fresh.lastCycle = 0
    BY <1>2, NoCycleType DEF Fresh, Scope
<1>4. \A i \in DOMAIN mutes : mutes[i].at = 0 /\ mutes[i].owner = 0 /\ mutes[i].after = 0
    BY <1>1
<1>5. Judging(fresh, mutes, 0) /\ Recalled(fresh, mutes, 0)
    <2>. HIDE DEF fresh
    <2>. QED
        BY <1>3, <1>4, NoCycleType DEF Judging, Placed, Marks, Tallied, Waits, Recalled, InStop
<1>6. Moves(fresh, scope, 0)
    <2>1. InitialType(status, n) \in CycleTypes /\ InitialType(status, n) # "stop"
        BY DEF InitialType, CycleTypes
    <2>2. scope = fresh \/ scope = StartCycle(fresh, InitialType(status, n), 0, 0)
        BY <1>1
    <2>. HIDE DEF fresh
    <2>. QED
        BY <1>2, <1>3, <2>1, <2>2, StartCycleMoves, SameMoves
<1>. HIDE DEF fresh
<1>7. Judging(scope, mutes, 0) /\ Recalled(scope, mutes, 0)
    BY <1>2, <1>3, <1>5, <1>6, MovesJudging
<1>. QED
    BY <1>1, <1>7, IdleType DEF JInv, UnderWay

\* Both invariants hold in every state: IInv makes the records and the projection
\* what they are, and JInv relates them.
LEMMA JudgedAlways == Spec => []JInv /\ [][SeriesKept]_vars
<1>1. Init => JInv
    BY InitJudged
<1>2. IInv /\ IInv' /\ JInv /\ [Next]_vars => JInv' /\ SeriesKept
    BY JudgedStep
<1>3. Spec => []IInv
    BY Inductive
<1>. QED
    BY <1>1, <1>2, <1>3, PTL DEF Spec

\* Every mute of a stopped member is judged in one stop, the right one: the
\* counters are those of the records that name the cycle, none is forgotten since
\* the first stop of the series, and those that wait lie after the present one
\* (_transfer_waiting_stop_evaluations(), process_violation_record()).
THEOREM Judged == Spec => []MutesAreJudged
<1>1. IInv /\ JInv => MutesAreJudged
    <2>1. SUFFICES ASSUME IInv, JInv PROVE MutesAreJudged
        OBVIOUS
    <2>2. Judging(scope, mutes, now) /\ Recalled(scope, mutes, UnderWay)
        BY <2>1 DEF JInv
    <2>3. CountsMatchOwners
        BY <2>2 DEF Judging, Tallied, InStop, OwnedIn, CountsMatchOwners, Owned
    <2>4. NoMuteForgotten
        <3>1. mutes \in Seq(Mute)
            BY <2>1 DEF IInv
        <3>2. \A i \in DOMAIN mutes : i # 0
            BY <3>1, LenProperties
        <3>3. op = Idle => UnderWay = 0
            BY IdleType DEF UnderWay
        <3>. QED
            BY <2>2, <3>2, <3>3 DEF NoMuteForgotten, Recalled, SeriesStart, FirstStart
    <2>5. WaitingIsLater
        BY <2>2 DEF Judging, Waits, WaitingIsLater
    <2>. QED
        BY <2>3, <2>4, <2>5 DEF MutesAreJudged
<1>. QED
    BY <1>1, Inductive, JudgedAlways, PTL

\* The k-th stop of a series ends k stop lengths after the series started,
\* whenever renew_manual_stop() is called: it starts from the old due_at.
THEOREM Endpoints == Spec => EndpointsFixed
<1>1. SeriesKept => (scope.cycle.type = "stop" /\ scope'.cycle.type = "stop" =>
                        FirstStart' = FirstStart)
    BY DEF SeriesKept, SeriesStart, FirstStart
<1>. QED
    BY <1>1, JudgedAlways, PTL DEF EndpointsFixed

-----------------------------------------------------------------------------
(* Reductions are earned.  Unless a suggestion was rejected, what the records   *)
(* say against a reduction has been asked or counted, and no record lies after  *)
(* the end of a cycle that is open.                                             *)

Reducing == Settling \cup {"final_warning"}
During(c, ms, k) == {i \in DOMAIN ms : i # k /\ ms[i].at > c.start}
LightIn(c, ms, k) == {i \in During(c, ms, k) : ms[i].sev = "light"}

InTime(s, ms, k) ==
    s.cycle.type \in Reducing /\ s.cycle.status = "active" =>
        \A i \in DOMAIN ms : i # k => ms[i].at <= s.cycle.due
Noticed(s, ms, k) ==
    \A i \in During(s.cycle, ms, k) :
        /\ s.cycle.type \in Settling =>
            /\ ms[i].sev = "severe" => "stop_suggestion" \in s.pending
            /\ ms[i].sev = "unknown" => "duration_review" \in s.pending
        /\ s.cycle.type = "final_warning" =>
            (ms[i].sev # "unknown" => "remove_member" \in s.pending)
Numbered(s, ms, k) ==
    s.cycle.type \in Settling =>
        /\ ~ s.cycle.rejected
        /\ Cardinality(LightIn(s.cycle, ms, k)) <= s.cycle.normalLight
        /\ s.cycle.normalLight >= 3 => "stop_suggestion" \in s.pending
        /\ s.cycle.type = "normal" => s.cycle.due = s.cycle.start + NormalLen
Deserved(s, ms, k) == InTime(s, ms, k) /\ Noticed(s, ms, k) /\ Numbered(s, ms, k)

KInv == ~ refused => Deserved(scope, mutes, UnderWay)

\* A cycle that begins at an instant, and one that goes on.
Begun(q, at) ==
    q.cycle.type \in Reducing =>
        /\ q.cycle.start = at /\ at <= q.cycle.due
        /\ q.cycle.normalLight = 0 /\ ~ q.cycle.rejected
        /\ q.cycle.type = "normal" => q.cycle.due = at + NormalLen
GoesOn(s, q) ==
    /\ q.cycle.type = s.cycle.type /\ q.cycle.start = s.cycle.start /\ q.cycle.due = s.cycle.due
    /\ q.cycle.normalLight = s.cycle.normalLight /\ q.cycle.rejected = s.cycle.rejected
    /\ q.cycle.status \in {s.cycle.status, "pending_decision"}
    /\ s.pending \subseteq q.pending

\* Nothing is said against a cycle that begins when all records are past.
LEMMA BegunDeserved ==
    ASSUME NEW ms \in Seq(Mute), NEW q \in Scope, NEW at \in Nat, Begun(q, at), NEW k,
           \A i \in DOMAIN ms : i # k => ms[i].at <= at
    PROVE  Deserved(q, ms, k)
<1>1. q.cycle \in Cycle /\ q.cycle.due \in Nat
    BY DEF Scope, Cycle
<1>2. \A i \in DOMAIN ms : ms[i].at \in Nat
    BY RecordFields
<1>3. CASE q.cycle.type \notin Reducing
    BY <1>3 DEF Deserved, InTime, Noticed, Numbered, Reducing, Settling
<1>4. CASE q.cycle.type \in Reducing
    <2>1. During(q.cycle, ms, k) = {}
        BY <1>2, <1>4 DEF During, Begun
    <2>2. Cardinality(LightIn(q.cycle, ms, k)) = 0
        BY <2>1, FS_EmptySet DEF LightIn
    <2>3. InTime(q, ms, k)
        BY <1>1, <1>2, <1>4 DEF InTime, Begun
    <2>4. Numbered(q, ms, k)
        BY <1>4, <2>2 DEF Numbered, Begun
    <2>. QED
        BY <2>1, <2>3, <2>4 DEF Deserved, Noticed
<1>. QED
    BY <1>3, <1>4

LEMMA GoesOnDeserved ==
    ASSUME NEW ms, NEW k, NEW s, NEW q, GoesOn(s, q), Deserved(s, ms, k)
    PROVE  Deserved(q, ms, k)
<1>1. During(q.cycle, ms, k) = During(s.cycle, ms, k) /\ LightIn(q.cycle, ms, k) = LightIn(s.cycle, ms, k)
    BY DEF During, LightIn, GoesOn
<1>2. InTime(q, ms, k)
    BY DEF InTime, GoesOn, Deserved
<1>3. Noticed(q, ms, k)
    BY <1>1 DEF Noticed, GoesOn, Deserved
<1>4. Numbered(q, ms, k)
    BY <1>1 DEF Numbered, GoesOn, Deserved
<1>. QED
    BY <1>2, <1>3, <1>4 DEF Deserved

\* Only the instants and the severities of the records matter.
LEMMA SameRecords ==
    ASSUME NEW ms, NEW ns, NEW k, NEW s, Deserved(s, ms, k), DOMAIN ns = DOMAIN ms,
           \A i \in DOMAIN ms : ns[i].at = ms[i].at /\ ns[i].sev = ms[i].sev
    PROVE  Deserved(s, ns, k)
<1>1. During(s.cycle, ns, k) = During(s.cycle, ms, k)
    BY DEF During
<1>2. LightIn(s.cycle, ns, k) = LightIn(s.cycle, ms, k)
    BY <1>1 DEF LightIn, During
<1>3. InTime(s, ns, k)
    BY DEF InTime, Deserved
<1>4. Noticed(s, ns, k)
    BY <1>1 DEF Noticed, Deserved, During
<1>5. Numbered(s, ns, k)
    BY <1>2 DEF Numbered, Deserved
<1>. QED
    BY <1>3, <1>4, <1>5 DEF Deserved

LEMMA StartCycleBegins ==
    ASSUME NEW s \in Scope, NEW type \in CycleTypes, NEW at \in Nat, NEW seq \in Nat
    PROVE  Begun(StartCycle(s, type, at, seq), at)
<1>1. SetTerminal(s).cycle.type = "none" /\ \A reason : SetNoCycle(s, reason).cycle.type = "none"
    BY NoCycleType DEF SetTerminal, SetNoCycle, Scope
<1>2. PICK length \in Nat : /\ length = Length(type, IF type = "slow" THEN s.slowLevel + 1 ELSE s.slowLevel)
                            /\ type = "normal" => length = NormalLen
    <2>1. (IF type = "slow" THEN s.slowLevel + 1 ELSE s.slowLevel) \in Nat
        BY DEF Scope
    <2>2. Length(type, IF type = "slow" THEN s.slowLevel + 1 ELSE s.slowLevel) \in Nat
        BY <2>1, LengthType
    <2>. QED
        BY <2>2 DEF Length
<1>3. NewCycle(s, type, at, seq).cycle =
        [NoCycle EXCEPT !.id = s.lastCycle + 1, !.type = type, !.status = "active",
                        !.start = at, !.due = at + length, !.seq = seq]
    BY <1>2 DEF NewCycle, Scope
<1>4. Begun(NewCycle(s, type, at, seq), at)
    BY <1>2, <1>3 DEF NoCycle, Begun
<1>. QED
    BY <1>1, <1>4 DEF StartCycle, Begun, Reducing, Settling

LEMMA NextNormalBegins ==
    ASSUME NEW s \in Scope, NEW at \in Nat
    PROVE  Begun(NextNormal(s, at), at)
<1>1. \A reason : SetNoCycle(s, reason).cycle.type = "none"
    BY NoCycleType DEF SetNoCycle, Scope
<1>. QED
    BY <1>1, StartCycleBegins DEF NextNormal, Begun, Reducing, Settling, CycleTypes

LEMMA AskGoesOn ==
    ASSUME NEW s \in Scope, NEW action \in Actions
    PROVE  /\ GoesOn(s, s) /\ GoesOn(s, Ask(s, action)) /\ GoesOn(s, Await(s))
           /\ GoesOn(s, Await(Ask(s, action)))
           /\ \A at : Begun(s, at) => Begun(Ask(s, action), at)
<1>1. PICK p \in Scope : p = Ask(s, action) /\ p.cycle = s.cycle /\ p.pending = s.pending \cup {action}
    <2>1. /\ Ask(s, action) \in Scope /\ Ask(s, action).cycle = s.cycle
          /\ Ask(s, action).pending = s.pending \cup {action}
        BY DEF Ask, Scope
    <2>. QED
        BY ONLY <2>1
<1>2. ASSUME NEW r \in Scope
      PROVE  /\ Await(r).cycle = [r.cycle EXCEPT !.status = "pending_decision"]
             /\ Await(r).pending = r.pending /\ r.cycle \in Cycle
    BY DEF Await, Scope
<1>3. ASSUME NEW r \in Scope PROVE GoesOn(r, Await(r))
    <2>1. /\ r.cycle \in Cycle /\ Await(r).pending = r.pending
          /\ Await(r).cycle = [r.cycle EXCEPT !.status = "pending_decision"]
        BY <1>2
    <2>2. PICK q, c : q = Await(r) /\ c = r.cycle
        OBVIOUS
    <2>3. c \in Cycle /\ q.cycle = [c EXCEPT !.status = "pending_decision"] /\ q.pending = r.pending
        BY ONLY <2>1, <2>2
    <2>4. GoesOn(r, q)
        <3>1. /\ q.cycle.type = c.type /\ q.cycle.start = c.start /\ q.cycle.due = c.due
              /\ q.cycle.normalLight = c.normalLight /\ q.cycle.rejected = c.rejected
              /\ q.cycle.status = "pending_decision"
            BY ONLY <2>3 DEF Cycle
        <3>. QED
            BY ONLY <2>2, <2>3, <3>1 DEF GoesOn
    <2>. QED
        BY ONLY <2>2, <2>4
<1>. QED
    BY <1>1, <1>3 DEF GoesOn, Begun

\* One turn of the settlement: what waits goes on, and what ends is followed by a cycle
\* that begins at the end of the old one, after all the records.
LEMMA SettleTurnDeserved ==
    ASSUME mutes \in Seq(Mute), NEW s, Keeps(s, s), s.cycle.type # "none",
           s.cycle.status = "active", NEW k, Deserved(s, mutes, k)
    PROVE  /\ Deserved(SettleTurn(s), mutes, k)
           /\ SettleTurn(s).deduct # s.deduct =>
                \/ s.cycle.type = "final_warning" /\ "remove_member" \notin s.pending
                \/ /\ s.cycle.type \in Settling
                   /\ s.pending \cap {"stop_suggestion", "duration_review"} = {}
<1>1. /\ s \in Scope /\ s.cycle \in Cycle /\ s.cycle.due \in Nat /\ Books(s, Len(mutes))
      /\ Len(mutes) \in Nat
    BY ActiveCycle, LenProperties DEF Keeps
<1>2. /\ Await(s).deduct = s.deduct
      /\ \A action \in Actions : Await(Ask(s, action)).deduct = s.deduct
    BY <1>1 DEF Await, Ask, Scope
<1>3. /\ Deserved(Await(s), mutes, k)
      /\ \A action \in Actions : Deserved(Await(Ask(s, action)), mutes, k)
    <2>1. GoesOn(s, Await(s)) /\ \A action \in Actions : GoesOn(s, Await(Ask(s, action)))
        BY <1>1, AskGoesOn DEF Actions
    <2>. QED
        BY <2>1, GoesOnDeserved
<1>4. ASSUME s.cycle.type \in Reducing, NEW p \in Scope, Books(p, Len(mutes)), NEW amount \in {1, 2}
      PROVE  LET next == NextNormal([CloseCycle(Reduce(p, amount)) EXCEPT !.tag = "none"], s.cycle.due)
             IN next \in Scope /\ Begun(next, s.cycle.due)
    <2>1. PICK r \in Scope : r = Reduce(p, amount)
        BY <1>1, <1>4, ReduceBooks
    <2>2. PICK base \in Scope : base = [CloseCycle(r) EXCEPT !.tag = "none"]
        BY <2>1, ClosedKeeps
    <2>3. NextNormal(base, s.cycle.due) \in Scope
        BY <1>1, NextNormalOpens DEF Opens, Sound
    <2>. QED
        BY <1>1, <2>1, <2>2, <2>3, NextNormalBegins
<1>5. ASSUME s.cycle.type \in Reducing, NEW q \in Scope, Begun(q, s.cycle.due)
      PROVE  Deserved(q, mutes, k)
    <2>1. \A i \in DOMAIN mutes : i # k => mutes[i].at <= s.cycle.due
        BY <1>5 DEF Deserved, InTime
    <2>. QED
        BY <1>1, <1>5, <2>1, BegunDeserved
<1>6. PICK synced \in Scope : synced = SyncedAt(s, s.cycle.due) /\ Books(synced, Len(mutes))
    BY <1>1, SyncedBooks DEF Recounted
<1>7. CASE s.cycle.type = "stop"
    BY <1>2, <1>3, <1>7 DEF SettleTurn, SettleStop, Actions, Settling
<1>8. CASE s.cycle.type = "final_warning"
    <2>1. PICK p \in Scope : p = [synced EXCEPT !.status = "consulted"] /\ Books(p, Len(mutes))
        <3>1. PICK p \in Scope : p = [synced EXCEPT !.status = "consulted"] /\ SameBooks(synced, p)
            BY <1>6, ConsultedType
        <3>. QED
            BY <1>1, <1>6, <3>1, SameBooksKept
    <2>2. PICK next \in Scope :
            /\ next = NextNormal([CloseCycle(Reduce(p, 2)) EXCEPT !.tag = "none"], s.cycle.due)
            /\ Begun(next, s.cycle.due)
        BY <1>4, <1>8, <2>1 DEF Reducing
    <2>3. PICK asked \in Scope : /\ asked = Ask(next, "final_warning_recovery_review")
                                 /\ Begun(asked, s.cycle.due)
        <3>1. Ask(next, "final_warning_recovery_review") \in Scope
            BY ONLY <2>2 DEF Ask, Scope, Actions
        <3>. QED
            BY <2>2, <3>1, AskGoesOn DEF Actions
    <2>4. SettleTurn(s) = IF "remove_member" \in s.pending THEN Await(s)
                          ELSE IF Current(synced) < 2 THEN asked ELSE next
        BY <1>6, <1>8, <2>1, <2>2, <2>3 DEF SettleTurn, SettleFinal, Settling
    <2>5. Deserved(asked, mutes, k) /\ Deserved(next, mutes, k)
        BY <1>5, <1>8, <2>2, <2>3 DEF Reducing
    <2>. QED
        BY <1>2, <1>3, <1>8, <2>4, <2>5
<1>9. CASE s.cycle.type \in Settling
    <2>1. PICK good \in Scope : good = SettleGood(s) /\ Begun(good, s.cycle.due)
        BY <1>4, <1>6, <1>9 DEF SettleGood, Reducing
    <2>2. ~ s.cycle.rejected
        BY <1>9 DEF Deserved, Numbered
    <2>3. SettleTurn(s) = IF s.pending \cap {"stop_suggestion", "duration_review"} # {} THEN Await(s)
                          ELSE IF ~ Good(s.cycle) THEN Await(Ask(s, "stop_suggestion")) ELSE good
        BY <1>9, <2>1, <2>2 DEF SettleTurn, SettleCycle, Settling
    <2>4. Deserved(good, mutes, k)
        BY <1>5, <1>9, <2>1 DEF Reducing
    <2>5. "stop_suggestion" \in Actions
        BY DEF Actions
    <2>. QED
        BY <1>2, <1>3, <1>9, <2>3, <2>4, <2>5
<1>. QED
    BY <1>1, <1>7, <1>8, <1>9, ActiveCycle DEF Keeps, CycleTypes, Settling

\* The record under way comes after the end of a cycle that is settled before it.
LEMMA SettleEarns ==
    ASSUME IInv, JInv, Deserved(scope, mutes, UnderWay), Settle
    PROVE  /\ Deserved(scope', mutes', UnderWay')
           /\ Reduces => Earns
<1>1. /\ mutes \in Seq(Mute) /\ Keeps(scope, scope) /\ scope \in Scope /\ now \in Nat
      /\ Len(mutes) \in Nat /\ DOMAIN mutes = 1..Len(mutes)
    BY KeepsSelf, LenProperties DEF IInv, Sound, Keeps
<1>2. /\ scope.cycle.status = "active" /\ scope.cycle.due <= now
      /\ op.kind = "mute" => scope.cycle.due < now
      /\ scope' = SettleTurn(scope) /\ mutes' = mutes /\ UnderWay' = UnderWay
    <2>1. scope.cycle.due \in Nat
        BY <1>1 DEF Scope, Cycle
    <2>. QED
        BY <1>1, <2>1 DEF Settle, Overdue, UnderWay
<1>3. scope.cycle.type # "none" /\ scope.cycle.due \in Nat /\ scope.cycle.normalLight \in Nat
    BY <1>1, <1>2 DEF Keeps, Sound, Scope, Cycle
<1>4. /\ Deserved(scope', mutes', UnderWay')
      /\ Reduces =>
            \/ scope.cycle.type = "final_warning" /\ "remove_member" \notin scope.pending
            \/ /\ scope.cycle.type \in Settling
               /\ scope.pending \cap {"stop_suggestion", "duration_review"} = {}
    <2>1. SettleTurn(scope).deduct # scope.deduct \/ ~ Reduces
        <3>1. scope.deduct \in Nat
            BY <1>1 DEF Scope
        <3>. QED
            BY <1>2, <3>1 DEF Reduces
    <2>. QED
        BY <1>1, <1>2, <1>3, <2>1, SettleTurnDeserved
<1> DEFINE c == scope.cycle
           light == {i \in Within(c) : mutes[i].sev = "light"}
<1>5. Within(c) \subseteq During(c, mutes, UnderWay)
    <2>1. ASSUME NEW i \in Within(c) PROVE i # UnderWay
        <3>1. i \in 1..Len(mutes) /\ mutes[i].at <= scope.cycle.due
            BY <1>1 DEF Within
        <3>2. mutes[i].at \in Nat
            BY <1>1, <3>1, RecordFields
        <3>. QED
            BY <1>1, <1>2, <1>3, <3>1, <3>2 DEF UnderWay, JInv
    <2>. QED
        BY <1>1, <1>3, <2>1, RecordFields DEF Within, During, Scope, Cycle
<1>6. Cardinality(light) <= Cardinality(LightIn(c, mutes, UnderWay)) /\ Cardinality(light) \in Nat
      /\ Cardinality(LightIn(c, mutes, UnderWay)) \in Nat
    <2>1. IsFiniteSet(1..Len(mutes)) /\ LightIn(c, mutes, UnderWay) \in SUBSET (1..Len(mutes))
        BY <1>1, FS_Interval DEF LightIn, During
    <2>2. IsFiniteSet(LightIn(c, mutes, UnderWay)) /\ light \in SUBSET LightIn(c, mutes, UnderWay)
        BY <1>5, <2>1, FS_Subset DEF LightIn
    <2>. QED
        BY <2>2, FS_Subset, FS_CardinalityType
<1>7. ASSUME Reduces PROVE Earns
    <2>1. CASE scope.cycle.type = "final_warning" /\ "remove_member" \notin scope.pending
        <3>1. \A i \in Within(c) : mutes[i].sev = "unknown"
            BY <1>5, <2>1 DEF Deserved, Noticed
        <3>2. light = {}
            BY <3>1
        <3>3. Cardinality(light) <= 2
            BY <3>2, FS_EmptySet
        <3>. QED
            BY <1>2, <2>1, <3>1, <3>3 DEF Earns, Settling
    <2>2. CASE /\ scope.cycle.type \in Settling
               /\ scope.pending \cap {"stop_suggestion", "duration_review"} = {}
        <3>1. \A i \in Within(c) : mutes[i].sev # "severe" /\ mutes[i].sev # "unknown"
            BY <1>5, <2>2 DEF Deserved, Noticed
        <3>2. /\ ~ (scope.cycle.normalLight >= 3)
              /\ Cardinality(LightIn(c, mutes, UnderWay)) <= scope.cycle.normalLight
            BY <2>2 DEF Deserved, Numbered
        <3>3. Cardinality(light) <= 2
            <4>. HIDE DEF light, c
            <4>. QED
                BY <1>3, <1>6, <3>2
        <3>. QED
            BY <1>2, <2>2, <3>1, <3>3 DEF Earns, Settling
    <2>. QED
        BY <1>4, <1>7, <2>1, <2>2
<1>. QED
    BY <1>4, <1>7

LEMMA ElsewhereDeserved ==
    ASSUME NEW q, q.cycle.type \notin Reducing, NEW ms, NEW k
    PROVE  Deserved(q, ms, k)
BY DEF Deserved, InTime, Noticed, Numbered, Reducing, Settling

\* Before their input is applied, transactions change nothing that counts here.
LEMMA QuietDeserved ==
    ASSUME IInv, Deserved(scope, mutes, UnderWay),
           Tick \/ BeginMaintenance \/ EndMaintenance \/ \E to \in Targets : BeginStatus(to)
    PROVE  /\ Deserved(scope', mutes', UnderWay')
           /\ scope'.deduct = scope.deduct
<1>1. scope \in Scope
    BY DEF IInv, Sound
<1>2. mutes' = mutes /\ op.kind # "mute" /\ op'.kind # "mute"
    BY IdleType DEF Tick, BeginMaintenance, EndMaintenance, BeginStatus, ReadyFor, Idle
<1>3. scope'.cycle = scope.cycle /\ scope'.pending = scope.pending /\ scope'.deduct = scope.deduct
    BY <1>1 DEF Tick, BeginMaintenance, EndMaintenance, BeginStatus, Synced, Scope
<1>4. GoesOn(scope, scope')
    BY <1>3 DEF GoesOn
<1>. QED
    BY <1>2, <1>3, <1>4, GoesOnDeserved DEF UnderWay

\* The decisions on stops end a stop, or begin one.
LEMMA CommandDeserved ==
    ASSUME IInv, IInv', JInv, StartStop \/ ClearStop \/ RenewStop
    PROVE  Deserved(scope', mutes', UnderWay')
<1>1. /\ scope \in Scope /\ now \in Nat /\ mutes \in Seq(Mute) /\ scope' \in Scope
      /\ scope.cycle \in Cycle /\ scope.cycle.due \in Nat /\ scope.cycle.seq + 1 \in Nat
      /\ Books(scope, Len(mutes)) /\ Len(mutes) \in Nat
    <2>1. scope \in Scope /\ scope' \in Scope
        BY DEF IInv, Sound
    <2>2. scope.cycle \in Cycle
        BY <2>1 DEF Scope
    <2>. QED
        BY <2>1, <2>2, LenProperties DEF IInv, Cycle
<1>2. ASSUME NEW base \in Scope, NEW at \in Nat, NEW seq \in Nat
      PROVE  StartCycle(base, "stop", at, seq).cycle.type \in {"stop", "none"}
             /\ StartCycle(base, "stop", at, seq) \in Scope
    <2>1. Opens(base, StartCycle(base, "stop", at, seq), "stop")
        BY StartCycleOpens DEF CycleTypes
    <2>. QED
        BY <2>1 DEF Opens, Sound
<1>3. ASSUME NEW actions PROVE Resolve(CloseCycle(scope), actions) \in Scope
    BY <1>1, ResolvedKeeps
<1>4. CASE StartStop
    <2>1. scope'.cycle.type \in {"stop", "none"}
        BY <1>1, <1>2, <1>3, <1>4 DEF StartStop
    <2>. QED
        BY <2>1, ElsewhereDeserved DEF Reducing, Settling
<1>5. CASE RenewStop
    <2>1. PICK next \in Scope : next = Renewed(scope) /\ next.cycle.type \in {"stop", "none"}
        BY <1>1, <1>2, <1>3 DEF Renewed
    <2>2. PICK light, severe :
            scope' = [next EXCEPT !.cycle.light = light, !.cycle.severe = severe]
        BY <1>5, <2>1 DEF RenewStop
    <2>3. scope'.cycle.type = next.cycle.type
        BY ONLY <2>1, <2>2 DEF Scope, Cycle
    <2>. QED
        BY <2>1, <2>3, ElsewhereDeserved DEF Reducing, Settling
<1>6. CASE ClearStop
    <2>1. PICK synced \in Scope : synced = Synced(scope) /\ Books(synced, Len(mutes))
        BY <1>1, SyncedBooks DEF Recounted
    <2>2. PICK reduced \in Scope : reduced = Reduce(synced, 1)
        BY <1>1, <2>1, ReduceBooks
    <2>3. PICK base \in Scope : /\ base = Resolve(CloseCycle(reduced), {"stop_decision"})
                                /\ base.cycle.type = "none"
        BY <2>2, ResolvedKeeps
    <2>4. PICK closed \in Scope : closed = [base EXCEPT !.tag = "none"]
        BY <2>3, UntaggedKeeps
    <2>5. scope' = NextNormal(closed, now) /\ mutes' = mutes
        BY <1>6, <2>1, <2>2, <2>3, <2>4 DEF ClearStop
    <2>6. \A i \in DOMAIN mutes : mutes[i].at <= now
        BY DEF JInv, Judging, Marks
    <2>. QED
        BY <1>1, <2>4, <2>5, <2>6, NextNormalBegins, BegunDeserved
<1>. QED
    BY <1>4, <1>5, <1>6

\* A status that is applied leaves the cycle as it is, or begins one now.
LEMMA ApplyStatusDeserved ==
    ASSUME IInv, IInv', JInv, Deserved(scope, mutes, UnderWay), ApplyStatus
    PROVE  /\ Deserved(scope', mutes', UnderWay')
           /\ scope'.deduct = scope.deduct
<1> DEFINE s == [scope EXCEPT !.status = op.to, !.last = op.to]
<1>1. scope \in Scope /\ scope' \in Scope /\ now \in Nat /\ mutes \in Seq(Mute) /\ op.to \in AllStatus
    BY DEF IInv, Sound, Op
<1>2. mutes' = mutes /\ op'.kind = "idle" /\ op.kind = "status"
    BY IdleType DEF ApplyStatus, ReadyFor
<1>3. s \in Scope /\ s.cycle = scope.cycle /\ s.pending = scope.pending /\ s.deduct = scope.deduct
    BY <1>1 DEF Scope
<1>4. scope' = CASE op.to = "gone" -> BecomeGone(s)
                 [] op.to = "warned" -> BecomeWarned(s)
                 [] op.to = "consulted" -> BecomeConsulted(s)
                 [] op.to = "ok" -> BecomeOk(s)
    BY DEF ApplyStatus
<1>. HIDE DEF s
<1>5. GoesOn(scope, s) /\ SameBooks(s, s)
    BY <1>3 DEF GoesOn, SameBooks
<1>6. ASSUME NEW base \in Scope, SameBooks(s, base), NEW type \in CycleTypes
      PROVE  /\ Begun(StartCycle(base, type, now, 0), now)
             /\ SameBooks(s, StartCycle(base, type, now, 0))
    <2>1. Begun(StartCycle(base, type, now, 0), now)
        BY <1>1, <1>6, StartCycleBegins
    <2>2. SameBooks(base, StartCycle(base, type, now, 0))
        BY <1>1, <1>6, StartCycleOpens DEF Opens
    <2>. QED
        BY <1>6, <2>1, <2>2 DEF SameBooks
<1>7. ASSUME NEW actions
      PROVE  /\ Resolve(CloseCycle(s), actions) \in Scope /\ SameBooks(s, Resolve(CloseCycle(s), actions))
             /\ CloseCycle(s) \in Scope /\ SameBooks(s, CloseCycle(s))
    <2>1. PICK closed \in Scope : closed = CloseCycle(s) /\ SameBooks(s, closed)
        BY <1>3, CloseCycleType
    <2>2. Resolve(closed, actions) \in Scope /\ SameBooks(closed, Resolve(closed, actions))
        BY ResolveType
    <2>. QED
        BY <2>1, <2>2 DEF SameBooks
<1>8. SUFFICES /\ GoesOn(scope, scope') \/ Begun(scope', now)
               /\ SameBooks(s, scope')
    <2>1. \A i \in DOMAIN mutes : mutes[i].at <= now
        BY DEF JInv, Judging, Marks
    <2>. QED
        BY <1>1, <1>2, <1>3, <1>8, <2>1, GoesOnDeserved, BegunDeserved DEF UnderWay, SameBooks
<1>9. CASE op.to = "gone"
    <2>1. PICK base \in Scope : base = Resolve(s, Actions) /\ SameBooks(s, base)
        BY <1>3, ResolveType
    <2>2. scope' = SetTerminal(base)
        BY <1>4, <1>9, <2>1 DEF BecomeGone
    <2>3. SetTerminal(base).cycle.type = "none" /\ SameBooks(base, SetTerminal(base))
        BY NoCycleType DEF SetTerminal, Scope, SameBooks
    <2>. QED
        BY <2>1, <2>2, <2>3 DEF Begun, Reducing, Settling, SameBooks
<1>10. CASE op.to = "warned"
    BY <1>4, <1>6, <1>7, <1>10 DEF BecomeWarned, CycleTypes
<1>11. CASE op.to = "consulted"
    BY <1>4, <1>6, <1>7, <1>11 DEF BecomeConsulted, CycleTypes
<1>12. CASE op.to = "ok"
    <2>1. scope' = BecomeOk(s)
        BY <1>4, <1>12
    <2>2. PICK base \in Scope :
            /\ base = Resolve(CloseCycle(s), {"stop_suggestion", "stop_decision", "remove_member"})
            /\ SameBooks(s, base)
        BY <1>7
    <2>3. PICK type \in {"normal", "slow"} :
            scope' = IF ~ Recovering(s) THEN s ELSE StartCycle(base, type, now, 0)
        BY <2>1, <2>2 DEF BecomeOk
    <2>. QED
        BY <1>5, <1>6, <2>2, <2>3 DEF CycleTypes
<1>. QED
    BY <1>1, <1>9, <1>10, <1>11, <1>12 DEF AllStatus

\* The record of a mute that begins is the one under way.
LEMMA BeginMuteDeserved ==
    ASSUME IInv, Deserved(scope, mutes, UnderWay), NEW sev \in Severities, BeginMute(sev)
    PROVE  Deserved(scope', mutes', UnderWay')
<1>1. /\ mutes \in Seq(Mute) /\ scope \in Scope /\ now \in Nat /\ sev \in AllSeverities
      /\ Len(mutes) \in Nat /\ DOMAIN mutes = 1..Len(mutes)
    BY LenProperties, InputsAssumption DEF IInv, Sound
<1>2. PICK m \in Mute : m = [at |-> now, sev |-> sev, owner |-> 0, after |-> 0]
    <2>1. [at |-> now, sev |-> sev, owner |-> 0, after |-> 0] \in Mute
        BY ONLY <1>1 DEF Mute
    <2>. QED
        BY <2>1
<1>3. mutes' = Append(mutes, m) /\ op.kind = "idle" /\ op'.kind = "mute"
    BY <1>2, IdleType DEF BeginMute, Idle
<1>4. scope'.cycle = scope.cycle /\ scope'.pending = scope.pending
    BY <1>1 DEF BeginMute, Scope
<1>5. /\ Len(mutes') = Len(mutes) + 1 /\ mutes' \in Seq(Mute)
      /\ \A i \in 1..Len(mutes) : mutes'[i] = mutes[i]
    BY <1>1, <1>3, AppendProperties
<1>6. DOMAIN mutes' = 1..(Len(mutes) + 1)
    BY <1>1, <1>5, LenProperties
<1>7. UnderWay = 0 /\ UnderWay' = Len(mutes) + 1
    BY <1>3, <1>5 DEF UnderWay
<1>8. \A i \in DOMAIN mutes' : i # UnderWay' => i \in DOMAIN mutes /\ i # 0 /\ mutes'[i] = mutes[i]
    BY <1>1, <1>5, <1>6, <1>7
<1>9. \A i \in DOMAIN mutes : i \in DOMAIN mutes' /\ i # UnderWay' /\ i # 0
    BY <1>1, <1>6, <1>7
<1>10. /\ During(scope'.cycle, mutes', UnderWay') = During(scope.cycle, mutes, 0)
       /\ LightIn(scope'.cycle, mutes', UnderWay') = LightIn(scope.cycle, mutes, 0)
    BY <1>4, <1>8, <1>9 DEF During, LightIn
<1>11. Deserved(scope, mutes, 0)
    BY <1>7
<1>12. InTime(scope', mutes', UnderWay')
    BY <1>4, <1>8, <1>11 DEF Deserved, InTime
<1>13. Noticed(scope', mutes', UnderWay')
    <2>1. \A i \in During(scope.cycle, mutes, 0) : mutes'[i] = mutes[i]
        BY <1>1, <1>5 DEF During
    <2>. QED
        BY <1>4, <1>10, <1>11, <2>1 DEF Deserved, Noticed
<1>14. Numbered(scope', mutes', UnderWay')
    BY <1>4, <1>10, <1>11 DEF Deserved, Numbered
<1>. QED
    BY <1>12, <1>13, <1>14 DEF Deserved

\* The last record is counted in a cycle that can end in a reduction, or asked about.
LEMMA IncludedDeserved ==
    ASSUME NEW ms \in Seq(Mute), NEW n \in Nat, DOMAIN ms = 1..n, n > 0,
           NEW s \in Scope, NEW q \in Scope, Deserved(s, ms, n),
           s.cycle.type \in Settling, q.cycle.type \in Settling,
           q.cycle.start = s.cycle.start, s.cycle.due <= q.cycle.due,
           q.cycle.status = s.cycle.status, q.cycle.rejected = s.cycle.rejected,
           q.cycle.normalLight = s.cycle.normalLight + One(ms[n].sev, "light"),
           q.cycle.type = "normal" => q.cycle.due = q.cycle.start + NormalLen,
           q.cycle.status = "active" => ms[n].at <= q.cycle.due,
           s.pending \subseteq q.pending,
           ms[n].sev = "severe" \/ q.cycle.normalLight >= 3 => "stop_suggestion" \in q.pending,
           ms[n].sev = "unknown" => "duration_review" \in q.pending
    PROVE  Deserved(q, ms, 0)
<1>1. /\ s.cycle.due \in Nat /\ q.cycle.due \in Nat /\ s.cycle.normalLight \in Nat
      /\ s.cycle \in Cycle /\ q.cycle \in Cycle
    BY DEF Scope, Cycle
<1>2. /\ \A i \in DOMAIN ms : ms[i].at \in Nat
      /\ \A i \in During(q.cycle, ms, 0) : i = n \/ i \in During(s.cycle, ms, n)
      /\ \A i \in LightIn(q.cycle, ms, 0) : i \in LightIn(s.cycle, ms, n) \/ (i = n /\ ms[n].sev = "light")
    BY RecordFields DEF During, LightIn
<1>3. InTime(q, ms, 0)
    <2>1. SUFFICES ASSUME q.cycle.status = "active", NEW i \in DOMAIN ms
                   PROVE  ms[i].at <= q.cycle.due
        BY DEF InTime
    <2>2. i # n => ms[i].at <= s.cycle.due
        BY <2>1 DEF Deserved, InTime, Reducing
    <2>. QED
        BY <1>1, <1>2, <2>1, <2>2
<1>4. Noticed(q, ms, 0)
    <2>1. \A i \in During(q.cycle, ms, 0) :
            /\ ms[i].sev = "severe" => "stop_suggestion" \in q.pending
            /\ ms[i].sev = "unknown" => "duration_review" \in q.pending
        BY <1>2 DEF Deserved, Noticed
    <2>. QED
        BY <2>1 DEF Noticed, Settling
<1>5. Cardinality(LightIn(q.cycle, ms, 0)) <= q.cycle.normalLight
    <2>1. /\ IsFiniteSet(LightIn(s.cycle, ms, n)) /\ Cardinality(LightIn(s.cycle, ms, n)) \in Nat
          /\ Cardinality(LightIn(s.cycle, ms, n)) <= s.cycle.normalLight
        <3>1. IsFiniteSet(1..n) /\ LightIn(s.cycle, ms, n) \in SUBSET (1..n)
            BY FS_Interval DEF LightIn, During
        <3>. QED
            BY <3>1, FS_Subset, FS_CardinalityType DEF Deserved, Numbered
    <2>2. CASE ms[n].sev = "light"
        <3>1. /\ IsFiniteSet(LightIn(s.cycle, ms, n) \cup {n})
              /\ Cardinality(LightIn(s.cycle, ms, n) \cup {n}) <= Cardinality(LightIn(s.cycle, ms, n)) + 1
            <4>1. PICK S : /\ S = LightIn(s.cycle, ms, n)
                           /\ Cardinality(S) \in Nat /\ IsFiniteSet(S)
                BY <2>1
            <4>2. IsFiniteSet(S \cup {n}) /\ Cardinality(S \cup {n}) \in {Cardinality(S), Cardinality(S) + 1}
                BY ONLY <4>1, FS_AddElement
            <4>3. Cardinality(S \cup {n}) <= Cardinality(S) + 1
                BY ONLY <4>1, <4>2
            <4>. QED
                BY ONLY <4>1, <4>2, <4>3
        <3>2. LightIn(q.cycle, ms, 0) \in SUBSET (LightIn(s.cycle, ms, n) \cup {n})
            BY <1>2
        <3>3. /\ Cardinality(LightIn(q.cycle, ms, 0)) \in Nat
              /\ Cardinality(LightIn(s.cycle, ms, n) \cup {n}) \in Nat
              /\ Cardinality(LightIn(q.cycle, ms, 0)) <= Cardinality(LightIn(s.cycle, ms, n) \cup {n})
            BY <3>1, <3>2, FS_Subset, FS_CardinalityType
        <3>4. q.cycle.normalLight = s.cycle.normalLight + 1
            BY <2>2 DEF One
        <3>. QED
            BY ONLY <1>1, <2>1, <3>1, <3>3, <3>4
    <2>3. CASE ms[n].sev # "light"
        <3>1. LightIn(q.cycle, ms, 0) \in SUBSET LightIn(s.cycle, ms, n)
            BY <1>2, <2>3
        <3>2. /\ Cardinality(LightIn(q.cycle, ms, 0)) <= Cardinality(LightIn(s.cycle, ms, n))
              /\ Cardinality(LightIn(q.cycle, ms, 0)) \in Nat
            BY <2>1, <3>1, FS_Subset, FS_CardinalityType
        <3>3. q.cycle.normalLight = s.cycle.normalLight
            BY <1>1, <2>3 DEF One
        <3>. QED
            BY ONLY <1>1, <2>1, <3>2, <3>3
    <2>. QED
        BY <2>2, <2>3
<1>6. Numbered(q, ms, 0)
    BY <1>5 DEF Numbered, Deserved
<1>. QED
    BY <1>3, <1>4, <1>6 DEF Deserved

\* An input that is applied finds no open cycle that ended before it.
LEMMA NotOverdue ==
    ASSUME scope \in Scope, now \in Nat, ReadyFor("mute"), scope.cycle.status = "active"
    PROVE  now <= scope.cycle.due
<1>1. scope.cycle.due \in Nat
    BY DEF Scope, Cycle
<1>. QED
    BY <1>1 DEF ReadyFor, Overdue

\* A mute of unknown length is counted nowhere and asked about.
LEMMA ApplyUnknownDeserved ==
    ASSUME IInv, JInv, Deserved(scope, mutes, UnderWay), ApplyUnknown
    PROVE  /\ Deserved(scope', mutes', UnderWay')
           /\ scope'.deduct = scope.deduct
<1>1. PICK n \in Nat : n = Len(mutes) /\ DOMAIN mutes = 1..n
    BY LenProperties DEF IInv
<1>2. scope \in Scope /\ now \in Nat /\ mutes \in Seq(Mute) /\ scope.cycle \in Cycle
    BY DEF IInv, Sound, Scope
<1>3. mutes' = mutes /\ op.kind = "mute" /\ UnderWay = n /\ UnderWay' = 0
    BY <1>1, IdleType DEF ApplyUnknown, ReadyFor, UnderWay
<1>4. n > 0 /\ mutes[n].at = now /\ mutes[n].sev = "unknown"
    BY <1>1, <1>3 DEF IInv, Unmarked, JInv, ApplyUnknown
<1>5. PICK synced \in Scope : /\ synced = Synced(scope) /\ synced.cycle = scope.cycle
                              /\ synced.pending = scope.pending /\ synced.deduct = scope.deduct
    <2>1. LET q == [scope EXCEPT !.total = n] IN
          /\ q \in Scope /\ q.cycle = scope.cycle /\ q.pending = scope.pending
          /\ q.deduct = scope.deduct
        BY ONLY <1>1, <1>2 DEF Scope
    <2>. QED
        BY <1>1, <2>1 DEF Synced
<1>6. /\ scope' \in Scope /\ scope'.cycle = scope.cycle /\ scope'.deduct = scope.deduct
      /\ scope'.pending = scope.pending \cup {"duration_review"}
    BY <1>5 DEF ApplyUnknown, Ask, Scope, Actions
<1>7. scope.cycle.status = "active" => now <= scope.cycle.due
    BY <1>2, NotOverdue DEF ApplyUnknown
<1>8. CASE scope.cycle.type \in Settling
    <2>1. /\ scope.cycle.normalLight \in Nat /\ scope.cycle.due \in Nat
        BY <1>2 DEF Cycle
    <2>2. /\ scope'.cycle.normalLight = scope.cycle.normalLight + One("unknown", "light")
          /\ scope.cycle.normalLight >= 3 => "stop_suggestion" \in scope'.pending
          /\ scope'.cycle.type = "normal" => scope'.cycle.due = scope'.cycle.start + NormalLen
        BY <1>3, <1>6, <1>8, <2>1 DEF One, Deserved, Numbered
    <2>3. PICK q \in Scope : /\ q = scope' /\ q.cycle = scope.cycle
                             /\ q.pending = scope.pending \cup {"duration_review"}
        BY <1>6
    <2>4. /\ scope.cycle.due <= q.cycle.due
          /\ q.cycle.status = "active" => mutes[n].at <= q.cycle.due
          /\ mutes[n].sev = "severe" \/ q.cycle.normalLight >= 3 => "stop_suggestion" \in q.pending
          /\ scope.pending \subseteq q.pending /\ "duration_review" \in q.pending
          /\ q.cycle.normalLight = scope.cycle.normalLight + One(mutes[n].sev, "light")
          /\ q.cycle.type = "normal" => q.cycle.due = q.cycle.start + NormalLen
        <3>1. scope.cycle.due <= q.cycle.due
            BY <2>1, <2>3
        <3>2. q.cycle.status = "active" => mutes[n].at <= q.cycle.due
            BY <1>4, <1>7, <2>3
        <3>3. /\ mutes[n].sev = "severe" \/ q.cycle.normalLight >= 3 => "stop_suggestion" \in q.pending
              /\ q.cycle.normalLight = scope.cycle.normalLight + One(mutes[n].sev, "light")
              /\ q.cycle.type = "normal" => q.cycle.due = q.cycle.start + NormalLen
            BY <1>4, <2>2, <2>3
        <3>4. scope.pending \subseteq q.pending /\ "duration_review" \in q.pending
            BY <2>3
        <3>. QED
            BY ONLY <3>1, <3>2, <3>3, <3>4
    <2>5. /\ q.cycle.type \in Settling /\ q.cycle.start = scope.cycle.start
          /\ q.cycle.status = scope.cycle.status /\ q.cycle.rejected = scope.cycle.rejected
          /\ Deserved(scope, mutes, n)
        BY <1>3, <1>8, <2>3
    <2>6. Deserved(q, mutes, 0)
        BY ONLY <1>1, <1>2, <1>4, <1>8, <2>3, <2>4, <2>5, IncludedDeserved
    <2>. QED
        BY <1>3, <1>6, <2>3, <2>6
<1>9. CASE scope.cycle.type = "final_warning"
    <2>1. InTime(scope', mutes, 0)
        BY <1>1, <1>3, <1>4, <1>6, <1>7, <1>9 DEF InTime, Deserved
    <2>2. Noticed(scope', mutes, 0)
        BY <1>1, <1>3, <1>4, <1>6, <1>9 DEF Noticed, Deserved, During, Settling
    <2>3. Numbered(scope', mutes, 0)
        BY <1>6, <1>9 DEF Numbered, Settling
    <2>. QED
        BY <1>3, <1>6, <2>1, <2>2, <2>3 DEF Deserved
<1>10. CASE scope.cycle.type \notin Reducing
    BY <1>3, <1>6, <1>10, ElsewhereDeserved
<1>. QED
    BY <1>8, <1>9, <1>10 DEF Reducing

\* A mute of known length starts a cycle, is counted in the one that is open, or puts
\* the removal of the member before the administrators.
LEMMA ApplyMuteDeserved ==
    ASSUME IInv, IInv', JInv, Deserved(scope, mutes, UnderWay), ApplyMute
    PROVE  /\ Deserved(scope', mutes', UnderWay')
           /\ scope'.deduct = scope.deduct
<1>1. PICK n : n = Len(mutes)
    OBVIOUS
<1>2. /\ mutes \in Seq(Mute) /\ scope \in Scope /\ now \in Nat /\ n \in Nat /\ DOMAIN mutes = 1..n
      /\ Len(mutes) \in Nat /\ scope' \in Scope /\ Books(scope, n)
    BY <1>1, LenProperties DEF IInv, Sound
<1>3. /\ op.kind = "mute" /\ UnderWay = n /\ UnderWay' = 0
      /\ n > 0 /\ n \in 1..n /\ mutes[n].at = now
    <2>1. op.kind = "mute" /\ op'.kind = "idle"
        BY IdleType DEF ApplyMute, ReadyFor
    <2>. QED
        BY <1>1, <1>2, <2>1 DEF UnderWay, IInv, Unmarked, JInv
<1>4. PICK synced : /\ synced = Synced(scope) /\ Keeps(synced, synced)
                    /\ synced \in Scope /\ synced.cycle = scope.cycle
                    /\ synced.pending = scope.pending /\ synced.deduct = scope.deduct
    <2>1. Recounted(scope, Synced(scope))
        BY <1>1, <1>2, SyncedBooks
    <2>2. Synced(scope).deduct = scope.deduct /\ Synced(scope).pending = scope.pending
        BY <1>2 DEF Synced, Scope
    <2>. QED
        BY <2>1, <2>2, RecountedSound DEF IInv, Recounted, Keeps, Sound, SameBooks
<1>5. PICK s : s = Opened(synced) /\ Keeps(s, s) /\ s \in Scope
               /\ (s.status = "warned" => s.cycle.type # "none")
    BY <1>2, <1>4, OpenedKeeps, KeepsSelf DEF Keeps, Sound
<1>6. /\ s.deduct = scope.deduct
      /\ s = synced \/ s.cycle.type = "final_warning"
    <2>1. Opens(synced, StartCycle(synced, "final_warning", 0, 0), "final_warning")
        BY <1>4, StartCycleOpens DEF CycleTypes
    <2>. QED
        BY <1>4, <1>5, <2>1 DEF Opened, Opens, SameBooks
<1>7. PICK sev : sev = mutes[n].sev /\ sev \in {"light", "severe"}
    <2>1. mutes[n].sev \in AllSeverities
        <3>1. mutes[n] \in Mute
            BY <1>2, <1>3
        <3>. QED
            BY <3>1 DEF Mute
    <2>2. mutes[n].sev # "unknown"
        BY <1>1 DEF ApplyMute
    <2>. QED
        BY <2>1, <2>2 DEF AllSeverities
<1>8. /\ s.status = "gone" => scope' = SetTerminal(s) /\ mutes' = mutes
      /\ s.status # "gone" => /\ scope' = AfterMute(s, sev)
                              /\ mutes' = [mutes EXCEPT ![n] = Marked(@, s)]
    BY <1>1, <1>4, <1>5, <1>7 DEF ApplyMute
<1>9. SUFFICES /\ Deserved(scope', mutes, 0)
               /\ scope'.deduct = s.deduct
    <2>1. Marked(mutes[n], s).at = mutes[n].at /\ Marked(mutes[n], s).sev = mutes[n].sev
        <3>1. mutes[n] \in Mute
            BY <1>2, <1>3
        <3>. QED
            BY <3>1 DEF Marked, Mute
    <2>2. DOMAIN mutes' = DOMAIN mutes /\ \A i \in DOMAIN mutes :
            mutes'[i].at = mutes[i].at /\ mutes'[i].sev = mutes[i].sev
        BY <1>2, <1>3, <1>8, <2>1
    <2>. QED
        BY <1>3, <1>6, <1>9, <2>2, SameRecords
<1>10. CASE s.status = "gone"
    <2>1. scope'.cycle.type = "none" /\ scope'.deduct = s.deduct
        BY <1>5, <1>8, <1>10, SetTerminalSound DEF SameBooks
    <2>. QED
        BY <2>1, ElsewhereDeserved DEF Reducing, Settling
<1>11. PICK q \in Scope : /\ q = CountInStop(s, sev) /\ q.deduct = s.deduct /\ q.cycle.type = s.cycle.type
    <2>1. CountInStop(s, sev).deduct = s.deduct
        BY <1>5 DEF CountInStop, Scope
    <2>. QED
        BY <1>5, <2>1, CountInStopKeeps DEF Keeps, Sound
<1>12. CASE s.status # "gone" /\ s.cycle.type = "stop"
    <2>1. scope'.cycle.type = "stop" /\ scope'.deduct = s.deduct
        BY <1>8, <1>11, <1>12 DEF AfterMute
    <2>. QED
        BY <2>1, ElsewhereDeserved DEF Reducing, Settling
<1>13. CASE s.status # "gone" /\ s.cycle.type = "final_warning"
    <2>1. scope' = Await(Ask(q, "remove_member"))
        BY <1>8, <1>11, <1>13 DEF AfterMute, CountInFinal
    <2>2. PICK asked \in Scope : /\ asked = Ask(q, "remove_member") /\ "remove_member" \in asked.pending
                                 /\ asked.deduct = q.deduct /\ asked.cycle = q.cycle
        <3>1. LET asked == Ask(q, "remove_member") IN
              /\ asked \in Scope /\ "remove_member" \in asked.pending
              /\ asked.deduct = q.deduct /\ asked.cycle = q.cycle
            BY ONLY <1>11 DEF Ask, Scope, Actions
        <3>. QED
            BY <3>1
    <2>3. /\ scope'.cycle.type = "final_warning" /\ scope'.cycle.status = "pending_decision"
          /\ "remove_member" \in scope'.pending /\ scope'.deduct = s.deduct
        <3>1. /\ Await(asked).cycle.type = asked.cycle.type
              /\ Await(asked).cycle.status = "pending_decision"
              /\ Await(asked).pending = asked.pending /\ Await(asked).deduct = asked.deduct
            BY ONLY <2>2 DEF Await, Scope, Cycle
        <3>. QED
            BY <1>11, <1>13, <2>1, <2>2, <3>1
    <2>. QED
        BY <2>3 DEF Deserved, InTime, Noticed, Numbered, Settling
<1>14. CASE /\ s.status # "gone" /\ s.cycle.type \notin {"stop", "final_warning"}
            /\ s.ops >= MaxOps
    <2>1. scope' = SetNoCycle(s, "operation_limit")
        BY <1>8, <1>14 DEF AfterMute
    <2>2. scope'.cycle.type = "none" /\ scope'.deduct = s.deduct
        BY <1>5, <2>1, SetNoCycleSound DEF SameBooks
    <2>. QED
        BY <2>2, ElsewhereDeserved DEF Reducing, Settling
<1>15. CASE /\ s.status # "gone" /\ s.cycle.type = "none" /\ ~ (s.ops >= MaxOps)
    <2>1. PICK type \in Settling : scope' = IF sev = "severe"
                                            THEN Ask(StartCycle(s, type, now, 0), "stop_suggestion")
                                            ELSE StartCycle(s, type, now, 0)
        BY <1>8, <1>15 DEF AfterMute, MuteStarts, Settling
    <2>2. PICK r \in Scope : r = StartCycle(s, type, now, 0) /\ Begun(r, now) /\ r.deduct = s.deduct
        <3>1. Opens(s, StartCycle(s, type, now, 0), type) /\ Begun(StartCycle(s, type, now, 0), now)
            BY <1>2, <1>5, StartCycleOpens, StartCycleBegins DEF CycleTypes, Settling
        <3>. QED
            BY <3>1 DEF Opens, Sound, SameBooks
    <2>3. Begun(Ask(r, "stop_suggestion"), now) /\ Ask(r, "stop_suggestion").deduct = r.deduct
        BY <2>2, AskGoesOn DEF Actions, Ask, Scope
    <2>4. Begun(scope', now) /\ scope'.deduct = s.deduct
        BY <2>1, <2>2, <2>3
    <2>5. \A i \in DOMAIN mutes : i # 0 => mutes[i].at <= now
        BY DEF JInv, Judging, Marks
    <2>. QED
        BY <1>2, <2>4, <2>5, BegunDeserved
<1>16. CASE s.status # "gone" /\ s.cycle.type \in Settling /\ ~ (s.ops >= MaxOps)
    <2>1. s = synced /\ scope' = MuteCounts(s, sev)
        BY <1>6, <1>8, <1>16 DEF AfterMute, Settling
    <2>2. PICK r \in Scope :
            /\ Advances(s, r) /\ r.cycle.normalLight = s.cycle.normalLight + One(sev, "light")
            /\ scope' = IF sev = "severe" \/ r.cycle.normalLight >= 3 \/ r.cycle.slowLight >= 3
                        THEN Ask(r, "stop_suggestion") ELSE r
        BY <1>5, <1>16, <2>1, MuteCountsCycle
    <2>3. PICK p \in Scope : /\ p = scope' /\ p.cycle = r.cycle /\ p.deduct = s.deduct
                             /\ s.pending \subseteq p.pending
                             /\ sev = "severe" \/ p.cycle.normalLight >= 3 => "stop_suggestion" \in p.pending
        <3>1. LET asked == Ask(r, "stop_suggestion") IN
              /\ asked.cycle = r.cycle /\ asked.deduct = r.deduct
              /\ asked.pending = r.pending \cup {"stop_suggestion"}
            BY DEF Ask, Scope
        <3>2. scope'.cycle = r.cycle /\ scope'.deduct = r.deduct /\ r.pending \subseteq scope'.pending
              /\ (sev = "severe" \/ r.cycle.normalLight >= 3 => "stop_suggestion" \in scope'.pending)
            BY <2>2, <3>1
        <3>. QED
            BY <1>2, <2>2, <3>2 DEF Advances
    <2>4. Deserved(s, mutes, n)
        <3>1. GoesOn(scope, s)
            BY <1>4, <2>1 DEF GoesOn
        <3>. QED
            BY <1>3, <3>1, GoesOnDeserved
    <2>5. /\ s.cycle.due \in Nat /\ p.cycle.due \in Nat
          /\ s.cycle.type = "normal" => s.cycle.due = s.cycle.start + NormalLen
        <3>1. s.cycle \in Cycle /\ p.cycle \in Cycle
            BY <1>5 DEF Scope
        <3>. QED
            BY <1>16, <2>4, <3>1 DEF Deserved, Numbered, Cycle
    <2>6. /\ p.cycle.type \in Settling /\ p.cycle.start = s.cycle.start /\ s.cycle.due <= p.cycle.due
          /\ p.cycle.status = s.cycle.status /\ p.cycle.rejected = s.cycle.rejected
          /\ p.cycle.type = "normal" => p.cycle.due = p.cycle.start + NormalLen
        BY <2>2, <2>3, <2>5 DEF Advances
    <2>7. p.cycle.status = "active" => mutes[n].at <= p.cycle.due
        <3>1. scope.cycle.status = "active" => now <= scope.cycle.due
            BY <1>2, NotOverdue DEF ApplyMute
        <3>. QED
            BY <1>2, <1>3, <1>4, <2>1, <2>5, <2>6, <3>1
    <2>8. /\ p.cycle.normalLight = s.cycle.normalLight + One(mutes[n].sev, "light")
          /\ mutes[n].sev = "severe" \/ p.cycle.normalLight >= 3 => "stop_suggestion" \in p.pending
          /\ mutes[n].sev # "unknown"
        BY <1>7, <2>2, <2>3
    <2>9. Deserved(p, mutes, 0)
        BY ONLY <1>2, <1>3, <1>5, <1>16, <2>3, <2>4, <2>6, <2>7, <2>8, IncludedDeserved
    <2>. QED
        BY <2>3, <2>9
<1>17. s.cycle.type \in CycleTypes \cup {"none"}
    BY <1>5 DEF Scope, Cycle
<1>. QED
    BY <1>10, <1>12, <1>13, <1>14, <1>15, <1>16, <1>17 DEF CycleTypes, Settling

LEMMA FairStep ==
    ASSUME IInv, IInv', JInv, KInv, [MCNext]_<<vars, refused>>
    PROVE  KInv' /\ (Reduces /\ ~ refused => Earns)
<1>1. scope.deduct \in Nat
    BY DEF IInv, Sound, Scope
<1>2. CASE UNCHANGED <<vars, refused>>
    <2>1. scope' = scope /\ mutes' = mutes /\ op' = op /\ refused' = refused
        BY <1>2 DEF vars
    <2>2. UnderWay' = UnderWay
        BY <2>1 DEF UnderWay
    <2>. QED
        BY <1>1, <2>1, <2>2 DEF KInv, Reduces
<1>3. CASE RejectSuggestion /\ refused' = TRUE
    BY <1>3 DEF KInv, Reduces, RejectSuggestion, Decides
<1>4. CASE refused' = refused /\ refused
    BY <1>4 DEF KInv
<1>5. ASSUME refused' = refused, ~ refused
      PROVE  Deserved(scope, mutes, UnderWay) /\ (Deserved(scope', mutes', UnderWay') => KInv')
    BY <1>5 DEF KInv
<1>6. CASE refused' = refused /\ ~ refused /\ Settle
    BY <1>5, <1>6, SettleEarns
<1>7. CASE refused' = refused /\ ~ refused /\ Apply
    <2>1. Deserved(scope', mutes', UnderWay') /\ scope'.deduct = scope.deduct
        BY <1>5, <1>7, ApplyUnknownDeserved, ApplyMuteDeserved, ApplyStatusDeserved, QuietDeserved
           DEF Apply
    <2>. QED
        BY <1>1, <1>5, <1>7, <2>1 DEF Reduces
<1>8. CASE refused' = refused /\ ~ refused /\ (Tick \/ BeginMaintenance \/ Input)
    <2>1. Deserved(scope', mutes', UnderWay')
        BY <1>5, <1>8, QuietDeserved, BeginMuteDeserved DEF Input
    <2>2. op = Idle
        BY <1>8 DEF Tick, BeginMaintenance, Input, BeginMute, BeginStatus
    <2>. QED
        BY <1>5, <1>8, <2>1, <2>2 DEF Reduces
<1>9. CASE refused' = refused /\ ~ refused /\ (StartStop \/ ClearStop \/ RenewStop)
    <2>1. Deserved(scope', mutes', UnderWay')
        BY <1>9, CommandDeserved
    <2>2. op = Idle
        BY <1>9 DEF StartStop, ClearStop, RenewStop, Decides
    <2>. QED
        BY <1>5, <1>9, <2>1, <2>2 DEF Reduces
<1>. QED
    BY <1>2, <1>3, <1>4, <1>6, <1>7, <1>8, <1>9 DEF MCNext

\* At the start all records are of one instant, and a cycle begins at it.
LEMMA InitFair == MCInit => KInv
<1>1. SUFFICES ASSUME NEW n \in Baselines, NEW status \in Targets \cup {"ok"},
                      NEW migrated \in BOOLEAN, IInv,
                      mutes = [i \in 1..n |-> [at |-> 0, sev |-> "light", owner |-> 0, after |-> 0]],
                      scope = IF migrated
                              THEN StartCycle(Fresh(status, n), InitialType(status, n), 0, 0)
                              ELSE Fresh(status, n)
               PROVE  Deserved(scope, mutes, UnderWay)
    BY InitInv DEF MCInit, Init, KInv
<1> DEFINE fresh == Fresh(status, n)
<1>2. /\ n \in Nat /\ status \in AllStatus /\ 0 \in Nat /\ mutes \in Seq(Mute) /\ scope \in Scope
      /\ DOMAIN mutes = 1..n
    BY <1>1, LimitsAssumption, InputsAssumption DEF AllStatus, IInv, Sound
<1>3. fresh \in Scope /\ fresh.cycle = NoCycle
    BY <1>2, NoCycleType DEF Fresh, Scope
<1>4. \A i \in DOMAIN mutes : i # UnderWay => mutes[i].at <= 0
    BY <1>1
<1>5. Begun(scope, 0)
    <2>1. InitialType(status, n) \in CycleTypes
        BY DEF InitialType, CycleTypes
    <2>2. scope = fresh \/ scope = StartCycle(fresh, InitialType(status, n), 0, 0)
        BY <1>1
    <2>3. Begun(fresh, 0)
        BY <1>3, NoCycleType DEF Begun, Reducing, Settling
    <2>. HIDE DEF fresh
    <2>. QED
        BY <1>2, <1>3, <2>1, <2>2, <2>3, StartCycleBegins
<1>. QED
    BY <1>2, <1>4, <1>5, BegunDeserved

\* What is decided stands and what is given was deserved: the stop a mute is judged
\* in is final, renewals move no endpoint, and settle_due_cycles() reduces the count
\* only at the end of a period whose records allow it, as long as no suggestion has
\* been rejected.
THEOREM Fair == MCSpec => DecisionsAreFair
<1>1. MCSpec => Spec
    <2>1. MCInit => Init
        BY DEF MCInit
    <2>2. [MCNext]_<<vars, refused>> => [Next]_vars
        BY DEF MCNext, Next, Command, vars
    <2>. QED
        BY <2>1, <2>2, PTL DEF MCSpec, Spec
<1>2. MCInit => KInv
    BY InitFair
<1>3. IInv /\ IInv' /\ JInv /\ KInv /\ [MCNext]_<<vars, refused>>
        => KInv' /\ (Reduces /\ ~ refused => Earns)
    BY FairStep
<1>4. MCSpec => [][Reduces /\ ~ refused => Earns]_vars
    BY <1>1, <1>2, <1>3, Inductive, JudgedAlways, PTL DEF MCSpec
<1>. QED
    BY <1>1, <1>4, Final, Endpoints DEF DecisionsAreFair

=============================================================================
