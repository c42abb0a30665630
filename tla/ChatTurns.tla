------------------------------ MODULE ChatTurns ------------------------------
(* A chat turn from the message to the archived reply: admission and deadline   *)
(* (random_chat/admission.py), the private and the group conversation           *)
(* (private_chat/matcher.py, random_chat/matcher.py), the delivery of the parts *)
(* of a reply and its ledger (random_chat/delivery.py, delivery_store.py) and   *)
(* the private messages they belong to (private_memory/store.py), with memory   *)
(* kept.                                                                        *)
(*                                                                              *)
(* A turn is a task of the event loop.  Its database work runs in threads that  *)
(* cannot be stopped: the thread acts in one step (Act) and the task goes on in *)
(* a later one (GoOn), and a turn that is cancelled meanwhile waits for the     *)
(* thread.  Messages come twice, switches flip, the member's memory is cleared, *)
(* and the process dies.                                                        *)
EXTENDS Integers, Sequences, FiniteSets

CONSTANTS
    Events,         \* messages
    Private,        \* those of the private conversation; the others are of the group
    Images,         \* those with an image
    MaxParts,       \* messages in one reply (three in the code)
    PerConversation,\* turns admitted for one conversation (four in the code)
    AtOnce,         \* turns admitted at once (32 in the code)
    MaxTurns,       \* bound: arrivals
    MaxUpsets       \* bound: flips, clears, purges, lost answers and crashes

ASSUME EventsAssumption == Events # {} /\ Private \subseteq Events /\ Images \subseteq Events
ASSUME BoundsAssumption ==
    {MaxParts, PerConversation, AtOnce, MaxTurns, MaxUpsets} \subseteq Nat \ {0} /\ AtOnce > 1

VARIABLES
    turn,       \* the turns, in the order of arrival
    pending,    \* _pending
    ledger,     \* chat_delivery_parts: the statuses of the parts of each reply
    message,    \* private_chat_messages: the member's row
    said,       \* parts of the reply that are kept in the store or the archive
    calls,      \* send calls begun for each part
    late,       \* those that began after the message was cleared or purged
    allowed,    \* the switches of the conversations
    upsets

vars == <<turn, pending, ledger, message, said, calls, late, allowed, upsets>>

Turns == 1..MaxTurns
Parts == 1..MaxParts
Conversations == {"private", "group"}
Others == "others"      \* the conversations that are not in the model
Of(e) == IF e \in Private THEN "private" ELSE "group"
Statuses == {"pending", "sending", "sent", "archived", "unknown", "cancelled", "no_reply"}
\* Where a turn awaits: a thread, or the lock, the vision model, the model, the platform.
Threaded ==
    {"parts", "append", "describe", "check", "silence", "plan", "claim", "undo", "preflight",
     "sent", "unknown", "persist", "archived"}
Waits == {"lock", "see", "think", "call"}
Absent == [event |-> CHOOSE e \in Events : TRUE, step |-> "absent", acted |-> FALSE,
           ok |-> FALSE, ended |-> FALSE, rows |-> <<>>, part |-> 1, want |-> 0, plan |-> "none"]
Gone == [Absent EXCEPT !.step = "gone"]
Running(t) == turn[t].step \notin {"absent", "gone"}
Holds(t) == Running(t) /\ turn[t].step # "lock"
Event(t) == turn[t].event
Row(t) == ledger[Event(t)][turn[t].part]
Live(e) == e \in Private => message[e] = "live"
Saved(t) == turn[t].rows # <<>>
Open(t) == allowed[Of(Event(t))] /\ ~turn[t].ended

-----------------------------------------------------------------------------
(* Admission.                                                                   *)

Admitted == pending["private"] + pending["group"] + pending[Others]
Admits(c) == Admitted < AtOnce /\ pending[c] < PerConversation
Arrive(t, e) ==
    /\ turn[t].step = "absent" /\ \A u \in 1..(t - 1) : turn[u].step # "absent"
    /\ Admits(Of(e)) /\ (e \in Private => allowed["private"])
    /\ turn' = [turn EXCEPT ![t] = [Absent EXCEPT !.event = e, !.step = "lock"]]
    /\ pending' = [pending EXCEPT ![Of(e)] = @ + 1]
    /\ UNCHANGED <<ledger, message, said, calls, late, allowed, upsets>>

\* Variant: a turn past its deadline keeps its slot.
EndsKeeping(t) ==
    /\ turn' = [turn EXCEPT ![t] = Gone]
    /\ pending' = IF turn[t].ended THEN pending
                  ELSE [pending EXCEPT ![Of(Event(t))] = @ - 1]
\* The work of a turn is over, before its deadline or some time after it.
Ends(t) ==
    /\ turn' = [turn EXCEPT ![t] = Gone]
    /\ pending' = [pending EXCEPT ![Of(Event(t))] = @ - 1]
Goes(t, step) ==
    /\ turn' = [turn EXCEPT ![t] = [@ EXCEPT !.step = step, !.acted = FALSE, !.ok = FALSE]]
    /\ UNCHANGED pending
Deadline(t) ==
    /\ Running(t) /\ ~turn[t].ended
    /\ turn' = [turn EXCEPT ![t].ended = TRUE]
    /\ UNCHANGED <<pending, ledger, message, said, calls, late, allowed, upsets>>

-----------------------------------------------------------------------------
(* What the threads do.                                                         *)

Acts(t, ok, rows) ==
    turn' = [turn EXCEPT ![t] = [@ EXCEPT !.acted = TRUE, !.ok = ok, !.rows = rows]]
Keeps == UNCHANGED <<message, said>>
\* A transition of the ledger takes place only from the status that is expected.
Transition(t, before, after) ==
    /\ ledger' = IF Row(t) = before
                 THEN [ledger EXCEPT ![Event(t)][turn[t].part] = after] ELSE ledger
    /\ Acts(t, Row(t) = before, turn[t].rows) /\ Keeps

ReadParts(t) == Acts(t, TRUE, ledger[Event(t)]) /\ UNCHANGED ledger /\ Keeps
\* A message that comes again is answered only if it is live and has no reply yet, or has
\* parts left.
AppendUser(t) ==
    LET e == Event(t)
        fresh == message[e] = "none" IN
    /\ message' = IF Open(t) /\ fresh THEN [message EXCEPT ![e] = "live"] ELSE message
    /\ Acts(t, Open(t) /\ (fresh \/ (Live(e) /\ (said[e] = {} \/ Saved(t)))), turn[t].rows)
    /\ UNCHANGED <<ledger, said>>
\* The first description of an image stays.
Describe(t) ==
    /\ \E same \in BOOLEAN : Acts(t, same /\ Live(Event(t)), turn[t].rows)
    /\ UNCHANGED ledger /\ Keeps
CheckLive(t) == Acts(t, Live(Event(t)), turn[t].rows) /\ UNCHANGED ledger /\ Keeps
\* A plan is made once, and for a private message that is live.
Plan(t, statuses) ==
    LET e == Event(t)
        rows == IF ledger[e] = <<>> THEN statuses ELSE ledger[e] IN
    /\ ledger' = IF Live(e) THEN [ledger EXCEPT ![e] = rows] ELSE ledger
    /\ Acts(t, TRUE, IF Live(e) THEN rows ELSE <<>>) /\ Keeps
\* A reply in the group is archived, whatever became of its message.
ArchiveReply(t) ==
    /\ said' = [said EXCEPT ![Event(t)] = @ \cup {turn[t].part}]
    /\ Acts(t, TRUE, turn[t].rows) /\ UNCHANGED <<ledger, message>>
\* A reply in private is kept if its message is.
Persist(t) ==
    /\ said' = IF Live(Event(t)) THEN [said EXCEPT ![Event(t)] = @ \cup {turn[t].part}] ELSE said
    /\ Acts(t, Live(Event(t)), turn[t].rows) /\ UNCHANGED <<ledger, message>>

Act(t) ==
    /\ turn[t].step \in Threaded /\ ~turn[t].acted
    /\ CASE turn[t].step = "parts" -> ReadParts(t)
         [] turn[t].step = "append" -> AppendUser(t)
         [] turn[t].step = "describe" -> Describe(t)
         [] turn[t].step \in {"check", "preflight"} -> CheckLive(t)
         [] turn[t].step = "silence" -> Plan(t, <<"no_reply">>)
         [] turn[t].step = "plan" -> Plan(t, [i \in 1..turn[t].want |-> "pending"])
         [] turn[t].step = "claim" -> Transition(t, "pending", "sending")
         [] turn[t].step = "undo" -> Transition(t, "sending", "pending")
         [] turn[t].step = "sent" -> Transition(t, "sending", "sent")
         [] turn[t].step = "unknown" -> Transition(t, "sending", "unknown")
         [] turn[t].step = "archived" -> Transition(t, "sent", "archived")
         [] turn[t].step = "persist" ->
               IF Event(t) \in Private THEN Persist(t) ELSE ArchiveReply(t)
    /\ UNCHANGED <<pending, calls, late, allowed, upsets>>

-----------------------------------------------------------------------------
(* How a turn goes on.                                                          *)

Quiet == UNCHANGED <<calls, late>>
\* The platform is called: from here the part may arrive.
Calls(t) ==
    /\ Goes(t, "call")
    /\ calls' = [calls EXCEPT ![Event(t)][turn[t].part] = @ + 1]
    /\ late' = IF Live(Event(t)) THEN late ELSE [late EXCEPT ![Event(t)] = @ + 1]
\* The first part from i on that is not settled, by the rows the plan returned.
NextPart(t, i) ==
    LET rest == {j \in i..Len(turn[t].rows) : turn[t].rows[j] # "archived"} IN
    IF rest = {} \/ ~Open(t) THEN Ends(t)
    ELSE LET j == CHOOSE k \in rest : \A l \in rest : k <= l
             status == turn[t].rows[j] IN
         IF status \notin {"pending", "sent"} THEN Ends(t)
         ELSE /\ turn' = [turn EXCEPT ![t] =
                    [@ EXCEPT !.part = j, !.acted = FALSE, !.ok = FALSE,
                              !.step = IF status = "sent" THEN "persist" ELSE "claim"]]
              /\ UNCHANGED pending

\* A reply that waits to be checked is taken from the ledger, asked of the model, or there.
AfterCheck(t) ==
    CASE turn[t].plan = "none" -> Goes(t, IF Saved(t) THEN "plan" ELSE "think")
      [] turn[t].plan = "silence" -> Goes(t, "silence")
      [] OTHER -> Goes(t, "plan")
Checks(t) == IF Event(t) \in Private THEN Goes(t, "check") ELSE AfterCheck(t)

AfterParts(t) ==
    LET statuses == {turn[t].rows[i] : i \in DOMAIN turn[t].rows} IN
    IF \/ Saved(t) /\ statuses \subseteq {"archived"}
       \/ statuses \cap {"unknown", "sending", "cancelled", "no_reply"} # {}
    THEN Ends(t)
    ELSE IF Event(t) \in Private THEN Goes(t, "append")
    ELSE IF Event(t) \in Images /\ ~Saved(t) THEN Goes(t, "see") ELSE Checks(t)

\* Variant: what is not known to have failed is tried again.
CancelledTrying(t) == IF turn[t].step = "call" THEN Goes(t, "undo") ELSE Ends(t)
\* A cancelled turn undoes its claim if the platform was not called.
Cancelled(t) ==
    CASE turn[t].step = "call" -> Goes(t, "unknown")
      [] turn[t].step = "preflight" \/ (turn[t].step = "claim" /\ turn[t].ok) -> Goes(t, "undo")
      [] OTHER -> Ends(t)

Proceeds(t) ==
    LET s == turn[t].step
        good == turn[t].ok /\ Open(t) IN
    CASE s = "parts" -> AfterParts(t) /\ Quiet
      [] s = "append" ->
            /\ IF ~good THEN Ends(t)
               ELSE Goes(t, IF Event(t) \in Images /\ ~Saved(t) THEN "see" ELSE "check")
            /\ Quiet
      [] s = "describe" -> (IF good THEN Goes(t, "check") ELSE Ends(t)) /\ Quiet
      [] s = "check" -> (IF good THEN AfterCheck(t) ELSE Ends(t)) /\ Quiet
      [] s = "plan" -> NextPart(t, 1) /\ Quiet
      [] s = "claim" ->
            IF ~turn[t].ok THEN Ends(t) /\ Quiet
            ELSE IF ~Open(t) THEN Goes(t, "undo") /\ Quiet
            ELSE IF Event(t) \in Private THEN Goes(t, "preflight") /\ Quiet ELSE Calls(t)
      [] s = "preflight" -> IF good THEN Calls(t) ELSE Goes(t, "undo") /\ Quiet
      [] s = "sent" ->
            /\ IF ~turn[t].ok THEN Ends(t)
               ELSE Goes(t, IF turn[t].plan = "notice" THEN "archived" ELSE "persist")
            /\ Quiet
      [] s = "persist" -> (IF turn[t].ok THEN Goes(t, "archived") ELSE Ends(t)) /\ Quiet
      [] s = "archived" -> NextPart(t, turn[t].part + 1) /\ Quiet
      [] OTHER -> Ends(t) /\ Quiet
GoOn(t) ==
    /\ turn[t].step \in Threaded /\ turn[t].acted
    /\ IF turn[t].ended THEN Cancelled(t) /\ Quiet ELSE Proceeds(t)
    /\ UNCHANGED <<ledger, message, said, allowed, upsets>>
Stop(t) ==
    /\ turn[t].step \in Waits /\ turn[t].ended
    /\ Cancelled(t)
    /\ UNCHANGED <<ledger, message, said, calls, late, allowed, upsets>>

Lock(t) ==
    /\ turn[t].step = "lock" /\ ~turn[t].ended
    /\ \A u \in Turns : Holds(u) => Of(Event(u)) # Of(Event(t))
    /\ IF Open(t) THEN Goes(t, "parts") ELSE Ends(t)
    /\ UNCHANGED <<ledger, message, said, calls, late, allowed, upsets>>
\* What is to be sent: a reply of n parts, a notice, or nothing.
Decides(t, plan, n) ==
    /\ turn' = [turn EXCEPT ![t] =
          [@ EXCEPT !.plan = plan, !.want = n, !.acted = FALSE, !.ok = FALSE,
                    !.step = CASE Event(t) \in Private -> "check"
                               [] plan = "silence" -> "silence"
                               [] OTHER -> "plan"]]
    /\ UNCHANGED pending
\* The images are described or not; without text there is then nothing to answer.
SeePrivate(t) == Ends(t) \/ (Open(t) /\ (Checks(t) \/ Goes(t, "describe")))
\* The group's images are waited for a while; it is told if there is nothing to answer.
SeeGroup(t) == Ends(t) \/ (Open(t) /\ (Checks(t) \/ Decides(t, "notice", 1)))
See(t) ==
    /\ turn[t].step = "see" /\ ~turn[t].ended
    /\ IF Event(t) \in Private THEN SeePrivate(t) ELSE SeeGroup(t)
    /\ UNCHANGED <<ledger, message, said, calls, late, allowed, upsets>>
\* A reply, none, a notice that the model is busy, or an error.
Think(t) ==
    /\ turn[t].step = "think" /\ ~turn[t].ended
    /\ \/ \E n \in Parts : Decides(t, "reply", n)
       \/ Open(t) /\ \E plan \in {"notice", "silence"} : Decides(t, plan, 1)
       \/ Ends(t)
    /\ UNCHANGED <<ledger, message, said, calls, late, allowed, upsets>>
\* The platform answers, or the call fails with its fate unknown.
Answer(t) ==
    /\ turn[t].step = "call" /\ ~turn[t].ended
    /\ \/ Goes(t, "sent") /\ UNCHANGED upsets
       \/ upsets < MaxUpsets /\ upsets' = upsets + 1 /\ Goes(t, "unknown")
    /\ UNCHANGED <<ledger, message, said, calls, late, allowed>>

-----------------------------------------------------------------------------
(* What happens to the turns.                                                   *)

Upset == upsets < MaxUpsets /\ upsets' = upsets + 1
Flip(c) ==
    /\ Upset /\ allowed' = [allowed EXCEPT ![c] = ~@]
    /\ UNCHANGED <<turn, pending, ledger, message, said, calls, late>>
\* The member's private layers are cleared, with the plans of their replies.
Purged == [e \in Events |-> IF message[e] = "live" THEN "purged" ELSE message[e]]
Plans ==
    [e \in Events |-> IF e \in Private THEN [i \in DOMAIN ledger[e] |-> "cancelled"] ELSE ledger[e]]
Clear ==
    /\ Upset /\ message' = Purged /\ ledger' = Plans
    /\ UNCHANGED <<turn, pending, said, calls, late, allowed>>
\* The retention run takes the text away and leaves the plans.
PurgeExpired(e) ==
    /\ Upset /\ message[e] = "live" /\ message' = [message EXCEPT ![e] = "purged"]
    /\ UNCHANGED <<turn, pending, ledger, said, calls, late, allowed>>
Crash ==
    /\ Upset /\ \E t \in Turns : Running(t)
    /\ turn' = [t \in Turns |-> IF Running(t) THEN Gone ELSE turn[t]]
    /\ pending' = [c \in DOMAIN pending |-> 0]
    /\ UNCHANGED <<ledger, message, said, calls, late, allowed>>

Init ==
    /\ turn = [t \in Turns |-> Absent]
    /\ \E n \in AtOnce - 2..AtOnce - 1 :
        pending = [c \in Conversations \cup {Others} |-> IF c = Others THEN n ELSE 0]
    /\ ledger = [e \in Events |-> <<>>] /\ message = [e \in Events |-> "none"]
    /\ said = [e \in Events |-> {}]
    /\ calls = [e \in Events |-> [i \in Parts |-> 0]] /\ late = [e \in Events |-> 0]
    /\ allowed = [c \in Conversations |-> TRUE] /\ upsets = 0

Step(t) == Act(t) \/ GoOn(t) \/ Stop(t) \/ Lock(t)
Next ==
    \/ \E t \in Turns :
        \/ \E e \in Events : Arrive(t, e)
        \/ Step(t) \/ Deadline(t) \/ See(t) \/ Think(t) \/ Answer(t)
    \/ \E c \in Conversations : Flip(c)
    \/ \E e \in Private : PurgeExpired(e)
    \/ Clear \/ Crash

\* Threads come to an end, the loop runs what is ready and deadlines pass; nothing is
\* asked of the models and of the platform.
Fairness == \A t \in Turns : WF_vars(Step(t)) /\ WF_vars(Deadline(t))
Spec == Init /\ [][Next]_vars /\ Fairness

-----------------------------------------------------------------------------
(* Correctness.                                                                 *)

\* Every variable has its type, and the slots their limits.
TypeOK ==
    /\ \A t \in Turns :
        /\ turn[t].event \in Events
        /\ turn[t].step \in Threaded \cup Waits \cup {"absent", "gone"}
        /\ {turn[t].acted, turn[t].ok, turn[t].ended} \subseteq BOOLEAN
        /\ turn[t].rows \in Seq(Statuses) /\ turn[t].part \in Parts
        /\ turn[t].want \in 0..MaxParts /\ turn[t].plan \in {"none", "reply", "notice", "silence"}
    /\ \A c \in Conversations : pending[c] \in 0..PerConversation
    /\ pending[Others] \in 0..AtOnce /\ Admitted <= AtOnce
    /\ \A e \in Events : ledger[e] \in Seq(Statuses) /\ Len(ledger[e]) <= MaxParts
    /\ message \in [Events -> {"none", "live", "purged"}]
    /\ said \in [Events -> SUBSET Parts]
    /\ calls \in [Events -> [Parts -> 0..2]]
    /\ allowed \in [Conversations -> BOOLEAN] /\ upsets \in 0..MaxUpsets

\* However often a message comes, and wherever its turns are cut off: no part is sent
\* twice, none before the one it follows, a part that waits has never been sent, and a
\* part that counts as archived was.  The variables have their types.
PartsAreSafe ==
    /\ TypeOK
    /\ \A e \in Events, i \in Parts :
           /\ calls[e][i] <= 1
           /\ i > 1 /\ calls[e][i] = 1 => calls[e][i - 1] = 1
           /\ i \in DOMAIN ledger[e] =>
               /\ ledger[e][i] \in {"pending", "no_reply"} => calls[e][i] = 0
               /\ ledger[e][i] \in {"sent", "archived"} => calls[e][i] = 1

\* A message that is cleared or purged gets no reply in the store, a cleared plan is never
\* taken up, and at most the call that was being checked when the text went still begins.
ClearedIsCleared ==
    [][/\ \A e \in Events : late'[e] <= 1
       /\ \A e \in Private : message[e] = "purged" =>
            /\ message'[e] = "purged" /\ said'[e] = said[e]
            /\ \A i \in DOMAIN ledger[e] :
                ledger[e][i] = "cancelled" => ledger'[e][i] = "cancelled"]_vars

\* Every turn comes to an end and gives its slot back, though nobody answers.
TurnsEnd == <>[](\A t \in Turns : ~Running(t)) /\ <>[](\A c \in Conversations : pending[c] = 0)
=============================================================================
