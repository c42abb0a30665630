----------------------------- MODULE Departures -----------------------------
(* The departure monitor of a group (plugins/hive_member_monitor): the member   *)
(* snapshot, its reconciliation with the list of the platform, the join and     *)
(* leave events, and the outbox of departure notices.                           *)
(*                                                                              *)
(* Everything runs on one event loop under one lock; the store is synchronous,  *)
(* so what happens between two calls to the platform is one step.  Meanwhile    *)
(* people come and go, events are lost, repeated, late and out of order, lists  *)
(* are cut short, calls fail, the switch flips and the process dies.  Times are *)
(* the seconds in which the platform and the bot stamp what they do.            *)
EXTENDS Integers, FiniteSets

CONSTANTS
    Users,
    Members,        \* those in the group at the start
    Bot,            \* the bot, which stays
    None,
    SafeMissing,    \* how many may miss from a list that is believed at once
    Threshold,      \* lists a member misses from before the departure is recorded
    Confirmations,  \* _MASS_DIFFERENCE_CONFIRMATIONS
    MaxTime,        \* bound: the last second
    MaxMoves,       \* bound: joins and leaves
    MaxUpsets,      \* bound: failing calls, lost answers, flips and crashes
    MaxShort        \* bound: lists that are cut short

ASSUME UsersAssumption == Bot \in Members /\ Members \subseteq Users /\ None \notin Users
ASSUME BoundsAssumption ==
    /\ {SafeMissing, Threshold, Confirmations} \subseteq Nat \ {0}
    /\ {MaxTime, MaxMoves, MaxUpsets, MaxShort} \subseteq Nat

VARIABLES
    now,        \* the present second
    present,    \* who is in the group
    moves,      \* joins and leaves so far
    left,       \* the seconds in which each user has left
    events,     \* join and leave events the platform has sent
    enabled,    \* the switches of the monitor
    upsets,     \* upsets so far
    short,      \* lists cut short so far
    synced,     \* whether a synchronisation has begun in this second
    member,     \* hive_monitor_members
    outbox,     \* hive_monitor_departure_outbox: the status of each row, by its key
    candidate,  \* hive_monitor_mass_candidates
    exported,   \* whether the first member list has been delivered
    task,       \* what holds the lock
    arrived,    \* keys of the notices that are in the report group
    streak,     \* history: short lists taken in since a complete one was reconciled
    doubted     \* history: those recorded as gone although a departure was not certain

group == <<now, present, moves, left>>
faults == <<enabled, upsets, short, synced>>
store == <<member, outbox, candidate, exported>>
history == <<arrived, streak, doubted>>
monitor == <<group, events, faults, store, task, history>>

Times == 0..MaxTime
Key == [user : Users, type : {"leave", "reconcile"}, time : Times]
Event == [kind : {"leave", "join"}, user : Users, time : Times]
Unknown == [known |-> FALSE, active |-> FALSE, missing |-> 0, episode |-> 0]
Member == [known : BOOLEAN, active : BOOLEAN, missing : 0..Threshold, episode : Times]
\* The candidate of the fuse; "back" is history: who has come back since its first list.
NoCandidate == [from |-> {}, to |-> {}, confirmations |-> 0, back |-> {}]
\* Where a task goes on after its notices: a sync delivers before and after its list.
Steps == {"idle", "deliver", "send", "list", "info", "export", "ask", "save"}
\* Whether the list in hand is complete is history.
Idle == [kind |-> "none", step |-> "idle", list |-> {}, whole |-> FALSE, key |-> None,
         after |-> FALSE]
Goes(step) == task' = [task EXCEPT !.step = step]
Ends == task' = Idle
Upset == upsets < MaxUpsets /\ upsets' = upsets + 1 /\ UNCHANGED <<enabled, short, synced>>

Active == {u \in Users : member[u].active}
Rows(u) == {k \in DOMAIN outbox : k.user = u}

-----------------------------------------------------------------------------
(* The store.                                                                   *)

\* Variant: who is seen keeps the count of lists that have missed them.
SeenStillMissed(m) ==
    [known |-> TRUE, active |-> TRUE, missing |-> IF m.active THEN m.missing ELSE 0,
     episode |-> IF m.active THEN m.episode ELSE now]
\* Seen in the group: a member who was away begins a new episode.
Seen(m) ==
    [known |-> TRUE, active |-> TRUE, missing |-> 0,
     episode |-> IF m.active THEN m.episode ELSE now]
Gone(m) == [m EXCEPT !.active = FALSE, !.missing = 0]
Upserted(list) == [u \in Users |-> IF u \in list THEN Seen(member[u]) ELSE member[u]]

\* INSERT OR IGNORE of the rows of some keys.
Ensured(keys) ==
    [k \in DOMAIN outbox \cup keys |-> IF k \in DOMAIN outbox THEN outbox[k] ELSE "pending"]

\* Variant: a candidate that is seen again is not confirmed.
ObservedOnce(list) == [from |-> Active, to |-> list, confirmations |-> 1, back |-> {}]
Observed(list) ==
    IF candidate.from = Active /\ candidate.to = list
    THEN [candidate EXCEPT !.confirmations = @ + 1]
    ELSE [from |-> Active, to |-> list, confirmations |-> 1, back |-> {}]

\* The first snapshot of a group, or of one whose members are all gone.
ReplaceSnapshot(list) ==
    member' = Upserted(list) /\ candidate' = NoCandidate /\ UNCHANGED outbox

\* Departures that this list confirms.
Confirmed(list, threshold) ==
    {u \in Active \ list : member[u].missing + 1 >= threshold}
Reconcile(list, threshold) ==
    LET departed == Confirmed(list, threshold) IN
    /\ member' = [u \in Users |->
                    CASE u \in departed ->
                            [member[u] EXCEPT !.active = FALSE, !.missing = @ + 1]
                      [] u \in Active \ (list \cup departed) ->
                            [member[u] EXCEPT !.missing = @ + 1]
                      [] OTHER -> Upserted(list)[u]]
    /\ outbox' = Ensured({[user |-> u, type |-> "reconcile", time |-> now] : u \in departed})
    /\ candidate' = NoCandidate

\* The last episode of a member who is not active has its row.
Closed(u) == member[u].known /\ ~member[u].active /\ Rows(u) # {}
Stale(e) == member[e.user].active /\ e.time < member[e.user].episode
KeyOf(e) == [user |-> e.user, type |-> "leave", time |-> e.time]
MarkLeft(e) ==
    /\ outbox' = Ensured({KeyOf(e)})
    /\ member' = [member EXCEPT ![e.user] = Gone(@)]
    /\ UNCHANGED <<candidate, exported>>

-----------------------------------------------------------------------------
(* Notices.                                                                     *)

Claimable == {k \in DOMAIN outbox : outbox[k] = "pending"}
\* What a task does when there is no more to deliver, or a delivery has failed.
Onward ==
    IF task.kind = "sync" /\ ~task.after
    THEN task' = [task EXCEPT !.step = "list", !.key = None] ELSE Ends
Claim ==
    /\ task.step = "deliver"
    /\ IF Claimable = {} \/ ~enabled
       THEN Onward /\ UNCHANGED outbox
       ELSE \E k \in Claimable :
                /\ outbox' = [outbox EXCEPT ![k] = "leased"]
                /\ task' = [task EXCEPT !.step = "send", !.key = k]
    /\ UNCHANGED <<group, events, faults, member, candidate, exported, history>>

Settles(status) == outbox' = [outbox EXCEPT ![task.key] = status]
\* The platform takes the message; its answer may be lost.
Send(answered) ==
    /\ task.step = "send"
    /\ arrived' = arrived \cup {task.key}
    /\ IF answered
       THEN /\ Settles("delivered") /\ UNCHANGED faults
            /\ task' = [task EXCEPT !.step = "deliver", !.key = None]
       ELSE Settles("pending") /\ Onward /\ Upset
    /\ UNCHANGED <<group, events, member, candidate, exported, streak, doubted>>
SendFails ==
    /\ task.step = "send" /\ Upset
    /\ Settles("pending") /\ Onward
    /\ UNCHANGED <<group, events, member, candidate, exported, history>>

-----------------------------------------------------------------------------
(* Synchronisation.                                                             *)

StartSync ==
    /\ task = Idle /\ enabled /\ ~synced
    /\ synced' = (now < MaxTime)
    /\ task' = [Idle EXCEPT !.kind = "sync", !.step = "deliver"]
    /\ UNCHANGED <<group, events, enabled, upsets, short, store, history>>

\* The list of the platform, which may be cut short down to one member.
FetchList ==
    /\ task.step = "list"
    /\ \/ /\ task' = [task EXCEPT !.step = "info", !.list = present, !.whole = TRUE]
          /\ UNCHANGED faults
       \/ /\ short < MaxShort /\ short' = short + 1
          /\ \E u \in present :
                task' = [task EXCEPT !.step = "info", !.list = {u}, !.whole = FALSE]
          /\ UNCHANGED <<enabled, upsets, synced>>
    /\ UNCHANGED <<group, events, store, history>>
\* The call fails, or answers with no list, an empty one or one of another group; only
\* an answer takes the candidate back.
ListFails ==
    /\ task.step \in {"list", "info"} /\ Upset
    /\ candidate' \in {candidate, NoCandidate} /\ Ends
    /\ UNCHANGED <<group, events, member, outbox, exported, history>>

Then(departed) ==
    IF ~exported THEN task' = [task EXCEPT !.step = "export", !.after = departed]
    ELSE IF departed THEN task' = [task EXCEPT !.step = "deliver", !.after = TRUE]
    ELSE Ends
\* Variant: one list is enough for a mass departure.
FuseOpen(list) == Active = {}
\* The fuse: a large difference is believed when three lists in a row agree on it.
Fuse(list) ==
    /\ Cardinality(Active \ list) > SafeMissing
    /\ Observed(list).confirmations < Confirmations
\* Whose departure, of those a list confirms, is not certain: lists cut short alone may
\* have made it up, or the fuse has counted lists from before the stay.
Uncertain(list, threshold) ==
    LET large == Cardinality(Active \ list) > SafeMissing
        lists == IF large THEN Confirmations ELSE Threshold
    IN  {u \in Confirmed(list, threshold) :
            (large /\ u \in Observed(list).back) \/ (~task.whole /\ streak + 1 >= lists)}
TakesIn == streak' = IF task.whole THEN 0 ELSE streak + 1
ApplyList(list) ==
    IF Active = {} THEN ReplaceSnapshot(list) /\ Then(FALSE) /\ TakesIn /\ UNCHANGED doubted
    ELSE IF Fuse(list)
    THEN /\ candidate' = Observed(list) /\ Ends /\ UNCHANGED <<member, outbox, doubted>>
         /\ streak' = IF task.whole THEN streak ELSE streak + 1
    ELSE LET threshold == IF Cardinality(Active \ list) > SafeMissing THEN 1 ELSE Threshold
         IN  /\ Reconcile(list, threshold) /\ Then(Confirmed(list, threshold) # {})
             /\ TakesIn /\ doubted' = doubted \cup Uncertain(list, threshold)
\* The count of the platform must be that of the list; a short list comes with a count
\* as short.
Agrees == task.list = present \/ Cardinality(task.list) \in {1, Cardinality(present)}
FetchInfo ==
    /\ task.step = "info"
    /\ CASE ~Agrees ->
                candidate' = NoCandidate /\ Ends /\ UNCHANGED <<member, outbox, streak, doubted>>
         [] Agrees /\ ~enabled -> Ends /\ UNCHANGED <<member, outbox, candidate, streak, doubted>>
         [] OTHER -> ApplyList(task.list)
    /\ UNCHANGED <<group, events, faults, exported, arrived>>

\* The first list is uploaded as a workbook.
Export ==
    /\ task.step = "export"
    /\ \/ /\ enabled /\ exported' = TRUE /\ UNCHANGED faults
          /\ IF task.after THEN Goes("deliver") ELSE Ends
       \/ /\ (~enabled /\ UNCHANGED faults) \/ Upset
          /\ Ends /\ UNCHANGED exported
    /\ UNCHANGED <<group, events, member, outbox, candidate, history>>

-----------------------------------------------------------------------------
(* Events.                                                                      *)

\* An event is taken late, more than once or never: none leaves the set.
HandleDecrease(e) ==
    /\ task = Idle /\ e.kind = "leave"
    /\ CASE ~enabled \/ (KeyOf(e) \in DOMAIN outbox /\ outbox[KeyOf(e)] = "delivered") ->
              UNCHANGED <<store, task>>
         [] KeyOf(e) \notin DOMAIN outbox /\ Stale(e) -> UNCHANGED <<store, task>>
         [] OTHER ->
              /\ task' = [Idle EXCEPT !.kind = "decrease", !.step = "deliver"]
              /\ IF KeyOf(e) \in DOMAIN outbox \/ Closed(e.user)
                 THEN UNCHANGED store ELSE MarkLeft(e)
    /\ UNCHANGED <<group, events, faults, history>>

HandleIncrease(e) ==
    /\ task = Idle /\ e.kind = "join"
    /\ task' = IF enabled
               THEN [Idle EXCEPT !.kind = "increase", !.step = "ask", !.list = {e.user}]
               ELSE task
    /\ UNCHANGED <<group, events, faults, store, history>>
\* The platform knows the member, or the call fails.
AskMember ==
    /\ task.step = "ask"
    /\ \/ /\ UNCHANGED faults
          /\ IF task.list \subseteq present THEN Goes("save") ELSE Ends
       \/ Upset /\ Ends
    /\ UNCHANGED <<group, events, store, history>>
UpsertMember ==
    /\ task.step = "save"
    /\ Ends
    /\ IF enabled
       THEN /\ member' = Upserted(task.list)
            /\ candidate' = [candidate EXCEPT !.back = @ \cup ((task.list \cap candidate.from) \ Active)]
       ELSE UNCHANGED <<member, candidate>>
    /\ UNCHANGED <<group, events, faults, outbox, exported, history>>

-----------------------------------------------------------------------------
(* The group.                                                                   *)

Tick ==
    /\ now < MaxTime /\ now' = now + 1 /\ synced' = FALSE
    /\ UNCHANGED <<present, moves, left, events, enabled, upsets, short, store, task, history>>
Moves(kind, u) ==
    /\ now < MaxTime /\ moves < MaxMoves /\ moves' = moves + 1
    /\ events' = events \cup {[kind |-> kind, user |-> u, time |-> now]}
    /\ UNCHANGED <<now, faults, store, task, history>>
Leave(u) ==
    /\ u \in present \ {Bot} /\ Moves("leave", u)
    /\ present' = present \ {u} /\ left' = [left EXCEPT ![u] = @ \cup {now}]
\* Nobody is back within the second: the events could not tell the episodes apart.
Join(u) ==
    /\ u \notin present /\ now \notin left[u] /\ Moves("join", u)
    /\ present' = present \cup {u} /\ UNCHANGED left

Flip ==
    /\ upsets < MaxUpsets /\ upsets' = upsets + 1
    /\ enabled' = ~enabled
    /\ UNCHANGED <<group, events, short, synced, store, task, history>>
\* The process ends and starts again, or the task is cancelled; a lease outlives it.
Crash ==
    /\ task # Idle /\ Upset /\ Ends
    /\ UNCHANGED <<group, events, store, history>>
\* Variant: a lease holds for ever.
LapseNever == FALSE /\ UNCHANGED monitor
\* A lease that nobody holds any more lapses.
Lapse ==
    /\ \E k \in DOMAIN outbox :
        /\ outbox[k] = "leased" /\ task.key # k
        /\ outbox' = [outbox EXCEPT ![k] = "pending"]
    /\ UNCHANGED <<group, events, faults, member, candidate, exported, task, history>>

MonitorInit ==
    /\ now = 0 /\ present = Members /\ moves = 0
    /\ left = [u \in Users |-> {}]
    /\ events = {} /\ enabled = TRUE /\ upsets = 0 /\ short = 0 /\ synced = FALSE
    /\ \E first \in BOOLEAN :   \* the first start, or one with the snapshot of an earlier
        /\ exported = ~first
        /\ member = [u \in Users |-> [Unknown EXCEPT !.known = ~first /\ u \in Members,
                                                    !.active = ~first /\ u \in Members]]
    /\ outbox = [k \in {} |-> "pending"]
    /\ candidate = NoCandidate
    /\ task = Idle /\ arrived = {} /\ streak = 0 /\ doubted = {}

TaskStep ==
    \/ Claim \/ Send(TRUE) \/ FetchList \/ FetchInfo \/ Export \/ AskMember \/ UpsertMember
    \/ ListFails
MonitorNext ==
    \/ StartSync \/ TaskStep \/ Send(FALSE) \/ SendFails
    \/ \E e \in events : HandleDecrease(e) \/ HandleIncrease(e)
    \/ \E u \in Users : Leave(u) \/ Join(u)
    \/ Tick \/ Flip \/ Crash \/ Lapse

\* Calls return or time out, the loop synchronises again and again and the lock is given
\* to whoever has waited longest; leases lapse.
Fairness ==
    WF_monitor(TaskStep) /\ SF_monitor(StartSync) /\ WF_monitor(Lapse) /\ WF_monitor(Tick)
MonitorSpec == MonitorInit /\ [][MonitorNext]_monitor /\ Fairness

-----------------------------------------------------------------------------
(* Correctness.                                                                 *)

\* Every variable has its type.
MonitorTypeOK ==
    /\ now \in Times /\ present \subseteq Users /\ moves \in 0..MaxMoves
    /\ left \in [Users -> SUBSET Times]
    /\ events \subseteq Event
    /\ enabled \in BOOLEAN /\ upsets \in 0..MaxUpsets /\ short \in 0..MaxShort
    /\ synced \in BOOLEAN
    /\ member \in [Users -> Member]
    /\ DOMAIN outbox \subseteq Key
    /\ \A k \in DOMAIN outbox : outbox[k] \in {"pending", "leased", "delivered"}
    /\ candidate.from \subseteq Users /\ candidate.to \subseteq Users
    /\ candidate.confirmations \in 0..(Confirmations - 1) /\ candidate.back \subseteq Users
    /\ exported \in BOOLEAN
    /\ task.kind \in {"none", "sync", "decrease", "increase"} /\ task.step \in Steps
    /\ task.list \subseteq Users /\ task.key \in Key \cup {None} /\ task.after \in BOOLEAN
    /\ task.whole \in BOOLEAN /\ streak \in Nat
    /\ arrived \subseteq DOMAIN outbox /\ doubted \subseteq Users

\* No departure is reported twice and none is made up, however events and lists overtake
\* each other and though lists are cut short in between: a user has at most as many notices
\* as departures; a notice counts as delivered only if it is in the report group.  Two
\* exceptions, the doubted: lists that are cut short in a row, as many as the code asks for,
\* are believed (the row is broken by a complete list that is reconciled); and neither an
\* event nor a member who is back takes the candidate of the fuse back, so lists from before
\* a stay count against who stays.  The variables have their types.
NoticesAreTrue ==
    /\ MonitorTypeOK
    /\ \A u \in Users \ doubted : Cardinality(Rows(u)) <= Cardinality(left[u])
    /\ \A k \in DOMAIN outbox : outbox[k] = "delivered" => k \in arrived

\* A member who is recorded as gone has a notice of their own, even where two lists of one
\* second miss them; and a pending notice is delivered.  (In the last second, which stands
\* for all the later ones, lists cut short may record someone twice: the doubted.)
GoneHasItsNotice ==
    [][\A u \in Users :
        member[u].active /\ ~member'[u].active /\ (now < MaxTime \/ u \notin doubted')
            => \E k \in DOMAIN outbox' \ DOMAIN outbox : k.user = u]_monitor
GoneIsNoticed ==
    /\ GoneHasItsNotice
    /\ <>[]enabled => []<>(\A k \in DOMAIN outbox : outbox[k] = "delivered")

\* Whatever events are lost, the snapshot comes to agree with the group.
SnapshotConverges == <>[]enabled => <>[](Active = present)
=============================================================================
