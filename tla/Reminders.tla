----------------------------- MODULE Reminders -----------------------------
(* What the notification queue of the deduction policy promises, without       *)
(* leases, attempts, clocks, chunks or crashes: a notice waits, is taken up,    *)
(* goes out in a call, and ends as sent or cancelled.  PolicyOutbox implements  *)
(* this specification.                                                          *)
EXTENDS FiniteSets

CONSTANT Ids            \* notices that can be posted

VARIABLES
    open,       \* the business switch of the group
    live,       \* notices that still say something true
    state,      \* where each notice is
    told,       \* notices that have reached the group at least once
    calling     \* notices in the call to the platform that is under way

rvars == <<open, live, state, told, calling>>

States == {"none", "waiting", "taken", "sent", "cancelled"}

RemindersTypeOK ==
    /\ open \in BOOLEAN
    /\ live \in SUBSET Ids
    /\ state \in [Ids -> States]
    /\ told \in SUBSET Ids
    /\ calling \in SUBSET Ids

Init ==
    /\ open \in BOOLEAN
    /\ live = {}
    /\ state = [n \in Ids |-> "none"]
    /\ told = {}
    /\ calling = {}

\* Switches, events and decisions change at any time.
Environment ==
    /\ open' \in BOOLEAN
    /\ live' \in SUBSET Ids
    /\ UNCHANGED <<state, told, calling>>

Post ==
    /\ live' \in SUBSET Ids
    /\ \A n \in Ids : state'[n] # state[n] => state[n] = "none" /\ state'[n] = "waiting"
    /\ DOMAIN state' = Ids
    /\ UNCHANGED <<open, told, calling>>

\* Only a notice that reached the group is sent, only one that has become
\* untrue is cancelled, and neither is ever taken up again.
Moves(n) ==
    \/ state'[n] = state[n]
    \/ state[n] = "waiting" /\ state'[n] = "taken"
    \/ state[n] = "taken" /\ state'[n] = "waiting"
    \/ state[n] = "taken" /\ state'[n] = "sent" /\ n \in told
    \/ state[n] = "taken" /\ state'[n] = "cancelled" /\ n \notin live

\* A call begins with notices that are taken and true, while the switch is on;
\* what it carries reaches the group or does not.
Calls ==
    \/ calling' = calling /\ told' = told
    \/ /\ calling = {} /\ open
       /\ calling' \subseteq {n \in live : state[n] = "taken"}
       /\ UNCHANGED <<state, told>>
    \/ /\ calling # {} /\ calling' = {}
       /\ told' \in {told, told \cup calling}

Serve ==
    /\ DOMAIN state' = Ids
    /\ \A n \in Ids : Moves(n)
    /\ Calls
    /\ UNCHANGED <<open, live>>

Next == Environment \/ Post \/ Serve

Spec == Init /\ [][Next]_rvars
=============================================================================
