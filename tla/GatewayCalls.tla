---------------------------- MODULE GatewayCalls ----------------------------
(* The language model gateway (plugins/llm_gateway): a call from its admission  *)
(* through the lane of its task and the slots shared by all of them to the      *)
(* attempts at a provider and the waits between them (transport.py,             *)
(* providers.py), the gateway built on first use and closed at shutdown         *)
(* (runtime.py).                                                                *)
(*                                                                              *)
(* The router's lanes and slots are as many as each provider's own and are      *)
(* taken first, so those of the providers never make a call wait: one set of    *)
(* permits stands for both.  A cancelled call keeps its permits until it has    *)
(* unwound.  Every call but a business intent has one budget for all of it.     *)
EXTENDS Integers, FiniteSets

CONSTANTS
    Callers,        \* tasks that make one call each
    Business,       \* those that parse a business intent
    Chat,           \* those that want a chat reply without images, which may be the economy's
    Lanes,          \* the limit of the lane of each caller's task
    LaneOf,
    Total,          \* calls at the providers at once
    MaxPending,     \* calls admitted beyond those
    MaxAttempts,
    Available       \* the providers that are configured

ASSUME CallersAssumption ==
    /\ IsFiniteSet(Callers)
    /\ Business \subseteq Callers /\ Chat \subseteq Callers \ Business
    /\ LaneOf \in [Callers -> DOMAIN Lanes] /\ Lanes \in [DOMAIN Lanes -> Nat \ {0}]
ASSUME BoundsAssumption == {Total, MaxPending, MaxAttempts} \subseteq Nat \ {0}
ASSUME ProvidersAssumption == "economy" \in Available /\ Available \subseteq {"primary", "economy"}

VARIABLES
    call,       \* for each caller: where its call is, its provider and its attempts
    active,     \* _active_tasks
    lanes,      \* permits of each lane in use
    total,      \* permits of _total in use
    accepting,  \* _accepting of the router
    clients,    \* the providers whose HTTP client is open
    gateway,    \* the driver's state: "new", "unbuilt", "built", "cleaning", "failed", "closed"
    closer,     \* where the shutdown is
    economy     \* the switch that sends chat text to the economy provider

vars == <<call, active, lanes, total, accepting, clients, gateway, closer, economy>>

Idle == [at |-> "out", provider |-> "primary", tries |-> 0, stop |-> "no"]
Waiting == {"lane", "total", "post", "backoff"}
Over == {"answered", "failed", "cancelled"}

Place(c, p) == call' = [call EXCEPT ![c].at = p]
\* Variant: a call that is cancelled in the wait for a slot keeps its lane
ReleaseAtPost(c) ==
    /\ lanes' = [lanes EXCEPT ![LaneOf[c]] = @ - (IF call[c].at \in {"lane", "total"} THEN 0 ELSE 1)]
    /\ total' = total - (IF call[c].at \in {"lane", "total"} THEN 0 ELSE 1)
Release(c) ==
    /\ lanes' = [lanes EXCEPT ![LaneOf[c]] = @ - (IF call[c].at = "lane" THEN 0 ELSE 1)]
    /\ total' = total - (IF call[c].at \in {"lane", "total"} THEN 0 ELSE 1)
\* the finally clauses: permits, _active_tasks, and Gateway._run returns or raises
Finish(c, how) ==
    /\ Release(c)
    /\ active' = active \ {c}
    /\ call' = [call EXCEPT ![c] = [Idle EXCEPT !.at = how]]

Quits(c) == call' = [call EXCEPT ![c] = [Idle EXCEPT !.at = "failed"]]

-----------------------------------------------------------------------------
\* _ensure_gateway: under init_lock the first caller builds it; a failure is final and
\* what was opened is closed while the lock is held, unless that takes too long
CanBuild == economy \/ "primary" \in Available
Built == gateway' = "built" /\ clients' = Available
BuildFails == gateway' = "cleaning" /\ clients' \in SUBSET Available

Startup ==
    /\ gateway = "new"
    /\ \/ gateway' = "unbuilt" /\ UNCHANGED clients
       \/ CanBuild /\ Built
       \/ BuildFails
    /\ UNCHANGED <<call, active, lanes, total, accepting, closer, economy>>
CleanUp ==
    /\ gateway = "cleaning"
    /\ gateway' = "failed"
    /\ clients' \in SUBSET clients
    /\ UNCHANGED <<call, active, lanes, total, accepting, closer, economy>>
GetGateway(c) ==
    /\ call[c].at = "out"
    /\ \/ Quits(c) /\ UNCHANGED <<gateway, clients>>     \* not started, failed, closed or switched off
       \/ gateway = "built" /\ Place(c, "holding") /\ UNCHANGED <<gateway, clients>>
       \/ gateway = "unbuilt" /\ CanBuild /\ Built /\ Place(c, "holding")
       \/ gateway = "unbuilt" /\ BuildFails /\ Quits(c)
    /\ UNCHANGED <<active, lanes, total, accepting, closer, economy>>

\* ProviderRouterTransport.complete up to the lane
ProviderOf(c) == IF c \in Chat /\ economy THEN "economy" ELSE "primary"
Admits(c) == accepting /\ (c \in Business \/ Cardinality(active) < Total + MaxPending)
Admit(c) ==
    /\ call[c].at = "holding"
    /\ IF ProviderOf(c) \in Available /\ Admits(c)
       THEN /\ call' = [call EXCEPT ![c].at = "lane", ![c].provider = ProviderOf(c)]
            /\ active' = active \union {c}
       ELSE Quits(c) /\ UNCHANGED active
    /\ UNCHANGED <<lanes, total, accepting, clients, gateway, closer, economy>>

TakeLane(c) ==
    /\ call[c].at = "lane" /\ call[c].stop = "no"
    /\ lanes[LaneOf[c]] < Lanes[LaneOf[c]]
    /\ lanes' = [lanes EXCEPT ![LaneOf[c]] = @ + 1]
    /\ Place(c, "total")
    /\ UNCHANGED <<active, total, accepting, clients, gateway, closer, economy>>
TakeSlot(c) ==
    /\ call[c].at = "total" /\ call[c].stop = "no"
    /\ total < Total
    /\ total' = total + 1
    /\ call' = [call EXCEPT ![c].at = "post", ![c].tries = 1]
    /\ UNCHANGED <<active, lanes, accepting, clients, gateway, closer, economy>>

\* _classify_response_error and _parse_completion: what an answer, a lost connection or a
\* malformed completion comes to
Errors == {"transient", "limited", "final"}
Retries(c, error) ==
    /\ call[c].tries < MaxAttempts
    /\ error = "transient" \/ (error = "limited" /\ call[c].provider = "primary")
Answer(c) ==
    /\ call[c].at = "post" /\ call[c].stop = "no"
    /\ \/ Finish(c, "answered")
       \/ \E error \in Errors :
            IF Retries(c, error)
            THEN Place(c, "backoff") /\ UNCHANGED <<active, lanes, total>>
            ELSE Finish(c, "failed")
    /\ UNCHANGED <<accepting, clients, gateway, closer, economy>>
TryAgain(c) ==
    /\ call[c].at = "backoff" /\ call[c].stop = "no"
    /\ call' = [call EXCEPT ![c].at = "post", ![c].tries = @ + 1]
    /\ UNCHANGED <<active, lanes, total, accepting, clients, gateway, closer, economy>>

\* Variant: only the wait for a permit is timed
BudgetedInQueue(c) == c \notin Business /\ call[c].at \in {"lane", "total"}
\* asyncio.wait_for over everything after the admission
Budgeted(c) == c \notin Business /\ call[c].at \in Waiting
Deadline(c) ==
    /\ Budgeted(c) /\ call[c].stop = "no"
    /\ call' = [call EXCEPT ![c].stop = "deadline"]
    /\ UNCHANGED <<active, lanes, total, accepting, clients, gateway, closer, economy>>
\* the task of the caller is cancelled
Abandon(c) ==
    /\ call[c].at \in Waiting /\ call[c].stop # "cancel"
    /\ call' = [call EXCEPT ![c].stop = "cancel"]
    /\ UNCHANGED <<active, lanes, total, accepting, clients, gateway, closer, economy>>
Unwind(c) ==
    /\ call[c].stop # "no"
    /\ Finish(c, IF call[c].stop = "cancel" THEN "cancelled" ELSE "failed")
    /\ UNCHANGED <<accepting, clients, gateway, closer, economy>>

-----------------------------------------------------------------------------
\* ProviderRouterTransport.aclose, inside the time that runtime._close gives it
CancelActive == call' = [c \in Callers |-> IF c \in active THEN [call[c] EXCEPT !.stop = "cancel"]
                                                         ELSE call[c]]
Shutdown ==
    /\ gateway \in {"unbuilt", "built", "failed"} /\ closer = "none"
    /\ gateway' = "closed"
    /\ closer' = IF gateway = "built" THEN "gate" ELSE "done"
    /\ UNCHANGED <<call, active, lanes, total, accepting, clients, economy>>
CloseGate ==
    /\ closer = "gate"
    /\ accepting' = FALSE
    /\ closer' = IF active = {} THEN "clients" ELSE "drain"
    /\ UNCHANGED <<call, active, lanes, total, clients, gateway, economy>>
Drained ==
    /\ closer \in {"drain", "join"} /\ active = {}
    /\ closer' = "clients"
    /\ UNCHANGED <<call, active, lanes, total, accepting, clients, gateway, economy>>
\* Variant: the cancelled calls are not waited for
AfterAtOnce == "clients"
After == "join"
DrainTimeout ==
    /\ closer = "drain" /\ active # {}
    /\ CancelActive
    /\ closer' = After
    /\ UNCHANGED <<active, lanes, total, accepting, clients, gateway, economy>>
CloseClients ==
    /\ closer = "clients"
    /\ clients' = {} /\ closer' = "done"
    /\ UNCHANGED <<call, active, lanes, total, accepting, gateway, economy>>
\* the time is up, and aclose cancels the calls without joining them, or a client cannot be closed
CloseTimeout ==
    /\ closer \in {"drain", "join", "clients"}
    /\ CancelActive
    /\ clients' \in IF closer = "clients" THEN SUBSET clients ELSE {clients}
    /\ closer' = "abandoned"
    /\ UNCHANGED <<active, lanes, total, accepting, gateway, economy>>

Flip ==
    /\ economy' = ~economy
    /\ UNCHANGED <<call, active, lanes, total, accepting, clients, gateway, closer>>

Init ==
    /\ call = [c \in Callers |-> Idle]
    /\ active = {} /\ lanes = [l \in DOMAIN Lanes |-> 0] /\ total = 0
    /\ accepting = TRUE /\ clients = {}
    /\ gateway = "new" /\ closer = "none"
    /\ economy \in BOOLEAN
Closing == CloseGate \/ Drained \/ DrainTimeout \/ CloseClients
Next ==
    \/ Startup \/ CleanUp \/ Shutdown \/ Closing \/ CloseTimeout \/ Flip
    \/ \E c \in Callers :
        GetGateway(c) \/ Admit(c) \/ TakeLane(c) \/ TakeSlot(c) \/ Answer(c) \/ TryAgain(c)
        \/ Deadline(c) \/ Abandon(c) \/ Unwind(c)
\* The driver starts.  A budget runs out and an attempt of a business call times out; the
\* semaphores are first come, first served, so a permit that keeps coming back is taken.
Fairness ==
    /\ WF_vars(Startup) /\ WF_vars(CleanUp) /\ WF_vars(Closing)
    /\ \A c \in Callers :
        /\ WF_vars(GetGateway(c)) /\ WF_vars(Admit(c)) /\ WF_vars(TryAgain(c))
        /\ WF_vars(Deadline(c)) /\ WF_vars(Unwind(c))
        /\ SF_vars(TakeLane(c)) /\ SF_vars(TakeSlot(c))
    /\ \A c \in Business : WF_vars(Answer(c))
Spec == Init /\ [][Next]_vars /\ Fairness

-----------------------------------------------------------------------------
\* Every variable has its type; no call makes more attempts than MaxAttempts.
Calls == [at: {"out", "holding"} \union Waiting \union Over, provider: {"primary", "economy"},
          tries: 0..MaxAttempts, stop: {"no", "deadline", "cancel"}]
TypeOK ==
    /\ call \in [Callers -> Calls]
    /\ active \subseteq Callers
    /\ lanes \in [DOMAIN Lanes -> Nat] /\ total \in Nat
    /\ accepting \in BOOLEAN /\ economy \in BOOLEAN
    /\ clients \subseteq Available
    /\ gateway \in {"new", "unbuilt", "built", "cleaning", "failed", "closed"}
    /\ closer \in {"none", "gate", "drain", "join", "clients", "done", "abandoned"}

\* Limits hold and permits come back: however calls fail, time out or are cancelled, the permits
\* in use are those of calls under way, no more calls are at the providers than Total, and what
\* is admitted besides business intents stays within the limit (transport.py:139-174).
\* The variables have their types.
CallsBounded ==
    /\ TypeOK
    /\ active = {c \in Callers : call[c].at \in Waiting}
    /\ total = Cardinality({c \in Callers : call[c].at \in {"post", "backoff"}})
    /\ total <= Total
    /\ \A l \in DOMAIN Lanes :
        /\ lanes[l] = Cardinality({c \in Callers : LaneOf[c] = l /\ call[c].at \in Waiting \ {"lane"}})
        /\ lanes[l] <= Lanes[l]
    /\ Cardinality(active \ Business) <= Total + MaxPending

\* Nothing is sent through a closed gateway: an attempt under way has its client open, a shutdown
\* that reports success leaves no call and no client, and one that ran out of time leaves
\* only calls that are cancelled (providers.py:177-201, transport.py:373-408).
ClosedIsQuiet ==
    /\ \A c \in Callers : call[c].at = "post" /\ call[c].stop = "no" =>
        call[c].provider \in clients /\ closer \in {"none", "gate", "drain"}
    /\ closer = "clients" => active = {}
    /\ closer = "done" => active = {} /\ (gateway = "closed" /\ ~accepting => clients = {})
    /\ closer = "abandoned" => \A c \in active : call[c].stop = "cancel"

\* Every call ends though no provider answers a chat and other calls are ahead of it, and a
\* shutdown ends, whatever is waiting, retrying or under way when it begins.
CallsEnd == <>[](/\ \A c \in Callers : call[c].at \in Over
                 /\ active = {} /\ total = 0
                 /\ closer \in {"none", "done", "abandoned"})
=============================================================================
