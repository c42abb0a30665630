-------------------------- MODULE MCAlertDelivery --------------------------
(* Small instances of AlertDelivery.  One tick is the five seconds after which a *)
(* row that was given back is due again.                                         *)
EXTENDS AlertDelivery

CONSTANTS a1, h1, s1, s2

\* An event that the platform repeats, all calls in the first process.
MCAlertOf == [h \in Handlers |-> a1]
MCHome == [h \in Handlers |-> s1]
=============================================================================
