------------------------- MODULE MCDeductionPolicy -------------------------
(* TLC instances of the deduction policy.  One instant is a week: a normal     *)
(* cycle lasts 2, each slow level and each extension adds 1; the stop and the  *)
(* final warning are shortened to what still spans several inputs.             *)
EXTENDS DeductionPolicy

\* History: a suggestion to stop the member has been rejected.
VARIABLE refused

MCInit == Init /\ refused = FALSE
MCNext ==
    \/ RejectSuggestion /\ refused' = TRUE
    \/ /\ Tick \/ Input \/ BeginMaintenance \/ Settle \/ Apply
             \/ StartStop \/ ClearStop \/ RenewStop
       /\ UNCHANGED refused
MCSpec == MCInit /\ [][MCNext]_<<vars, refused>> /\ Fairness

\* What was decided stands and what is given was deserved: a mute is judged in
\* one stop only, renewals move no endpoint, and an automatic reduction is earned
\* by the records of the period.  (A rejection restarts the judgement inside a
\* period, so the records before it say nothing of later reductions.)
DecisionsAreFair ==
    /\ OwnerIsFinal
    /\ EndpointsFixed
    /\ [][Reduces /\ ~ refused => Earns]_vars
=============================================================================
