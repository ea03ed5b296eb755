----------------------------- MODULE MCTutorHost -----------------------------
(***************************************************************************)
(* TutorHost for TLC: two processes with different limits, so that one can *)
(* run out of decisions and the other out of refreshes.                    *)
(***************************************************************************)
EXTENDS TutorHost

CONSTANTS h1, h2

MCHosts == {h1, h2}

TutorHostLimits(decisions, attempts, refreshes) ==
    [max_decisions |-> decisions, max_provider_attempts_per_decision |-> attempts,
     max_stale_refreshes |-> refreshes]

MCLimits == [h \in MCHosts |-> IF h = h1 THEN TutorHostLimits(2, 1, 2) ELSE TutorHostLimits(3, 2, 1)]

MCMaxCalls == [h \in MCHosts |-> IF h = h1 THEN 2 ELSE 1]

\* Bound: the study state moves once a run exists, and again once a call
\* has started over on a stale outcome.
StartedOver == \E h \in Hosts : host[h] # Idle /\ host[h].refreshes > 0

MCNext ==
    /\ Next
    /\ version' # version => DOMAIN runs # {} /\ (version = 1 \/ StartedOver)

MCSpec == Init /\ [][MCNext]_hostVars /\ \A h \in Hosts : WF_hostVars(HostStep(h))
=============================================================================
