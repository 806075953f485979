------------------------------ MODULE MCEngine -------------------------------
(* Instances of Engine for TLC. *)
EXTENDS LifecycleModel, Contract

\* One job of two steps, the first with continue-on-error; every timer armed.
SoloNeeds == <<{}>>
SoloTarget == <<0>>
SoloSessions == <<>>
SoloSteps == <<2>>
SoloCoe == <<<<TRUE, FALSE>>>>
SoloStepTimeout == <<<<TRUE, TRUE>>>>
SoloJobTimeout == <<TRUE>>

\* The same for liveness: only the first step has a timeout.
LiveStepTimeout == <<<<TRUE, FALSE>>>>

\* Jobs 1 and 2 share a target with one session, 3 needs 1, 4 is disabled; two
\* slots; jobs 1 and 3 have a timeout.
TeamNeeds == <<{}, {}, {1}, {}>>
TeamTarget == <<1, 1, 0, 0>>
TeamSessions == <<1>>
TeamSteps == <<1, 1, 1, 1>>
TeamCoe == [j \in 1..4 |-> <<FALSE>>]
TeamStepTimeout == [j \in 1..4 |-> <<FALSE>>]
TeamJobTimeout == <<TRUE, FALSE, TRUE, FALSE>>
=============================================================================
