------------------------------ MODULE MCRemote -------------------------------
(* Two jobs on one target, one that does not use its target, one on a target   *)
(* out of service.                                                             *)
EXTENDS Remote

MCTargetOf == <<"a", "a", "b", "out">>
MCNSteps == <<2, 1, 1, 1>>
==============================================================================
