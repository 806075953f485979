------------------------------ MODULE Contract -------------------------------
(* The engine seen through the contract of module Workflow: a job is waiting, *)
(* running or over, and the operator has asked to stop or has not.            *)
EXTENDS Engine

Phase(s) ==
  IF s \in {"pending", "ready"} THEN "waiting"
  ELSE IF s \in Running THEN "running" ELSE s

W == INSTANCE Workflow WITH phase <- [j \in Jobs |-> Phase(run[j].state)],
                            stop <- cancelRequested

\* The engine implements the run contract of module Workflow.
ImplementsWorkflow == W!Spec
=============================================================================
