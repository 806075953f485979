------------------------------ MODULE Workflow -------------------------------
(***************************************************************************)
(* What a run promises, whatever its steps, timers and signals do: a job   *)
(* waits, runs once all its needs succeeded and a slot and a session are   *)
(* free, and ends once.  A job that never runs has a cause.  Module Engine *)
(* is shown to implement this.                                             *)
(***************************************************************************)
EXTENDS Naturals, FiniteSets

CONSTANTS N, Needs, MaxParallel, Target, MaxSessions, Disabled

VARIABLES
  phase,  \* phase[j]: "waiting", "running", or how j ended
  stop    \* the operator has asked the run to stop

Jobs == 1..N

Ended == {"success", "failed", "cancelled", "skipped"}

Active == {j \in Jobs : phase[j] = "running"}

SlotFree == MaxParallel = 0 \/ Cardinality(Active) < MaxParallel

SessionFree(j) ==
  \/ Target[j] = 0
  \/ Cardinality({k \in Active : Target[k] = Target[j]}) < MaxSessions[Target[j]]

Start(j) ==
  /\ phase[j] = "waiting"
  /\ \A n \in Needs[j] : phase[n] = "success"
  /\ j \notin Disabled
  /\ SlotFree /\ SessionFree(j)
  /\ phase' = [phase EXCEPT ![j] = "running"]
  /\ UNCHANGED stop

\* A job is cancelled for its own timeout or for the operator.
End(j) ==
  /\ phase[j] = "running"
  /\ \E how \in {"success", "failed", "cancelled"} : phase' = [phase EXCEPT ![j] = how]
  /\ stop' \in {stop, TRUE}

Skip(j) ==
  /\ phase[j] = "waiting"
  /\ \/ j \in Disabled
     \/ stop
     \/ \E n \in Needs[j] : phase[n] \in Ended \ {"success"}
  /\ phase' = [phase EXCEPT ![j] = "skipped"]
  /\ UNCHANGED stop

AskStop == stop' = TRUE /\ UNCHANGED phase

Init == phase = [j \in Jobs |-> "waiting"] /\ stop = FALSE

Next == AskStop \/ \E j \in Jobs : Start(j) \/ End(j) \/ Skip(j)

Spec == Init /\ [][Next]_<<phase, stop>>
=============================================================================
