--------------------------- MODULE LifecycleModel ----------------------------
(***************************************************************************)
(* The event model of the lifecycle's own tests                            *)
(* (src/src/kernel/lifecycle_model.c): which events may occur in a state.  *)
(* The tests explore the table breadth-first with these events and show    *)
(* that no impossible cell is met.  That says something about the engine   *)
(* only if the engine never goes where the event model does not.           *)
(***************************************************************************)
EXTENDS Engine

\* Mutant of GraceTimerRunning: it is forgotten once the leader is gone.
GraceTimerRunningLeader(s) == s \in StepStopping

GraceTimerRunning(s) == s \in StepStopping \cup SettlingTerm

StepTimerMayFire(s) == s \in StepStates \ (StepStopping \cup StepKilling)

JobTimerMayFire(s) == s \in Running \ SettlingCancelTimeout

WaitingForEmptyGroup(s) == s \in Settling

\* qwe_lcm_events.
LcmEvents(s) ==
  CASE s = "pending" -> {"needs-met", "needs-failed", "cancel", "skip"}
    [] s = "ready" -> {"slot-granted", "cancel", "skip"}
    [] s \in Final -> {"cancel"}
    [] OTHER ->
         (IF s = "between-steps" THEN {"next-step", "no-more-steps", "start-failed"} ELSE {})
         \cup (IF s \in StepRunning THEN {"start-failed"} ELSE {})
         \cup (IF s \in StepStates THEN {"leader-exit-ok", "leader-exit-fail"} ELSE {})
         \cup (IF StepTimerMayFire(s) THEN {"step-timeout"} ELSE {})
         \cup (IF JobTimerMayFire(s) THEN {"job-timeout"} ELSE {})
         \cup (IF GraceTimerRunning(s) THEN {"grace-expired"} ELSE {})
         \cup (IF WaitingForEmptyGroup(s) THEN {"group-empty"} ELSE {})
         \cup {"cancel"}

\* The states the test's exploration goes to from s.
LcmNext(s) ==
  {Lookup(s, e, [NoPayload EXCEPT !.coe = coe]).next : e \in LcmEvents(s), coe \in BOOLEAN}

\* Every change of a job's state that the engine makes, with its timers,
\* stale events, failed starts and cancels in any order, is one that
\* lifecycle_test.c explores: the exhaustive test leaves no path of the real
\* loop out.
TestsCoverTheEngine ==
  [][\A j \in Jobs : run'[j].state # run[j].state => run'[j].state \in LcmNext(run[j].state)]_vars
=============================================================================
