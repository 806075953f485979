------------------------------ MODULE Lifecycle ------------------------------
(***************************************************************************)
(* The job lifecycle: one flat table, 21 states by 14 events               *)
(* (src/src/kernel/lifecycle.c).  A cell is a transition, an ignored event *)
(* or an impossible event, on which the engine aborts.  Everything here is *)
(* a pure operator; module Engine applies the cells.                       *)
(*                                                                         *)
(* States, events, actions and reasons carry the names the engine prints.  *)
(* "none" stands for the absent reason.  A cell's actions are a set: the   *)
(* table lists them in an order, and the one pair that does not commute    *)
(* (record-step before end-job, which moves the cursor) is respected where *)
(* Engine applies them.                                                    *)
(***************************************************************************)

StepRunning == {"step-running", "step-running-coe"}

StepStopping == {"step-stopping", "step-stopping-coe"}

StepKilling == {"step-killing", "step-killing-coe"}

SettlingCancelTimeout ==
  {"settling-cancel-timeout-term", "settling-cancel-timeout-kill"}

SettlingCancelRequested ==
  {"settling-cancel-requested-term", "settling-cancel-requested-kill"}

SettlingTerm ==
  {"settling-continue-term", "settling-fail-term",
   "settling-cancel-timeout-term", "settling-cancel-requested-term"}

SettlingKill ==
  {"settling-continue-kill", "settling-fail-kill",
   "settling-cancel-timeout-kill", "settling-cancel-requested-kill"}

Settling == SettlingTerm \cup SettlingKill

Final == {"success", "failed", "skipped", "cancelled"}

\* The states with a live step.
StepStates == StepRunning \cup StepStopping \cup StepKilling \cup Settling

\* qwe_lc_state_is_running: the job is started and has not ended.
Running == {"between-steps"} \cup StepStates

\* qwe_lc_state_teardown_started: the live step is being stopped.
TeardownStarted == StepStopping \cup StepKilling \cup Settling

States == {"pending", "ready"} \cup Running \cup Final

StepScoped ==
  {"leader-exit-ok", "leader-exit-fail", "step-timeout", "grace-expired",
   "group-empty"}

Events ==
  {"needs-met", "needs-failed", "slot-granted", "next-step", "no-more-steps",
   "start-failed", "job-timeout", "cancel", "skip"} \cup StepScoped

Actions ==
  {"start-job", "spawn-step", "sigterm-group", "arm-grace", "sigkill-group",
   "record-step", "record-job", "end-job"}

-----------------------------------------------------------------------------
(***************************************************************************)
(* Cells.  T, I and X are the macros of the same names.                    *)
(***************************************************************************)

T(next, reason, actions) ==
  [kind |-> "transition", next |-> next, reason |-> reason, actions |-> actions]

I(s) == [kind |-> "ignore", next |-> s, reason |-> "none", actions |-> {}]

X == [kind |-> "impossible", next |-> "pending", reason |-> "none", actions |-> {}]

\* Mutant of Stop: the group is killed at once.
StopHasty == {"sigkill-group", "arm-grace"}

Stop == {"sigterm-group", "arm-grace"}

End == {"record-job", "end-job"}

PendingRow(e, p) ==
  CASE e = "needs-met"    -> T("ready", "none", {})
    [] e = "needs-failed" -> T("skipped", "dependency-failed", End)
    [] e = "cancel"       -> T("skipped", "cancel-requested", End)
    [] e = "skip"         -> T("skipped", p.reason, End)
    [] OTHER              -> X

ReadyRow(e, p) ==
  CASE e = "slot-granted" -> T("between-steps", "none", {"start-job"})
    [] e = "cancel"       -> T("skipped", "cancel-requested", End)
    [] e = "skip"         -> T("skipped", p.reason, End)
    [] OTHER              -> X

\* The coe payload picks the -coe state (TC, qwe_lc_next).
BetweenStepsRow(e, p) ==
  CASE e = "next-step" ->
         T(IF p.coe THEN "step-running-coe" ELSE "step-running", "none", {"spawn-step"})
    [] e = "no-more-steps" -> T("success", "none", End)
    [] e = "start-failed"  -> T("failed", "engine-error", End)
    [] e = "job-timeout"   -> T("cancelled", "timeout", End)
    [] e = "cancel"        -> T("cancelled", "cancel-requested", End)
    [] OTHER               -> X

\* after: where a failed leader leads; stopping: where a step timeout leads.
StepRunningRow(after, stopping, e, p) ==
  CASE e = "start-failed" -> T("failed", "engine-error", {"record-step"} \cup End)
    [] e = "leader-exit-ok" ->
         T("settling-continue-term", "none", Stop \cup {"record-step"})
    [] e = "leader-exit-fail" -> T(after, p.reason, Stop \cup {"record-step"})
    [] e = "step-timeout" -> T(stopping, "timeout", Stop)
    [] e = "job-timeout" ->
         T("settling-cancel-timeout-term", "timeout", Stop \cup {"record-step"})
    [] e = "cancel" ->
         T("settling-cancel-requested-term", "cancel-requested", Stop \cup {"record-step"})
    [] OTHER -> X

\* A timed-out step failed whatever its leader's status was.
StepStoppingRow(after, killing, e) ==
  CASE e \in {"leader-exit-ok", "leader-exit-fail"} -> T(after, "timeout", {"record-step"})
    [] e = "job-timeout" -> T("settling-cancel-timeout-term", "timeout", {"record-step"})
    [] e = "cancel" ->
         T("settling-cancel-requested-term", "cancel-requested", {"record-step"})
    [] e = "grace-expired" -> T(killing, "none", {"sigkill-group"})
    [] OTHER -> X

StepKillingRow(after, e) ==
  CASE e \in {"leader-exit-ok", "leader-exit-fail"} -> T(after, "timeout", {"record-step"})
    [] e = "job-timeout" -> T("settling-cancel-timeout-kill", "timeout", {"record-step"})
    [] e = "cancel" ->
         T("settling-cancel-requested-kill", "cancel-requested", {"record-step"})
    [] OTHER -> X

\* Mutant of SettlingRow: the first job-level trigger wins.
SettlingRowFirst(s, timeout, cancel, expiry, empty, e) ==
  CASE e \in {"leader-exit-ok", "leader-exit-fail", "step-timeout"} -> I(s)
    [] e = "job-timeout"   -> timeout
    [] e = "cancel"        -> IF s \in SettlingCancelTimeout THEN I(s) ELSE cancel
    [] e = "grace-expired" -> expiry
    [] e = "group-empty"   -> empty
    [] OTHER               -> X

\* The outcome is decided and the group is being stopped.  expiry, timeout and
\* cancel are the row's cells for those events; empty its cell for group-empty.
SettlingRow(s, timeout, cancel, expiry, empty, e) ==
  CASE e \in {"leader-exit-ok", "leader-exit-fail", "step-timeout"} -> I(s)
    [] e = "job-timeout"   -> timeout
    [] e = "cancel"        -> cancel
    [] e = "grace-expired" -> expiry
    [] e = "group-empty"   -> empty
    [] OTHER               -> X

FinalRow(s, e) == IF e = "cancel" THEN I(s) ELSE X

\* Mutant of Kill: the escalation changes the state and sends nothing.
KillForgotten(next) == T(next, "none", {})

Kill(next) == T(next, "none", {"sigkill-group"})

ByTimeout(phase) == T(IF phase = "term" THEN "settling-cancel-timeout-term"
                      ELSE "settling-cancel-timeout-kill", "timeout", {})

\* Mutant of ByCancel: a cancel during teardown starts the teardown again.
ByCancelRearms(phase) == T(IF phase = "term" THEN "settling-cancel-requested-term"
                           ELSE "settling-cancel-requested-kill", "cancel-requested", Stop)

ByCancel(phase) == T(IF phase = "term" THEN "settling-cancel-requested-term"
                     ELSE "settling-cancel-requested-kill", "cancel-requested", {})

\* qwe_lc_lookup: p is the payload [coe, reason, carried].
Lookup(s, e, p) ==
  CASE s = "pending" -> PendingRow(e, p)
    [] s = "ready" -> ReadyRow(e, p)
    [] s = "between-steps" -> BetweenStepsRow(e, p)
    [] s = "step-running" -> StepRunningRow("settling-fail-term", "step-stopping", e, p)
    [] s = "step-running-coe" ->
         StepRunningRow("settling-continue-term", "step-stopping-coe", e, p)
    [] s = "step-stopping" -> StepStoppingRow("settling-fail-term", "step-killing", e)
    [] s = "step-stopping-coe" ->
         StepStoppingRow("settling-continue-term", "step-killing-coe", e)
    [] s = "step-killing" -> StepKillingRow("settling-fail-kill", e)
    [] s = "step-killing-coe" -> StepKillingRow("settling-continue-kill", e)
    [] s = "settling-continue-term" ->
         SettlingRow(s, ByTimeout("term"), ByCancel("term"),
                     Kill("settling-continue-kill"), T("between-steps", "none", {}), e)
    [] s = "settling-continue-kill" ->
         SettlingRow(s, ByTimeout("kill"), ByCancel("kill"), X,
                     T("between-steps", "none", {}), e)
    [] s = "settling-fail-term" ->
         SettlingRow(s, ByTimeout("term"), ByCancel("term"),
                     Kill("settling-fail-kill"), T("failed", p.carried, End), e)
    [] s = "settling-fail-kill" ->
         SettlingRow(s, ByTimeout("kill"), ByCancel("kill"), X,
                     T("failed", p.carried, End), e)
    [] s = "settling-cancel-timeout-term" ->
         SettlingRow(s, X, ByCancel("term"), Kill("settling-cancel-timeout-kill"),
                     T("cancelled", "timeout", End), e)
    [] s = "settling-cancel-timeout-kill" ->
         SettlingRow(s, X, ByCancel("kill"), X, T("cancelled", "timeout", End), e)
    [] s = "settling-cancel-requested-term" ->
         SettlingRow(s, I(s), I(s), Kill("settling-cancel-requested-kill"),
                     T("cancelled", "cancel-requested", End), e)
    [] s = "settling-cancel-requested-kill" ->
         SettlingRow(s, I(s), I(s), X, T("cancelled", "cancel-requested", End), e)
    [] OTHER -> FinalRow(s, e)

\* Mutant of IsStale: the step index of an event is not compared.
IsStaleUnscoped(s, e, eventStep, liveStep) == e = "job-timeout" /\ s \in Final

\* qwe_lc_event_is_stale: an event of a step that is no longer the live one,
\* or a job timeout of a job that has ended, is dropped before the table.
IsStale(s, e, eventStep, liveStep) ==
  \/ e \in StepScoped /\ eventStep # liveStep
  \/ e = "job-timeout" /\ s \in Final

\* qwe_lc_step_outcome: what record-step writes for a cell.
StepOutcome(c) ==
  IF c.next \in SettlingCancelTimeout \cup SettlingCancelRequested THEN "cancelled"
  ELSE IF c.reason = "none" THEN "success" ELSE "failed"
=============================================================================
