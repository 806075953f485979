---------------------------- MODULE EngineTheorems ----------------------------
(***************************************************************************)
(* What the engine does in every run, for any jobs, steps, limits and      *)
(* bounds: the temporal theorems, each from what JobProofs, EngineProofs,  *)
(* AccountProofs and OutcomeProofs show of one event and of one step.      *)
(***************************************************************************)
EXTENDS JobProofs, EngineProofs, AccountProofs, OutcomeProofs

-----------------------------------------------------------------------------
(* The invariant *)

\* Every step of the engine and of its environment preserves Inv.
LEMMA NextInv == Inv /\ [Next]_vars => Inv'
  BY StepInv, EventsAreSafe, ZenonT(30)

\* Inv is an invariant of the engine: of the loop, the scheduler's sends, the
\* follow-ups of job_send and any interleaving of the operating system.
THEOREM EngineInvariant == Spec => []Inv
  BY InitInv, NextInv, PTL DEF Spec

\* Every variable keeps its type; no cursor runs past its job's last step.
THEOREM TypeCorrect == Spec => []TypeOK
<1>1. Inv => TypeOK
  BY InvMeans, Zenon
<1> QED
  BY <1>1, EngineInvariant, PTL

\* qwe_lc_lookup never meets an impossible cell.
THEOREM NoAbort == Spec => []NeverAborts
<1>1. Inv => NeverAborts
  BY InvMeans, ZenonT(30)
<1> QED
  BY <1>1, EngineInvariant, PTL

\* Only a step whose own timer expired is torn down for a timeout.
THEOREM TimeoutsAreOwn == Spec => []TimeoutIsOwn
<1>1. Inv => TimeoutIsOwn
  BY InvMeans, Zenon
<1> QED
  BY <1>1, EngineInvariant, PTL

\* No process of a step's group outlives the step.
THEOREM StepsEndWithTheirGroup == Spec => []NothingOutlivesItsStep
<1>1. Inv => NothingOutlivesItsStep
  BY InvMeans, Zenon
<1> QED
  BY <1>1, EngineInvariant, PTL

-----------------------------------------------------------------------------
(* How jobs end *)

\* What the table and Inv give is an invariant of the engine.
THEOREM TriggerInvariant == Spec => [](Inv /\ TriggerInv)
<1>1. Init => Inv /\ TriggerInv
  BY InitInv, InitTrigger, Zenon
<1>2. Inv /\ TriggerInv /\ [Next]_vars => (Inv /\ TriggerInv)'
  BY NextInv, NextOutcome, Zenon DEF TriggerInv, Outcome
<1> QED
  BY <1>1, <1>2, PTL DEF Spec

\* No step of a job's process group is sent SIGKILL before it was sent SIGTERM
\* and its grace period ran out, whatever triggers fire and in what order.
THEOREM KillsFollowGrace == Spec => KillAfterGrace
<1>1. ASSUME Inv, TriggerInv, [Next]_vars
      PROVE  [\A j \in Jobs :
                run'[j].sent = "kill" /\ run[j].sent # "kill" =>
                  run[j].sent = "term" /\ run'[j].graceTimer = "fired"]_vars
  <2>1. Inv' /\ \A j \in Jobs : Outcome(run[j], run'[j])
    BY <1>1, NextInv, NextOutcome, ZenonT(30)
  <2>2. \A j \in Jobs : JobOK(run'[j])
    BY <2>1, Zenon DEF Inv
  <2> QED
    BY <2>1, <2>2, ZenonT(30) DEF Outcome, JobOK
<1> QED
  BY <1>1, TriggerInvariant, PTL DEF Spec, KillAfterGrace

\* No trigger arms the grace timer of a step a second time.
THEOREM GraceIsGivenOnce == Spec => OneGracePeriod
<1>1. ASSUME Inv, TriggerInv, [Next]_vars
      PROVE  [\A j \in Jobs :
                run[j].live # NoStep /\ run[j].graceTimer \in {"elapsed", "fired"}
                  => run'[j].graceTimer # "armed"]_vars
  <2>1. \A j \in Jobs : Outcome(run[j], run'[j])
    BY <1>1, NextInv, NextOutcome, ZenonT(30)
  <2>2. \A j \in Jobs : JobOK(run[j])
    BY <1>1, ZenonT(30) DEF Inv
  <2> QED
    BY <2>1, <2>2, ZenonT(30) DEF Outcome, JobOK
<1> QED
  BY <1>1, TriggerInvariant, PTL DEF Spec, OneGracePeriod

\* A job told of a cancel ends cancelled by it, one told of its timeout only
\* ends cancelled by that, and only a job told of neither succeeds or fails.
THEOREM EndsByStrongestTrigger == Spec => StrongestTriggerWins
<1>1. ASSUME Inv, TriggerInv, [Next]_vars
      PROVE  [\A j \in Jobs :
                LET r == run'[j]
                IN  run[j].state \in Running /\ r.state \in Final =>
                      IF r.cancelTold THEN r.state = "cancelled" /\ r.reason = "cancel-requested"
                      ELSE IF r.timeoutTold THEN r.state = "cancelled" /\ r.reason = "timeout"
                      ELSE r.state \in {"success", "failed"}]_vars
  <2>1. \A j \in Jobs : Outcome(run[j], run'[j])
    BY <1>1, NextInv, NextOutcome, Zenon
  <2> QED
    BY <2>1, ZenonT(30) DEF Outcome
<1> QED
  BY <1>1, TriggerInvariant, PTL DEF Spec, StrongestTriggerWins

\* Every move between states that the engine makes is one lifecycle_test.c
\* explores.
THEOREM TestsExploreEveryMove == Spec => TestsCoverTheEngine
<1>1. ASSUME Inv, TriggerInv, [Next]_vars
      PROVE  [\A j \in Jobs :
                run'[j].state # run[j].state => run'[j].state \in LcmNext(run[j].state)]_vars
  <2>1. \A j \in Jobs : Outcome(run[j], run'[j])
    BY <1>1, NextInv, NextOutcome, Zenon
  <2> QED
    BY <2>1, ZenonT(30) DEF Outcome
<1> QED
  BY <1>1, TriggerInvariant, PTL DEF Spec, TestsCoverTheEngine

\* A cancel that was read, by the loop or by a job between two steps, is told to
\* every job before the loop sleeps again.
THEOREM CancelReachesAll == Spec => []CancelHeard
<1>1. Init => SleepInv
  BY InitMeans, Zenon
<1>2. Inv /\ SleepInv /\ [Next]_vars => SleepInv'
  BY NextSleep, Zenon
<1>3. SleepInv => CancelHeard
  BY SleepMeans, ZenonT(30)
<1> QED
  BY <1>1, <1>2, <1>3, EngineInvariant, PTL DEF Spec

\* The loop never sleeps over an exit: the signalfd is emptied before waitpid
\* and the check of the groups, so what comes later makes it readable again.
THEOREM ExitsAreNoticed == Spec => []NoLostExit
<1>1. Init => NoticedInv
  BY InitMeans, Zenon
<1>2. Inv /\ NoticedInv /\ [Next]_vars => NoticedInv'
  BY NextInv, NextNoticed, ZenonT(30)
<1>3. NoticedInv => NoLostExit
  BY NoticedMeans, Zenon
<1> QED
  BY <1>1, <1>2, <1>3, EngineInvariant, PTL DEF Spec

-----------------------------------------------------------------------------
(* What is recorded of them *)

\* The account of the steps is an invariant of the engine.
THEOREM AccountInvariant == Spec => [](Inv /\ AccountInv)
<1>1. Init => Inv /\ AccountInv
  BY InitInv, InitAccount, Zenon
<1>2. Inv /\ AccountInv /\ [Next]_vars => (Inv /\ AccountInv)'
  BY NextInv, NextAccount, ZenonT(30)
<1> QED
  BY <1>1, <1>2, PTL DEF Spec

\* When a started job has ended every step is recorded: passed ones, then at
\* most one that ended the job, then skipped ones; a job succeeds only if all
\* were passed, and fails with the reason of the step that failed (record_step,
\* job_end).
THEOREM StepsAreAccountedFor == Spec => []StepsAccountedFor
<1>1. Inv /\ AccountInv => StepsAccountedFor
  BY EndedAccount, Zenon
<1> QED
  BY <1>1, AccountInvariant, PTL

-----------------------------------------------------------------------------
(* What is scheduled, and the contract *)

\* What the scheduler's arithmetic rests on.
LEMMA SetFactsHold == SetFacts
  BY CardinalityOfJobs, LastOfJobs, FirstOfJobs, ZenonT(30) DEF SetFacts

\* run_all never ends with "neither finished nor runnable" when validation has
\* accepted the needs.
THEOREM NeverGivesUp == Spec => []NeverUnrunnable
<1>1. Init => NeverUnrunnable
  BY InitMeans, Zenon
<1>2. Inv /\ NeverUnrunnable /\ [Next]_vars => NeverUnrunnable'
  BY SetFactsHold, NextRunnable, Zenon
<1> QED
  BY <1>1, <1>2, EngineInvariant, PTL DEF Spec

\* The invariant of the contract is one of the engine.
THEOREM ContractInvariant == Spec => [](Inv /\ ContractInv)
<1>1. Inv /\ ContractInv /\ [Next]_vars => (Inv /\ ContractInv)'
  BY NextInv, NextContract, SetFactsHold, ZenonT(30)
<1>2. Init => Inv /\ ContractInv
  BY InitInv, InitContract, SetFactsHold, ZenonT(30)
<1> QED
  BY <1>1, <1>2, PTL DEF Spec

\* max_parallel and the session caps of the targets are never exceeded.
THEOREM LimitsAlwaysHold == Spec => []LimitsHold
<1>1. Inv /\ ContractInv => LimitsHold
  <2> SUFFICES ASSUME Inv, ContractInv PROVE LimitsHold
    BY Zenon
  <2>1. RunningIn(StateOf) \subseteq Busy /\ Busy \subseteq Jobs
    BY Zenon DEF Busy, RunningIn, Granted
  <2>2. Within(RunningIn(StateOf))
    BY <2>1, WithinFewer, SetFactsHold, ZenonT(30) DEF ContractInv
  <2> QED
    BY <2>2, ZenonT(30) DEF Within, LimitsHold
<1> QED
  BY <1>1, ContractInvariant, PTL

\* The engine keeps the contract of the run: a job starts only when its needs
\* have succeeded, it is not disabled and a slot and a session are free, it ends
\* once, and a job that never runs has a cause.
THEOREM EngineImplementsWorkflow == Spec => ImplementsWorkflow
<1>1. Init => W!Init
  BY InitMeans, Zenon
<1>2. Inv /\ ContractInv /\ [Next]_vars =>
        [W!Next]_<<[j \in Jobs |-> Phase(run[j].state)], cancelRequested>>
  BY NextInv, StepSimulates, SetFactsHold, ZenonT(30)
<1> QED
  BY <1>1, <1>2, ContractInvariant, PTL DEF Spec, ImplementsWorkflow, W!Spec
=============================================================================
