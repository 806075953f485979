-------------------------------- MODULE Events --------------------------------
(***************************************************************************)
(* What the events of the table promise the loop that sends them: an event *)
(* that finds its job's record as it expects it (Expects) meets no         *)
(* impossible cell, keeps the record's type and JobOK, and leaves a live   *)
(* step's elapsed timers alone (Safe).                                     *)
(***************************************************************************)
EXTENDS Engine

\* What a job's record may do to the events of a batch: the cursor only moves
\* forward, and while a step stays live its elapsed timers stay unread.
Evolves(r, q) ==
  /\ r.cur <= q.cur
  /\ r.live # NoStep /\ q.cur = r.cur =>
       /\ q.live = r.live
       /\ r.stepTimer = "elapsed" => q.stepTimer = "elapsed"
       /\ r.graceTimer = "elapsed" => q.graceTimer = "elapsed"
  /\ r.state \in Final \/ r.jobTimer # "closed" => q.state \in Final \/ q.jobTimer # "closed"

\* Event e on record r of job j is in order.
Safe(j, r, e, p, fails) ==
  /\ Cell(r, e, p).kind # "impossible"
  /\ Transition(j, r, e, p, fails) \in JobRuns(j)
  /\ JobOK(Transition(j, r, e, p, fails))
  /\ Evolves(r, Transition(j, r, e, p, fails))

\* JobOK for a job with a live step, short of where its leader may be reaped.
LiveOK(r) ==
  /\ r.live # NoStep /\ r.live = r.cur /\ r.state \in StepStates
  /\ ~r.followup /\ r.leader # "none"
  /\ r.state \in StepStopping \cup StepKilling => r.stepTimer = "fired"
  /\ r.state \in StepRunning => r.graceTimer \in {"idle", "closed"}
  /\ r.state \in StepStopping \cup SettlingTerm => r.graceTimer \in {"armed", "elapsed"}
  /\ r.state \in StepKilling \cup SettlingKill => r.graceTimer = "fired"
  /\ r.state \in SettlingCancelTimeout => r.timeoutTold

\* What event e finds job j's record r to be.
Expects(j, r, e) ==
  \/ e \in {"needs-met", "needs-failed"} /\ JobOK(r) /\ r.state = "pending"
  \/ e = "skip" /\ JobOK(r) /\ r.state \in Waiting
  \/ e = "slot-granted" /\ JobOK(r) /\ r.state = "ready"
  \/ e = "cancel" /\ JobOK(r) /\ ~r.followup
  \/ e = "next-step" /\ JobOK(r) /\ r.state = "between-steps" /\ ~r.followup /\ r.cur <= NSteps[j]
  \/ /\ e \in {"no-more-steps", "start-failed", "job-timeout"}
     /\ JobOK(r) /\ r.state = "between-steps" /\ ~r.followup
  \/ /\ e = "start-failed" /\ r.state \in StepRunning /\ r.live # NoStep /\ r.live = r.cur
     /\ ~r.followup /\ r.members = 0
  \/ e \in {"leader-exit-ok", "leader-exit-fail"} /\ LiveOK(r)
  \/ /\ e = "step-timeout" /\ LiveOK(r) /\ r.stepTimer = "fired"
     /\ r.state \notin StepStopping \cup StepKilling /\ (r.leader = "reaped" => r.state \in Settling)
  \/ /\ e = "job-timeout" /\ LiveOK(r) /\ ~r.timeoutTold
     /\ r.leader = "reaped" => r.state \in Settling
  \/ /\ e = "grace-expired" /\ r.live # NoStep /\ r.live = r.cur /\ ~r.followup
     /\ r.leader # "none" /\ r.state \in StepStopping \cup SettlingTerm /\ r.graceTimer = "fired"
     /\ r.state \in StepStopping => r.stepTimer = "fired"
     /\ r.leader = "reaped" => r.state \in Settling
     /\ r.state \in SettlingCancelTimeout => r.timeoutTold
  \/ e = "group-empty" /\ JobOK(r) /\ r.state \in Settling /\ r.live # NoStep /\ r.members = 0

\* An event that finds what it expects is in order.
EventsSafe ==
  \A j \in Jobs : \A r \in JobRuns(j) : \A p \in Payloads : \A f \in BOOLEAN :
    \A e : Expects(j, r, e) => Safe(j, r, e, p, f)

-----------------------------------------------------------------------------
=============================================================================
