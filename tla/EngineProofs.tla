----------------------------- MODULE EngineProofs -----------------------------
(***************************************************************************)
(* Inv, for any jobs, steps, limits and bounds: every event the loop sends *)
(* finds its job's record as it expects it, so the loop keeps Inv if an    *)
(* event so met is in order (EventsSafe, which JobProofs shows).           *)
(***************************************************************************)
EXTENDS Events, TLAPS

\* The steps a job is at are numbers.
LEMMA StepNumbers ==
  ASSUME NEW j \in Jobs, NEW r \in JobRuns(j)
  PROVE  r.cur \in Nat /\ r.cur > 0 /\ r.live \in Nat
<1>1. r.cur \in 1..(NSteps[j] + 1) /\ r.live \in 0..NSteps[j]
  BY DEF JobRuns
<1>2. NSteps[j] \in Nat
  BY EngineAssumption
<1> QED
  BY <1>1, <1>2

\* ... whatever it carries, and whether or not a start or a spawn fails.
LEMMA Met ==
  ASSUME EventsSafe, NEW j \in Jobs, NEW r \in JobRuns(j), NEW p \in Payloads, NEW e,
         Expects(j, r, e)
  PROVE  \A f \in BOOLEAN : Safe(j, r, e, p, f)
  BY Zenon DEF EventsSafe

TimerTags == {"step-timer", "grace-timer", "job-timer"}

\* An unchanged record is fine for the events of the batch.
LEMMA EvolvesRefl ==
  ASSUME NEW j \in Jobs, NEW r \in JobRuns(j)
  PROVE  Evolves(r, r)
<1>1. r.cur \in Nat
  BY StepNumbers
<1> QED
  BY <1>1 DEF Evolves

\* Events of the batch stay good while the record evolves.
LEMMA EvolvesKeepsTags ==
  ASSUME NEW j \in Jobs, NEW r \in JobRuns(j), NEW q \in JobRuns(j), JobOK(q), Evolves(r, q),
         NEW tag \in Tags, TagOK(r, tag)
  PROVE  TagOK(q, tag)
<1>1. r.cur \in Nat /\ q.cur \in Nat /\ r.live \in Nat /\ q.live \in Nat /\ r.cur > 0
  BY EngineAssumption DEF JobRuns
<1>2. tag.step \in Nat
  BY DEF Tags
<1> QED
  BY <1>1, <1>2 DEF TagOK, Evolves, NoStep

\* One job moves and everything else in the loop's hands stays good.
LEMMA JobMoves ==
  ASSUME Inv, NEW j \in Jobs, NEW r \in JobRuns(j), NEW q \in JobRuns(j),
         JobOK(q), Evolves(r, q),
         run' = [run EXCEPT ![j] = q], aborted' = FALSE,
         batch' \subseteq batch,
         \A tag \in batch' : tag.kind \in TimerTags /\ tag.job = j => TagOK(r, tag),
         pass' \subseteq pass,
         \A ev \in pass' : ev.job = j => q.state = run[j].state,
         pc' = pc, todo' \subseteq todo,
         j \in todo' => pc # "skip-disabled" \/ q.state = run[j].state,
         chld' \in BOOLEAN, cancelFd' \in BOOLEAN, cancelRequested' \in BOOLEAN
  PROVE  Inv'
<1>1. TypeOK'
  BY Zenon DEF Inv, TypeOK
<1>2. \A k \in Jobs : JobOK(run'[k])
  BY DEF Inv, TypeOK
<1>3. ASSUME NEW tag \in batch', tag.kind \in TimerTags
      PROVE  tag.job \in Jobs /\ TagOK(run'[tag.job], tag)
  <2>1. tag \in Tags /\ tag.job \in Jobs /\ TagOK(run[tag.job], tag)
    BY <1>3 DEF Inv, TypeOK, TimerTags
  <2>2. CASE tag.job = j
    BY <1>3, <2>1, <2>2, EvolvesKeepsTags DEF Inv, TypeOK
  <2>3. CASE tag.job # j
    BY <2>1, <2>3 DEF Inv, TypeOK
  <2> QED
    BY <2>1, <2>2, <2>3
<1>4. ASSUME NEW ev \in pass'
      PROVE  PassOK(ev)'
  <2>1. ev.job \in Jobs /\ PassOK(ev) /\ run'[ev.job].state = run[ev.job].state
    BY DEF Inv, TypeOK
  <2> QED
    BY <2>1 DEF PassOK
<1>5. \A ev1, ev2 \in pass' : ev1.job = ev2.job => ev1 = ev2
  BY DEF Inv
<1>6. (pass' # {} => pc' = "sched")
  BY DEF Inv
<1>7. pc' = "skip-disabled" => \A k \in todo' : run'[k].state = "pending"
  BY DEF Inv, TypeOK
<1> QED
  BY <1>1, <1>2, <1>3, <1>4, <1>5, <1>6, <1>7 DEF Inv, TimerTags

\* dispatch_one on a record that is ready for the event.
LEMMA DispatchMoves ==
  ASSUME NEW j \in Jobs, NEW r \in JobRuns(j), NEW e, NEW p, NEW step,
         Dispatch(j, r, e, p, step),
         IsStale(r.state, e, step, r.live) => JobOK(r),
         ~IsStale(r.state, e, step, r.live) => \A f \in BOOLEAN : Safe(j, r, e, p, f)
  PROVE  /\ aborted' = FALSE
         /\ \E q \in JobRuns(j) :
              JobOK(q) /\ Evolves(r, q) /\ run' = [run EXCEPT ![j] = q]
<1>1. CASE IsStale(r.state, e, step, r.live)
  BY <1>1, EvolvesRefl, Zenon DEF Dispatch
<1>2. CASE ~IsStale(r.state, e, step, r.live)
  <2>1. Cell(r, e, p).kind # "impossible"
    BY <1>2, Zenon DEF Safe
  <2>2. PICK f \in BOOLEAN : run' = [run EXCEPT ![j] = Transition(j, r, e, p, f)]
    BY <1>2, <2>1, Zenon DEF Dispatch
  <2>3. aborted' = FALSE
    BY <1>2, <2>1, Zenon DEF Dispatch
  <2> QED
    BY <1>2, <2>2, <2>3, Zenon DEF Safe
<1> QED
  BY <1>1, <1>2, Zenon

\* The payloads the loop sends are payloads.
LEMMA PayloadTypes ==
  /\ NoPayload \in Payloads
  /\ \A b \in BOOLEAN : [NoPayload EXCEPT !.coe = b] \in Payloads
  /\ \A y \in Reasons : [NoPayload EXCEPT !.reason = y] \in Payloads
  BY Zenon DEF NoPayload, Payloads, Reasons

\* What the invariant says of one job.
LEMMA JobFacts ==
  ASSUME Inv, NEW j \in Jobs
  PROVE  run[j] \in JobRuns(j) /\ JobOK(run[j])
  BY DEF Inv, TypeOK

\* A job that is not waiting is in no event of the pass and not to be skipped.
LEMMA NotWaiting ==
  ASSUME Inv, NEW j \in Jobs, run[j].state \notin {"pending", "ready"}
  PROVE  (\A ev \in pass : ev.job # j) /\ (j \in todo => pc # "skip-disabled")
  BY DEF Inv, TypeOK, PassOK

\* job_send's follow-up: a job or a step that could not be started.
LEMMA SendStartFailedInv ==
  ASSUME EventsSafe, Inv, NEW j \in Jobs, SendStartFailed(j)
  PROVE  Inv'
<1> DEFINE r == [run[j] EXCEPT !.followup = FALSE]
<1>1. run[j] \in JobRuns(j) /\ JobOK(run[j]) /\ run[j].followup
  BY JobFacts DEF SendStartFailed
<1>2. /\ r \in JobRuns(j) /\ ~r.followup /\ r.state = run[j].state /\ r.cur = run[j].cur
      /\ r.live = run[j].live /\ r.leader = run[j].leader /\ r.members = run[j].members
      /\ r.stepTimer = run[j].stepTimer /\ r.graceTimer = run[j].graceTimer
      /\ r.jobTimer = run[j].jobTimer /\ r.timeoutTold = run[j].timeoutTold
  BY <1>1, Zenon DEF JobRuns
<1>3. Dispatch(j, r, "start-failed", NoPayload, NoStep)
  BY DEF SendStartFailed
<1> HIDE DEF r
<1>4. r.state \in StepRunning \cup {"between-steps"} /\ r.members = 0
  BY <1>1, <1>2 DEF JobOK
<1>5. \A f \in BOOLEAN : Safe(j, r, "start-failed", NoPayload, f)
  <2> SUFFICES ASSUME NEW f \in BOOLEAN PROVE Safe(j, r, "start-failed", NoPayload, f)
    OBVIOUS
  <2>1. CASE r.state = "between-steps"
    <3>1. JobOK(r)
      BY <1>1, <1>2, <2>1 DEF JobOK, StepStates, StepRunning, StepStopping, StepKilling,
         Settling, SettlingTerm, SettlingKill, SettlingCancelTimeout
    <3>2. Expects(j, r, "start-failed")
      BY <1>2, <2>1, <3>1, Zenon DEF Expects
    <3> QED
      BY <1>2, <3>2, PayloadTypes, Met, Zenon
  <2>2. CASE r.state \in StepRunning
    <3>1. r.live # NoStep /\ r.live = r.cur
      BY <1>1, <1>2, <2>2 DEF JobOK, StepStates
    <3>2. Expects(j, r, "start-failed")
      BY <1>2, <1>4, <2>2, <3>1, Zenon DEF Expects
    <3> QED
      BY <1>2, <3>2, PayloadTypes, Met, Zenon
  <2> QED
    BY <1>4, <2>1, <2>2
<1>6. ~IsStale(r.state, "start-failed", NoStep, r.live)
  BY DEF IsStale, StepScoped
<1>7. PICK q \in JobRuns(j) : JobOK(q) /\ Evolves(r, q) /\ run' = [run EXCEPT ![j] = q]
  BY <1>2, <1>3, <1>5, <1>6, DispatchMoves, Zenon
<1>8. aborted' = FALSE
  BY <1>2, <1>3, <1>5, <1>6, DispatchMoves, Zenon
<1>9. /\ pc' = pc /\ pass' = pass /\ batch' = batch /\ todo' = todo /\ chld' = chld
      /\ cancelFd' = cancelFd /\ cancelRequested' = cancelRequested
  BY DEF SendStartFailed, loop
<1>10. \A tag \in batch' : tag.kind \in TimerTags /\ tag.job = j => TagOK(r, tag)
  BY <1>2, <1>9 DEF Inv, TagOK, TimerTags
<1>11. (\A ev \in pass : ev.job # j) /\ (j \in todo => pc # "skip-disabled")
  BY <1>2, <1>4, NotWaiting DEF StepRunning
<1>12. chld' \in BOOLEAN /\ cancelFd' \in BOOLEAN /\ cancelRequested' \in BOOLEAN
  BY <1>9 DEF Inv, TypeOK
<1> QED
  BY <1>2, <1>7, <1>8, <1>9, <1>10, <1>11, <1>12, JobMoves, Zenon

\* job_send between two steps (between_steps_event).
LEMMA BetweenStepsInv ==
  ASSUME EventsSafe, Inv, NEW j \in Jobs, BetweenSteps(j)
  PROVE  Inv'
<1> DEFINE r == run[j]
           cancel == ~r.cancelTold /\ (cancelRequested \/ cancelFd)
           reads == ~cancel /\ r.jobTimer # "closed" /\ ~r.timeoutTold
           timeout == reads /\ Expired(r.jobTimer)
           s == IF reads THEN [r EXCEPT !.jobTimer = Read(@)] ELSE r
<1>1. r \in JobRuns(j) /\ JobOK(r) /\ ~r.followup /\ r.state = "between-steps"
  BY JobFacts DEF BetweenSteps
<1>2. /\ s \in JobRuns(j) /\ s.followup = r.followup /\ s.state = r.state /\ s.cur = r.cur
      /\ s.live = r.live /\ s.leader = r.leader /\ s.members = r.members
      /\ s.stepTimer = r.stepTimer /\ s.graceTimer = r.graceTimer
      /\ s.timeoutTold = r.timeoutTold /\ (s.jobTimer # "closed" <=> r.jobTimer # "closed")
  <2>1. CASE ~reads
    BY <1>1, <2>1
  <2>2. CASE reads
    <3>1. s = [r EXCEPT !.jobTimer = Read(r.jobTimer)]
      BY <2>2
    <3>2. Read(r.jobTimer) \in Timers /\ (Read(r.jobTimer) # "closed" <=> r.jobTimer # "closed")
      BY <1>1 DEF Read, Timers, JobRuns
    <3> QED
      BY <1>1, <3>1, <3>2 DEF JobRuns
  <2> QED
    BY <2>1, <2>2
<1>3. \/ Dispatch(j, s, "cancel", NoPayload, NoStep)
      \/ Dispatch(j, s, "job-timeout", NoPayload, NoStep)
      \/ /\ r.cur <= NSteps[j]
         /\ Dispatch(j, s, "next-step", [NoPayload EXCEPT !.coe = Coe[j][r.cur]], NoStep)
      \/ Dispatch(j, s, "no-more-steps", NoPayload, NoStep)
  BY DEF BetweenSteps
<1>4. /\ pc' = pc /\ pass' = pass /\ batch' = batch /\ todo' = todo /\ chld' = chld
      /\ cancelFd' \in BOOLEAN /\ cancelRequested' \in BOOLEAN
  BY DEF BetweenSteps, loop
<1> HIDE DEF s
<1>5. JobOK(s)
  BY <1>1, <1>2 DEF JobOK
<1>6. /\ aborted' = FALSE
      /\ \E q \in JobRuns(j) : JobOK(q) /\ Evolves(s, q) /\ run' = [run EXCEPT ![j] = q]
  <2>1. ASSUME NEW e \in {"cancel", "job-timeout", "no-more-steps"},
               Dispatch(j, s, e, NoPayload, NoStep)
        PROVE  <1>6
    <3>0. Expects(j, s, e)
      BY <1>1, <1>2, <1>5, <2>1, Zenon DEF Expects
    <3>1. \A f \in BOOLEAN : Safe(j, s, e, NoPayload, f)
      BY <1>2, <3>0, PayloadTypes, Met, Zenon
    <3>2. ~IsStale(s.state, e, NoStep, s.live)
      BY <1>1, <1>2 DEF IsStale, StepScoped, Final
    <3> QED
      BY <1>2, <2>1, <3>1, <3>2, DispatchMoves, Zenon
  <2>2. ASSUME r.cur <= NSteps[j],
               Dispatch(j, s, "next-step", [NoPayload EXCEPT !.coe = Coe[j][r.cur]], NoStep)
        PROVE  <1>6
    <3>1. Coe[j][r.cur] \in BOOLEAN
      BY <1>1, <2>2, EngineAssumption DEF JobRuns
    <3> DEFINE p == [NoPayload EXCEPT !.coe = Coe[j][r.cur]]
    <3>2. p \in Payloads
      BY <3>1, PayloadTypes
    <3> HIDE DEF p
    <3>0. Expects(j, s, "next-step")
      BY <1>1, <1>2, <1>5, <2>2, Zenon DEF Expects
    <3>3. \A f \in BOOLEAN : Safe(j, s, "next-step", p, f)
      BY <1>2, <3>0, <3>2, Met, Zenon
    <3>4. ~IsStale(s.state, "next-step", NoStep, s.live)
      BY DEF IsStale, StepScoped
    <3> QED
      BY <1>2, <2>2, <3>3, <3>4, DispatchMoves, Zenon DEF p
  <2> QED
    BY <1>3, <2>1, <2>2, Zenon
<1>7. \A tag \in batch' : tag.kind \in TimerTags /\ tag.job = j => TagOK(s, tag)
  BY <1>2, <1>4 DEF Inv, TagOK, TimerTags
<1>8. (\A ev \in pass : ev.job # j) /\ (j \in todo => pc # "skip-disabled")
  BY <1>1, NotWaiting
<1>9. chld' \in BOOLEAN
  BY <1>4 DEF Inv, TypeOK
<1>10. PICK q \in JobRuns(j) : JobOK(q) /\ Evolves(s, q) /\ run' = [run EXCEPT ![j] = q]
  BY <1>6, Zenon
<1>11. aborted' = FALSE /\ s \in JobRuns(j)
  BY <1>2, <1>6
<1> QED
  BY <1>4, <1>7, <1>8, <1>9, <1>10, <1>11, JobMoves, Zenon

\* Actions that send an event to a job whose record they have not touched.
LEMMA PlainMove ==
  ASSUME Inv, NEW j \in Jobs, NEW e, NEW p, NEW step,
         Dispatch(j, run[j], e, p, step),
         ~IsStale(run[j].state, e, step, run[j].live) =>
           \A f \in BOOLEAN : Safe(j, run[j], e, p, f),
         UNCHANGED <<pc, batch, chld, cancelFd, cancelRequested>>,
         pass' \subseteq pass, \A ev \in pass' : ev.job # j,
         todo' \subseteq todo, j \in todo' => pc # "skip-disabled"
  PROVE  Inv'
<1>1. run[j] \in JobRuns(j) /\ JobOK(run[j])
  BY JobFacts
<1>2. PICK q \in JobRuns(j) : JobOK(q) /\ Evolves(run[j], q) /\ run' = [run EXCEPT ![j] = q]
  BY <1>1, DispatchMoves, Zenon
<1>3. aborted' = FALSE
  BY <1>1, DispatchMoves, Zenon
<1>4. \A tag \in batch' : tag.kind \in TimerTags /\ tag.job = j => TagOK(run[j], tag)
  BY DEF Inv, TimerTags
<1>5. chld' \in BOOLEAN /\ cancelFd' \in BOOLEAN /\ cancelRequested' \in BOOLEAN
  BY DEF Inv, TypeOK
<1> QED
  BY <1>1, <1>2, <1>3, <1>4, <1>5, JobMoves, Zenon

\* skip_disabled sends skip to jobs that are still pending.
LEMMA SkipDisabledInv ==
  ASSUME EventsSafe, Inv, NEW j \in Jobs, SkipDisabled(j)
  PROVE  Inv'
<1> DEFINE p == [NoPayload EXCEPT !.reason = "target-disabled"]
<1>1. run[j] \in JobRuns(j) /\ JobOK(run[j]) /\ run[j].state = "pending"
  BY JobFacts DEF SkipDisabled, Inv
<1>2. p \in Payloads
  BY PayloadTypes DEF Reasons
<1>3. /\ Dispatch(j, run[j], "skip", p, NoStep)
      /\ UNCHANGED <<pc, batch, chld, cancelFd, cancelRequested>>
  BY DEF SkipDisabled
<1>4. pass' = {} /\ todo' \subseteq todo /\ j \notin todo'
  BY DEF SkipDisabled, Inv
<1> HIDE DEF p
<1>5. \A f \in BOOLEAN : Safe(j, run[j], "skip", p, f)
  <2>1. Expects(j, run[j], "skip")
    BY <1>1, Zenon DEF Expects, Waiting
  <2> QED
    BY <1>1, <1>2, <2>1, Met, Zenon
<1> QED
  BY <1>3, <1>4, <1>5, PlainMove

\* broadcast_cancel.
LEMMA BroadcastCancelInv ==
  ASSUME EventsSafe, Inv, NEW j \in Jobs, BroadcastCancel(j)
  PROVE  Inv'
<1>1. run[j] \in JobRuns(j) /\ JobOK(run[j]) /\ ~run[j].followup
  BY JobFacts DEF BroadcastCancel, Quiet, Owed
<1>2. /\ Dispatch(j, run[j], "cancel", NoPayload, NoStep)
      /\ UNCHANGED <<pc, batch, chld, cancelFd, cancelRequested>>
  BY DEF BroadcastCancel, loop
<1>3. pass' = {} /\ todo' = todo /\ pc # "skip-disabled"
  BY DEF BroadcastCancel, loop, Inv
<1>4. \A f \in BOOLEAN : Safe(j, run[j], "cancel", NoPayload, f)
  <2>1. Expects(j, run[j], "cancel")
    BY <1>1, Zenon DEF Expects
  <2> QED
    BY <1>1, <2>1, PayloadTypes, Met, Zenon
<1> QED
  BY <1>2, <1>3, <1>4, PlainMove

\* An event of the scheduler pass finds its job as the pass saw it.
LEMMA SendPassInv ==
  ASSUME EventsSafe, Inv, NEW j \in Jobs, SendPass(j)
  PROVE  Inv'
<1>1. PICK ev \in pass : /\ ev.job = j
                         /\ Dispatch(j, run[j], ev.event, NoPayload, NoStep)
                         /\ pass' = pass \ {ev}
  BY DEF SendPass
<1>2. run[j] \in JobRuns(j) /\ JobOK(run[j]) /\ PassOK(ev)
      /\ ev.event \in {"needs-met", "needs-failed", "slot-granted"}
  BY JobFacts DEF Inv, TypeOK
<1>3. pc = "sched" /\ UNCHANGED <<pc, batch, chld, cancelFd, cancelRequested>> /\ todo' = todo
  BY DEF SendPass
<1>4. \A other \in pass' : other.job # j
  BY <1>1 DEF Inv
<1>5. \A f \in BOOLEAN : Safe(j, run[j], ev.event, NoPayload, f)
  <2>1. Expects(j, run[j], ev.event)
    BY <1>1, <1>2, Zenon DEF Expects, PassOK
  <2> QED
    BY <1>2, <2>1, PayloadTypes, Met, Zenon
<1>6. pass' \subseteq pass /\ pc # "skip-disabled"
  BY <1>1, <1>3
<1> QED
  BY <1>1, <1>3, <1>4, <1>5, <1>6, PlainMove

\* reap_children, a leader's exit.
LEMMA ReapLeaderInv ==
  ASSUME EventsSafe, Inv, NEW j \in Jobs, ReapLeader(j)
  PROVE  Inv'
<1> DEFINE r == [run[j] EXCEPT !.leader = "reaped"]
<1>1. run[j] \in JobRuns(j) /\ JobOK(run[j]) /\ run[j].leader = "zombie" /\ ~run[j].followup
  BY JobFacts DEF ReapLeader, Quiet, Owed
<1>2. /\ r \in JobRuns(j) /\ r.leader = "reaped" /\ r.state = run[j].state /\ r.cur = run[j].cur
      /\ r.live = run[j].live /\ r.members = run[j].members /\ r.followup = run[j].followup
      /\ r.stepTimer = run[j].stepTimer /\ r.graceTimer = run[j].graceTimer
      /\ r.jobTimer = run[j].jobTimer /\ r.timeoutTold = run[j].timeoutTold
  BY <1>1 DEF JobRuns
<1>3. \E e \in {"leader-exit-ok", "leader-exit-fail"}, p \in Payloads :
        Dispatch(j, r, e, p, r.live)
  <2>1. CASE Dispatch(j, r, "leader-exit-ok", NoPayload, r.live)
    BY <2>1, PayloadTypes
  <2>2. ASSUME NEW why \in ExitReasons,
               Dispatch(j, r, "leader-exit-fail", [NoPayload EXCEPT !.reason = why], r.live)
        PROVE  <1>3
    <3>1. [NoPayload EXCEPT !.reason = why] \in Payloads
      BY PayloadTypes DEF Reasons
    <3> QED
      BY <2>2, <3>1
  <2> QED
    BY <2>1, <2>2, Zenon DEF ReapLeader
<1> HIDE DEF r
<1>4. PICK e \in {"leader-exit-ok", "leader-exit-fail"}, p \in Payloads :
        Dispatch(j, r, e, p, r.live)
  BY <1>3, Zenon
<1>5. LiveOK(r)
  BY <1>1, <1>2 DEF LiveOK, JobOK
<1>6. \A f \in BOOLEAN : Safe(j, r, e, p, f)
  <2>1. Expects(j, r, e)
    BY <1>5, Zenon DEF Expects
  <2> QED
    BY <1>2, <2>1, Met, Zenon
<1>7. ~IsStale(r.state, e, r.live, r.live)
  BY DEF IsStale
<1>8. PICK q \in JobRuns(j) : JobOK(q) /\ Evolves(r, q) /\ run' = [run EXCEPT ![j] = q]
  BY <1>2, <1>4, <1>6, <1>7, DispatchMoves, Zenon
<1>9. aborted' = FALSE
  BY <1>2, <1>4, <1>6, <1>7, DispatchMoves, Zenon
<1>10. /\ pc' = pc /\ pass' = pass /\ batch' = batch /\ todo' = todo /\ chld' = chld
       /\ cancelFd' = cancelFd /\ cancelRequested' = cancelRequested /\ pc = "reap"
  BY DEF ReapLeader, loop
<1>11. \A tag \in batch' : tag.kind \in TimerTags /\ tag.job = j => TagOK(r, tag)
  BY <1>2, <1>10 DEF Inv, TagOK, TimerTags
<1>12. /\ chld' \in BOOLEAN /\ cancelFd' \in BOOLEAN /\ cancelRequested' \in BOOLEAN
       /\ pass' = {}
  BY <1>10 DEF Inv, TypeOK
<1> QED
  BY <1>2, <1>8, <1>9, <1>10, <1>11, <1>12, JobMoves, Zenon

\* reap_children, the check for empty groups.
LEMMA CheckGroupInv ==
  ASSUME EventsSafe, Inv, NEW j \in Jobs, CheckGroup(j)
  PROVE  Inv'
<1>1. run[j] \in JobRuns(j) /\ JobOK(run[j])
  BY JobFacts
<1>2. /\ UNCHANGED <<pc, batch, chld, cancelFd, cancelRequested>> /\ pc = "groups"
      /\ pass' = {} /\ pass = {} /\ todo' \subseteq todo
  BY DEF CheckGroup, Inv
<1>3. CASE run[j].live # NoStep /\ run[j].leader = "reaped" /\ run[j].members = 0
  <2>1. Dispatch(j, run[j], "group-empty", NoPayload, run[j].live)
    BY <1>3 DEF CheckGroup
  <2>2. run[j].state \in Settling
    BY <1>1, <1>3 DEF JobOK
  <2>3. \A f \in BOOLEAN : Safe(j, run[j], "group-empty", NoPayload, f)
    <3>1. Expects(j, run[j], "group-empty")
      BY <1>1, <1>3, <2>2, Zenon DEF Expects
    <3> QED
      BY <1>1, <3>1, PayloadTypes, Met, Zenon
  <2>4. pc # "skip-disabled" /\ pass' \subseteq pass
    BY <1>2
  <2> QED
    BY <1>2, <2>1, <2>3, <2>4, PlainMove
<1>4. CASE ~(run[j].live # NoStep /\ run[j].leader = "reaped" /\ run[j].members = 0)
  <2>1. UNCHANGED <<run, aborted>>
    BY <1>4 DEF CheckGroup
  <2> QED
    BY <1>2, <2>1 DEF Inv, TypeOK
<1> QED
  BY <1>3, <1>4

\* job_event for a step timer: of the live step, or stale.
LEMMA StepTimerEventInv ==
  ASSUME EventsSafe, Inv, NEW tag \in batch, JobEvent(tag), StepTimerEvent(tag)
  PROVE  Inv'
<1> DEFINE j == tag.job
           r == run[j]
           s == [r EXCEPT !.stepTimer = "fired"]
<1>1. /\ j \in Jobs /\ TagOK(r, tag) /\ tag.kind = "step-timer" /\ r \in JobRuns(j) /\ JobOK(r)
      /\ ~r.followup
  BY JobFacts DEF Inv, StepTimerEvent, JobEvent, Quiet, Owed
<1>2. /\ UNCHANGED <<pc, chld, cancelFd, cancelRequested, todo>> /\ pc # "skip-disabled"
      /\ pass' = {} /\ batch' = batch \ {tag}
  BY DEF JobEvent, Inv
<1>3. tag.step \in 1..r.cur /\ (tag.step = r.cur => r.live = r.cur /\ r.stepTimer = "elapsed")
  BY <1>1 DEF TagOK
<1>4. r.cur \in Nat /\ r.live \in Nat /\ tag.step \in Nat /\ tag.step > 0
  <2>1. r.cur \in Nat /\ r.live \in Nat
    BY <1>1, StepNumbers
  <2> QED
    BY <1>3, <2>1
<1>5. CASE tag.step # r.cur
  <2>1. tag.step # r.live
    <3>1. r.live # NoStep => r.live = r.cur
      BY <1>1 DEF JobOK
    <3> QED
      BY <1>4, <1>5, <3>1 DEF NoStep
  <2>2. Dispatch(j, r, "step-timeout", NoPayload, tag.step)
    BY <2>1 DEF StepTimerEvent
  <2>3. run' = [run EXCEPT ![j] = r] /\ aborted' = FALSE
    BY <2>1, <2>2, Zenon DEF Dispatch, IsStale, StepScoped
  <2> HIDE DEF j, r
  <2>4. Evolves(r, r)
    BY <1>1, EvolvesRefl
  <2>5. \A t \in batch' : t.kind \in TimerTags /\ t.job = j => TagOK(r, t)
    BY <1>2 DEF Inv, TimerTags, j, r
  <2>6. /\ chld' \in BOOLEAN /\ cancelFd' \in BOOLEAN /\ cancelRequested' \in BOOLEAN
        /\ pass' \subseteq pass /\ batch' \subseteq batch
    BY <1>2 DEF Inv, TypeOK
  <2> QED
    BY <1>1, <1>2, <2>3, <2>4, <2>5, <2>6, JobMoves, Zenon
<1>6. CASE tag.step = r.cur
  <2>1. /\ r.live = r.cur /\ r.live # NoStep /\ r.stepTimer = "elapsed" /\ r.leader # "none"
        /\ r.state \in StepStates
    BY <1>1, <1>3, <1>4, <1>6 DEF JobOK, NoStep
  <2>2. s = [r EXCEPT !.stepTimer = Read(@)] /\ Expired(r.stepTimer)
    BY <2>1 DEF Read, Expired
  <2>3. Dispatch(j, s, "step-timeout", NoPayload, tag.step)
    BY <1>6, <2>1, <2>2 DEF StepTimerEvent
  <2> HIDE DEF j, r
  <2>4. /\ s \in JobRuns(j) /\ s.leader = r.leader /\ s.state = r.state /\ s.cur = r.cur
        /\ s.live = r.live /\ s.members = r.members /\ s.followup = r.followup
        /\ s.stepTimer = "fired" /\ s.graceTimer = r.graceTimer
        /\ s.jobTimer = r.jobTimer /\ s.timeoutTold = r.timeoutTold
    BY <1>1, Zenon DEF JobRuns, Timers
  <2> HIDE DEF s
  <2>5. LiveOK(s) /\ (s.leader = "reaped" => s.state \in Settling)
    BY <1>1, <2>1, <2>4, Zenon DEF LiveOK, JobOK
  <2>6. s.state \notin StepStopping \cup StepKilling
    BY <1>1, <2>1, <2>4 DEF JobOK
  <2>7. \A f \in BOOLEAN : Safe(j, s, "step-timeout", NoPayload, f)
    <3>1. Expects(j, s, "step-timeout")
      BY <2>4, <2>5, <2>6, Zenon DEF Expects
    <3> QED
      BY <1>1, <2>4, <3>1, PayloadTypes, Met, Zenon
  <2>8. ~IsStale(s.state, "step-timeout", tag.step, s.live)
    BY <1>6, <2>1, <2>4 DEF IsStale
  <2>9. PICK q \in JobRuns(j) : JobOK(q) /\ Evolves(s, q) /\ run' = [run EXCEPT ![j] = q]
    BY <1>1, <2>3, <2>4, <2>7, <2>8, DispatchMoves, Zenon
  <2>10. aborted' = FALSE
    BY <1>1, <2>3, <2>4, <2>7, <2>8, DispatchMoves, Zenon
  <2>11. \A t \in batch' : t.kind \in TimerTags /\ t.job = j => TagOK(s, t)
    <3> SUFFICES ASSUME NEW t \in batch', t.kind \in TimerTags, t.job = j PROVE TagOK(s, t)
      OBVIOUS
    <3>1. TagOK(r, t) /\ t \in Tags /\ tag \in Tags /\ t # tag
      BY <1>2 DEF Inv, TypeOK, TimerTags, j, r
    <3>2. t.kind = "step-timer" => t.step # tag.step
      BY <1>1, <3>1 DEF Tags, j
    <3> QED
      BY <1>6, <2>4, <3>1, <3>2 DEF TagOK
  <2>12. /\ chld' \in BOOLEAN /\ cancelFd' \in BOOLEAN /\ cancelRequested' \in BOOLEAN
         /\ pass' \subseteq pass /\ batch' \subseteq batch
    BY <1>2 DEF Inv, TypeOK
  <2> QED
    BY <1>1, <1>2, <2>4, <2>9, <2>10, <2>11, <2>12, JobMoves, Zenon
<1> QED
  BY <1>5, <1>6

\* job_event for a grace timer: of the live step, or stale.
LEMMA GraceTimerEventInv ==
  ASSUME EventsSafe, Inv, NEW tag \in batch, JobEvent(tag), GraceTimerEvent(tag)
  PROVE  Inv'
<1> DEFINE j == tag.job
           r == run[j]
           s == [r EXCEPT !.graceTimer = "fired"]
<1>1. /\ j \in Jobs /\ TagOK(r, tag) /\ tag.kind = "grace-timer" /\ r \in JobRuns(j) /\ JobOK(r)
      /\ ~r.followup
  BY JobFacts DEF Inv, GraceTimerEvent, JobEvent, Quiet, Owed
<1>2. /\ UNCHANGED <<pc, chld, cancelFd, cancelRequested, todo>> /\ pc # "skip-disabled"
      /\ pass' = {} /\ batch' = batch \ {tag}
  BY DEF JobEvent, Inv
<1>3. tag.step \in 1..r.cur /\ (tag.step = r.cur => r.live = r.cur /\ r.graceTimer = "elapsed")
  BY <1>1 DEF TagOK
<1>4. r.cur \in Nat /\ r.live \in Nat /\ tag.step \in Nat /\ tag.step > 0
  <2>1. r.cur \in Nat /\ r.live \in Nat
    BY <1>1, StepNumbers
  <2> QED
    BY <1>3, <2>1
<1>5. CASE tag.step # r.cur
  <2>1. tag.step # r.live
    <3>1. r.live # NoStep => r.live = r.cur
      BY <1>1 DEF JobOK
    <3> QED
      BY <1>4, <1>5, <3>1 DEF NoStep
  <2>2. Dispatch(j, r, "grace-expired", NoPayload, tag.step)
    BY <2>1 DEF GraceTimerEvent
  <2>3. run' = [run EXCEPT ![j] = r] /\ aborted' = FALSE
    BY <2>1, <2>2, Zenon DEF Dispatch, IsStale, StepScoped
  <2> HIDE DEF j, r
  <2>4. Evolves(r, r)
    BY <1>1, EvolvesRefl
  <2>5. \A t \in batch' : t.kind \in TimerTags /\ t.job = j => TagOK(r, t)
    BY <1>2 DEF Inv, TimerTags, j, r
  <2>6. /\ chld' \in BOOLEAN /\ cancelFd' \in BOOLEAN /\ cancelRequested' \in BOOLEAN
        /\ pass' \subseteq pass /\ batch' \subseteq batch
    BY <1>2 DEF Inv, TypeOK
  <2> QED
    BY <1>1, <1>2, <2>3, <2>4, <2>5, <2>6, JobMoves, Zenon
<1>6. CASE tag.step = r.cur
  <2>1. /\ r.live = r.cur /\ r.live # NoStep /\ r.graceTimer = "elapsed" /\ r.leader # "none"
        /\ r.state \in StepStates
    BY <1>1, <1>3, <1>4, <1>6 DEF JobOK, NoStep
  <2>2. s = [r EXCEPT !.graceTimer = Read(@)] /\ Expired(r.graceTimer)
    BY <2>1 DEF Read, Expired
  <2>3. Dispatch(j, s, "grace-expired", NoPayload, tag.step)
    BY <1>6, <2>1, <2>2 DEF GraceTimerEvent
  <2> HIDE DEF j, r
  <2>4. /\ s \in JobRuns(j) /\ s.leader = r.leader /\ s.state = r.state /\ s.cur = r.cur
        /\ s.live = r.live /\ s.members = r.members /\ s.followup = r.followup
        /\ s.graceTimer = "fired" /\ s.stepTimer = r.stepTimer
        /\ s.jobTimer = r.jobTimer /\ s.timeoutTold = r.timeoutTold
    BY <1>1 DEF JobRuns, Timers
  <2> HIDE DEF s
  <2>5. /\ s.state \in StepStopping \cup SettlingTerm
        /\ s.state \in StepStopping => s.stepTimer = "fired"
        /\ s.leader = "reaped" => s.state \in Settling
        /\ s.state \in SettlingCancelTimeout => s.timeoutTold
    BY <1>1, <2>1, <2>4 DEF JobOK, StepStates, Settling
  <2>7. \A f \in BOOLEAN : Safe(j, s, "grace-expired", NoPayload, f)
    <3>1. Expects(j, s, "grace-expired")
      BY <1>1, <2>1, <2>4, <2>5, Zenon DEF Expects
    <3> QED
      BY <1>1, <2>4, <3>1, PayloadTypes, Met, Zenon
  <2>8. ~IsStale(s.state, "grace-expired", tag.step, s.live)
    BY <1>6, <2>1, <2>4 DEF IsStale
  <2>9. PICK q \in JobRuns(j) : JobOK(q) /\ Evolves(s, q) /\ run' = [run EXCEPT ![j] = q]
    BY <1>1, <2>3, <2>4, <2>7, <2>8, DispatchMoves, Zenon
  <2>10. aborted' = FALSE
    BY <1>1, <2>3, <2>4, <2>7, <2>8, DispatchMoves, Zenon
  <2>11. \A t \in batch' : t.kind \in TimerTags /\ t.job = j => TagOK(s, t)
    <3> SUFFICES ASSUME NEW t \in batch', t.kind \in TimerTags, t.job = j PROVE TagOK(s, t)
      OBVIOUS
    <3>1. TagOK(r, t) /\ t \in Tags /\ tag \in Tags /\ t # tag
      BY <1>2 DEF Inv, TypeOK, TimerTags, j, r
    <3>2. t.kind = "grace-timer" => t.step # tag.step
      BY <1>1, <3>1 DEF Tags, j
    <3> QED
      BY <1>6, <2>4, <3>1, <3>2 DEF TagOK
  <2>12. /\ chld' \in BOOLEAN /\ cancelFd' \in BOOLEAN /\ cancelRequested' \in BOOLEAN
         /\ pass' \subseteq pass /\ batch' \subseteq batch
    BY <1>2 DEF Inv, TypeOK
  <2> QED
    BY <1>1, <1>2, <2>4, <2>9, <2>10, <2>11, <2>12, JobMoves, Zenon
<1> QED
  BY <1>5, <1>6

\* Steps of the loop that move no job.
LEMMA LoopMoves ==
  ASSUME Inv, UNCHANGED <<run, aborted>>, batch' \subseteq batch, pass' = pass,
         \/ pc' = pc
         \/ /\ pass = {}
            /\ pc' \in {"broadcast", "sched", "wait", "batch", "reap", "groups",
                        "done", "unrunnable"},
         todo' = todo \/ (todo' = Jobs /\ pc' # "skip-disabled"),
         chld' \in BOOLEAN, cancelFd' \in BOOLEAN, cancelRequested' \in BOOLEAN
  PROVE  Inv'
<1>1. TypeOK'
  BY DEF Inv, TypeOK
<1>2. \A ev \in pass' : PassOK(ev)'
  BY DEF Inv, PassOK
<1> QED
  BY <1>1, <1>2 DEF Inv

\* job_event for a job timer: of a running job, or stale.
LEMMA JobTimerEventInv ==
  ASSUME EventsSafe, Inv, NEW tag \in batch, JobEvent(tag), JobTimerEvent(tag)
  PROVE  Inv'
<1> DEFINE j == tag.job
           r == run[j]
           s == [r EXCEPT !.jobTimer = Read(r.jobTimer)]
<1>1. /\ j \in Jobs /\ TagOK(r, tag) /\ tag.kind = "job-timer" /\ r \in JobRuns(j) /\ JobOK(r)
      /\ ~r.followup /\ r.state # "between-steps"
  BY JobFacts DEF Inv, JobTimerEvent, JobEvent, Quiet, Owed
<1>2. /\ UNCHANGED <<pc, chld, cancelFd, cancelRequested, todo>> /\ pc # "skip-disabled"
      /\ pass' = {} /\ pass = {} /\ batch' = batch \ {tag}
  BY DEF JobEvent, Inv
<1>3. /\ chld' \in BOOLEAN /\ cancelFd' \in BOOLEAN /\ cancelRequested' \in BOOLEAN
      /\ pass' \subseteq pass /\ batch' \subseteq batch
  BY <1>2 DEF Inv, TypeOK
<1>4. CASE r.jobTimer = "closed"
  <2>1. r.state \in Final
    BY <1>1, <1>4 DEF TagOK
  <2>2. Dispatch(j, r, "job-timeout", NoPayload, NoStep)
    BY <1>4 DEF JobTimerEvent
  <2>3. run' = [run EXCEPT ![j] = r] /\ aborted' = FALSE
    BY <2>1, <2>2, Zenon DEF Dispatch, IsStale
  <2> HIDE DEF j, r
  <2>4. Evolves(r, r)
    BY <1>1, EvolvesRefl, Zenon
  <2>5. \A t \in batch' : t.kind \in TimerTags /\ t.job = j => TagOK(r, t)
    BY <1>2 DEF Inv, TimerTags, j, r
  <2> QED
    BY <1>1, <1>2, <1>3, <2>3, <2>4, <2>5, JobMoves, Zenon
<1>5. CASE r.jobTimer # "closed" /\ (r.timeoutTold \/ ~Expired(r.jobTimer))
  <2>1. UNCHANGED <<run, aborted>>
    BY <1>5 DEF JobTimerEvent
  <2> QED
    BY <1>2, <1>3, <2>1, LoopMoves
<1>6. CASE r.jobTimer # "closed" /\ ~r.timeoutTold /\ Expired(r.jobTimer)
  <2>1. Dispatch(j, s, "job-timeout", NoPayload, NoStep)
    BY <1>6, Zenon DEF JobTimerEvent
  <2>2. r.state \in StepStates
    BY <1>1, <1>6 DEF JobOK, Running
  <2> HIDE DEF j, r
  <2>3. Read(r.jobTimer) \in Timers /\ Read(r.jobTimer) # "closed"
    BY <1>1, <1>6 DEF Read, Timers, JobRuns
  <2>4. /\ s \in JobRuns(j) /\ s.leader = r.leader /\ s.state = r.state /\ s.cur = r.cur
        /\ s.live = r.live /\ s.members = r.members /\ s.followup = r.followup
        /\ s.stepTimer = r.stepTimer /\ s.graceTimer = r.graceTimer
        /\ s.jobTimer # "closed" /\ s.timeoutTold = r.timeoutTold
    BY <1>1, <2>3, Zenon DEF JobRuns
  <2> HIDE DEF s
  <2>5. LiveOK(s) /\ (s.leader = "reaped" => s.state \in Settling)
    BY <1>1, <2>2, <2>4 DEF LiveOK, JobOK
  <2>6. \A f \in BOOLEAN : Safe(j, s, "job-timeout", NoPayload, f)
    <3>1. Expects(j, s, "job-timeout")
      BY <1>6, <2>4, <2>5, Zenon DEF Expects
    <3> QED
      BY <1>1, <2>4, <3>1, PayloadTypes, Met, Zenon
  <2>7. ~IsStale(s.state, "job-timeout", NoStep, s.live)
    BY <2>2, <2>4 DEF IsStale, StepScoped, Final, StepStates, StepRunning, StepStopping,
       StepKilling, Settling, SettlingTerm, SettlingKill
  <2>8. PICK q \in JobRuns(j) : JobOK(q) /\ Evolves(s, q) /\ run' = [run EXCEPT ![j] = q]
    BY <1>1, <2>1, <2>4, <2>6, <2>7, DispatchMoves, Zenon
  <2>9. aborted' = FALSE
    BY <1>1, <2>1, <2>4, <2>6, <2>7, DispatchMoves, Zenon
  <2>10. \A t \in batch' : t.kind \in TimerTags /\ t.job = j => TagOK(s, t)
    <3> SUFFICES ASSUME NEW t \in batch', t.kind \in TimerTags, t.job = j PROVE TagOK(s, t)
      BY Zenon
    <3>1. TagOK(r, t)
      BY <1>2, Zenon DEF Inv, TimerTags, j, r
    <3> QED
      BY <2>4, <3>1 DEF TagOK
  <2> QED
    BY <1>1, <1>2, <1>3, <2>4, <2>8, <2>9, <2>10, JobMoves, Zenon
<1> QED
  BY <1>4, <1>5, <1>6

\* qwe_sched_pass gives each job at most one event, fit for its state.
LEMMA ScheduleInv ==
  ASSUME Inv, Schedule
  PROVE  Inv'
<1>1. PICK evs \in SchedPass(StateOf) :
        /\ pass' = evs
        /\ evs # {} => pc' = "sched"
        /\ pc' \in {"sched", "broadcast", "done", "unrunnable", "wait"}
  BY DEF Schedule
<1>2. UNCHANGED <<run, aborted, batch, todo, chld, cancelFd, cancelRequested>>
  BY DEF Schedule
<1>3. \A j \in Jobs : StateOf[j] = run[j].state
  BY DEF StateOf
<1>4. /\ evs \subseteq [job : Jobs, event : {"needs-met", "needs-failed", "slot-granted"}]
      /\ \A ev \in evs : PassOK(ev)
      /\ \A ev1, ev2 \in evs : ev1.job = ev2.job => ev1 = ev2
  <2>1. CASE Resolved(StateOf) # {}
    <3>1. evs = {[job |-> j, event |-> NeedsEvent(StateOf, j)] : j \in Resolved(StateOf)}
      BY <1>1, <2>1 DEF SchedPass
    <3>2. \A j \in Resolved(StateOf) : j \in Jobs /\ run[j].state = "pending"
      BY <1>3 DEF Resolved
    <3>3. \A j \in Jobs : NeedsEvent(StateOf, j) \in {"needs-met", "needs-failed"}
      BY DEF NeedsEvent
    <3> QED
      BY <3>1, <3>2, <3>3 DEF PassOK
  <2>2. CASE Resolved(StateOf) = {}
    <3>1. PICK g \in SUBSET Jobs : /\ Grants(StateOf, g)
                                   /\ evs = {[job |-> j, event |-> "slot-granted"] : j \in g}
      BY <1>1, <2>2 DEF SchedPass
    <3>2. \A j \in g : j \in Jobs /\ run[j].state = "ready"
      BY <1>3, <3>1, Zenon DEF Grants
    <3> QED
      BY <3>1, <3>2 DEF PassOK
  <2> QED
    BY <2>1, <2>2
<1>5. TypeOK'
  BY <1>1, <1>2, <1>4 DEF Inv, TypeOK
<1>6. \A ev \in pass' : PassOK(ev)'
  BY <1>1, <1>2, <1>4 DEF PassOK
<1>7. pc' # "skip-disabled" /\ (pass' # {} => pc' = "sched")
  BY <1>1
<1> QED
  BY <1>1, <1>2, <1>4, <1>5, <1>6, <1>7, Zenon DEF Inv

\* epoll_wait reports only open timers of live steps and running jobs.
LEMMA EpollWaitInv ==
  ASSUME Inv, EpollWait
  PROVE  Inv'
<1>1. /\ batch' = Readable /\ pc = "wait" /\ pc' = "batch"
      /\ UNCHANGED <<run, aborted, pass, todo, chld, cancelFd, cancelRequested>>
  BY DEF EpollWait
<1>2. ASSUME NEW tag \in Readable
      PROVE  /\ tag \in Tags
             /\ tag.kind \in TimerTags => tag.job \in Jobs /\ TagOK(run[tag.job], tag)
  <2>1. CASE tag \in {Tag("child", 0, NoStep), Tag("cancel", 0, NoStep)}
    BY <2>1, SchedAssumption DEF Tag, Tags, NoStep, TimerTags
  <2>2. ASSUME NEW j \in Jobs, run[j].jobTimer = "elapsed", tag = Tag("job-timer", j, NoStep)
        PROVE  <1>2!2
    BY <2>2, SchedAssumption DEF Tag, Tags, NoStep, TagOK, Jobs
  <2>3. ASSUME NEW j \in Jobs, run[j].stepTimer = "elapsed",
               tag = Tag("step-timer", j, run[j].live)
        PROVE  <1>2!2
    <3>1. run[j] \in JobRuns(j) /\ JobOK(run[j])
      BY JobFacts
    <3>2. run[j].live = run[j].cur /\ run[j].cur \in Nat /\ run[j].cur > 0
      <4>1. run[j].live = run[j].cur
        BY <2>3, <3>1, Zenon DEF JobOK
      <4> QED
        BY <3>1, <4>1, StepNumbers, Zenon
    <3> QED
      BY <2>3, <3>2, SchedAssumption DEF Tag, Tags, TagOK, Jobs
  <2>4. ASSUME NEW j \in Jobs, run[j].graceTimer = "elapsed",
               tag = Tag("grace-timer", j, run[j].live)
        PROVE  <1>2!2
    <3>1. run[j] \in JobRuns(j) /\ JobOK(run[j])
      BY JobFacts
    <3>2. run[j].live = run[j].cur /\ run[j].cur \in Nat /\ run[j].cur > 0
      <4>1. run[j].live = run[j].cur
        BY <2>4, <3>1 DEF JobOK
      <4> QED
        BY <3>1, <4>1, StepNumbers
    <3> QED
      BY SMTT(40), <2>4, <3>2, SchedAssumption DEF Tag, Tags, TagOK, Jobs
  <2> QED
    BY <2>1, <2>2, <2>3, <2>4 DEF Readable
<1>3. TypeOK'
  BY <1>1, <1>2, ZenonT(30) DEF Inv, TypeOK
<1>4. \A ev \in pass' : PassOK(ev)'
  BY <1>1 DEF Inv, PassOK
<1>5. pass' = {}
  BY <1>1 DEF Inv
<1> QED
  BY <1>1, <1>2, <1>3, <1>4, <1>5 DEF Inv, TimerTags

\* A step of a job's processes or timers changes no lifecycle state.
LEMMA WorldMoves ==
  ASSUME Inv, NEW j \in Jobs, NEW q \in JobRuns(j), JobOK(q), Evolves(run[j], q),
         q.state = run[j].state, run' = [run EXCEPT ![j] = q],
         UNCHANGED <<aborted, loop, cancelFd, cancelRequested>>, chld' \in BOOLEAN
  PROVE  Inv'
<1>1. run[j] \in JobRuns(j)
  BY JobFacts, Zenon
<1>2. /\ aborted' = FALSE /\ batch' = batch /\ pass' = pass /\ pc' = pc /\ todo' = todo
      /\ cancelFd' \in BOOLEAN /\ cancelRequested' \in BOOLEAN
  BY Zenon DEF Inv, TypeOK, loop
<1>3. \A tag \in batch' : tag.kind \in TimerTags /\ tag.job = j => TagOK(run[j], tag)
  BY <1>2 DEF Inv, TimerTags
<1> QED
  BY <1>1, <1>2, <1>3, JobMoves, Zenon

\* The processes of a step fork, exit and leave the group.
LEMMA MembersInv ==
  ASSUME Inv, NEW j \in Jobs, Fork(j) \/ MemberExit(j) \/ Setsid(j)
  PROVE  Inv'
<1>1. run[j] \in JobRuns(j) /\ JobOK(run[j])
  BY JobFacts
<1>2. PICK m \in 0..MaxMembers :
        /\ run' = [run EXCEPT ![j] = [run[j] EXCEPT !.members = m]]
        /\ run[j].leader = "alive" \/ run[j].members # 0
  <2>1. run[j].members \in 0..MaxMembers
    BY <1>1 DEF JobRuns
  <2>2. CASE Fork(j)
    <3>1. run[j].members + 1 \in 0..MaxMembers
      BY <2>1, <2>2, EngineAssumption DEF Fork
    <3>2. run' = [run EXCEPT ![j] = [run[j] EXCEPT !.members = run[j].members + 1]]
      BY <2>2 DEF Fork
    <3>3. run[j].leader = "alive" \/ run[j].members # 0
      BY <2>1, <2>2 DEF Fork
    <3> QED
      BY <3>1, <3>2, <3>3, Zenon
  <2>3. CASE MemberExit(j) \/ Setsid(j)
    <3>1. run[j].members - 1 \in 0..MaxMembers /\ run[j].members # 0
      BY <2>1, <2>3, EngineAssumption DEF MemberExit, Setsid
    <3>2. run' = [run EXCEPT ![j] = [run[j] EXCEPT !.members = run[j].members - 1]]
      BY <2>3 DEF MemberExit, Setsid
    <3> QED
      BY <3>1, <3>2, Zenon
  <2> QED
    BY <2>2, <2>3
<1>3. UNCHANGED <<aborted, loop, cancelFd, cancelRequested>> /\ chld' \in BOOLEAN
  BY DEF Fork, MemberExit, Setsid, Inv, TypeOK
<1> DEFINE q == [run[j] EXCEPT !.members = m]
<1>4. /\ q \in JobRuns(j) /\ q.leader = run[j].leader /\ q.state = run[j].state
      /\ q.cur = run[j].cur /\ q.live = run[j].live /\ q.followup = run[j].followup
      /\ q.stepTimer = run[j].stepTimer /\ q.graceTimer = run[j].graceTimer
      /\ q.jobTimer = run[j].jobTimer /\ q.timeoutTold = run[j].timeoutTold
  BY <1>1, Zenon DEF JobRuns
<1>5. run' = [run EXCEPT ![j] = q]
  BY <1>2
<1> HIDE DEF q
<1>6. JobOK(q)
  BY <1>1, <1>2, <1>4, Zenon DEF JobOK
<1>7. Evolves(run[j], q)
  <2>1. run[j].cur \in Nat
    BY <1>1, StepNumbers
  <2> QED
    BY <1>4, <2>1 DEF Evolves
<1> QED
  BY <1>3, <1>4, <1>5, <1>6, <1>7, WorldMoves, Zenon

\* The leader of a step exits.
LEMMA LeaderExitInv ==
  ASSUME Inv, NEW j \in Jobs, LeaderExit(j)
  PROVE  Inv'
<1> DEFINE q == [run[j] EXCEPT !.leader = "zombie"]
<1>1. run[j] \in JobRuns(j) /\ JobOK(run[j]) /\ run[j].leader = "alive"
  BY JobFacts DEF LeaderExit
<1>2. UNCHANGED <<aborted, loop, cancelFd, cancelRequested>> /\ chld' \in BOOLEAN
      /\ run' = [run EXCEPT ![j] = q]
  BY DEF LeaderExit
<1>3. /\ q \in JobRuns(j) /\ q.leader = "zombie" /\ q.state = run[j].state
      /\ q.cur = run[j].cur /\ q.live = run[j].live /\ q.followup = run[j].followup
      /\ q.stepTimer = run[j].stepTimer /\ q.graceTimer = run[j].graceTimer
      /\ q.jobTimer = run[j].jobTimer /\ q.timeoutTold = run[j].timeoutTold
      /\ q.members = run[j].members
  BY <1>1, Zenon DEF JobRuns
<1> HIDE DEF q
<1>4. JobOK(q)
  BY <1>1, <1>3, Zenon DEF JobOK
<1>5. Evolves(run[j], q)
  <2>1. run[j].cur \in Nat
    BY <1>1, StepNumbers
  <2> QED
    BY <1>3, <2>1 DEF Evolves
<1> QED
  BY <1>2, <1>3, <1>4, <1>5, WorldMoves, Zenon

\* A timer elapses.
LEMMA TimersInv ==
  ASSUME Inv, NEW j \in Jobs, JobTimerElapses(j) \/ StepTimerElapses(j) \/ GraceElapses(j)
  PROVE  Inv'
<1>1. run[j] \in JobRuns(j) /\ JobOK(run[j])
  BY JobFacts
<1>2. UNCHANGED <<aborted, loop, cancelFd, cancelRequested>> /\ chld' \in BOOLEAN
  BY DEF JobTimerElapses, StepTimerElapses, GraceElapses, Inv, TypeOK
<1>3. CASE JobTimerElapses(j)
  <2> DEFINE q == [run[j] EXCEPT !.jobTimer = "elapsed"]
  <2>1. run' = [run EXCEPT ![j] = q] /\ run[j].jobTimer = "armed"
    BY <1>3 DEF JobTimerElapses
  <2>2. /\ q \in JobRuns(j) /\ q.leader = run[j].leader /\ q.state = run[j].state
        /\ q.cur = run[j].cur /\ q.live = run[j].live /\ q.followup = run[j].followup
        /\ q.stepTimer = run[j].stepTimer /\ q.graceTimer = run[j].graceTimer
        /\ q.jobTimer = "elapsed" /\ q.timeoutTold = run[j].timeoutTold
        /\ q.members = run[j].members
    BY <1>1 DEF JobRuns, Timers
  <2> HIDE DEF q
  <2>3. JobOK(q)
    BY <1>1, <2>1, <2>2, ZenonT(30) DEF JobOK
  <2>4. Evolves(run[j], q)
    <3>1. run[j].cur \in Nat
      BY <1>1, StepNumbers
    <3> QED
      BY <2>2, <3>1 DEF Evolves
  <2> QED
    BY <1>2, <2>1, <2>2, <2>3, <2>4, WorldMoves, Zenon
<1>4. CASE StepTimerElapses(j)
  <2> DEFINE q == [run[j] EXCEPT !.stepTimer = "elapsed"]
  <2>1. run' = [run EXCEPT ![j] = q] /\ run[j].stepTimer = "armed"
    BY <1>4 DEF StepTimerElapses
  <2>2. /\ q \in JobRuns(j) /\ q.leader = run[j].leader /\ q.state = run[j].state
        /\ q.cur = run[j].cur /\ q.live = run[j].live /\ q.followup = run[j].followup
        /\ q.stepTimer = "elapsed" /\ q.graceTimer = run[j].graceTimer
        /\ q.jobTimer = run[j].jobTimer /\ q.timeoutTold = run[j].timeoutTold
        /\ q.members = run[j].members
    BY <1>1 DEF JobRuns, Timers
  <2> HIDE DEF q
  <2>3. JobOK(q)
    BY <1>1, <2>1, <2>2, ZenonT(30) DEF JobOK
  <2>4. Evolves(run[j], q)
    <3>1. run[j].cur \in Nat
      BY <1>1, StepNumbers
    <3> QED
      BY <2>2, <3>1 DEF Evolves
  <2> QED
    BY <1>2, <2>1, <2>2, <2>3, <2>4, WorldMoves, Zenon
<1>5. CASE GraceElapses(j)
  <2> DEFINE q == [run[j] EXCEPT !.graceTimer = "elapsed"]
  <2>1. run' = [run EXCEPT ![j] = q] /\ run[j].graceTimer = "armed"
    BY <1>5 DEF GraceElapses
  <2>2. /\ q \in JobRuns(j) /\ q.leader = run[j].leader /\ q.state = run[j].state
        /\ q.cur = run[j].cur /\ q.live = run[j].live /\ q.followup = run[j].followup
        /\ q.stepTimer = run[j].stepTimer /\ q.graceTimer = "elapsed"
        /\ q.jobTimer = run[j].jobTimer /\ q.timeoutTold = run[j].timeoutTold
        /\ q.members = run[j].members
    BY <1>1, Zenon DEF JobRuns, Timers
  <2> HIDE DEF q
  <2>3. JobOK(q)
    BY <1>1, <2>1, <2>2, Zenon DEF JobOK
  <2>4. Evolves(run[j], q)
    <3>1. run[j].cur \in Nat
      BY <1>1, StepNumbers
    <3> QED
      BY <2>2, <3>1, SMTT(30) DEF Evolves
  <2> QED
    BY <1>2, <2>1, <2>2, <2>3, <2>4, WorldMoves, ZenonT(30)
<1> QED
  BY <1>3, <1>4, <1>5

-----------------------------------------------------------------------------
\* Every job starts pending, with nothing open.
LEMMA InitInv == Init => Inv
<1> SUFFICES ASSUME Init PROVE Inv
  OBVIOUS
<1>1. ASSUME NEW j \in Jobs
      PROVE  NewRun(j) \in JobRuns(j) /\ JobOK(NewRun(j)) /\ NewRun(j).state = "pending"
  <2>1. [k \in 1..NSteps[j] |-> NotRecorded]
          \in [1..NSteps[j] -> [outcome : Outcomes, reason : Reasons]]
    BY DEF NotRecorded, Outcomes, Reasons
  <2>2. 1 \in 1..NSteps[j] + 1 /\ 0 \in 0..NSteps[j] /\ 0 \in 0..MaxMembers
    BY EngineAssumption
  <2>3. NewRun(j) \in JobRuns(j)
    BY <2>1, <2>2, ZenonT(30) DEF NewRun, JobRuns, States, Timers, Reasons, NoStep
  <2>4. JobOK(NewRun(j))
    BY Zenon DEF NewRun, JobOK, NoStep, StepStates, Running, StepRunning, StepStopping,
       StepKilling,
       Settling, SettlingTerm, SettlingKill, SettlingCancelTimeout
  <2>5. NewRun(j).state = "pending"
    BY DEF NewRun
  <2> QED
    BY <2>3, <2>4, <2>5
<1>2. \A j \in Jobs : run[j] = NewRun(j)
  BY DEF Init
<1>3. \A j \in Jobs : run[j].state = "pending"
  BY <1>1, <1>2
<1>4. TypeOK
  BY <1>1, <1>2, EngineAssumption, Zenon DEF Init, TypeOK
<1> QED
  BY <1>1, <1>2, <1>3, <1>4, EngineAssumption, Zenon DEF Init, Inv

\* Every step of the engine and of its environment preserves Inv, if events are
\* safe.
LEMMA StepInv ==
  ASSUME EventsSafe, Inv, [Next]_vars
  PROVE  Inv'
<1>0. chld \in BOOLEAN /\ cancelFd \in BOOLEAN /\ cancelRequested \in BOOLEAN
  BY DEF Inv, TypeOK
<1>1. CASE StartLoop
  <2>1. pass = {}
    BY <1>1, Zenon DEF StartLoop, Inv
  <2> QED
    BY <1>0, <1>1, <2>1, LoopMoves, Zenon DEF StartLoop, Top
<1>2. CASE BroadcastDone
  <2>1. pass = {}
    BY <1>2 DEF BroadcastDone, Inv
  <2> QED
    BY <1>0, <1>2, <2>1, LoopMoves, Zenon DEF BroadcastDone
<1>3. CASE Schedule
  BY <1>3, ScheduleInv
<1>4. CASE EpollWait
  BY <1>4, EpollWaitInv
<1>5. CASE BatchDone
  <2>1. pass = {}
    BY <1>5 DEF BatchDone, Inv
  <2> QED
    BY <1>0, <1>5, <2>1, LoopMoves, Zenon DEF BatchDone, Top
<1>6. CASE ReapDone
  <2>1. pass = {}
    BY <1>6 DEF ReapDone, Inv
  <2> QED
    BY <1>0, <1>6, <2>1, LoopMoves, Zenon DEF ReapDone
<1>7. CASE GroupsDone
  <2>1. pass = {}
    BY <1>7 DEF GroupsDone, Inv
  <2> QED
    BY <1>0, <1>7, <2>1, LoopMoves, Zenon DEF GroupsDone
<1>8. ASSUME NEW j \in Jobs,
             \/ SendStartFailed(j) \/ BetweenSteps(j) \/ SkipDisabled(j)
             \/ BroadcastCancel(j) \/ SendPass(j) \/ ReapLeader(j) \/ CheckGroup(j)
      PROVE  Inv'
  BY <1>8, SendStartFailedInv, BetweenStepsInv, SkipDisabledInv, BroadcastCancelInv,
     SendPassInv, ReapLeaderInv, CheckGroupInv, Zenon
<1>9. ASSUME NEW tag \in batch, JobEvent(tag)
      PROVE  Inv'
  BY <1>9, StepTimerEventInv, GraceTimerEventInv, JobTimerEventInv, Zenon DEF JobEvent
<1>10. ASSUME NEW tag \in batch, CancelEvent(tag)
       PROVE  Inv'
  BY <1>0, <1>10, LoopMoves, Zenon DEF CancelEvent
<1>11. ASSUME NEW tag \in batch, ReadChld(tag)
       PROVE  Inv'
  <2>1. pass = {}
    BY <1>11, Zenon DEF ReadChld, Inv
  <2> QED
    BY <1>0, <1>11, <2>1, LoopMoves, Zenon DEF ReadChld
<1>12. CASE OperatorCancel \/ StrayExit
  BY <1>0, <1>12, LoopMoves, Zenon DEF OperatorCancel, StrayExit, loop
<1>13. ASSUME NEW j \in Jobs,
              \/ Fork(j) \/ LeaderExit(j) \/ MemberExit(j) \/ Setsid(j)
              \/ JobTimerElapses(j) \/ StepTimerElapses(j) \/ GraceElapses(j)
       PROVE  Inv'
  BY <1>13, MembersInv, LeaderExitInv, TimersInv, Zenon
<1>14. CASE UNCHANGED vars
  BY <1>0, <1>14, LoopMoves DEF vars
<1> QED
  BY <1>1, <1>2, <1>3, <1>4, <1>5, <1>6, <1>7, <1>8, <1>9, <1>10, <1>11, <1>12, <1>13, <1>14, Zenon
     DEF Next, EngineStep, Environment, Stopped

\* What Inv says, in the terms of the properties: the types, no impossible cell,
\* timeouts of the step's own, and groups that end with their step.
LEMMA InvMeans ==
  ASSUME Inv
  PROVE  TypeOK /\ NeverAborts /\ TimeoutIsOwn /\ NothingOutlivesItsStep
<1>1. TypeOK /\ NeverAborts
  BY DEF Inv, NeverAborts
<1>2. TimeoutIsOwn
  BY ZenonT(30) DEF Inv, TimeoutIsOwn, JobOK
<1>3. NothingOutlivesItsStep
  BY DEF Inv, NothingOutlivesItsStep, JobOK
<1> QED
  BY <1>1, <1>2, <1>3, Zenon
=============================================================================
