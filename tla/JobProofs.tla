------------------------------ MODULE JobProofs -------------------------------
(***************************************************************************)
(* What one event does to the record of one job, for every cell of the     *)
(* table: an event that finds what it expects is in order.                 *)
(***************************************************************************)
EXTENDS Events, TLAPS

\* The steps a job is at are numbers.
LEMMA CursorIsNumber ==
  ASSUME NEW j \in Jobs, NEW r \in JobRuns(j)
  PROVE  r.cur \in Nat /\ r.cur > 0 /\ r.live \in Nat
<1>1. r.cur \in 1..(NSteps[j] + 1) /\ r.live \in 0..NSteps[j]
  BY DEF JobRuns
<1>2. NSteps[j] \in Nat
  BY EngineAssumption
<1> QED
  BY <1>1, <1>2

-----------------------------------------------------------------------------
(* What the action lists of the table amount to. *)

\* apply_action on each action list the table has: no action ...
LEMMA ApplyNothing ==
  ASSUME NEW j, NEW r, NEW c, NEW f, c.actions = {}
  PROVE  Apply(j, r, c, f) = r
  BY DEF Apply

\* ... start the job (job_start) ...
LEMMA ApplyStart ==
  ASSUME NEW j, NEW r, NEW c, NEW f, c.actions = {"start-job"}
  PROVE  Apply(j, r, c, f) = StartJob(j, r, f)
  BY DEF Apply

\* ... spawn the step (step_spawn) ...
LEMMA ApplySpawn ==
  ASSUME NEW j, NEW r, NEW c, NEW f, c.actions = {"spawn-step"}
  PROVE  Apply(j, r, c, f) = SpawnStep(j, r, f)
  BY DEF Apply

AskedToStop(r) == [[r EXCEPT !.sent = "term"] EXCEPT !.graceTimer = "armed"]

\* ... SIGTERM and arm the grace timer ...
LEMMA ApplyStop ==
  ASSUME NEW j, NEW r, NEW c, NEW f, c.actions = Stop
  PROVE  Apply(j, r, c, f) = AskedToStop(r)
  BY DEF Apply, Stop, AskedToStop

\* ... the same, and record the step ...
LEMMA ApplyStopRecord ==
  ASSUME NEW j, NEW r, NEW c, NEW f, c.actions = Stop \cup {"record-step"}
  PROVE  Apply(j, r, c, f) = RecordStep(AskedToStop(r), c)
  BY DEF Apply, Stop, AskedToStop

\* ... record the step only ...
LEMMA ApplyRecord ==
  ASSUME NEW j, NEW r, NEW c, NEW f, c.actions = {"record-step"}
  PROVE  Apply(j, r, c, f) = RecordStep(r, c)
  BY DEF Apply

\* ... SIGKILL only ...
LEMMA ApplyKill ==
  ASSUME NEW j, NEW r, NEW c, NEW f, c.actions = {"sigkill-group"}
  PROVE  Apply(j, r, c, f) = [r EXCEPT !.sent = "kill"]
  BY DEF Apply

\* ... record the job and end it ...
LEMMA ApplyEnd ==
  ASSUME NEW j, NEW r, NEW c, NEW f, c.actions = End
  PROVE  Apply(j, r, c, f) = JobEnd([r EXCEPT !.reason = c.reason])
  BY DEF Apply, End

\* ... record the step and the job, and end it.
LEMMA ApplyRecordEnd ==
  ASSUME NEW j, NEW r, NEW c, NEW f, c.actions = {"record-step"} \cup End
  PROVE  Apply(j, r, c, f) = JobEnd([RecordStep(r, c) EXCEPT !.reason = c.reason])
  BY DEF Apply, End

-----------------------------------------------------------------------------
(* The record after an event, field by field. *)

\* Everything but the state, the reasons and the grace timer.
Kept(r, q) ==
  /\ q.cur = r.cur /\ q.live = r.live /\ q.leader = r.leader /\ q.members = r.members
  /\ q.stepTimer = r.stepTimer /\ q.jobTimer = r.jobTimer /\ q.followup = r.followup

\* A record that keeps its step's fields only moves as a batch allows.
LEMMA KeptEvolves ==
  ASSUME NEW j \in Jobs, NEW r \in JobRuns(j), NEW q, Kept(r, q),
         r.graceTimer = "elapsed" => q.graceTimer = "elapsed",
         r.state \notin Final
  PROVE  Evolves(r, q)
<1>1. r.cur <= q.cur
  BY CursorIsNumber DEF Kept
<1> QED
  BY <1>1 DEF Evolves, Kept

\* dispatch_one before the actions: only the state, the told flags and the
\* reason change.
LEMMA ToldFields ==
  ASSUME NEW j \in Jobs, NEW r \in JobRuns(j), NEW e, NEW c,
         c.next \in States, c.reason \in Reasons
  PROVE  /\ Told(r, e, c) \in JobRuns(j)
         /\ Kept(r, Told(r, e, c))
         /\ Told(r, e, c).state = c.next
         /\ Told(r, e, c).graceTimer = r.graceTimer
         /\ Told(r, e, c).timeoutTold = (r.timeoutTold \/ e = "job-timeout")
  BY ZenonT(60) DEF Told, JobRuns, Kept

\* record_step writes the step's outcome and nothing else.
LEMMA RecordStepFields ==
  ASSUME NEW j \in Jobs, NEW r \in JobRuns(j), NEW c, c.next \in States, c.reason \in Reasons
  PROVE  /\ RecordStep(r, c) \in JobRuns(j)
         /\ Kept(r, RecordStep(r, c))
         /\ RecordStep(r, c).state = r.state
         /\ RecordStep(r, c).graceTimer = r.graceTimer
         /\ RecordStep(r, c).timeoutTold = r.timeoutTold
  BY Zenon DEF RecordStep, StepOutcome, JobRuns, Outcomes, Kept

\* step_finish moves the cursor past the live step and closes what it held.
LEMMA StepFinishFields ==
  ASSUME NEW j \in Jobs, NEW r \in JobRuns(j), r.live # NoStep => r.live = r.cur
  PROVE  LET q == StepFinish(r)
         IN  /\ q \in JobRuns(j)
             /\ q.live = NoStep
             /\ r.live = NoStep => q = r
             /\ r.live # NoStep =>
                  /\ q.cur = r.cur + 1 /\ q.leader = "none"
                  /\ q.stepTimer = "closed" /\ q.graceTimer = "closed"
             /\ q.state = r.state /\ q.members = r.members /\ q.jobTimer = r.jobTimer
             /\ q.followup = r.followup /\ q.timeoutTold = r.timeoutTold
             /\ q.started = r.started
<1>1. CASE r.live = NoStep
  BY <1>1 DEF StepFinish
<1>2. CASE r.live # NoStep
  <2>1. r.cur + 1 \in 1..NSteps[j] + 1
    BY <1>2, EngineAssumption DEF JobRuns, NoStep
  <2>2. 0 \in 0..NSteps[j]
    BY EngineAssumption
  <2>3. StepFinish(r) = [r EXCEPT !.live = NoStep, !.cur = r.cur + 1, !.leader = "none",
                                  !.stepTimer = "closed", !.graceTimer = "closed"]
    BY <1>2 DEF StepFinish
  <2>4. StepFinish(r) \in JobRuns(j)
    BY ZenonT(60), <2>1, <2>2, <2>3 DEF JobRuns, Timers, NoStep
  <2> QED
    BY <1>2, <2>3, <2>4 DEF JobRuns
<1> QED
  BY <1>1, <1>2

\* job_end finishes a live step and closes the job timer.
LEMMA JobEndFields ==
  ASSUME NEW j \in Jobs, NEW r \in JobRuns(j), r.live # NoStep => r.live = r.cur
  PROVE  LET q == JobEnd(r)
         IN  /\ q \in JobRuns(j)
             /\ q.live = NoStep /\ q.jobTimer = "closed"
             /\ r.live = NoStep =>
                  /\ q.cur = r.cur /\ q.leader = r.leader
                  /\ q.stepTimer = r.stepTimer /\ q.graceTimer = r.graceTimer
             /\ r.live # NoStep =>
                  /\ q.cur = r.cur + 1 /\ q.leader = "none"
                  /\ q.stepTimer = "closed" /\ q.graceTimer = "closed"
             /\ q.state = r.state /\ q.members = r.members
             /\ q.followup = r.followup /\ q.timeoutTold = r.timeoutTold
<1> DEFINE f == StepFinish(r)
           rest == [k \in DOMAIN f.steps |->
                      IF f.started /\ k >= f.cur
                      THEN [outcome |-> "skipped", reason |-> "none"] ELSE f.steps[k]]
           q == [f EXCEPT !.jobTimer = "closed", !.steps = rest]
<1>1. JobEnd(r) = q
  BY DEF JobEnd
<1>2. f \in JobRuns(j)
  BY StepFinishFields
<1> HIDE DEF f
<1>3. rest \in [1..NSteps[j] -> [outcome : Outcomes, reason : Reasons]]
  BY <1>2, Zenon DEF JobRuns, Outcomes, Reasons
<1> HIDE DEF rest
<1>4. q \in JobRuns(j) /\ q.jobTimer = "closed"
      /\ q.live = f.live /\ q.cur = f.cur /\ q.leader = f.leader /\ q.stepTimer = f.stepTimer
      /\ q.graceTimer = f.graceTimer /\ q.state = f.state /\ q.members = f.members
      /\ q.followup = f.followup /\ q.timeoutTold = f.timeoutTold
  BY <1>2, <1>3, Zenon DEF JobRuns, Timers
<1> HIDE DEF q
<1> QED
  BY <1>1, <1>4, StepFinishFields DEF f

-----------------------------------------------------------------------------
(* The record after an event, by the kind of action list its cell has. *)

Ends(r, q) ==
  /\ q.live = NoStep /\ q.jobTimer = "closed"
  /\ q.members = r.members /\ q.followup = r.followup
  /\ r.live = NoStep =>
       /\ q.cur = r.cur /\ q.leader = r.leader
       /\ q.stepTimer = r.stepTimer /\ q.graceTimer = r.graceTimer
  /\ r.live # NoStep =>
       /\ q.cur = r.cur + 1 /\ q.leader = "none"
       /\ q.stepTimer = "closed" /\ q.graceTimer = "closed"

\* A cell that records, kills or does nothing.
LEMMA SteadyFields ==
  ASSUME NEW j \in Jobs, NEW r \in JobRuns(j), NEW e, NEW p, NEW f, e # "group-empty",
         NEW c, c = Cell(r, e, p), NEW q, q = Transition(j, r, e, p, f),
         c.next \in States, c.reason \in Reasons,
         c.actions \in {{}, {"record-step"}, {"sigkill-group"}}
  PROVE  /\ q \in JobRuns(j) /\ Kept(r, q)
         /\ q.state = c.next
         /\ q.graceTimer = r.graceTimer
         /\ q.timeoutTold = (r.timeoutTold \/ e = "job-timeout")
<1> DEFINE t == Told(r, e, c)
<1>1. q = Apply(j, t, c, f)
  BY DEF Transition
<1>2. /\ t \in JobRuns(j) /\ Kept(r, t) /\ t.state = c.next /\ t.graceTimer = r.graceTimer
      /\ t.timeoutTold = (r.timeoutTold \/ e = "job-timeout")
  BY ToldFields
<1> HIDE DEF t
<1>3. CASE c.actions = {}
  BY <1>1, <1>2, <1>3, ApplyNothing
<1>4. CASE c.actions = {"record-step"}
  <2>1. Apply(j, t, c, f) = RecordStep(t, c)
    BY <1>4, ApplyRecord
  <2> QED
    BY <1>1, <1>2, <2>1, RecordStepFields DEF Kept
<1>5. CASE c.actions = {"sigkill-group"}
  <2>1. Apply(j, t, c, f) = [t EXCEPT !.sent = "kill"]
    BY <1>5, ApplyKill
  <2> QED
    BY <1>1, <1>2, <2>1 DEF Kept, JobRuns
<1> QED
  BY <1>3, <1>4, <1>5

\* A cell that starts a teardown arms the grace timer.
LEMMA StopFields ==
  ASSUME NEW j \in Jobs, NEW r \in JobRuns(j), NEW e, NEW p, NEW f, e # "group-empty",
         NEW c, c = Cell(r, e, p), NEW q, q = Transition(j, r, e, p, f),
         c.next \in States, c.reason \in Reasons,
         c.actions \in {Stop, Stop \cup {"record-step"}}
  PROVE  /\ q \in JobRuns(j) /\ Kept(r, q)
         /\ q.state = c.next
         /\ q.graceTimer = "armed"
         /\ q.timeoutTold = (r.timeoutTold \/ e = "job-timeout")
<1> DEFINE t == Told(r, e, c)
           s == AskedToStop(t)
<1>1. q = Apply(j, t, c, f)
  BY DEF Transition
<1>2. /\ t \in JobRuns(j) /\ Kept(r, t) /\ t.state = c.next
      /\ t.timeoutTold = (r.timeoutTold \/ e = "job-timeout")
  BY ToldFields
<1> HIDE DEF t
<1>3. /\ s \in JobRuns(j) /\ Kept(r, s) /\ s.state = c.next /\ s.graceTimer = "armed"
      /\ s.timeoutTold = (r.timeoutTold \/ e = "job-timeout")
  BY ZenonT(60), <1>2 DEF JobRuns, Kept, Timers, AskedToStop
<1> HIDE DEF s
<1>4. CASE c.actions = Stop
  <2>1. Apply(j, t, c, f) = s
    BY <1>4, ApplyStop DEF s
  <2> QED
    BY <1>1, <1>3, <2>1
<1>5. CASE c.actions = Stop \cup {"record-step"}
  <2>1. Apply(j, t, c, f) = RecordStep(s, c)
    BY <1>5, ApplyStopRecord DEF s
  <2> QED
    BY <1>1, <1>3, <2>1, RecordStepFields DEF Kept
<1> QED
  BY <1>4, <1>5

\* A cell that starts the job opens at most the job timer.
LEMMA StartFields ==
  ASSUME NEW j \in Jobs, NEW r \in JobRuns(j), NEW e, NEW p, NEW f, e # "group-empty",
         NEW c, c = Cell(r, e, p), NEW q, q = Transition(j, r, e, p, f),
         c.next \in States, c.reason \in Reasons,
         c.actions = {"start-job"}
  PROVE  /\ q \in JobRuns(j)
         /\ q.cur = r.cur /\ q.live = r.live /\ q.leader = r.leader
         /\ q.members = r.members /\ q.stepTimer = r.stepTimer
         /\ q.graceTimer = r.graceTimer
         /\ q.state = c.next
         /\ q.jobTimer \in {r.jobTimer, "armed", "idle"}
         /\ q.timeoutTold = (r.timeoutTold \/ e = "job-timeout")
<1> DEFINE t == Told(r, e, c)
<1>1. q = StartJob(j, t, f)
  BY ApplyStart DEF Transition
<1>2. /\ t \in JobRuns(j) /\ Kept(r, t) /\ t.state = c.next /\ t.graceTimer = r.graceTimer
      /\ t.timeoutTold = (r.timeoutTold \/ e = "job-timeout")
  BY ToldFields
<1> HIDE DEF t
<1>3. CASE f
  <2> DEFINE w == [t EXCEPT !.followup = TRUE]
  <2>1. q = w
    BY <1>1, <1>3 DEF StartJob
  <2>2. w \in JobRuns(j)
    BY <1>2, Zenon DEF JobRuns
  <2> QED
    BY <1>2, <2>1, <2>2 DEF JobRuns, Kept
<1>4. CASE ~f
  <2> DEFINE d == IF JobTimeout[j] THEN "armed" ELSE "idle"
             w == [t EXCEPT !.started = TRUE, !.jobTimer = d]
  <2>1. q = w
    BY <1>1, <1>4 DEF StartJob
  <2>2. d \in {"armed", "idle"}
    OBVIOUS
  <2> HIDE DEF d
  <2>3. w \in JobRuns(j)
    BY <1>2, <2>2, Zenon DEF JobRuns, Timers
  <2>4. /\ w.jobTimer = d /\ w.cur = t.cur /\ w.live = t.live /\ w.leader = t.leader
        /\ w.members = t.members /\ w.stepTimer = t.stepTimer /\ w.graceTimer = t.graceTimer
        /\ w.state = t.state /\ w.followup = t.followup /\ w.timeoutTold = t.timeoutTold
    BY <1>2 DEF JobRuns
  <2> HIDE DEF w
  <2> QED
    BY <1>2, <2>1, <2>2, <2>3, <2>4 DEF Kept
<1> QED
  BY <1>3, <1>4

\* A cell that spawns a step: it is live, with its timers open unless the
\* spawn failed.
LEMMA SpawnFields ==
  ASSUME NEW j \in Jobs, NEW r \in JobRuns(j), NEW e, NEW p, NEW f \in BOOLEAN, e # "group-empty",
         NEW c, c = Cell(r, e, p), NEW q, q = Transition(j, r, e, p, f),
         c.next \in States, c.reason \in Reasons,
         c.actions = {"spawn-step"},
         r.cur \in 1..NSteps[j]
  PROVE  /\ q \in JobRuns(j)
         /\ q.cur = r.cur /\ q.live = r.cur /\ q.members = r.members
         /\ q.state = c.next /\ q.jobTimer = r.jobTimer
         /\ q.timeoutTold = (r.timeoutTold \/ e = "job-timeout")
         /\ f => /\ q.followup /\ q.leader = r.leader
                 /\ q.stepTimer = r.stepTimer /\ q.graceTimer = r.graceTimer
         /\ ~f => /\ q.followup = r.followup /\ q.leader = "alive"
                  /\ q.stepTimer \in {"armed", "idle"} /\ q.graceTimer = "idle"
<1> DEFINE t == Told(r, e, c)
<1>1. q = SpawnStep(j, t, f)
  BY ApplySpawn DEF Transition
<1>2. /\ t \in JobRuns(j) /\ Kept(r, t) /\ t.state = c.next /\ t.graceTimer = r.graceTimer
      /\ t.timeoutTold = (r.timeoutTold \/ e = "job-timeout")
  BY ToldFields
<1> HIDE DEF t
<1>0. t.cur \in 0..NSteps[j]
  BY <1>2, EngineAssumption DEF Kept
<1>3. CASE f
  <2> DEFINE w == [t EXCEPT !.live = t.cur, !.followup = TRUE]
  <2>1. q = w
    BY <1>1, <1>3 DEF SpawnStep
  <2>2. w \in JobRuns(j)
    BY <1>0, <1>2, Zenon DEF JobRuns
  <2>3. /\ w.jobTimer = t.jobTimer /\ w.cur = t.cur /\ w.live = t.cur /\ w.leader = t.leader
        /\ w.members = t.members /\ w.stepTimer = t.stepTimer /\ w.graceTimer = t.graceTimer
        /\ w.state = t.state /\ w.followup /\ w.timeoutTold = t.timeoutTold
    BY <1>2 DEF JobRuns
  <2> HIDE DEF w
  <2> QED
    BY <1>2, <1>3, <2>1, <2>2, <2>3, Zenon DEF Kept
<1>4. CASE ~f
  <2> DEFINE d == IF StepTimeout[j][t.cur] THEN "armed" ELSE "idle"
             w == [t EXCEPT !.live = t.cur, !.leader = "alive", !.sent = "none",
                            !.stepTimer = d, !.graceTimer = "idle"]
  <2>1. q = w
    BY <1>1, <1>4 DEF SpawnStep
  <2>2. d \in {"armed", "idle"}
    OBVIOUS
  <2> HIDE DEF d
  <2>3. w \in JobRuns(j)
    BY <1>0, <1>2, <2>2, ZenonT(30) DEF JobRuns, Timers
  <2>4. /\ w.jobTimer = t.jobTimer /\ w.cur = t.cur /\ w.live = t.cur /\ w.leader = "alive"
        /\ w.members = t.members /\ w.stepTimer = d /\ w.graceTimer = "idle"
        /\ w.state = t.state /\ w.followup = t.followup /\ w.timeoutTold = t.timeoutTold
    BY <1>2 DEF JobRuns
  <2> HIDE DEF w
  <2>5. /\ w.jobTimer = r.jobTimer /\ w.cur = r.cur /\ w.live = r.cur /\ w.leader = "alive"
        /\ w.members = r.members /\ w.stepTimer \in {"armed", "idle"} /\ w.graceTimer = "idle"
        /\ w.state = c.next /\ w.followup = r.followup
        /\ w.timeoutTold = (r.timeoutTold \/ e = "job-timeout")
    BY <1>2, <2>2, <2>4 DEF Kept
  <2> QED
    BY <1>4, <2>1, <2>3, <2>5
<1> QED
  BY <1>3, <1>4

\* A cell that ends the job leaves nothing of a step open.
LEMMA EndFields ==
  ASSUME NEW j \in Jobs, NEW r \in JobRuns(j), NEW e, NEW p, NEW f, e # "group-empty",
         NEW c, c = Cell(r, e, p), NEW q, q = Transition(j, r, e, p, f),
         r.live # NoStep => r.live = r.cur,
         c.next \in States, c.reason \in Reasons,
         c.actions \in {End, {"record-step"} \cup End}
  PROVE  /\ q \in JobRuns(j) /\ Ends(r, q)
         /\ q.state = c.next
         /\ q.timeoutTold = (r.timeoutTold \/ e = "job-timeout")
<1> DEFINE t == Told(r, e, c)
<1>1. q = Apply(j, t, c, f)
  BY DEF Transition
<1>2. /\ t \in JobRuns(j) /\ Kept(r, t) /\ t.state = c.next /\ t.graceTimer = r.graceTimer
      /\ t.timeoutTold = (r.timeoutTold \/ e = "job-timeout")
  BY ToldFields
<1> HIDE DEF t
<1>3. \E u \in JobRuns(j) :
        /\ Apply(j, t, c, f) = JobEnd(u)
        /\ Kept(r, u) /\ u.state = c.next /\ u.graceTimer = r.graceTimer
        /\ u.timeoutTold = (r.timeoutTold \/ e = "job-timeout")
  <2>1. CASE c.actions = End
    <3> DEFINE u == [t EXCEPT !.reason = c.reason]
    <3>1. Apply(j, t, c, f) = JobEnd(u)
      BY <2>1, ApplyEnd
    <3>2. /\ u \in JobRuns(j) /\ Kept(r, u) /\ u.state = c.next /\ u.graceTimer = r.graceTimer
          /\ u.timeoutTold = (r.timeoutTold \/ e = "job-timeout")
      BY <1>2 DEF JobRuns, Kept
    <3> QED
      BY <3>1, <3>2, Zenon
  <2>2. CASE c.actions = {"record-step"} \cup End
    <3> DEFINE v == RecordStep(t, c)
               u == [v EXCEPT !.reason = c.reason]
    <3>1. Apply(j, t, c, f) = JobEnd(u)
      BY <2>2, ApplyRecordEnd
    <3>2. /\ v \in JobRuns(j) /\ Kept(r, v) /\ v.state = c.next /\ v.graceTimer = r.graceTimer
          /\ v.timeoutTold = (r.timeoutTold \/ e = "job-timeout")
      BY <1>2, RecordStepFields DEF Kept
    <3> HIDE DEF v
    <3>3. /\ u \in JobRuns(j) /\ Kept(r, u) /\ u.state = c.next /\ u.graceTimer = r.graceTimer
          /\ u.timeoutTold = (r.timeoutTold \/ e = "job-timeout")
      BY <3>2 DEF JobRuns, Kept
    <3> QED
      BY <3>1, <3>3, Zenon
  <2> QED
    BY <2>1, <2>2
<1>4. PICK u \in JobRuns(j) :
        /\ Apply(j, t, c, f) = JobEnd(u)
        /\ Kept(r, u) /\ u.state = c.next /\ u.graceTimer = r.graceTimer
        /\ u.timeoutTold = (r.timeoutTold \/ e = "job-timeout")
  BY <1>3
<1>5. u.live # NoStep => u.live = u.cur
  BY <1>4 DEF Kept
<1> QED
  BY <1>1, <1>4, <1>5, JobEndFields DEF Kept, Ends

\* group-empty: step_finish comes before the cell's actions.
LEMMA EmptyFields ==
  ASSUME NEW j \in Jobs, NEW r \in JobRuns(j), NEW p, NEW f,
         NEW c, c = Cell(r, "group-empty", p), NEW q, q = Transition(j, r, "group-empty", p, f),
         r.live # NoStep, r.live = r.cur,
         c.next \in States,
         c.reason \in Reasons,
         c.actions \in {{}, End}
  PROVE  /\ q \in JobRuns(j)
         /\ q.state = c.next
         /\ q.live = NoStep /\ q.cur = r.cur + 1 /\ q.leader = "none"
         /\ q.members = r.members /\ q.followup = r.followup
         /\ q.stepTimer = "closed" /\ q.graceTimer = "closed"
         /\ q.jobTimer = IF c.actions = {}
                         THEN r.jobTimer ELSE "closed"
         /\ q.timeoutTold = r.timeoutTold
<1> DEFINE t == Told(r, "group-empty", c)
           s == StepFinish(t)
<1>1. q = Apply(j, s, c, f)
  BY DEF Transition
<1>2. /\ t \in JobRuns(j) /\ Kept(r, t) /\ t.state = c.next /\ t.timeoutTold = r.timeoutTold
  BY ToldFields DEF JobRuns
<1> HIDE DEF t
<1>3. /\ s \in JobRuns(j) /\ s.live = NoStep /\ s.cur = r.cur + 1 /\ s.leader = "none"
      /\ s.stepTimer = "closed" /\ s.graceTimer = "closed" /\ s.state = c.next
      /\ s.members = r.members /\ s.jobTimer = r.jobTimer /\ s.followup = r.followup
      /\ s.timeoutTold = r.timeoutTold
  BY <1>2, StepFinishFields DEF Kept
<1> HIDE DEF s
<1>4. CASE c.actions = {}
  BY <1>1, <1>3, <1>4, ApplyNothing
<1>5. CASE c.actions = End
  <2> DEFINE u == [s EXCEPT !.reason = c.reason]
  <2>1. Apply(j, s, c, f) = JobEnd(u)
    BY <1>5, ApplyEnd
  <2>2. /\ u \in JobRuns(j) /\ u.live = NoStep /\ u.cur = r.cur + 1 /\ u.leader = "none"
        /\ u.stepTimer = "closed" /\ u.graceTimer = "closed" /\ u.state = c.next
        /\ u.members = r.members /\ u.followup = r.followup /\ u.timeoutTold = r.timeoutTold
    BY <1>3 DEF JobRuns
  <2> HIDE DEF u
  <2>3. c.actions # {}
    BY <1>5 DEF End
  <2> QED
    BY <1>1, <2>1, <2>2, <2>3, JobEndFields
<1> QED
  BY <1>4, <1>5

-----------------------------------------------------------------------------
(* Event by event. *)

\* needs-met makes a pending job ready.
LEMMA NeedsMetSafe ==
  ASSUME NEW j \in Jobs, NEW r \in JobRuns(j), NEW p \in Payloads, NEW f,
         JobOK(r), r.state = "pending"
  PROVE  Safe(j, r, "needs-met", p, f)
<1> DEFINE c == Cell(r, "needs-met", p)
           q == Transition(j, r, "needs-met", p, f)
<1>1. /\ c.kind = "transition" /\ c.next = "ready" /\ c.reason = "none" /\ c.actions = {}
  BY DEF Cell, Lookup, PendingRow, T
<1>2. c.next \in States /\ c.reason \in Reasons
  BY <1>1 DEF States, Reasons
<1> HIDE DEF c, q
<1>3. q \in JobRuns(j) /\ Kept(r, q) /\ q.state = "ready" /\ q.graceTimer = r.graceTimer
  BY <1>1, <1>2, SteadyFields DEF c, q
<1>4. JobOK(q)
  BY <1>3 DEF JobOK, Kept, StepStates, Running,
     StepRunning, StepStopping, StepKilling, Settling,
     SettlingTerm, SettlingKill, SettlingCancelTimeout
<1>5. Evolves(r, q)
  BY <1>3 DEF Evolves, Kept, Final, JobRuns, JobOK
<1> QED
  BY <1>1, <1>3, <1>4, <1>5 DEF Safe, c, q

\* A waiting job is skipped by a failed need, by the cancel or when disabled.
LEMMA SkippedSafe ==
  ASSUME NEW j \in Jobs, NEW r \in JobRuns(j), NEW p \in Payloads, NEW f, JobOK(r), NEW e,
         \/ r.state = "pending" /\ e \in {"needs-failed", "skip", "cancel"}
         \/ r.state = "ready" /\ e \in {"skip", "cancel"}
  PROVE  Safe(j, r, e, p, f)
<1> DEFINE c == Cell(r, e, p)
           q == Transition(j, r, e, p, f)
<1>1. /\ c.kind = "transition" /\ c.next = "skipped" /\ c.reason \in Reasons /\ c.actions = End
  BY ZenonT(30) DEF Cell, Lookup, PendingRow, ReadyRow, T, Payloads, Reasons
<1>2. c.next \in States /\ c.actions \in {End, {"record-step"} \cup End} /\ e # "group-empty"
      /\ (r.live # NoStep => r.live = r.cur)
  BY <1>1 DEF States, Final, JobOK
<1> HIDE DEF c, q
<1>3. q \in JobRuns(j) /\ Ends(r, q) /\ q.state = "skipped"
  BY <1>1, <1>2, EndFields DEF c, q
<1>4. JobOK(q)
  BY <1>3 DEF JobOK, Ends, StepStates, Running,
     StepRunning, StepStopping, StepKilling, Settling,
     SettlingTerm, SettlingKill, SettlingCancelTimeout
<1>5. Evolves(r, q)
  BY <1>3 DEF Evolves, Ends, Final, JobRuns, JobOK
<1> QED
  BY <1>1, <1>3, <1>4, <1>5, Zenon DEF Safe, c, q

\* slot-granted starts a ready job, whether or not job_start succeeds.
LEMMA SlotGrantedSafe ==
  ASSUME NEW j \in Jobs, NEW r \in JobRuns(j), NEW p \in Payloads, NEW f,
         JobOK(r), r.state = "ready"
  PROVE  Safe(j, r, "slot-granted", p, f)
<1> DEFINE c == Cell(r, "slot-granted", p)
           q == Transition(j, r, "slot-granted", p, f)
<1>1. /\ c.kind = "transition" /\ c.next = "between-steps" /\ c.reason = "none"
      /\ c.actions = {"start-job"}
  BY DEF Cell, Lookup, ReadyRow, T
<1>2. c.next \in States /\ c.reason \in Reasons
  BY <1>1 DEF States, Running, Reasons
<1> HIDE DEF c, q
<1>3. /\ q \in JobRuns(j)
      /\ q.cur = r.cur /\ q.live = r.live /\ q.leader = r.leader
      /\ q.members = r.members /\ q.stepTimer = r.stepTimer
      /\ q.graceTimer = r.graceTimer /\ q.state = "between-steps"
      /\ q.jobTimer \in {r.jobTimer, "armed", "idle"}
  BY <1>1, <1>2, StartFields DEF c, q
<1>4. JobOK(q)
  BY <1>3 DEF JobOK, StepStates, Running,
     StepRunning, StepStopping, StepKilling, Settling,
     SettlingTerm, SettlingKill, SettlingCancelTimeout
<1>5. Evolves(r, q)
  BY <1>3 DEF Evolves, Final, JobRuns, JobOK
<1> QED
  BY <1>1, <1>3, <1>4, <1>5 DEF Safe, c, q

\* next-step makes the next step live, whether or not step_spawn succeeds.
LEMMA NextStepSafe ==
  ASSUME NEW j \in Jobs, NEW r \in JobRuns(j), NEW p \in Payloads, NEW f \in BOOLEAN,
         JobOK(r), r.state = "between-steps", ~r.followup, r.cur <= NSteps[j]
  PROVE  Safe(j, r, "next-step", p, f)
<1> DEFINE c == Cell(r, "next-step", p)
           q == Transition(j, r, "next-step", p, f)
<1>1. /\ c.kind = "transition" /\ c.next \in StepRunning /\ c.reason = "none"
      /\ c.actions = {"spawn-step"}
  BY DEF Cell, Lookup, BetweenStepsRow, T, StepRunning
<1>2. c.next \in States /\ c.reason \in Reasons
  BY <1>1 DEF States, Running, StepStates, Reasons
<1>3. r.cur \in 1..NSteps[j]
  BY EngineAssumption DEF JobRuns
<1>0. c = Cell(r, "next-step", p) /\ q = Transition(j, r, "next-step", p, f)
  BY Zenon
<1> HIDE DEF c, q
<1>4. /\ q \in JobRuns(j)
      /\ q.cur = r.cur /\ q.live = r.cur /\ q.members = r.members
      /\ q.state \in StepRunning /\ q.jobTimer = r.jobTimer
      /\ f => /\ q.followup /\ q.leader = r.leader
              /\ q.stepTimer = r.stepTimer /\ q.graceTimer = r.graceTimer
      /\ ~f => /\ q.followup = r.followup /\ q.leader = "alive"
               /\ q.stepTimer \in {"armed", "idle"} /\ q.graceTimer = "idle"
  BY <1>0, <1>1, <1>2, <1>3, SpawnFields
<1>5. /\ r.live = NoStep /\ r.leader = "none" /\ r.members = 0
      /\ r.stepTimer = "closed" /\ r.graceTimer = "closed"
  BY DEF JobOK, StepStates, Running,
     StepRunning, StepStopping, StepKilling, Settling,
     SettlingTerm, SettlingKill, SettlingCancelTimeout
<1>6. JobOK(q)
  BY <1>3, <1>4, <1>5 DEF JobOK, NoStep, StepStates, Running,
     StepRunning, StepStopping, StepKilling, Settling,
     SettlingTerm, SettlingKill, SettlingCancelTimeout
<1>7. Evolves(r, q)
  BY <1>4, <1>5 DEF Evolves, Final, JobRuns
<1> QED
  BY <1>0, <1>1, <1>4, <1>6, <1>7 DEF Safe

\* A job between two steps ends when it is told to.
LEMMA EndBetweenSafe ==
  ASSUME NEW j \in Jobs, NEW r \in JobRuns(j), NEW p \in Payloads, NEW f, JobOK(r),
         r.state = "between-steps", ~r.followup,
         NEW e, e \in {"no-more-steps", "start-failed", "job-timeout", "cancel"}
  PROVE  Safe(j, r, e, p, f)
<1> DEFINE c == Cell(r, e, p)
           q == Transition(j, r, e, p, f)
<1>1. /\ c.kind = "transition" /\ c.next \in Final /\ c.reason \in Reasons /\ c.actions = End
  BY DEF Cell, Lookup, BetweenStepsRow, T, Final, Reasons
<1>2. c.next \in States /\ c.actions \in {End, {"record-step"} \cup End} /\ e # "group-empty"
      /\ (r.live # NoStep => r.live = r.cur)
  BY <1>1, Zenon DEF States, JobOK
<1> HIDE DEF c, q
<1>3. q \in JobRuns(j) /\ Ends(r, q) /\ q.state \in Final
  BY <1>1, <1>2, EndFields DEF c, q
<1>4. JobOK(q)
  BY <1>3 DEF JobOK, Ends, Final, StepStates, Running,
     StepRunning, StepStopping, StepKilling, Settling,
     SettlingTerm, SettlingKill, SettlingCancelTimeout
<1>5. Evolves(r, q)
  BY <1>3 DEF Evolves, Ends, JobRuns, JobOK
<1> QED
  BY <1>1, <1>3, <1>4, <1>5 DEF Safe, c, q

\* A step whose spawn failed: live, with nothing open.
LEMMA StepStartFailedSafe ==
  ASSUME NEW j \in Jobs, NEW r \in JobRuns(j), NEW p \in Payloads, NEW f,
         r.state \in StepRunning, r.live # NoStep, r.live = r.cur,
         ~r.followup, r.members = 0
  PROVE  Safe(j, r, "start-failed", p, f)
<1> DEFINE c == Cell(r, "start-failed", p)
           q == Transition(j, r, "start-failed", p, f)
<1>1. /\ c.kind = "transition" /\ c.next = "failed" /\ c.reason = "engine-error"
      /\ c.actions = {"record-step"} \cup End
  BY Zenon DEF Cell, Lookup, StepRunningRow, T, StepRunning
<1>2. c.next \in States /\ c.reason \in Reasons /\ c.actions \in {End, {"record-step"} \cup End}
  BY <1>1, Zenon DEF States, Final, Reasons
<1> HIDE DEF c, q
<1>3. q \in JobRuns(j) /\ Ends(r, q) /\ q.state = "failed"
  BY <1>1, <1>2, EndFields DEF c, q
<1>4. JobOK(q)
  BY <1>3 DEF JobOK, Ends, StepStates, Running,
     StepRunning, StepStopping, StepKilling, Settling,
     SettlingTerm, SettlingKill, SettlingCancelTimeout
<1>5. Evolves(r, q)
  BY <1>3 DEF Evolves, Ends, Final, JobRuns
<1> QED
  BY <1>1, <1>3, <1>4, <1>5, Zenon DEF Safe, c, q

\* cancel finds nothing to do in a job that has ended.
LEMMA CancelFinalSafe ==
  ASSUME NEW j \in Jobs, NEW r \in JobRuns(j), NEW p \in Payloads, NEW f,
         JobOK(r), r.state \in Final
  PROVE  Safe(j, r, "cancel", p, f)
<1> DEFINE c == Cell(r, "cancel", p)
           q == Transition(j, r, "cancel", p, f)
<1>1. /\ c.kind = "ignore" /\ c.next = r.state /\ c.reason = "none" /\ c.actions = {}
  BY Zenon DEF Cell, Lookup, FinalRow, I, Final
<1>2. c.next \in States /\ c.reason \in Reasons
  BY <1>1, Zenon DEF States, Reasons
<1> HIDE DEF c, q
<1>3. q \in JobRuns(j) /\ Kept(r, q) /\ q.state = r.state /\ q.graceTimer = r.graceTimer
  BY <1>1, <1>2, SteadyFields DEF c, q
<1>4. JobOK(q)
  BY <1>3 DEF JobOK, Kept, Final, StepStates, Running,
     StepRunning, StepStopping, StepKilling, Settling,
     SettlingTerm, SettlingKill, SettlingCancelTimeout
<1>5. Evolves(r, q)
  BY <1>3 DEF Evolves, Kept, JobRuns
<1> QED
  BY <1>1, <1>3, <1>4, <1>5, Zenon DEF Safe, c, q

\* The four triggers of a teardown, and a step timeout that comes late.
LEMMA TriggerSafe ==
  ASSUME NEW j \in Jobs, NEW r \in JobRuns(j), NEW p \in Payloads, NEW f, LiveOK(r),
         NEW e, e \in {"leader-exit-ok", "leader-exit-fail", "step-timeout", "job-timeout",
                       "cancel"},
         e = "step-timeout" =>
           r.stepTimer = "fired" /\ r.state \notin StepStopping \cup StepKilling,
         e = "job-timeout" => ~r.timeoutTold,
         e \notin {"leader-exit-ok", "leader-exit-fail"} /\ r.leader = "reaped" =>
           r.state \in Settling
  PROVE  Safe(j, r, e, p, f)
<1> DEFINE c == Cell(r, e, p)
           q == Transition(j, r, e, p, f)
<1>1. CASE r.state \in StepRunning
  <2>1. /\ c.kind = "transition" /\ c.reason \in Reasons
        /\ c.actions \in {Stop, Stop \cup {"record-step"}}
        /\ c.next \in IF e = "step-timeout" THEN StepStopping ELSE SettlingTerm
        /\ c.next \in SettlingCancelTimeout => e = "job-timeout"
    <3> DEFINE pl == [p EXCEPT !.carried = r.lastReason]
    <3>1. pl.reason \in Reasons
      BY DEF Payloads
    <3>2. CASE r.state = "step-running"
      <4>1. c = StepRunningRow("settling-fail-term", "step-stopping", e, pl)
        BY <3>2 DEF Cell, Lookup
      <4> HIDE DEF c, pl
      <4> QED
        BY <3>1, <4>1 DEF StepRunningRow, T, StepStopping, SettlingTerm,
           SettlingCancelTimeout, Reasons
    <3>3. CASE r.state = "step-running-coe"
      <4>1. c = StepRunningRow("settling-continue-term", "step-stopping-coe", e, pl)
        BY <3>3 DEF Cell, Lookup
      <4> HIDE DEF c, pl
      <4> QED
        BY <3>1, <4>1 DEF StepRunningRow, T, StepStopping, SettlingTerm,
           SettlingCancelTimeout, Reasons
    <3> QED
      BY <1>1, <3>2, <3>3 DEF StepRunning
  <2>2. c.next \in States /\ e # "group-empty"
    BY <2>1 DEF States, Running, StepStates, Settling
  <2>0. c = Cell(r, e, p) /\ q = Transition(j, r, e, p, f)
    BY Zenon
  <2> HIDE DEF c, q
  <2>3. /\ q \in JobRuns(j) /\ Kept(r, q) /\ q.state = c.next /\ q.graceTimer = "armed"
        /\ q.timeoutTold = (r.timeoutTold \/ e = "job-timeout")
    BY <2>0, <2>1, <2>2, StopFields
  <2>4. JobOK(q)
    BY <1>1, <2>1, <2>3, ZenonT(30) DEF JobOK, LiveOK, Kept, StepStates, Running,
       StepRunning, StepStopping, StepKilling, Settling,
       SettlingTerm, SettlingKill, SettlingCancelTimeout
  <2>5. Evolves(r, q)
    BY <1>1, <2>3, KeptEvolves DEF LiveOK, Final, StepRunning
  <2> QED
    BY <2>0, <2>1, <2>3, <2>4, <2>5, Zenon DEF Safe
<1>2. CASE r.state \in StepStopping
  <2>1. /\ c.kind = "transition" /\ c.reason \in Reasons /\ c.actions = {"record-step"}
        /\ c.next \in SettlingTerm
        /\ c.next \in SettlingCancelTimeout => e = "job-timeout"
    BY ZenonT(60), <1>2 DEF Cell, Lookup, StepStoppingRow, T, StepStopping, SettlingTerm,
       SettlingCancelTimeout, Reasons
  <2>2. c.next \in States /\ e # "group-empty"
    BY <2>1 DEF States, Running, StepStates, Settling
  <2>0. c = Cell(r, e, p) /\ q = Transition(j, r, e, p, f)
    OBVIOUS
  <2> HIDE DEF c, q
  <2>6. c.reason \in Reasons /\ c.actions \in {{}, {"record-step"}, {"sigkill-group"}}
    BY <2>1
  <2>3. /\ q \in JobRuns(j) /\ Kept(r, q) /\ q.state = c.next /\ q.graceTimer = r.graceTimer
        /\ q.timeoutTold = (r.timeoutTold \/ e = "job-timeout")
    BY <2>0, <2>2, <2>6, SteadyFields
  <2>4. JobOK(q)
    BY <1>2, <2>1, <2>3, Zenon DEF JobOK, LiveOK, Kept, StepStates, Running,
       StepRunning, StepStopping, StepKilling, Settling,
       SettlingTerm, SettlingKill, SettlingCancelTimeout
  <2>5. Evolves(r, q)
    BY <1>2, <2>3, KeptEvolves DEF Final, StepStopping
  <2> QED
    BY <2>0, <2>1, <2>3, <2>4, <2>5 DEF Safe
<1>3. CASE r.state \in StepKilling
  <2>1. /\ c.kind = "transition" /\ c.reason \in Reasons /\ c.actions = {"record-step"}
        /\ c.next \in SettlingKill
        /\ c.next \in SettlingCancelTimeout => e = "job-timeout"
    BY ZenonT(60), <1>3 DEF Cell, Lookup, StepKillingRow, T, StepKilling, SettlingKill,
       SettlingCancelTimeout, Reasons
  <2>2. c.next \in States /\ e # "group-empty"
    BY <2>1 DEF States, Running, StepStates, Settling
  <2>0. c = Cell(r, e, p) /\ q = Transition(j, r, e, p, f)
    OBVIOUS
  <2> HIDE DEF c, q
  <2>6. c.reason \in Reasons /\ c.actions \in {{}, {"record-step"}, {"sigkill-group"}}
    BY <2>1
  <2>3. /\ q \in JobRuns(j) /\ Kept(r, q) /\ q.state = c.next /\ q.graceTimer = r.graceTimer
        /\ q.timeoutTold = (r.timeoutTold \/ e = "job-timeout")
    BY <2>0, <2>2, <2>6, SteadyFields
  <2>4. JobOK(q)
    BY <1>3, <2>1, <2>3, Zenon DEF JobOK, LiveOK, Kept, StepStates, Running,
       StepRunning, StepStopping, StepKilling, Settling,
       SettlingTerm, SettlingKill, SettlingCancelTimeout
  <2>5. Evolves(r, q)
    BY <1>3, <2>3, KeptEvolves, Zenon DEF Final, StepKilling
  <2> QED
    BY <2>0, <2>1, <2>3, <2>4, <2>5 DEF Safe
<1>4. CASE r.state \in Settling
  <2>1. /\ c.kind \in {"transition", "ignore"} /\ c.reason \in Reasons /\ c.actions = {}
        /\ r.state \in SettlingTerm => c.next \in SettlingTerm
        /\ r.state \in SettlingKill => c.next \in SettlingKill
        /\ c.next \in SettlingCancelTimeout =>
             e = "job-timeout" \/ r.state \in SettlingCancelTimeout
    <3>1. r.state \in SettlingCancelTimeout => e # "job-timeout"
      BY DEF LiveOK
    <3>2. CASE r.state = "settling-continue-term"
      BY <3>1, <3>2 DEF Cell, Lookup, SettlingRow, T, I, ByTimeout, ByCancel, SettlingTerm,
         SettlingKill, SettlingCancelTimeout, Reasons
    <3>3. CASE r.state = "settling-fail-term"
      BY <3>1, <3>3 DEF Cell, Lookup, SettlingRow, T, I, ByTimeout, ByCancel, SettlingTerm,
         SettlingKill, SettlingCancelTimeout, Reasons
    <3>4. CASE r.state = "settling-cancel-timeout-term"
      BY <3>1, <3>4 DEF Cell, Lookup, SettlingRow, T, I, ByTimeout, ByCancel, SettlingTerm,
         SettlingKill, SettlingCancelTimeout, Reasons
    <3>5. CASE r.state = "settling-cancel-requested-term"
      BY <3>1, <3>5 DEF Cell, Lookup, SettlingRow, T, I, ByTimeout, ByCancel, SettlingTerm,
         SettlingKill, SettlingCancelTimeout, Reasons
    <3>6. CASE r.state = "settling-continue-kill"
      BY <3>1, <3>6 DEF Cell, Lookup, SettlingRow, T, I, ByTimeout, ByCancel, SettlingTerm,
         SettlingKill, SettlingCancelTimeout, Reasons
    <3>7. CASE r.state = "settling-fail-kill"
      BY <3>1, <3>7 DEF Cell, Lookup, SettlingRow, T, I, ByTimeout, ByCancel, SettlingTerm,
         SettlingKill, SettlingCancelTimeout, Reasons
    <3>8. CASE r.state = "settling-cancel-timeout-kill"
      BY <3>1, <3>8, Zenon DEF Cell, Lookup, SettlingRow, T, I, ByTimeout, ByCancel, SettlingTerm,
         SettlingKill, SettlingCancelTimeout, Reasons
    <3>9. CASE r.state = "settling-cancel-requested-kill"
      BY <3>1, <3>9, ZenonT(30) DEF Cell, Lookup, SettlingRow, T, I, ByTimeout, ByCancel, SettlingTerm,
         SettlingKill, SettlingCancelTimeout, Reasons
    <3> QED
      BY ZenonT(60), <1>4, <3>2, <3>3, <3>4, <3>5, <3>6, <3>7, <3>8, <3>9
         DEF Settling, SettlingTerm, SettlingKill
  <2>2. c.next \in States /\ e # "group-empty"
    BY <1>4, <2>1 DEF States, Running, StepStates, Settling
  <2>0. c = Cell(r, e, p) /\ q = Transition(j, r, e, p, f)
    OBVIOUS
  <2> HIDE DEF c, q
  <2>6. c.reason \in Reasons /\ c.actions \in {{}, {"record-step"}, {"sigkill-group"}}
    BY <2>1
  <2>3. /\ q \in JobRuns(j) /\ Kept(r, q) /\ q.state = c.next /\ q.graceTimer = r.graceTimer
        /\ q.timeoutTold = (r.timeoutTold \/ e = "job-timeout")
    BY <2>0, <2>2, <2>6, SteadyFields
  <2>4. JobOK(q)
    BY <1>4, <2>1, <2>3, Zenon DEF JobOK, LiveOK, Kept, StepStates, Running,
       StepRunning, StepStopping, StepKilling, Settling,
       SettlingTerm, SettlingKill, SettlingCancelTimeout
  <2>5. Evolves(r, q)
    BY <1>4, <2>3, KeptEvolves DEF Final, Settling, SettlingTerm, SettlingKill
  <2> QED
    BY <2>0, <2>1, <2>3, <2>4, <2>5 DEF Safe
<1> QED
  BY <1>1, <1>2, <1>3, <1>4, Zenon DEF LiveOK, StepStates

\* The end of the grace period escalates to SIGKILL.
LEMMA GraceExpiredSafe ==
  ASSUME NEW j \in Jobs, NEW r \in JobRuns(j), NEW p \in Payloads, NEW f,
         r.live # NoStep, r.live = r.cur, ~r.followup, r.leader # "none",
         r.state \in StepStopping \cup SettlingTerm, r.graceTimer = "fired",
         r.state \in StepStopping => r.stepTimer = "fired",
         r.leader = "reaped" => r.state \in Settling,
         r.state \in SettlingCancelTimeout => r.timeoutTold
  PROVE  Safe(j, r, "grace-expired", p, f)
<1> DEFINE c == Cell(r, "grace-expired", p)
           q == Transition(j, r, "grace-expired", p, f)
<1>1. /\ c.kind = "transition" /\ c.reason = "none" /\ c.actions = {"sigkill-group"}
      /\ r.state \in StepStopping => c.next \in StepKilling
      /\ r.state \in SettlingTerm => c.next \in SettlingKill
      /\ c.next \in SettlingCancelTimeout => r.state \in SettlingCancelTimeout
  BY ZenonT(30) DEF Cell, Lookup, StepStoppingRow, SettlingRow, Kill, T, StepStopping, StepKilling,
     SettlingTerm, SettlingKill, SettlingCancelTimeout
<1>2. c.next \in States /\ c.reason \in Reasons
  BY <1>1 DEF States, Running, StepStates, Settling, Reasons
<1>0. c = Cell(r, "grace-expired", p) /\ q = Transition(j, r, "grace-expired", p, f)
  OBVIOUS
<1> HIDE DEF c, q
<1>3. /\ q \in JobRuns(j) /\ Kept(r, q) /\ q.state = c.next /\ q.graceTimer = "fired"
      /\ q.timeoutTold = (r.timeoutTold \/ "grace-expired" = "job-timeout")
  BY <1>0, <1>1, <1>2, SteadyFields
<1>4. JobOK(q)
  BY <1>1, <1>3, Zenon DEF JobOK, Kept, StepStates, Running,
     StepRunning, StepStopping, StepKilling, Settling,
     SettlingTerm, SettlingKill, SettlingCancelTimeout
<1>5. Evolves(r, q)
  BY <1>3, KeptEvolves, Zenon DEF Final, StepStopping, SettlingTerm
<1> QED
  BY <1>0, <1>1, <1>3, <1>4, <1>5, Zenon DEF Safe

\* group-empty ends a settled step.
LEMMA GroupEmptySafe ==
  ASSUME NEW j \in Jobs, NEW r \in JobRuns(j), NEW p \in Payloads, NEW f,
         JobOK(r), r.state \in Settling, r.live # NoStep, r.members = 0
  PROVE  Safe(j, r, "group-empty", p, f)
<1> DEFINE c == Cell(r, "group-empty", p)
           q == Transition(j, r, "group-empty", p, f)
<1>1. /\ c.kind = "transition" /\ c.reason \in Reasons
      /\ \/ c.actions = {} /\ c.next = "between-steps"
         \/ c.actions = End /\ c.next \in Final
  <2> DEFINE pl == [p EXCEPT !.carried = r.lastReason]
  <2>1. pl.carried \in Reasons
    BY DEF Payloads, JobRuns
  <2>2. c = Lookup(r.state, "group-empty", pl)
    BY DEF Cell
  <2> HIDE DEF c, pl
  <2>3. CASE r.state = "settling-continue-term"
    BY <2>1, <2>2, <2>3 DEF Lookup, SettlingRow, T, Final, Reasons
  <2>4. CASE r.state = "settling-fail-term"
    BY <2>1, <2>2, <2>4 DEF Lookup, SettlingRow, T, Final, Reasons
  <2>5. CASE r.state = "settling-cancel-timeout-term"
    BY <2>1, <2>2, <2>5 DEF Lookup, SettlingRow, T, Final, Reasons
  <2>6. CASE r.state = "settling-cancel-requested-term"
    BY <2>1, <2>2, <2>6 DEF Lookup, SettlingRow, T, Final, Reasons
  <2>7. CASE r.state = "settling-continue-kill"
    BY <2>1, <2>2, <2>7 DEF Lookup, SettlingRow, T, Final, Reasons
  <2>8. CASE r.state = "settling-fail-kill"
    BY <2>1, <2>2, <2>8 DEF Lookup, SettlingRow, T, Final, Reasons
  <2>9. CASE r.state = "settling-cancel-timeout-kill"
    BY <2>1, <2>2, <2>9 DEF Lookup, SettlingRow, T, Final, Reasons
  <2>10. CASE r.state = "settling-cancel-requested-kill"
    BY <2>1, <2>2, <2>10, Zenon DEF Lookup, SettlingRow, T, Final, Reasons
  <2> QED
    BY ZenonT(60), <2>3, <2>4, <2>5, <2>6, <2>7, <2>8, <2>9, <2>10
       DEF Settling, SettlingTerm, SettlingKill
<1>2. c.next \in States /\ c.actions \in {{}, End} /\ r.live = r.cur
  BY <1>1 DEF States, Running, JobOK
<1>0. c = Cell(r, "group-empty", p) /\ q = Transition(j, r, "group-empty", p, f)
  BY Zenon
<1> HIDE DEF c, q
<1>3. /\ q \in JobRuns(j) /\ q.state = c.next /\ q.live = NoStep /\ q.cur = r.cur + 1
      /\ q.leader = "none" /\ q.members = r.members /\ q.followup = r.followup
      /\ q.stepTimer = "closed" /\ q.graceTimer = "closed"
      /\ q.jobTimer = IF c.actions = {} THEN r.jobTimer ELSE "closed"
  BY <1>0, <1>1, <1>2, EmptyFields
<1>4. ~r.followup
  BY DEF JobOK, StepStates, Running,
     StepRunning, StepStopping, StepKilling, Settling,
     SettlingTerm, SettlingKill, SettlingCancelTimeout
<1>5. End # {}
  BY Zenon DEF End
<1>6. JobOK(q)
  BY <1>1, <1>3, <1>4, <1>5 DEF JobOK, Final, StepStates, Running,
     StepRunning, StepStopping, StepKilling, Settling,
     SettlingTerm, SettlingKill, SettlingCancelTimeout
<1>7. r.state \notin Final /\ r.cur \in Nat
  BY CursorIsNumber DEF Final, Settling, SettlingTerm, SettlingKill
<1>8. Evolves(r, q)
  BY SMTT(40), <1>1, <1>3, <1>5, <1>7 DEF Evolves, Final
<1> QED
  BY <1>0, <1>1, <1>3, <1>6, <1>8 DEF Safe

\* cancel may be sent to a job in any state.
LEMMA CancelSafe ==
  ASSUME NEW j \in Jobs, NEW r \in JobRuns(j), NEW p \in Payloads, NEW f, JobOK(r), ~r.followup
  PROVE  Safe(j, r, "cancel", p, f)
<1>1. CASE r.state \in {"pending", "ready"}
  BY <1>1, SkippedSafe
<1>2. CASE r.state = "between-steps"
  BY <1>2, EndBetweenSafe
<1>3. CASE r.state \in StepStates
  <2>1. LiveOK(r)
    BY <1>3 DEF LiveOK, JobOK
  <2>2. r.leader = "reaped" => r.state \in Settling
    BY DEF JobOK
  <2> QED
    BY <2>1, <2>2, TriggerSafe
<1>4. CASE r.state \in Final
  BY <1>4, CancelFinalSafe
<1> QED
  BY <1>1, <1>2, <1>3, <1>4 DEF JobRuns, States, Running

\* All of them.
LEMMA EventsAreSafe == EventsSafe
<1> SUFFICES ASSUME NEW j \in Jobs, NEW r \in JobRuns(j), NEW p \in Payloads, NEW f \in BOOLEAN,
                    NEW e, Expects(j, r, e)
             PROVE  Safe(j, r, e, p, f)
  BY Zenon DEF EventsSafe
<1>1. CASE e \in {"needs-met", "needs-failed"} /\ JobOK(r) /\ r.state = "pending"
  BY <1>1, NeedsMetSafe, SkippedSafe, Zenon
<1>2. CASE e = "skip" /\ JobOK(r) /\ r.state \in Waiting
  BY <1>2, SkippedSafe, Zenon DEF Waiting
<1>3. CASE e = "slot-granted" /\ JobOK(r) /\ r.state = "ready"
  BY <1>3, SlotGrantedSafe, Zenon
<1>4. CASE e = "cancel" /\ JobOK(r) /\ ~r.followup
  BY <1>4, CancelSafe, Zenon
<1>5. CASE e = "next-step" /\ JobOK(r) /\ r.state = "between-steps" /\ ~r.followup /\ r.cur <= NSteps[j]
  BY <1>5, NextStepSafe, Zenon
<1>6. CASE /\ e \in {"no-more-steps", "start-failed", "job-timeout"}
           /\ JobOK(r) /\ r.state = "between-steps" /\ ~r.followup
  BY <1>6, EndBetweenSafe, Zenon
<1>7. CASE /\ e = "start-failed" /\ r.state \in StepRunning /\ r.live # NoStep /\ r.live = r.cur
           /\ ~r.followup /\ r.members = 0
  BY <1>7, StepStartFailedSafe, Zenon
<1>8. CASE \/ e \in {"leader-exit-ok", "leader-exit-fail"} /\ LiveOK(r)
           \/ /\ e = "step-timeout" /\ LiveOK(r) /\ r.stepTimer = "fired"
              /\ r.state \notin StepStopping \cup StepKilling
              /\ r.leader = "reaped" => r.state \in Settling
           \/ /\ e = "job-timeout" /\ LiveOK(r) /\ ~r.timeoutTold
              /\ r.leader = "reaped" => r.state \in Settling
  BY <1>8, TriggerSafe
<1>9. CASE e = "grace-expired"
  BY <1>9, GraceExpiredSafe DEF Expects
<1>10. CASE e = "group-empty"
  BY <1>10, GroupEmptySafe DEF Expects
<1> QED
  BY <1>1, <1>2, <1>3, <1>4, <1>5, <1>6, <1>7, <1>8, <1>9, <1>10, Zenon DEF Expects
=============================================================================
