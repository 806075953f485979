---------------------------- MODULE AccountProofs -----------------------------
(***************************************************************************)
(* What the engine records of a job's steps, for any jobs and any number   *)
(* of steps: when a started job has ended, the steps that ran, the one     *)
(* that stopped it and the ones that were skipped are all accounted for.   *)
(* First what one event does to the record of one job, then the engine.    *)
(***************************************************************************)
EXTENDS Engine, TLAPS

CoeStates == {"step-running-coe", "step-stopping-coe", "step-killing-coe"}

SettlingContinue == {"settling-continue-term", "settling-continue-kill"}

SettlingFail == {"settling-fail-term", "settling-fail-kill"}

\* Step k of job j may be followed by another.
Past(j, steps, k) ==
  steps[k].outcome = "success" \/ (steps[k].outcome = "failed" /\ Coe[j][k])

AllPast(j, steps, c) == \A k \in 1..NSteps[j] : k < c => Past(j, steps, k)

Skipped == [outcome |-> "skipped", reason |-> "none"]

\* The steps of an ended job: they were passed up to c, and c ended the job.
ClosedAt(j, r, c) ==
  /\ AllPast(j, r.steps, c)
  /\ \A k \in 1..NSteps[j] : k > c => r.steps[k].outcome = "skipped"
  /\ c \in 1..NSteps[j] => r.steps[c].outcome # "none"
  /\ r.state = "success" => c = NSteps[j] + 1
  /\ r.state = "failed" =>
       c \in 1..NSteps[j] /\ r.steps[c] = [outcome |-> "failed", reason |-> r.reason]

\* What the record says of a job's steps.  A job that runs is started, unless
\* its start has just failed; the steps before the cursor are passed; a state of
\* a step with continue-on-error is one of such a step; and a step whose outcome
\* is decided is recorded, with the outcome its state stands for.
AccountOK(j, r) ==
  /\ r.state \in Waiting => ~r.started /\ r.cur = 1
  /\ r.state \in StepStates => r.started
  /\ r.state = "between-steps" => (r.followup <=> ~r.started)
  /\ r.state \in Running => AllPast(j, r.steps, r.cur)
  /\ r.state \in CoeStates => Coe[j][r.cur]
  /\ r.state \in SettlingContinue => Past(j, r.steps, r.cur)
  /\ r.state \in SettlingFail =>
       r.steps[r.cur] = [outcome |-> "failed", reason |-> r.lastReason]
  /\ r.state \in Settling => r.steps[r.cur].outcome # "none"
  /\ r.state \in Final /\ r.started => \E c \in 1..NSteps[j] + 1 : ClosedAt(j, r, c)

-----------------------------------------------------------------------------
(* The record after an event *)

\* The fields these facts are about, but for the state and the followup.
Same(r, q) ==
  /\ q.cur = r.cur /\ q.live = r.live /\ q.started = r.started /\ q.steps = r.steps
  /\ q.reason = r.reason

\* What the reason of the last cell that had one was.
Carried(r, c) == IF c.reason = "none" THEN r.lastReason ELSE c.reason

Fields == {"state", "cur", "live", "started", "steps", "reason", "followup", "lastReason"}

\* The record of a job has them.
LEMMA RecordFields ==
  ASSUME NEW j \in Jobs, NEW r \in JobRuns(j)
  PROVE  Fields \subseteq DOMAIN r
  BY DEF JobRuns, Fields

\* r becomes q by a cell c that changes no more of them than state and reason.
Moved(r, c, q) ==
  /\ Fields \subseteq DOMAIN q
  /\ Same(r, q)
  /\ q.state = c.next /\ q.followup = r.followup /\ q.lastReason = Carried(r, c)

\* dispatch_one before the actions.
LEMMA ToldAccount ==
  ASSUME NEW r, Fields \subseteq DOMAIN r, NEW e, NEW c
  PROVE  Moved(r, c, Told(r, e, c))
  BY DEF Told, Fields, Same, Carried, Moved

StopAsked(r) == [[r EXCEPT !.sent = "term"] EXCEPT !.graceTimer = "armed"]

\* What the actions of a cell do to the record: nothing ...
LEMMA NoActs ==
  ASSUME NEW j, NEW r, NEW c, NEW f, c.actions = {}
  PROVE  Apply(j, r, c, f) = r
  BY DEF Apply

\* ... SIGKILL ...
LEMMA KillActs ==
  ASSUME NEW j, NEW r, NEW c, NEW f, c.actions = {"sigkill-group"}
  PROVE  Apply(j, r, c, f) = [r EXCEPT !.sent = "kill"]
  BY DEF Apply

\* ... SIGTERM, with the grace timer armed ...
LEMMA StopActs ==
  ASSUME NEW j, NEW r, NEW c, NEW f, c.actions = Stop
  PROVE  Apply(j, r, c, f) = StopAsked(r)
  BY DEF Apply, Stop, StopAsked

\* ... a record of the step (record_step) ...
LEMMA RecordActs ==
  ASSUME NEW j, NEW r, NEW c, NEW f, c.actions = {"record-step"}
  PROVE  Apply(j, r, c, f) = RecordStep(r, c)
  BY DEF Apply

\* ... both ...
LEMMA StopRecordActs ==
  ASSUME NEW j, NEW r, NEW c, NEW f, c.actions = Stop \cup {"record-step"}
  PROVE  Apply(j, r, c, f) = RecordStep(StopAsked(r), c)
  BY DEF Apply, Stop, StopAsked

\* ... a start (job_start) ...
LEMMA StartActs ==
  ASSUME NEW j, NEW r, NEW c, NEW f, c.actions = {"start-job"}
  PROVE  Apply(j, r, c, f) = StartJob(j, r, f)
  BY DEF Apply

\* ... a spawn (step_spawn) ...
LEMMA SpawnActs ==
  ASSUME NEW j, NEW r, NEW c, NEW f, c.actions = {"spawn-step"}
  PROVE  Apply(j, r, c, f) = SpawnStep(j, r, f)
  BY DEF Apply

\* ... the job's end (job_end) ...
LEMMA EndActs ==
  ASSUME NEW j, NEW r, NEW c, NEW f, c.actions = End
  PROVE  Apply(j, r, c, f) = JobEnd([r EXCEPT !.reason = c.reason])
  BY DEF Apply, End

\* ... or a record of the step and the job's end.
LEMMA RecordEndActs ==
  ASSUME NEW j, NEW r, NEW c, NEW f, c.actions = {"record-step"} \cup End
  PROVE  Apply(j, r, c, f) = JobEnd([RecordStep(r, c) EXCEPT !.reason = c.reason])
  BY DEF Apply, End

\* The signals.
LEMMA StopAccount ==
  ASSUME NEW r, NEW c, NEW t, Moved(r, c, t)
  PROVE  Moved(r, c, StopAsked(t)) /\ Moved(r, c, [t EXCEPT !.sent = "kill"])
  BY DEF Fields, Same, Moved, StopAsked

\* An event whose cell only sends signals.
LEMMA SignalAccount ==
  ASSUME NEW j, NEW r, Fields \subseteq DOMAIN r, NEW e, e # "group-empty", NEW p, NEW f,
         NEW c, c = Cell(r, e, p), c.actions \in {{}, {"sigkill-group"}, Stop}
  PROVE  Moved(r, c, Transition(j, r, e, p, f))
<1> DEFINE t == Told(r, e, c)
<1>1. Transition(j, r, e, p, f) = Apply(j, t, c, f)
  BY DEF Transition
<1>2. Moved(r, c, t)
  BY ToldAccount
<1> HIDE DEF t
<1>3. Apply(j, t, c, f) \in {t, [t EXCEPT !.sent = "kill"], StopAsked(t)}
  BY NoActs, KillActs, StopActs
<1>4. Moved(r, c, StopAsked(t)) /\ Moved(r, c, [t EXCEPT !.sent = "kill"])
  BY <1>2, StopAccount
<1> QED
  BY <1>1, <1>2, <1>3, <1>4

\* The step as the cell c records it.
Recorded(r, c) ==
  [r.steps EXCEPT ![r.cur] = [outcome |-> StepOutcome(c), reason |-> c.reason]]

\* r becomes q by a cell c that records the step.
Noted(r, c, q) ==
  /\ Fields \subseteq DOMAIN q
  /\ q.cur = r.cur /\ q.live = r.live /\ q.started = r.started /\ q.steps = Recorded(r, c)
  /\ q.state = c.next /\ q.followup = r.followup /\ q.lastReason = Carried(r, c)

LEMMA RecordStepAccount ==
  ASSUME NEW r, NEW c, NEW t, Moved(r, c, t)
  PROVE  Noted(r, c, RecordStep(t, c))
  BY DEF Fields, Same, Moved, Noted, RecordStep, Recorded

\* An event whose cell records the step.
LEMMA RecordAccount ==
  ASSUME NEW j, NEW r, Fields \subseteq DOMAIN r, NEW e, e # "group-empty", NEW p, NEW f,
         NEW c, c = Cell(r, e, p), c.actions \in {{"record-step"}, Stop \cup {"record-step"}}
  PROVE  Noted(r, c, Transition(j, r, e, p, f))
<1> DEFINE t == Told(r, e, c)
<1>1. Transition(j, r, e, p, f) = Apply(j, t, c, f)
  BY DEF Transition
<1>2. Moved(r, c, t)
  BY ToldAccount
<1> HIDE DEF t
<1>3. Apply(j, t, c, f) \in {RecordStep(t, c), RecordStep(StopAsked(t), c)}
  BY RecordActs, StopRecordActs
<1> QED
  BY <1>1, <1>2, <1>3, StopAccount, RecordStepAccount, Zenon

\* r becomes q by the cell that starts the job ...
StartNoted(r, c, f, q) ==
  /\ q.cur = r.cur /\ q.steps = r.steps /\ q.state = c.next
  /\ f => q.started = r.started /\ q.followup = TRUE
  /\ ~f => q.started = TRUE /\ q.followup = r.followup

LEMMA StartAccount ==
  ASSUME NEW j, NEW r, Fields \subseteq DOMAIN r, NEW e, e # "group-empty", NEW p, NEW f,
         NEW c, c = Cell(r, e, p), c.actions = {"start-job"}
  PROVE  StartNoted(r, c, f, Transition(j, r, e, p, f))
<1> DEFINE t == Told(r, e, c)
<1>1. Transition(j, r, e, p, f) = StartJob(j, t, f)
  BY StartActs DEF Transition
<1>2. Moved(r, c, t)
  BY ToldAccount
<1> HIDE DEF t
<1> QED
  BY <1>1, <1>2, Zenon DEF StartJob, Moved, Same, Fields, StartNoted

\* ... or by one that spawns a step.
SpawnNoted(r, c, q) ==
  /\ q.cur = r.cur /\ q.steps = r.steps /\ q.state = c.next /\ q.started = r.started

LEMMA SpawnAccount ==
  ASSUME NEW j, NEW r, Fields \subseteq DOMAIN r, NEW e, e # "group-empty", NEW p, NEW f,
         NEW c, c = Cell(r, e, p), c.actions = {"spawn-step"}
  PROVE  SpawnNoted(r, c, Transition(j, r, e, p, f))
<1> DEFINE t == Told(r, e, c)
<1>1. Transition(j, r, e, p, f) = SpawnStep(j, t, f)
  BY SpawnActs DEF Transition
<1>2. Moved(r, c, t)
  BY ToldAccount
<1> HIDE DEF t
<1> QED
  BY <1>1, <1>2 DEF SpawnStep, Moved, Same, Fields, SpawnNoted

\* The step after the last one that ran.
After(r) == IF r.live = NoStep THEN r.cur ELSE r.cur + 1

\* The steps of a job that ends: those of a started job that never ran are skipped.
Rest(r, steps) ==
  [k \in DOMAIN steps |-> IF r.started /\ k >= After(r) THEN Skipped ELSE steps[k]]

\* job_end closes the account.
LEMMA JobEndAccount ==
  ASSUME NEW u, Fields \subseteq DOMAIN u
  PROVE  /\ JobEnd(u).steps = Rest(u, u.steps)
         /\ JobEnd(u).state = u.state /\ JobEnd(u).started = u.started
         /\ JobEnd(u).reason = u.reason
<1> DEFINE g == StepFinish(u)
           rest == [k \in DOMAIN g.steps |->
                      IF g.started /\ k >= g.cur
                      THEN [outcome |-> "skipped", reason |-> "none"] ELSE g.steps[k]]
<1>1. /\ g.cur = After(u) /\ g.started = u.started /\ g.steps = u.steps /\ g.state = u.state
      /\ g.reason = u.reason /\ Fields \subseteq DOMAIN g
  BY DEF StepFinish, Fields, After
<1>2. JobEnd(u) = [g EXCEPT !.jobTimer = "closed", !.steps = rest]
  BY DEF JobEnd
<1>3. rest = Rest(u, u.steps)
  BY <1>1 DEF Rest, Skipped
<1> HIDE DEF g, rest
<1> QED
  BY <1>1, <1>2, <1>3 DEF Fields

\* r becomes q by a cell c that ends the job, the steps so far being as given.
EndNoted(r, c, steps, q) ==
  /\ q.state = c.next /\ q.started = r.started /\ q.reason = c.reason
  /\ q.steps = Rest(r, steps)

\* An event whose cell ends the job ...
LEMMA EndAccount ==
  ASSUME NEW j, NEW r, Fields \subseteq DOMAIN r, NEW e, e # "group-empty", NEW p, NEW f,
         NEW c, c = Cell(r, e, p), c.actions = End
  PROVE  EndNoted(r, c, r.steps, Transition(j, r, e, p, f))
<1> DEFINE t == Told(r, e, c)
           u == [t EXCEPT !.reason = c.reason]
<1>1. Transition(j, r, e, p, f) = JobEnd(u)
  BY EndActs DEF Transition
<1>2. Moved(r, c, t)
  BY ToldAccount
<1> HIDE DEF t
<1>3. /\ Fields \subseteq DOMAIN u /\ u.cur = r.cur /\ u.live = r.live /\ u.started = r.started
      /\ u.steps = r.steps /\ u.state = c.next /\ u.reason = c.reason
  BY <1>2 DEF Moved, Same, Fields
<1> HIDE DEF u
<1> QED
  BY <1>1, <1>3, JobEndAccount DEF EndNoted, Rest, After

\* ... or records the step and ends the job.
LEMMA RecordEndAccount ==
  ASSUME NEW j, NEW r, Fields \subseteq DOMAIN r, NEW e, e # "group-empty", NEW p, NEW f,
         NEW c, c = Cell(r, e, p), c.actions = {"record-step"} \cup End
  PROVE  EndNoted(r, c, Recorded(r, c), Transition(j, r, e, p, f))
<1> DEFINE t == Told(r, e, c)
           v == RecordStep(t, c)
           u == [v EXCEPT !.reason = c.reason]
<1>1. Transition(j, r, e, p, f) = JobEnd(u)
  BY RecordEndActs DEF Transition
<1>2. Noted(r, c, v)
  BY ToldAccount, RecordStepAccount
<1> HIDE DEF v
<1>3. /\ Fields \subseteq DOMAIN u /\ u.cur = r.cur /\ u.live = r.live /\ u.started = r.started
      /\ u.steps = Recorded(r, c) /\ u.state = c.next /\ u.reason = c.reason
  BY <1>2 DEF Noted, Fields
<1> HIDE DEF u
<1> QED
  BY <1>1, <1>3, JobEndAccount DEF EndNoted, Rest, After

\* r becomes q by a cell c after which the job goes on.
GoesOn(r, c, q) ==
  /\ q.cur = r.cur + 1 /\ q.started = r.started /\ q.steps = r.steps
  /\ q.state = c.next /\ q.followup = r.followup

\* group-empty: the step is finished first, then the job goes on or ends.
LEMMA EmptyAccount ==
  ASSUME NEW j \in Jobs, NEW r \in JobRuns(j), r.live # NoStep, NEW p, NEW f,
         NEW c, c = Cell(r, "group-empty", p), c.actions \in {{}, End},
         NEW q, q = Transition(j, r, "group-empty", p, f)
  PROVE  /\ c.actions = {} => GoesOn(r, c, q)
         /\ c.actions = End => EndNoted(r, c, r.steps, q)
<1> DEFINE t == Told(r, "group-empty", c)
           s == StepFinish(t)
           u == [s EXCEPT !.reason = c.reason]
<1>1. q = Apply(j, s, c, f)
  BY DEF Transition
<1>2. Moved(r, c, t)
  BY RecordFields, ToldAccount
<1> HIDE DEF t
<1>3. /\ Fields \subseteq DOMAIN s /\ s.cur = r.cur + 1 /\ s.live = NoStep /\ s.steps = r.steps
      /\ s.state = c.next
  BY <1>2 DEF StepFinish, Moved, Same, Fields
<1>4. s.started = r.started /\ s.followup = r.followup
  BY <1>2 DEF StepFinish, Moved, Same, Fields
<1> HIDE DEF s
<1>5. CASE c.actions = {}
  <2>1. q = s /\ {} # End
    BY <1>1, <1>5, NoActs DEF End
  <2> QED
    BY <1>3, <1>4, <1>5, <2>1 DEF GoesOn
<1>6. CASE c.actions = End
  <2>1. q = JobEnd(u) /\ {} # End
    BY <1>1, <1>6, EndActs DEF End
  <2>2. /\ Fields \subseteq DOMAIN u /\ u.cur = r.cur + 1 /\ u.live = NoStep /\ u.steps = r.steps
        /\ u.state = c.next /\ u.reason = c.reason
    BY <1>3 DEF Fields
  <2>3. u.started = r.started
    BY <1>3, <1>4 DEF Fields
  <2> HIDE DEF u
  <2>4. /\ q.steps = Rest(u, u.steps) /\ q.state = u.state /\ q.started = u.started
        /\ q.reason = u.reason
    BY <2>1, <2>2, JobEndAccount
  <2>5. After(u) = After(r)
    BY <2>2 DEF After
  <2>6. Rest(u, u.steps) = Rest(r, r.steps)
    BY <2>2, <2>3, <2>5 DEF Rest
  <2> QED
    BY <1>6, <2>1, <2>2, <2>3, <2>4, <2>6, Zenon DEF EndNoted
<1> QED
  BY <1>5, <1>6

-----------------------------------------------------------------------------
(* The account after an event *)

\* When the loop sends the events that are not about a process or a timer, and
\* with what payload: r is the job's record.
Due(j, r, e, p) ==
  /\ r.followup <=> e = "start-failed"
  /\ e = "next-step" => r.cur <= NSteps[j] /\ p.coe = Coe[j][r.cur]
  /\ e = "no-more-steps" => r.cur > NSteps[j]
  /\ e = "leader-exit-fail" => p.reason # "none"

\* The record s of job j as dispatch_one gets it with event e.
Handed(j, s, e, p) ==
  /\ s \in JobRuns(j) /\ ~s.followup
  /\ s.state \in StepStates <=> s.live # NoStep
  /\ s.live # NoStep => s.live = s.cur
  /\ s.state = "between-steps" => (s.started <=> e # "start-failed")
  /\ e = "next-step" => s.cur <= NSteps[j] /\ p.coe = Coe[j][s.cur]
  /\ e = "no-more-steps" => s.cur > NSteps[j]
  /\ e = "leader-exit-fail" => p.reason # "none"
  /\ s.state \in Waiting => ~s.started /\ s.cur = 1
  /\ s.state \in StepStates => s.started
  /\ s.state \in Running => AllPast(j, s.steps, s.cur)
  /\ s.state \in CoeStates => Coe[j][s.cur]
  /\ s.state \in SettlingContinue => Past(j, s.steps, s.cur)
  /\ s.state \in SettlingFail =>
       s.steps[s.cur] = [outcome |-> "failed", reason |-> s.lastReason]
  /\ s.state \in Settling => s.steps[s.cur].outcome # "none"
  /\ s.state \in Final /\ s.started => \E c \in 1..NSteps[j] + 1 : ClosedAt(j, s, c)

\* A live step is one of the job's.
LEMMA LiveStep ==
  ASSUME NEW j \in Jobs, NEW s, NEW e, NEW p, Handed(j, s, e, p)
  PROVE  /\ Fields \subseteq DOMAIN s
         /\ NSteps[j] \in Nat /\ s.cur \in 1..NSteps[j] + 1
         /\ s.state \in StepStates =>
              s.cur \in 1..NSteps[j] /\ After(s) = s.cur + 1 /\ s.started = TRUE
         /\ s.state \notin StepStates => After(s) = s.cur
         /\ s.steps \in [1..NSteps[j] -> [outcome : Outcomes, reason : Reasons]]
         /\ s.started \in BOOLEAN
<1>1. s \in JobRuns(j)
  BY DEF Handed
<1>2. /\ s.cur \in 1..NSteps[j] + 1 /\ s.live \in 0..NSteps[j] /\ s.started \in BOOLEAN
      /\ s.steps \in [1..NSteps[j] -> [outcome : Outcomes, reason : Reasons]]
  BY <1>1 DEF JobRuns
<1>3. NSteps[j] \in Nat
  BY EngineAssumption
<1>4. s.state \in StepStates => s.live # NoStep /\ s.live = s.cur /\ s.started
  BY DEF Handed
<1>5. s.state \notin StepStates => s.live = NoStep
  BY DEF Handed
<1> QED
  BY <1>1, <1>2, <1>3, <1>4, <1>5, RecordFields DEF After, NoStep

\* A job that ends, its steps passed before the cursor, is accounted for.
LEMMA EndCloses ==
  ASSUME NEW j \in Jobs, NEW s, NEW e, NEW p, Handed(j, s, e, p), s.state \in Running, s.started,
         NEW c, c.next \in Final, NEW steps, NEW q, EndNoted(s, c, steps, q),
         steps \in [1..NSteps[j] -> [outcome : Outcomes, reason : Reasons]],
         \A k \in 1..NSteps[j] : k < s.cur => steps[k] = s.steps[k],
         s.state \in StepStates => steps[s.cur].outcome # "none",
         c.next = "success" => s.cur = NSteps[j] + 1 /\ s.state = "between-steps",
         c.next = "failed" =>
           /\ s.state \in StepStates
           /\ steps[s.cur] = [outcome |-> "failed", reason |-> c.reason]
  PROVE  ClosedAt(j, q, s.cur)
<1>1. /\ NSteps[j] \in Nat /\ s.cur \in 1..NSteps[j] + 1
      /\ s.state \in StepStates => s.cur \in 1..NSteps[j] /\ After(s) = s.cur + 1
      /\ s.state \notin StepStates => After(s) = s.cur
  BY LiveStep, Zenon
<1>2. /\ q.state = c.next /\ q.reason = c.reason
      /\ q.steps = [k \in 1..NSteps[j] |-> IF k >= After(s) THEN Skipped ELSE steps[k]]
  BY DEF EndNoted, Rest
<1>3. AllPast(j, s.steps, s.cur)
  BY DEF Handed
<1>4. AllPast(j, q.steps, s.cur)
  <2> SUFFICES ASSUME NEW k \in 1..NSteps[j], k < s.cur
               PROVE  Past(j, q.steps, k)
    BY DEF AllPast
  <2>1. q.steps[k] = s.steps[k]
    BY <1>1, <1>2
  <2> QED
    BY <1>3, <2>1 DEF AllPast, Past
<1>5. \A k \in 1..NSteps[j] : k > s.cur => q.steps[k].outcome = "skipped"
  BY <1>1, <1>2 DEF Skipped
<1>6. s.cur \in 1..NSteps[j] => q.steps[s.cur].outcome # "none"
  BY <1>1, <1>2 DEF Skipped
<1>7. q.state = "failed" =>
        s.cur \in 1..NSteps[j] /\ q.steps[s.cur] = [outcome |-> "failed", reason |-> q.reason]
  BY <1>1, <1>2
<1> QED
  BY <1>2, <1>4, <1>5, <1>6, <1>7, Zenon DEF ClosedAt

\* An ended job's account is that alone.
LEMMA ClosedAccount ==
  ASSUME NEW j, NEW q, q.state \in Final,
         q.started => \E c \in 1..NSteps[j] + 1 : ClosedAt(j, q, c)
  PROVE  AccountOK(j, q)
  BY DEF AccountOK, Final, Waiting, Running, StepStates, StepRunning, StepStopping, StepKilling,
     Settling, SettlingTerm, SettlingKill, CoeStates, SettlingContinue, SettlingFail

\* A job that waits is made ready, started, or skipped.
LEMMA WaitingAccount ==
  ASSUME NEW j \in Jobs, NEW s, NEW e, NEW p, NEW f \in BOOLEAN, Handed(j, s, e, p),
         s.state \in Waiting, Cell(s, e, p).kind # "impossible"
  PROVE  AccountOK(j, Transition(j, s, e, p, f))
<1> DEFINE c == Cell(s, e, p)
           q == Transition(j, s, e, p, f)
<1>1. /\ e # "group-empty"
      /\ \/ c.actions = {} /\ c.next = "ready"
         \/ c.actions = {"start-job"} /\ c.next = "between-steps"
         \/ c.actions = End /\ c.next = "skipped"
  BY Zenon DEF Cell, Lookup, PendingRow, ReadyRow, T, X, Waiting
<1>2. PICK d : d = c
  BY Zenon
<1> HIDE DEF c, q
<1>3. /\ s.started = FALSE /\ s.followup = FALSE /\ s.cur = 1 /\ Fields \subseteq DOMAIN s
  BY LiveStep, Zenon DEF Handed, JobRuns
<1>4. CASE c.actions = {} /\ c.next = "ready"
  <2>1. Moved(s, d, q)
    BY <1>1, <1>2, <1>3, <1>4, SignalAccount, Zenon DEF c, q
  <2>2. q.started = FALSE /\ q.cur = 1 /\ q.state = "ready"
    BY <1>2, <1>3, <1>4, <2>1, Zenon DEF Moved, Same
  <2> QED
    BY <2>2 DEF q, AccountOK, Final, Waiting, Running, StepStates, StepRunning, StepStopping,
       StepKilling, Settling, SettlingTerm, SettlingKill, CoeStates, SettlingContinue, SettlingFail
<1>5. CASE c.actions = {"start-job"} /\ c.next = "between-steps"
  <2>1. StartNoted(s, d, f, q)
    BY <1>1, <1>2, <1>3, <1>5, StartAccount, Zenon DEF c, q
  <2>2. q.cur = 1 /\ q.state = "between-steps"
    BY <1>2, <1>3, <1>5, <2>1 DEF StartNoted
  <2>3. q.followup <=> ~q.started
    BY <1>3, <2>1 DEF StartNoted
  <2>4. AllPast(j, q.steps, q.cur)
    BY <2>2, EngineAssumption DEF AllPast
  <2> QED
    BY <2>2, <2>3, <2>4, Zenon DEF q, AccountOK, Final, Waiting, Running, StepStates, StepRunning,
       StepStopping, StepKilling, Settling, SettlingTerm, SettlingKill, CoeStates,
       SettlingContinue, SettlingFail
<1>6. CASE c.actions = End /\ c.next = "skipped"
  <2>1. EndNoted(s, d, s.steps, q)
    BY <1>1, <1>2, <1>3, <1>6, EndAccount DEF c, q
  <2>2. q.started = FALSE /\ q.state \in Final
    BY <1>2, <1>3, <1>6, <2>1 DEF EndNoted, Final
  <2> QED
    BY <2>2, ClosedAccount DEF q
<1> QED
  BY <1>1, <1>4, <1>5, <1>6, ZenonT(30) DEF q

\* A job between two steps runs the next one or ends.
LEMMA BetweenAccount ==
  ASSUME NEW j \in Jobs, NEW s, NEW e, NEW p, NEW f, Handed(j, s, e, p), p \in Payloads,
         s.state = "between-steps", Cell(s, e, p).kind # "impossible"
  PROVE  AccountOK(j, Transition(j, s, e, p, f))
<1> DEFINE c == Cell(s, e, p)
           q == Transition(j, s, e, p, f)
           l == [p EXCEPT !.carried = s.lastReason]
<1>0. c = BetweenStepsRow(e, l) /\ l.coe = p.coe
  BY DEF Cell, Lookup, Payloads
<1> HIDE DEF l
<1>1. /\ e # "group-empty"
      /\ \/ /\ e = "next-step" /\ c.actions = {"spawn-step"}
            /\ c.next = IF p.coe THEN "step-running-coe" ELSE "step-running"
         \/ /\ e \in {"no-more-steps", "start-failed", "job-timeout", "cancel"}
            /\ c.actions = End /\ c.next \in Final
            /\ c.next = "success" <=> e = "no-more-steps"
            /\ c.next = "failed" <=> e = "start-failed"
  BY <1>0 DEF BetweenStepsRow, T, X, Final
<1>2. PICK d : d = c
  BY Zenon
<1> HIDE DEF c, q
<1>3. /\ Fields \subseteq DOMAIN s /\ s.state \in Running /\ s.state \notin StepStates
      /\ s.cur \in 1..NSteps[j] + 1 /\ NSteps[j] \in Nat
      /\ s.steps \in [1..NSteps[j] -> [outcome : Outcomes, reason : Reasons]]
  BY LiveStep, Zenon DEF Running, StepStates, StepRunning, StepStopping, StepKilling,
     Settling, SettlingTerm, SettlingKill
<1>4. CASE e = "next-step"
  <2>1. SpawnNoted(s, d, q)
    BY <1>1, <1>2, <1>3, <1>4, SpawnAccount, Zenon DEF c, q
  <2>2. /\ q.cur = s.cur /\ q.steps = s.steps
        /\ q.state = IF p.coe THEN "step-running-coe" ELSE "step-running"
    BY <1>1, <1>2, <1>4, <2>1, Zenon DEF SpawnNoted
  <2>3. AllPast(j, q.steps, q.cur)
    BY <1>3, <2>2, Zenon DEF Handed
  <2>4. q.state \in CoeStates => Coe[j][q.cur]
    BY <1>4, <2>2, Zenon DEF Handed, CoeStates
  <2>5. s.started
    BY <1>4 DEF Handed
  <2>6. q.started
    BY <2>1, <2>5 DEF SpawnNoted
  <2>7. q.state \in StepRunning
    BY <2>2, Zenon DEF StepRunning
  <2> QED
    BY <2>3, <2>4, <2>6, <2>7, Zenon DEF q, AccountOK, Final, Waiting, Running, StepStates,
       StepRunning, StepStopping, StepKilling, Settling, SettlingTerm, SettlingKill,
       SettlingContinue, SettlingFail
<1>5. CASE e # "next-step"
  <2>1. EndNoted(s, d, s.steps, q)
    BY <1>1, <1>2, <1>3, <1>5, EndAccount, Zenon DEF c, q
  <2>2. q.state \in Final /\ d.next \in Final
    BY <1>1, <1>2, <1>5, <2>1, Zenon DEF EndNoted
  <2>3. q.started => s.started
    BY <2>1, Zenon DEF EndNoted
  <2>4. s.started => e # "start-failed"
    BY Zenon DEF Handed
  <2>5. d.next = "success" => s.cur = NSteps[j] + 1
    BY <1>1, <1>2, <1>3 DEF Handed
  <2>6. s.started => ClosedAt(j, q, s.cur)
    BY <1>1, <1>2, <1>3, <1>5, <2>1, <2>2, <2>4, <2>5, EndCloses, Zenon
  <2> QED
    BY <1>3, <2>2, <2>3, <2>6, ClosedAccount, Zenon DEF q
<1> QED
  BY <1>4, <1>5

\* The record of a step that was not over before: q is s with the step recorded
\* by cell c.
LEMMA NotedAccount ==
  ASSUME NEW j \in Jobs, NEW s, NEW e, NEW p, Handed(j, s, e, p),
         s.state \in StepStates, NEW c, NEW q, Noted(s, c, q),
         c.next \in Settling, c.reason \in Reasons,
         c.next \in SettlingContinue => c.reason = "none" \/ s.state \in CoeStates,
         c.next \in SettlingFail => c.reason # "none"
  PROVE  AccountOK(j, q)
<1>1. /\ s.cur \in 1..NSteps[j] /\ NSteps[j] \in Nat
      /\ s.steps \in [1..NSteps[j] -> [outcome : Outcomes, reason : Reasons]]
  BY LiveStep, Zenon
<1>2. /\ q.cur = s.cur /\ q.state = c.next /\ q.lastReason = Carried(s, c)
      /\ q.steps[s.cur] = [outcome |-> StepOutcome(c), reason |-> c.reason]
      /\ \A k \in 1..NSteps[j] : k # s.cur => q.steps[k] = s.steps[k]
  BY <1>1, Zenon DEF Noted, Recorded
<1>3. AllPast(j, s.steps, s.cur)
  BY Zenon DEF Handed, Running
<1>4. AllPast(j, q.steps, q.cur)
  <2> SUFFICES ASSUME NEW k \in 1..NSteps[j], k < s.cur
               PROVE  Past(j, q.steps, k)
    BY <1>2, Zenon DEF AllPast
  <2>1. q.steps[k] = s.steps[k]
    BY <1>1, <1>2
  <2> QED
    BY <1>3, <2>1, Zenon DEF AllPast, Past
<1>5. q.started
  <2>1. s.started
    BY DEF Handed
  <2> QED
    BY <2>1, Zenon DEF Noted
<1>6. q.state \in SettlingContinue => Past(j, q.steps, q.cur)
  <2> SUFFICES ASSUME q.state \in SettlingContinue
               PROVE  Past(j, q.steps, q.cur)
    OBVIOUS
  <2>1. c.next \notin SettlingCancelTimeout \cup SettlingCancelRequested
    BY <1>2 DEF SettlingContinue, SettlingCancelTimeout, SettlingCancelRequested
  <2>2. StepOutcome(c) = IF c.reason = "none" THEN "success" ELSE "failed"
    BY <2>1, ZenonT(30) DEF StepOutcome
  <2>3. s.state \in CoeStates => Coe[j][s.cur]
    BY DEF Handed
  <2> QED
    BY <1>2, <2>2, <2>3 DEF Past
<1>7. q.state \in SettlingFail =>
        q.steps[q.cur] = [outcome |-> "failed", reason |-> q.lastReason]
  <2> SUFFICES ASSUME q.state \in SettlingFail
               PROVE  q.steps[q.cur] = [outcome |-> "failed", reason |-> q.lastReason]
    BY Zenon
  <2>1. c.next \notin SettlingCancelTimeout \cup SettlingCancelRequested
    BY <1>2, Zenon DEF SettlingFail, SettlingCancelTimeout, SettlingCancelRequested
  <2> QED
    BY <1>2, <2>1, Zenon DEF StepOutcome, Carried
<1>8. q.steps[q.cur].outcome # "none"
  BY <1>2 DEF StepOutcome
<1>9. q.state \in Settling
  BY <1>2
<1>10. /\ q.state \notin Waiting /\ q.state # "between-steps" /\ q.state \notin CoeStates
       /\ q.state \notin Final
  BY <1>9 DEF Final, Waiting, Settling, SettlingTerm, SettlingKill, CoeStates
<1> QED
  BY <1>4, <1>5, <1>6, <1>7, <1>8, <1>10, Zenon DEF AccountOK

\* Recording one step leaves the earlier ones alone.
LEMMA OneStepSet ==
  ASSUME NEW n \in Nat, NEW S, NEW steps \in [1..n -> S], NEW i \in 1..n, NEW x \in S,
         NEW w, w = [steps EXCEPT ![i] = x]
  PROVE  w \in [1..n -> S] /\ (\A k \in 1..n : k < i => w[k] = steps[k]) /\ w[i] = x
  OBVIOUS

\* A running step ends, is stopped, or could not be started.
LEMMA RunningAccount ==
  ASSUME NEW j \in Jobs, NEW s, NEW e, NEW p, NEW f, Handed(j, s, e, p), p \in Payloads,
         s.state \in StepRunning, Cell(s, e, p).kind # "impossible"
  PROVE  AccountOK(j, Transition(j, s, e, p, f))
<1> DEFINE c == Cell(s, e, p)
           q == Transition(j, s, e, p, f)
           l == [p EXCEPT !.carried = s.lastReason]
<1>0. /\ s.state = "step-running" => c = StepRunningRow("settling-fail-term", "step-stopping", e, l)
      /\ s.state = "step-running-coe" =>
           c = StepRunningRow("settling-continue-term", "step-stopping-coe", e, l)
      /\ l.reason = p.reason /\ p.reason \in Reasons
  BY DEF Cell, Lookup, Payloads
<1> HIDE DEF l
<1>1. /\ e # "group-empty" /\ c.reason \in Reasons
      /\ \/ /\ e = "start-failed" /\ c.actions = {"record-step"} \cup End
            /\ c.next = "failed" /\ c.reason = "engine-error"
         \/ /\ e = "step-timeout" /\ c.actions = Stop /\ c.next \in StepStopping
            /\ c.next \in CoeStates <=> s.state \in CoeStates
         \/ /\ e \notin {"start-failed", "step-timeout"}
            /\ c.actions = Stop \cup {"record-step"} /\ c.next \in Settling
            /\ c.next \in SettlingContinue => c.reason = "none" \/ s.state \in CoeStates
            /\ c.next \in SettlingFail => e = "leader-exit-fail" /\ c.reason = p.reason
  BY <1>0 DEF StepRunningRow, T, X, StepRunning, StepStopping, CoeStates, Settling,
     SettlingTerm, SettlingKill, SettlingContinue, SettlingFail, Reasons
<1>2. PICK d : d = c
  BY Zenon
<1> HIDE DEF c, q
<1>3. /\ Fields \subseteq DOMAIN s /\ s.state \in Running /\ s.state \in StepStates
      /\ s.cur \in 1..NSteps[j] /\ NSteps[j] \in Nat
      /\ s.steps \in [1..NSteps[j] -> [outcome : Outcomes, reason : Reasons]]
  BY LiveStep, ZenonT(30) DEF Running, StepStates
<1>s. s.started
  BY <1>3, Zenon DEF Handed
<1>4. CASE e = "start-failed"
  <2>1. EndNoted(s, d, Recorded(s, d), q)
    BY <1>1, <1>2, <1>3, <1>4, RecordEndAccount, Zenon DEF c, q
  <2>2. d.next = "failed" /\ d.reason = "engine-error" /\ q.state \in Final /\ d.next \in Final
    BY <1>1, <1>2, <1>4, <2>1, Zenon DEF EndNoted, Final
  <2>3. StepOutcome(d) = "failed"
    BY <2>2, Zenon DEF StepOutcome, SettlingCancelTimeout, SettlingCancelRequested
  <2>4. Recorded(s, d) = [s.steps EXCEPT ![s.cur] = [outcome |-> "failed", reason |-> d.reason]]
    BY <2>3 DEF Recorded
  <2>5. PICK x : x = [outcome |-> "failed", reason |-> d.reason]
    BY Zenon
  <2>6. x \in [outcome : Outcomes, reason : Reasons] /\ x.outcome # "none"
    BY <2>2, <2>5 DEF Outcomes, Reasons
  <2>7. PICK w : w = [s.steps EXCEPT ![s.cur] = x]
    BY Zenon
  <2>8. /\ w \in [1..NSteps[j] -> [outcome : Outcomes, reason : Reasons]]
        /\ \A k \in 1..NSteps[j] : k < s.cur => w[k] = s.steps[k]
        /\ w[s.cur] = x
    BY <1>3, <2>6, <2>7, OneStepSet
  <2>9. EndNoted(s, d, w, q)
    BY <2>1, <2>4, <2>5, <2>7, ZenonT(30)
  <2>10. w[s.cur] = [outcome |-> "failed", reason |-> d.reason] /\ w[s.cur].outcome # "none"
    BY <2>5, <2>6, <2>8
  <2>11. d.next # "success"
    BY <2>2, ZenonT(30)
  <2>12. ClosedAt(j, q, s.cur)
    BY <1>3, <1>s, <2>2, <2>8, <2>9, <2>10, <2>11, EndCloses, ZenonT(30)
  <2> QED
    BY <1>3, <2>2, <2>12, ClosedAccount DEF q
<1>5. CASE e = "step-timeout"
  <2>1. Moved(s, d, q)
    BY <1>1, <1>2, <1>3, <1>5, SignalAccount, Zenon DEF c, q
  <2>2. q.cur = s.cur /\ q.steps = s.steps /\ q.state \in StepStopping
        /\ (q.state \in CoeStates => s.state \in CoeStates)
    BY <1>1, <1>2, <1>5, <2>1, ZenonT(30) DEF Moved, Same
  <2>3. q.started
    BY <1>s, <2>1, ZenonT(30) DEF Moved, Same
  <2>4. AllPast(j, q.steps, q.cur) /\ (q.state \in CoeStates => Coe[j][q.cur])
    BY <1>3, <2>2, ZenonT(30) DEF Handed
  <2> QED
    BY <2>2, <2>3, <2>4, ZenonT(30) DEF q, AccountOK, Final, Waiting, Running, StepStates,
       StepRunning, StepStopping, StepKilling, Settling, SettlingTerm, SettlingKill,
       SettlingContinue, SettlingFail
<1>6. CASE e \notin {"start-failed", "step-timeout"}
  <2>1. d = Cell(s, e, p) /\ d.actions \in {{"record-step"}, Stop \cup {"record-step"}}
    BY <1>1, <1>2, <1>6 DEF c
  <2>2. Noted(s, d, q)
    BY <1>1, <1>3, <2>1, RecordAccount, ZenonT(30) DEF q
  <2>3. d.next \in SettlingFail => d.reason # "none"
    BY <1>1, <1>2, <1>6, Zenon DEF Handed
  <2> QED
    BY <1>1, <1>2, <1>3, <1>6, <2>2, <2>3, NotedAccount, ZenonT(30) DEF q
<1> QED
  BY <1>4, <1>5, <1>6, ZenonT(30)

\* A timed-out step ends or is killed.
LEMMA StoppingAccount ==
  ASSUME NEW j \in Jobs, NEW s, NEW e, NEW p, NEW f, Handed(j, s, e, p),
         s.state \in StepStopping \cup StepKilling, Cell(s, e, p).kind # "impossible"
  PROVE  AccountOK(j, Transition(j, s, e, p, f))
<1> DEFINE c == Cell(s, e, p)
           q == Transition(j, s, e, p, f)
<1>1. /\ e # "group-empty" /\ c.reason \in Reasons
      /\ \/ /\ e = "grace-expired" /\ c.actions = {"sigkill-group"} /\ c.next \in StepKilling
            /\ c.next \in CoeStates <=> s.state \in CoeStates
         \/ /\ e # "grace-expired" /\ c.actions = {"record-step"} /\ c.next \in Settling
            /\ c.reason # "none"
            /\ c.next \in SettlingContinue => s.state \in CoeStates
  <2>1. CASE s.state \in StepStopping
    <3>1. PICK after, killing :
            /\ c = StepStoppingRow(after, killing, e)
            /\ s.state = "step-stopping" =>
                 after = "settling-fail-term" /\ killing = "step-killing"
            /\ s.state = "step-stopping-coe" =>
                 after = "settling-continue-term" /\ killing = "step-killing-coe"
      BY <2>1 DEF Cell, Lookup, StepStopping
    <3> QED
      BY <2>1, <3>1, SMTT(30) DEF StepStoppingRow, T, X, StepStopping, StepKilling, CoeStates, Settling,
         SettlingTerm, SettlingKill, SettlingContinue, Reasons
  <2>2. CASE s.state \in StepKilling
    <3>1. PICK after :
            /\ c = StepKillingRow(after, e)
            /\ s.state = "step-killing" => after = "settling-fail-kill"
            /\ s.state = "step-killing-coe" => after = "settling-continue-kill"
      BY <2>2 DEF Cell, Lookup, StepKilling
    <3> QED
      BY <2>2, <3>1, SMTT(30) DEF StepKillingRow, T, X, StepKilling, CoeStates, Settling,
         SettlingTerm, SettlingKill, SettlingContinue, Reasons
  <2> QED
    BY <2>1, <2>2
<1>2. PICK d : d = c
  BY Zenon
<1> HIDE DEF c, q
<1>3. /\ Fields \subseteq DOMAIN s /\ s.state \in Running /\ s.state \in StepStates
  BY LiveStep, ZenonT(30) DEF Running, StepStates
<1>s. s.started
  BY <1>3 DEF Handed
<1>4. CASE e = "grace-expired"
  <2>1. Moved(s, d, q)
    BY <1>1, <1>2, <1>3, <1>4, SignalAccount, ZenonT(30) DEF c, q
  <2>2. q.cur = s.cur /\ q.steps = s.steps /\ q.state \in StepKilling
        /\ (q.state \in CoeStates => s.state \in CoeStates)
    BY <1>1, <1>2, <1>4, <2>1, ZenonT(30) DEF Moved, Same
  <2>3. q.started
    BY <1>s, <2>1, ZenonT(30) DEF Moved, Same
  <2>4. AllPast(j, q.steps, q.cur) /\ (q.state \in CoeStates => Coe[j][q.cur])
    BY <1>3, <2>2, Zenon DEF Handed
  <2> QED
    BY <2>2, <2>3, <2>4, Zenon DEF q, AccountOK, Final, Waiting, Running, StepStates,
       StepRunning, StepStopping, StepKilling, Settling, SettlingTerm, SettlingKill,
       SettlingContinue, SettlingFail
<1>5. CASE e # "grace-expired"
  <2>1. d = Cell(s, e, p) /\ d.actions \in {{"record-step"}, Stop \cup {"record-step"}}
    BY <1>1, <1>2, <1>5 DEF c
  <2>2. Noted(s, d, q)
    BY <1>1, <1>3, <2>1, RecordAccount, ZenonT(30) DEF q
  <2> QED
    BY <1>1, <1>2, <1>3, <1>5, <2>2, NotedAccount, ZenonT(30) DEF q
<1> QED
  BY <1>4, <1>5, ZenonT(30)

\* A settling step whose outcome is recorded: another trigger overrules it, or
\* its group is empty and the job goes on or ends with it.
LEMMA SettlingAccount ==
  ASSUME NEW j \in Jobs, NEW s, NEW e, NEW p, NEW f, Handed(j, s, e, p), p \in Payloads,
         s.state \in Settling, Cell(s, e, p).kind # "impossible"
  PROVE  AccountOK(j, Transition(j, s, e, p, f))
<1> DEFINE c == Cell(s, e, p)
           q == Transition(j, s, e, p, f)
           l == [p EXCEPT !.carried = s.lastReason]
<1>0. PICK t, k, x, g :
        /\ c = SettlingRow(s.state, t, k, x, g, e)
        /\ t \in {X, I(s.state), ByTimeout("term"), ByTimeout("kill")}
        /\ k \in {I(s.state), ByCancel("term"), ByCancel("kill")}
        /\ x = X \/ (/\ s.state \in SettlingTerm
                     /\ x.actions = {"sigkill-group"} /\ x.reason = "none" /\ x.next \in Settling
                     /\ x.next \in SettlingContinue <=> s.state \in SettlingContinue
                     /\ x.next \in SettlingFail <=> s.state \in SettlingFail)
        /\ s.state \in SettlingContinue => g = T("between-steps", "none", {})
        /\ s.state \in SettlingFail => g = T("failed", s.lastReason, End)
        /\ s.state \notin SettlingContinue \cup SettlingFail =>
             \E why : g = T("cancelled", why, End)
  <2>1. c = Lookup(s.state, e, l) /\ l.carried = s.lastReason
    BY Zenon DEF Cell, Payloads
  <2> HIDE DEF c, l
  <2> USE DEF Lookup, Kill, SettlingContinue, SettlingFail
  <2>2. CASE s.state \in SettlingContinue
    BY <2>1, <2>2, Zenon DEF T, Settling, SettlingTerm, SettlingKill
  <2>3. CASE s.state \in SettlingFail
    BY <2>1, <2>3, Zenon DEF T, Settling, SettlingTerm, SettlingKill
  <2>4. CASE s.state \in SettlingCancelTimeout
    BY <2>1, <2>4 DEF T, Settling, SettlingTerm, SettlingKill, SettlingCancelTimeout
  <2>5. CASE s.state \in SettlingCancelRequested
    BY <2>1, <2>5, SMTT(30) DEF T, Settling, SettlingTerm, SettlingKill, SettlingCancelRequested
  <2> QED
    BY <2>2, <2>3, <2>4, <2>5, Zenon DEF Settling, SettlingTerm, SettlingKill, SettlingCancelTimeout,
       SettlingCancelRequested
<1> HIDE DEF l
<1>1. CASE e # "group-empty"
  <2>1. /\ c.actions \in {{}, {"sigkill-group"}} /\ c.next \in Settling
        /\ c.next \in SettlingContinue => s.state \in SettlingContinue
        /\ c.next \in SettlingFail => s.state \in SettlingFail /\ c.reason = "none"
    <3>1. c \in {I(s.state), t, k, x} /\ c.kind # "impossible"
      BY <1>0, <1>1 DEF SettlingRow, X
    <3>2. CASE c = I(s.state)
      BY <3>2 DEF I
    <3>3. CASE c \in {ByTimeout("term"), ByTimeout("kill"), ByCancel("term"), ByCancel("kill")}
      BY <3>3, SMTT(30) DEF ByTimeout, ByCancel, T, Settling, SettlingTerm, SettlingKill,
         SettlingContinue, SettlingFail
    <3>4. CASE c = x
      <4>1. x # X
        BY <3>1, <3>4 DEF X
      <4> QED
        BY <1>0, <3>4, <4>1, Zenon
    <3>5. c # X
      BY <3>1 DEF X
    <3> HIDE DEF c
    <3> QED
      BY <1>0, <3>1, <3>2, <3>3, <3>4, <3>5, Zenon
  <2>2. PICK d : d = c
    BY Zenon
  <2> HIDE DEF c, q
  <2>3. Fields \subseteq DOMAIN s /\ s.state \in Running /\ s.state \in StepStates
    BY LiveStep, ZenonT(30) DEF Running, StepStates
  <2>4. s.started
    BY <2>3, Zenon DEF Handed
  <2>5. Moved(s, d, q)
    BY <1>1, <2>1, <2>2, <2>3, SignalAccount, Zenon DEF c, q
  <2>6. /\ q.cur = s.cur /\ q.steps = s.steps /\ q.state \in Settling
        /\ q.state \in SettlingContinue => s.state \in SettlingContinue
        /\ q.state \in SettlingFail => s.state \in SettlingFail /\ q.lastReason = s.lastReason
    BY <2>1, <2>2, <2>5, ZenonT(30) DEF Moved, Same, Carried
  <2>7. q.started
    BY <2>4, <2>5, Zenon DEF Moved, Same
  <2>8. /\ AllPast(j, q.steps, q.cur)
        /\ q.state \in SettlingContinue => Past(j, q.steps, q.cur)
        /\ q.state \in SettlingFail =>
             q.steps[q.cur] = [outcome |-> "failed", reason |-> q.lastReason]
        /\ q.steps[q.cur].outcome # "none"
    BY <2>3, <2>6, Zenon DEF Handed
  <2>9. /\ q.state \notin Waiting /\ q.state # "between-steps" /\ q.state \notin CoeStates
        /\ q.state \notin Final
    BY <2>6 DEF Final, Waiting, Settling, SettlingTerm, SettlingKill, CoeStates
  <2> QED
    BY <2>7, <2>8, <2>9, ZenonT(30) DEF q, AccountOK
<1>2. CASE e = "group-empty"
  <2>1. /\ s.state \in SettlingContinue => c.actions = {} /\ c.next = "between-steps"
        /\ s.state \in SettlingFail =>
             c.actions = End /\ c.next = "failed" /\ c.reason = s.lastReason
        /\ s.state \notin SettlingContinue \cup SettlingFail => c.actions = End /\ c.next = "cancelled"
    BY <1>0, <1>2 DEF SettlingRow, T
  <2>2. PICK d : d = c
    BY Zenon
  <2>3. d = Cell(s, "group-empty", p) /\ q = Transition(j, s, "group-empty", p, f)
    BY <1>2, <2>2
  <2> HIDE DEF c, q
  <2>4. /\ Fields \subseteq DOMAIN s /\ s.state \in Running /\ s.state \in StepStates
        /\ s.cur \in 1..NSteps[j] /\ NSteps[j] \in Nat
        /\ s.steps \in [1..NSteps[j] -> [outcome : Outcomes, reason : Reasons]]
    BY LiveStep, Zenon DEF Running, StepStates
  <2>5. s.started /\ s \in JobRuns(j) /\ s.live # NoStep
    BY <2>4 DEF Handed
  <2>6. CASE s.state \in SettlingContinue
    <3>1. d.actions = {} /\ d.next = "between-steps"
      BY <2>1, <2>2, <2>6, Zenon
    <3>0. GoesOn(s, d, q)
      BY <2>3, <2>5, <3>1, EmptyAccount, Zenon
    <3>2. q.cur = s.cur + 1 /\ q.steps = s.steps /\ q.state = d.next
      BY <3>0, ZenonT(30) DEF GoesOn
    <3>3. AllPast(j, s.steps, s.cur) /\ Past(j, s.steps, s.cur)
      BY <2>4, <2>6, Zenon DEF Handed
    <3>4. AllPast(j, q.steps, q.cur)
      <4>1. \A k2 \in 1..NSteps[j] : k2 < s.cur + 1 => k2 < s.cur \/ k2 = s.cur
        BY <2>4, SMTT(30)
      <4> QED
        BY <3>2, <3>3, <4>1, Zenon DEF AllPast
    <3>5. ~s.followup
      BY ZenonT(30) DEF Handed
    <3>6. q.started /\ ~q.followup
      BY <2>5, <3>0, <3>5, Zenon DEF GoesOn
    <3>7. q.state = "between-steps"
      BY <3>1, <3>2, Zenon
    <3> QED
      BY <3>4, <3>6, <3>7, ZenonT(30) DEF q, AccountOK, Final, Waiting, Running, StepStates,
         StepRunning,
         StepStopping, StepKilling, Settling, SettlingTerm, SettlingKill, CoeStates,
         SettlingContinue, SettlingFail
  <2>7. CASE s.state \notin SettlingContinue
    <3>1. d.actions = End /\ d.next \in {"failed", "cancelled"} /\ d.next \in Final
          /\ (d.next = "failed" => s.state \in SettlingFail /\ d.reason = s.lastReason)
      BY <2>1, <2>2, <2>7, ZenonT(30) DEF Final
    <3>2. EndNoted(s, d, s.steps, q)
      BY <2>3, <2>5, <3>1, EmptyAccount, Zenon
    <3>3. /\ s.steps[s.cur].outcome # "none"
          /\ d.next = "failed" => s.steps[s.cur] = [outcome |-> "failed", reason |-> d.reason]
      BY <3>1, ZenonT(30) DEF Handed
    <3>4. ClosedAt(j, q, s.cur)
      BY <2>4, <2>5, <3>1, <3>2, <3>3, EndCloses, ZenonT(30)
    <3>5. q.state \in Final
      BY <3>1, <3>2 DEF EndNoted
    <3> QED
      BY <2>4, <3>4, <3>5, ClosedAccount, SMTT(30) DEF q
  <2> QED
    BY <2>6, <2>7
<1> QED
  BY <1>1, <1>2, ZenonT(30)

\* An ended job only hears a cancel, and ignores it.
LEMMA FinalAccount ==
  ASSUME NEW j \in Jobs, NEW s, NEW e, NEW p, NEW f, Handed(j, s, e, p),
         s.state \in Final, Cell(s, e, p).kind # "impossible"
  PROVE  AccountOK(j, Transition(j, s, e, p, f))
<1> DEFINE c == Cell(s, e, p)
           q == Transition(j, s, e, p, f)
<1>1. e # "group-empty" /\ c.actions = {} /\ c.next = s.state
  BY Zenon DEF Cell, Lookup, FinalRow, I, X, Final
<1>2. PICK d : d = c
  BY Zenon
<1> HIDE DEF c, q
<1>3. Fields \subseteq DOMAIN s
  BY LiveStep, Zenon
<1>4. Moved(s, d, q)
  BY <1>1, <1>2, <1>3, SignalAccount, Zenon DEF c, q
<1>5. q.state = s.state /\ q.steps = s.steps /\ q.reason = s.reason
  BY <1>1, <1>2, <1>4, Zenon DEF Moved, Same
<1>6. \A k : ClosedAt(j, s, k) => ClosedAt(j, q, k)
  BY <1>5 DEF ClosedAt
<1>7. q.started => s.started
  BY <1>4, ZenonT(30) DEF Moved, Same
<1>8. s.started => \E k \in 1..NSteps[j] + 1 : ClosedAt(j, s, k)
  BY DEF Handed
<1> QED
  BY <1>5, <1>6, <1>7, <1>8, ClosedAccount, ZenonT(30) DEF q

\* Two records with the same account.
Alike(r, q) == Same(r, q) /\ q.state = r.state /\ q.lastReason = r.lastReason

LEMMA AlikeAccount ==
  ASSUME NEW j, NEW r, NEW q, Alike(r, q), q.followup = r.followup, AccountOK(j, r)
  PROVE  AccountOK(j, q)
<1>1. \A c : ClosedAt(j, r, c) => ClosedAt(j, q, c)
  BY DEF Alike, Same, ClosedAt
<1> QED
  BY <1>1, ZenonT(30) DEF AccountOK, Alike, Same

\* The handler hands dispatch_one a record with the same account.
LEMMA HandedOver ==
  ASSUME NEW j \in Jobs, NEW r \in JobRuns(j), JobOK(r), AccountOK(j, r), NEW e, NEW p,
         Due(j, r, e, p), NEW s \in JobRuns(j), ~s.followup, Alike(r, s)
  PROVE  Handed(j, s, e, p)
<1>1. \A c : ClosedAt(j, r, c) => ClosedAt(j, s, c)
  BY DEF Alike, Same, ClosedAt
<1>2. /\ s.cur = r.cur /\ s.live = r.live /\ s.steps = r.steps /\ s.state = r.state
      /\ s.lastReason = r.lastReason
  BY DEF Alike, Same
<1>3. s.started <=> r.started
  BY ZenonT(30) DEF Alike, Same
<1>4. /\ s.state \in StepStates <=> s.live # NoStep
      /\ s.live # NoStep => s.live = s.cur
  BY <1>2, ZenonT(30) DEF JobOK
<1>5. s.state = "between-steps" => (s.started <=> e # "start-failed")
  BY <1>2, <1>3 DEF AccountOK, Due
<1>6. /\ e = "next-step" => s.cur <= NSteps[j] /\ p.coe = Coe[j][s.cur]
      /\ e = "no-more-steps" => s.cur > NSteps[j]
      /\ e = "leader-exit-fail" => p.reason # "none"
  BY <1>2, Zenon DEF Due
<1>7. /\ s.state \in Waiting => ~s.started /\ s.cur = 1
      /\ s.state \in StepStates => s.started
      /\ s.state \in Final /\ s.started => \E c \in 1..NSteps[j] + 1 : ClosedAt(j, s, c)
  BY <1>1, <1>2, <1>3, ZenonT(30) DEF AccountOK
<1>8. /\ s.state \in Running => AllPast(j, s.steps, s.cur)
      /\ s.state \in CoeStates => Coe[j][s.cur]
      /\ s.state \in SettlingContinue => Past(j, s.steps, s.cur)
      /\ s.state \in SettlingFail =>
           s.steps[s.cur] = [outcome |-> "failed", reason |-> s.lastReason]
      /\ s.state \in Settling => s.steps[s.cur].outcome # "none"
  BY <1>2 DEF AccountOK
<1> QED
  BY <1>4, <1>5, <1>6, <1>7, <1>8, Zenon DEF Handed

\* One event met by one possible cell keeps the account.
LEMMA CellAccount ==
  ASSUME NEW j \in Jobs, NEW s, NEW e, NEW p, NEW f \in BOOLEAN, Handed(j, s, e, p),
         p \in Payloads, Cell(s, e, p).kind # "impossible"
  PROVE  AccountOK(j, Transition(j, s, e, p, f))
<1>1. s.state \in States
  BY Zenon DEF Handed, JobRuns
<1>2. \/ s.state \in Waiting \/ s.state = "between-steps" \/ s.state \in StepRunning
      \/ s.state \in StepStopping \cup StepKilling \/ s.state \in Settling \/ s.state \in Final
  BY <1>1, Zenon DEF States, Running, StepStates, Waiting
<1> QED
  BY ZenonT(30), <1>2, WaitingAccount, BetweenAccount, RunningAccount, StoppingAccount, SettlingAccount,
     FinalAccount

-----------------------------------------------------------------------------
(* The engine *)

AccountInv == \A j \in Jobs : AccountOK(j, run[j])

\* What the engine's invariant says of one job.
LEMMA RunFacts ==
  ASSUME Inv, NEW j \in Jobs
  PROVE  run[j] \in JobRuns(j) /\ JobOK(run[j])
  BY DEF Inv, TypeOK

\* What the loop hands to dispatch_one with an event.
LEMMA PayloadFacts ==
  /\ NoPayload \in Payloads
  /\ \A b \in BOOLEAN : [NoPayload EXCEPT !.coe = b] \in Payloads
  /\ \A y \in Reasons : [NoPayload EXCEPT !.reason = y] \in Payloads
  BY Zenon DEF NoPayload, Payloads, Reasons

\* dispatch_one keeps the account of its job and leaves the others alone.
LEMMA DispatchAccount ==
  ASSUME Inv, Inv', AccountInv, NEW j \in Jobs, NEW s \in JobRuns(j), ~s.followup,
         NEW e, NEW p, p \in Payloads, NEW step,
         Alike(run[j], s), Due(j, run[j], e, p), Dispatch(j, s, e, p, step)
  PROVE  AccountInv'
<1>1. run = [k \in Jobs |-> run[k]] /\ aborted' = FALSE
  BY DEF Inv, TypeOK
<1>2. \A k \in Jobs : k # j => run'[k] = run[k]
  BY <1>1, Zenon DEF Dispatch
<1>3. AccountOK(j, run[j]) /\ run[j] \in JobRuns(j) /\ JobOK(run[j])
  BY RunFacts, Zenon DEF AccountInv
<1>4. AccountOK(j, run'[j])
  <2>1. CASE IsStale(s.state, e, step, s.live)
    <3>1. run'[j] = s
      BY <1>1, <2>1 DEF Dispatch
    <3>2. e # "start-failed"
      BY <2>1, Zenon DEF IsStale, StepScoped
    <3>3. ~run[j].followup
      BY <3>2, Zenon DEF Due
    <3>4. s.followup \in BOOLEAN /\ run[j].followup \in BOOLEAN
      BY <1>3, Zenon DEF JobRuns
    <3>5. s.followup = run[j].followup
      BY <3>3, <3>4, Zenon
    <3> QED
      BY <1>3, <3>1, <3>5, AlikeAccount, Zenon
  <2>2. CASE ~IsStale(s.state, e, step, s.live)
    <3>1. Cell(s, e, p).kind # "impossible"
      BY <1>1, <2>2, Zenon DEF Dispatch
    <3>2. PICK f \in BOOLEAN : run' = [run EXCEPT ![j] = Transition(j, s, e, p, f)]
      BY <2>2, <3>1, Zenon DEF Dispatch
    <3>3. run'[j] = Transition(j, s, e, p, f)
      BY <1>1, <3>2, Zenon
    <3>4. Handed(j, s, e, p)
      BY <1>3, HandedOver
    <3> QED
      BY <3>1, <3>3, <3>4, CellAccount, Zenon
  <2> QED
    BY <2>1, <2>2, Zenon
<1> QED
  BY <1>2, <1>4, Zenon DEF AccountInv

\* A step that leaves the records alone.
LEMMA NothingAccount ==
  ASSUME AccountInv, run' = run
  PROVE  AccountInv'
  BY DEF AccountInv

\* A handler that reads a timer or reaps the leader hands over the same account.
LEMMA ReadsAlike ==
  ASSUME NEW j \in Jobs, NEW r \in JobRuns(j), ~r.followup, NEW s,
         s \in {r, [r EXCEPT !.stepTimer = Read(@)], [r EXCEPT !.graceTimer = Read(@)],
               [r EXCEPT !.jobTimer = Read(@)], [r EXCEPT !.leader = "reaped"]}
  PROVE  s \in JobRuns(j) /\ Alike(r, s) /\ ~s.followup
<1>1. Fields \subseteq DOMAIN r
  BY RecordFields
<1>2. Alike(r, s)
  BY <1>1 DEF Alike, Same, Fields
<1>3. s.followup = r.followup
  BY <1>1 DEF Fields
<1>4. \A t \in Timers : Read(t) \in Timers
  BY DEF Read, Timers
<1>5. r.stepTimer \in Timers /\ r.graceTimer \in Timers /\ r.jobTimer \in Timers
  BY DEF JobRuns
<1>6. s \in JobRuns(j)
  BY <1>4, <1>5 DEF JobRuns
<1> QED
  BY <1>2, <1>3, <1>6

\* Every step of the engine and its environment keeps the account.
LEMMA NextAccount ==
  ASSUME Inv, Inv', AccountInv, [Next]_vars
  PROVE  AccountInv'
<1>0. NoPayload \in Payloads /\ NoPayload.reason = "none"
  BY PayloadFacts, Zenon DEF NoPayload
<1>1. CASE \/ StartLoop \/ BroadcastDone \/ Schedule \/ EpollWait \/ BatchDone \/ ReapDone
           \/ GroupsDone \/ OperatorCancel \/ StrayExit \/ UNCHANGED vars
  BY <1>1, NothingAccount, Zenon DEF StartLoop, BroadcastDone, Schedule, EpollWait, BatchDone, ReapDone,
     GroupsDone, OperatorCancel, StrayExit, vars
<1>2. ASSUME NEW tag \in batch, CancelEvent(tag) \/ ReadChld(tag)
      PROVE  AccountInv'
  BY <1>2, NothingAccount, Zenon DEF CancelEvent, ReadChld
<1>3. ASSUME NEW j \in Jobs, SendStartFailed(j)
      PROVE  AccountInv'
  <2> DEFINE s == [run[j] EXCEPT !.followup = FALSE]
  <2>1. run[j] \in JobRuns(j) /\ Fields \subseteq DOMAIN run[j]
    BY RunFacts, RecordFields
  <2>2. s \in JobRuns(j)
    BY <2>1, Zenon DEF JobRuns
  <2>3. Alike(run[j], s) /\ ~s.followup
    BY <2>1 DEF Alike, Same, Fields
  <2>4. /\ Due(j, run[j], "start-failed", NoPayload)
        /\ Dispatch(j, s, "start-failed", NoPayload, NoStep)
    BY <1>3 DEF SendStartFailed, Due
  <2> HIDE DEF s
  <2> QED
    BY <1>0, <2>2, <2>3, <2>4, DispatchAccount, Zenon
<1>4. ASSUME NEW j \in Jobs, BetweenSteps(j)
      PROVE  AccountInv'
  <2>0. run[j] \in JobRuns(j) /\ ~run[j].followup
    BY <1>4, RunFacts, Zenon DEF BetweenSteps
  <2>1. PICK s, e, p : /\ s \in {run[j], [run[j] EXCEPT !.jobTimer = Read(@)]}
                       /\ Dispatch(j, s, e, p, NoStep)
                       /\ \/ e \in {"cancel", "job-timeout"} /\ p = NoPayload
                          \/ e = "no-more-steps" /\ p = NoPayload /\ run[j].cur > NSteps[j]
                          \/ /\ e = "next-step" /\ run[j].cur <= NSteps[j]
                             /\ p = [NoPayload EXCEPT !.coe = Coe[j][run[j].cur]]
    BY <1>4 DEF BetweenSteps
  <2>2. run[j].cur <= NSteps[j] => Coe[j][run[j].cur] \in BOOLEAN
    BY <2>0, EngineAssumption DEF JobRuns
  <2>3. p \in Payloads
    BY <2>1, <2>2, PayloadFacts, Zenon
  <2>4. e = "next-step" => p.coe = Coe[j][run[j].cur]
    BY <2>1 DEF NoPayload
  <2>5. Due(j, run[j], e, p)
    BY <2>0, <2>1, <2>4 DEF Due
  <2>6. s \in JobRuns(j) /\ Alike(run[j], s) /\ ~s.followup
    BY <2>0, <2>1, ReadsAlike
  <2> QED
    BY <2>1, <2>3, <2>5, <2>6, DispatchAccount, Zenon
<1>5. ASSUME NEW j \in Jobs,
             SkipDisabled(j) \/ BroadcastCancel(j) \/ SendPass(j) \/ CheckGroup(j)
      PROVE  AccountInv'
  <2>0. run[j] \in JobRuns(j) /\ ~run[j].followup
    BY <1>5, RunFacts DEF SkipDisabled, BroadcastCancel, SendPass, CheckGroup, Quiet, Owed
  <2>1. [NoPayload EXCEPT !.reason = "target-disabled"] \in Payloads
    BY PayloadFacts, Zenon DEF Reasons
  <2>2. \A ev \in pass : ev.event \in {"needs-met", "needs-failed", "slot-granted"}
    BY DEF Inv, TypeOK
  <2>3. CASE run' = run
    BY <2>3, NothingAccount, Zenon
  <2>4. CASE run' # run
    <3>1. PICK e, p, step :
            /\ e \in {"skip", "cancel", "needs-met", "needs-failed", "slot-granted", "group-empty"}
            /\ p \in Payloads /\ Dispatch(j, run[j], e, p, step)
      BY <1>0, <1>5, <2>1, <2>2, <2>4, SMTT(30) DEF SkipDisabled, BroadcastCancel, SendPass,
         CheckGroup
    <3>2. Due(j, run[j], e, p)
      BY <2>0, <3>1 DEF Due
    <3>3. Alike(run[j], run[j])
      BY DEF Alike, Same
    <3> QED
      BY <2>0, <3>1, <3>2, <3>3, DispatchAccount, Zenon
  <2> QED
    BY <2>3, <2>4
<1>6. ASSUME NEW j \in Jobs, ReapLeader(j)
      PROVE  AccountInv'
  <2> DEFINE s == [run[j] EXCEPT !.leader = "reaped"]
  <2>0. run[j] \in JobRuns(j) /\ ~run[j].followup
    BY <1>6, RunFacts DEF ReapLeader, Quiet, Owed
  <2>1. \A why \in ExitReasons : /\ [NoPayload EXCEPT !.reason = why] \in Payloads
                                 /\ [NoPayload EXCEPT !.reason = why].reason = why /\ why # "none"
    BY PayloadFacts, ReasonsAssumption, Zenon DEF Reasons, NoPayload
  <2>2. PICK e, p : /\ e \in {"leader-exit-ok", "leader-exit-fail"} /\ p \in Payloads
                    /\ e = "leader-exit-fail" => p.reason # "none"
                    /\ Dispatch(j, s, e, p, s.live)
    BY <1>0, <1>6, <2>1, Zenon DEF ReapLeader
  <2>3. Due(j, run[j], e, p)
    BY <2>0, <2>2 DEF Due
  <2>4. s \in JobRuns(j) /\ Alike(run[j], s) /\ ~s.followup
    BY <2>0, ReadsAlike
  <2> HIDE DEF s
  <2> QED
    BY <2>2, <2>3, <2>4, DispatchAccount, Zenon
<1>7. ASSUME NEW tag \in batch, JobEvent(tag)
      PROVE  AccountInv'
  <2> DEFINE r == run[tag.job]
  <2>0. tag.job \in Jobs
    BY <1>7, Zenon DEF Inv, JobEvent, StepTimerEvent, GraceTimerEvent, JobTimerEvent
  <2>1. r \in JobRuns(tag.job) /\ ~r.followup
    BY <1>7, <2>0, RunFacts DEF JobEvent, Quiet, Owed
  <2>2. CASE run' = run
    BY <2>2, NothingAccount
  <2>3. CASE run' # run
    <3>1. PICK s, e, step :
            /\ e \in {"step-timeout", "grace-expired", "job-timeout"}
            /\ s \in {r, [r EXCEPT !.stepTimer = Read(@)], [r EXCEPT !.graceTimer = Read(@)],
                      [r EXCEPT !.jobTimer = Read(@)]}
            /\ Dispatch(tag.job, s, e, NoPayload, step)
      BY <1>7, <2>3 DEF JobEvent, StepTimerEvent, GraceTimerEvent, JobTimerEvent
    <3>2. Due(tag.job, r, e, NoPayload)
      BY <2>1, <3>1 DEF Due
    <3> HIDE DEF r
    <3>3. s \in JobRuns(tag.job) /\ Alike(r, s) /\ ~s.followup
      BY <2>0, <2>1, <3>1, ReadsAlike, Zenon
    <3> QED
      BY <1>0, <2>0, <3>1, <3>2, <3>3, DispatchAccount, Zenon DEF r
  <2> QED
    BY <2>2, <2>3, Zenon
<1>8. ASSUME NEW j \in Jobs,
             \/ Fork(j) \/ LeaderExit(j) \/ MemberExit(j) \/ Setsid(j)
             \/ JobTimerElapses(j) \/ StepTimerElapses(j) \/ GraceElapses(j)
      PROVE  AccountInv'
  <2>1. Fields \subseteq DOMAIN run[j] /\ run = [k \in Jobs |-> run[k]]
    BY RunFacts, RecordFields, Zenon DEF Inv, TypeOK
  <2>2. /\ \A k \in Jobs : k # j => run'[k] = run[k]
        /\ Alike(run[j], run'[j])
        /\ run'[j].followup = run[j].followup
    BY <1>8, <2>1 DEF Fork, LeaderExit, MemberExit, Setsid, JobTimerElapses, StepTimerElapses,
       GraceElapses, Fields, Alike, Same
  <2>3. AccountOK(j, run'[j])
    BY <2>2, AlikeAccount, Zenon DEF AccountInv
  <2> QED
    BY <2>2, <2>3, Zenon DEF AccountInv
<1> QED
  BY <1>1, <1>2, <1>3, <1>4, <1>5, <1>6, <1>7, <1>8, Zenon
     DEF Next, EngineStep, Environment, Stopped

\* No job has started at the beginning.
LEMMA InitAccount == Init => AccountInv
<1>1. ASSUME Init, NEW j \in Jobs
      PROVE  run[j].state = "pending" /\ run[j].cur = 1 /\ ~run[j].started
  BY <1>1, Zenon DEF Init, NewRun
<1>2. ASSUME NEW j, NEW r, r.state = "pending", r.cur = 1, ~r.started
      PROVE  AccountOK(j, r)
  BY <1>2 DEF AccountOK, Final, Running, StepStates, StepRunning, StepStopping, StepKilling,
     Settling, SettlingTerm, SettlingKill, CoeStates, SettlingContinue, SettlingFail
<1> QED
  BY <1>1, <1>2, Zenon DEF AccountInv

INSTANCE FiniteSetTheorems

\* Of a job that has ended the account says what a reader of the run's record
\* wants to know.
LEMMA EndedAccount ==
  ASSUME Inv, AccountInv
  PROVE  StepsAccountedFor
<1> SUFFICES ASSUME NEW j \in Jobs, run[j].state \in Final, run[j].started
             PROVE  LET r == run[j]
                        outcome(k) == r.steps[k].outcome
                        ends == {k \in 1..NSteps[j] : ~Passed(j, k) /\ outcome(k) # "skipped"}
                    IN  /\ \A k \in 1..NSteps[j] : outcome(k) # "none"
                        /\ \A k, l \in 1..NSteps[j] :
                             k < l /\ ~Passed(j, k) => outcome(l) = "skipped"
                        /\ Cardinality(ends) <= 1
                        /\ r.state = "success" => \A k \in 1..NSteps[j] : Passed(j, k)
                        /\ r.state = "failed" =>
                             \E k \in 1..NSteps[j] :
                               /\ r.steps[k] = [outcome |-> "failed", reason |-> r.reason]
                               /\ \A l \in k + 1..NSteps[j] : outcome(l) = "skipped"
  BY DEF StepsAccountedFor
<1> DEFINE r == run[j]
           ends == {k \in 1..NSteps[j] : ~Passed(j, k) /\ r.steps[k].outcome # "skipped"}
<1>1. PICK c \in 1..NSteps[j] + 1 : ClosedAt(j, r, c)
  BY Zenon DEF AccountInv, AccountOK
<1>2. NSteps[j] \in Nat
  BY EngineAssumption, Zenon
<1>3. \A k \in 1..NSteps[j] : k < c => Passed(j, k)
  BY <1>1, Zenon DEF ClosedAt, AllPast, Past, Passed
<1>4. \A k \in 1..NSteps[j] : Passed(j, k) => r.steps[k].outcome \in {"success", "failed"}
  BY DEF Passed
<1>5. \A k \in 1..NSteps[j] : k < c \/ k = c \/ k > c
  BY <1>2
<1>6. /\ \A k \in 1..NSteps[j] : k > c => r.steps[k].outcome = "skipped"
      /\ c \in 1..NSteps[j] => r.steps[c].outcome # "none"
      /\ r.state = "success" => c = NSteps[j] + 1
      /\ r.state = "failed" =>
           c \in 1..NSteps[j] /\ r.steps[c] = [outcome |-> "failed", reason |-> r.reason]
  BY <1>1, Zenon DEF ClosedAt
<1> HIDE DEF r
<1>7. \A k \in 1..NSteps[j] : r.steps[k].outcome # "none"
  BY <1>3, <1>4, <1>5, <1>6, Zenon
<1>8. \A k, l \in 1..NSteps[j] : k < l /\ ~Passed(j, k) => r.steps[l].outcome = "skipped"
  BY <1>2, <1>3, <1>5, <1>6
<1>9. Cardinality(ends) <= 1
  <2>1. ends \subseteq {c}
    BY <1>3, <1>5, <1>6, Zenon
  <2>2. IsFiniteSet({c}) /\ Cardinality({c}) = 1
    BY FS_Singleton, Zenon
  <2> HIDE DEF ends
  <2> QED
    BY <2>1, <2>2, FS_Subset, Zenon
<1>10. r.state = "success" => \A k \in 1..NSteps[j] : Passed(j, k)
  BY <1>2, <1>3, <1>6
<1>11. r.state = "failed" =>
         \E k \in 1..NSteps[j] :
           /\ r.steps[k] = [outcome |-> "failed", reason |-> r.reason]
           /\ \A l \in k + 1..NSteps[j] : r.steps[l].outcome = "skipped"
  <2>1. c \in 1..NSteps[j] => \A l \in c + 1..NSteps[j] : l \in 1..NSteps[j] /\ l > c
    BY <1>2
  <2> QED
    BY <1>6, <2>1, Zenon
<1> QED
  BY <1>7, <1>8, <1>9, <1>10, <1>11, ZenonT(30) DEF r

-----------------------------------------------------------------------------
(* Sets of jobs *)

INSTANCE WellFoundedInduction

\* Of some jobs one comes last in id order.
LEMMA LastOfJobs ==
  ASSUME NEW S \in SUBSET Jobs, S # {}
  PROVE  \E m \in S : \A k \in S : k <= m
<1> DEFINE D == {N - k : k \in S}
<1>1. S \subseteq Int /\ \A k \in S : k <= N
  BY SchedAssumption DEF Jobs
<1>2. D \subseteq Nat /\ D # {}
  <2>1. \A k \in S : N - k \in Nat
    BY <1>1, SchedAssumption
  <2> QED
    BY <2>1, Zenon
<1>3. \E x \in D : \A y \in D : ~(<<y, x>> \in OpToRel(<, Nat))
  BY <1>2, NatLessThanWellFounded, WFMin, Zenon
<1>4. \E x \in D : \A y \in D : ~(y < x)
  BY <1>2, <1>3, Zenon DEF OpToRel
<1>5. PICK m \in S : \A k \in S : ~(N - k < N - m)
  BY <1>4, Zenon
<1> QED
  BY <1>1, <1>5, SchedAssumption

\* Of some jobs one has the lowest rank.
LEMMA FirstOfJobs ==
  ASSUME NEW S \in SUBSET Jobs, S # {}, NEW rank \in [Jobs -> Jobs]
  PROVE  \E m \in S : \A k \in S : ~(rank[k] < rank[m])
<1> DEFINE D == {rank[k] : k \in S}
<1>1. Jobs \subseteq Nat
  BY SchedAssumption DEF Jobs
<1>2. D \subseteq Nat /\ D # {}
  BY <1>1, Zenon
<1>3. \E x \in D : \A y \in D : ~(<<y, x>> \in OpToRel(<, Nat))
  BY <1>2, NatLessThanWellFounded, WFMin, Zenon
<1>4. \E x \in D : \A y \in D : ~(y < x)
  BY <1>2, <1>3, Zenon DEF OpToRel
<1> QED
  BY <1>4, Zenon

\* How many jobs a set has.
LEMMA CardinalityOfJobs ==
  /\ \A B \in SUBSET Jobs : IsFiniteSet(B) /\ Cardinality(B) \in Nat
  /\ \A B \in SUBSET Jobs : \A A \in SUBSET B :
       Cardinality(A) <= Cardinality(B) /\ (Cardinality(A) = Cardinality(B) => A = B)
  /\ \A B \in SUBSET Jobs : \A m \in Jobs :
       Cardinality(B \cup {m}) = IF m \in B THEN Cardinality(B) ELSE Cardinality(B) + 1
  /\ \A A \in SUBSET Jobs : \A B \in SUBSET Jobs :
       Cardinality(A \cup B) <= Cardinality(A) + Cardinality(B)
  /\ Cardinality({}) = 0
<1>1. \A B \in SUBSET Jobs : IsFiniteSet(B) /\ Cardinality(B) \in Nat
  <2>1. IsFiniteSet(Jobs)
    BY FS_Interval, SchedAssumption DEF Jobs
  <2> QED
    BY <2>1, FS_Subset, FS_CardinalityType, Zenon
<1>2. \A B \in SUBSET Jobs : \A A \in SUBSET B :
        Cardinality(A) <= Cardinality(B) /\ (Cardinality(A) = Cardinality(B) => A = B)
  BY <1>1, FS_Subset, Zenon
<1>3. \A B \in SUBSET Jobs : \A m \in Jobs :
        Cardinality(B \cup {m}) = IF m \in B THEN Cardinality(B) ELSE Cardinality(B) + 1
  BY <1>1, FS_AddElement, ZenonT(30)
<1>4. ASSUME NEW A \in SUBSET Jobs, NEW B \in SUBSET Jobs
      PROVE  Cardinality(A \cup B) <= Cardinality(A) + Cardinality(B)
  <2>1. Cardinality(A \cup B) = Cardinality(A) + Cardinality(B) - Cardinality(A \cap B)
    BY <1>1, FS_Union, Zenon
  <2>2. Cardinality(A) \in Nat /\ Cardinality(B) \in Nat /\ Cardinality(A \cap B) \in Nat
    BY <1>1, Zenon
  <2> QED
    BY <2>1, <2>2
<1>5. Cardinality({}) = 0
  BY FS_EmptySet, Zenon
<1> QED
  BY <1>1, <1>2, <1>3, <1>4, <1>5, Zenon
=============================================================================
