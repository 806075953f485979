---------------------------- MODULE OutcomeProofs -----------------------------
(***************************************************************************)
(* What a step of the engine may do, for any jobs, steps, limits and       *)
(* bounds, given that Inv holds before and after it.  Every change of a    *)
(* job's record is one event met by one cell of the table (StepShape);     *)
(* what the cells have in common is stated once (the lemmas on the table). *)
(* Then, in this order: how a job's step is torn down and how the job      *)
(* ends; what the event loop does not miss, a cancel or an exit; what the  *)
(* scheduler grants; and that every step is one of the contract Workflow.  *)
(***************************************************************************)
EXTENDS LifecycleModel, Contract, TLAPS

Term == StepStopping \cup SettlingTerm

-----------------------------------------------------------------------------
(* The table *)

\* qwe_lc_lookup: SIGKILL is only for a step in its grace period and only when
\* the period has run out; a grace period starts with SIGTERM, for a running
\* step only; and a state in which the group has had SIGTERM and not SIGKILL is
\* entered with a SIGTERM or from such a state.
LEMMA TableStops ==
  ASSUME NEW s \in States, NEW e \in Events, NEW p,
         NEW c, c = Lookup(s, e, p), c.kind # "impossible"
  PROVE  /\ "sigkill-group" \in c.actions =>
              e = "grace-expired" /\ s \in Term /\ c.next \in StepKilling \cup SettlingKill
         /\ "arm-grace" \in c.actions =>
              s \in StepRunning /\ "sigterm-group" \in c.actions
         /\ "sigterm-group" \in c.actions => "sigkill-group" \notin c.actions
         /\ "spawn-step" \in c.actions => s = "between-steps" /\ c.actions = {"spawn-step"}
         /\ c.next \in Term => s \in Term \/ "sigterm-group" \in c.actions
         /\ c.next \in StepStates /\ s \notin StepStates => c.actions = {"spawn-step"}
<1> USE DEF Term, T, I, X, Stop, End, StepRunning, StepStopping, StepKilling, SettlingTerm,
            SettlingKill, Settling, StepStates
<1>1. CASE s \in {"pending", "ready", "between-steps"}
  <2>1. CASE s = "pending"
    <3>1. c = PendingRow(e, p)
      BY <2>1 DEF Lookup
    <3> QED
      BY <2>1, <3>1 DEF PendingRow
  <2>2. CASE s = "ready"
    <3>1. c = ReadyRow(e, p)
      BY <2>2 DEF Lookup
    <3> QED
      BY <2>2, <3>1 DEF ReadyRow
  <2>3. CASE s = "between-steps"
    <3>1. c = BetweenStepsRow(e, p)
      BY <2>3, ZenonT(30) DEF Lookup
    <3> QED
      BY <2>3, <3>1 DEF BetweenStepsRow
  <2> QED
    BY <1>1, <2>1, <2>2, <2>3
<1>2. CASE s \in StepRunning
  BY <1>2, ZenonT(30) DEF Lookup, StepRunningRow
<1>3. CASE s \in StepStopping
  BY <1>3, ZenonT(30) DEF Lookup, StepStoppingRow
<1>4. CASE s \in StepKilling
  BY <1>4, ZenonT(30) DEF Lookup, StepKillingRow
<1>5. CASE s \in SettlingTerm
  BY <1>5, ZenonT(30) DEF Lookup, SettlingRow, Kill, ByTimeout, ByCancel
<1>6. CASE s \in SettlingKill
  <2>1. \E t, d, g : /\ t \in {X, I(s), ByTimeout("kill")} /\ d \in {I(s), ByCancel("kill")}
                     /\ g.next \in {"between-steps", "failed", "cancelled"} /\ g.actions \in {{}, End}
                     /\ c = SettlingRow(s, t, d, X, g, e)
    BY <1>6, ZenonT(30) DEF Lookup
  <2> QED
    BY <1>6, <2>1 DEF SettlingRow, ByTimeout, ByCancel
<1>7. CASE s \in Final
  BY <1>7, ZenonT(30) DEF Lookup, FinalRow, Final
<1>8. \/ s \in {"pending", "ready", "between-steps"} \/ s \in StepRunning \/ s \in StepStopping
      \/ s \in StepKilling \/ s \in SettlingTerm \/ s \in SettlingKill \/ s \in Final
  BY DEF States, Running
<1> QED
  BY ONLY <1>1, <1>2, <1>3, <1>4, <1>5, <1>6, <1>7, <1>8, Zenon

\* The cell c of state s and event e ranks the triggers: a cancel leads to its
\* own states or ends the job, and nothing leads out of them but that end; a job
\* timeout likewise, but for a cancel; and an end of a job that runs is the one
\* its state or the event stands for.
Ranks(s, e, c) ==
  /\ e = "cancel" => c.next \in SettlingCancelRequested \cup Final
  /\ e = "job-timeout" =>
       /\ s \in Running
       /\ c.next \in SettlingCancelTimeout \cup SettlingCancelRequested \cup Final
  /\ s \in SettlingCancelRequested => c.next \in SettlingCancelRequested \cup Final
  /\ s \in SettlingCancelTimeout =>
       c.next \in SettlingCancelTimeout \cup SettlingCancelRequested \cup Final
  /\ c.next \in SettlingCancelRequested => s \in SettlingCancelRequested \/ e = "cancel"
  /\ c.next \in SettlingCancelTimeout => s \in SettlingCancelTimeout \/ e = "job-timeout"
  /\ c.next \in Waiting => s \in Waiting /\ e # "cancel"
  /\ c.next \in Running => s \in Running \/ (s = "ready" /\ e = "slot-granted")
  /\ s \in Running /\ c.next \in Final =>
       /\ "record-job" \in c.actions
       /\ IF e = "cancel" \/ s \in SettlingCancelRequested
          THEN c.next = "cancelled" /\ c.reason = "cancel-requested"
          ELSE IF e = "job-timeout" \/ s \in SettlingCancelTimeout
          THEN c.next = "cancelled" /\ c.reason = "timeout"
          ELSE c.next \in {"success", "failed"}

\* Every cell of the table ranks them so.
LEMMA TableRanks ==
  ASSUME NEW s \in States, NEW e \in Events, NEW p,
         NEW c, c = Lookup(s, e, p), c.kind # "impossible"
  PROVE  Ranks(s, e, c)
<1> USE DEF Ranks, Waiting, T, I, X, Stop, End, StepRunning, StepStopping, StepKilling,
            SettlingTerm, SettlingKill, Settling, StepStates, Running, Final,
            SettlingCancelRequested, SettlingCancelTimeout
<1>1. CASE s = "pending"
  <2>1. c = PendingRow(e, p)
    BY <1>1 DEF Lookup
  <2> QED
    BY <1>1, <2>1 DEF PendingRow
<1>2. CASE s = "ready"
  <2>1. c = ReadyRow(e, p)
    BY <1>2 DEF Lookup
  <2> QED
    BY <1>2, <2>1 DEF ReadyRow
<1>3. CASE s = "between-steps"
  <2>1. c = BetweenStepsRow(e, p)
    BY <1>3 DEF Lookup
  <2> QED
    BY <1>3, <2>1 DEF BetweenStepsRow
<1>4. CASE s \in StepRunning
  <2>1. \E a, b : /\ a \in {"settling-fail-term", "settling-continue-term"} /\ b \in StepStopping
                  /\ c = StepRunningRow(a, b, e, p)
    BY <1>4 DEF Lookup
  <2> QED
    BY <1>4, <2>1 DEF StepRunningRow
<1>5. CASE s \in StepStopping
  <2>1. \E a, b : /\ a \in {"settling-fail-term", "settling-continue-term"} /\ b \in StepKilling
                  /\ c = StepStoppingRow(a, b, e)
    BY <1>5 DEF Lookup
  <2> QED
    BY <1>5, <2>1 DEF StepStoppingRow
<1>6. CASE s \in StepKilling
  <2>1. \E a : /\ a \in {"settling-fail-kill", "settling-continue-kill"}
               /\ c = StepKillingRow(a, e)
    BY <1>6 DEF Lookup
  <2> QED
    BY <1>6, <2>1 DEF StepKillingRow
<1>7. CASE s \in {"settling-continue-term", "settling-continue-kill", "settling-fail-term",
                  "settling-fail-kill"}
  <2>1. \E phase, x, g : /\ phase \in {"term", "kill"}
                         /\ x \in {X, Kill("settling-continue-kill"), Kill("settling-fail-kill")}
                         /\ g \in {T("between-steps", "none", {}), T("failed", p.carried, End)}
                         /\ c = SettlingRow(s, ByTimeout(phase), ByCancel(phase), x, g, e)
    BY <1>7 DEF Lookup
  <2> QED
    BY <1>7, <2>1 DEF SettlingRow, Kill, ByTimeout, ByCancel
<1>8. CASE s \in SettlingCancelTimeout
  <2>1. \E phase, x : /\ phase \in {"term", "kill"}
                      /\ x \in {X, Kill("settling-cancel-timeout-kill")}
                      /\ c = SettlingRow(s, X, ByCancel(phase), x,
                                         T("cancelled", "timeout", End), e)
    BY <1>8 DEF Lookup
  <2> QED
    BY <1>8, <2>1 DEF SettlingRow, Kill, ByCancel
<1>9. CASE s \in SettlingCancelRequested
  <2>1. \E x : /\ x \in {X, Kill("settling-cancel-requested-kill")}
               /\ c = SettlingRow(s, I(s), I(s), x, T("cancelled", "cancel-requested", End), e)
    BY <1>9, ZenonT(30) DEF Lookup
  <2> QED
    BY <1>9, <2>1 DEF SettlingRow, Kill
<1>10. CASE s \in Final
  BY <1>10, Zenon DEF Lookup, FinalRow
<1>11. \/ s = "pending" \/ s = "ready" \/ s = "between-steps" \/ s \in StepRunning
       \/ s \in StepStopping \/ s \in StepKilling
       \/ s \in {"settling-continue-term", "settling-continue-kill", "settling-fail-term",
                 "settling-fail-kill"}
       \/ s \in SettlingCancelTimeout \/ s \in SettlingCancelRequested \/ s \in Final
  BY DEF States
<1> QED
  BY ONLY <1>1, <1>2, <1>3, <1>4, <1>5, <1>6, <1>7, <1>8, <1>9, <1>10, <1>11, Zenon

\* qwe_lcm_events allows every event that changes a state, and the state it
\* leads to depends on no other payload than continue-on-error.
LEMMA TableTested ==
  ASSUME NEW s \in States, NEW e \in Events, NEW p, p.coe \in BOOLEAN,
         NEW c, c = Lookup(s, e, p), c.kind # "impossible", c.next # s
  PROVE  c.next \in LcmNext(s)
<1> DEFINE q == [NoPayload EXCEPT !.coe = p.coe]
           d == Lookup(s, e, q)
<1> SUFFICES e \in LcmEvents(s) /\ c.next = d.next
  BY DEF LcmNext
<1>0. q.coe = p.coe
  BY DEF NoPayload
<1> HIDE DEF q
<1> USE DEF LcmEvents, StepTimerMayFire, JobTimerMayFire, GraceTimerRunning,
            WaitingForEmptyGroup, T, I, X, StepRunning, StepStopping, StepKilling,
            SettlingTerm, SettlingKill, Settling, StepStates, Running, Final,
            SettlingCancelTimeout
<1>1. CASE s = "pending"
  <2>1. c = PendingRow(e, p) /\ d = PendingRow(e, q)
    BY <1>1 DEF Lookup
  <2> QED
    BY <1>1, <2>1 DEF PendingRow
<1>2. CASE s = "ready"
  <2>1. c = ReadyRow(e, p) /\ d = ReadyRow(e, q)
    BY <1>2 DEF Lookup
  <2> QED
    BY <1>2, <2>1 DEF ReadyRow
<1>3. CASE s = "between-steps"
  <2>1. c = BetweenStepsRow(e, p) /\ d = BetweenStepsRow(e, q)
    BY <1>3 DEF Lookup
  <2> QED
    BY <1>0, <1>3, <2>1 DEF BetweenStepsRow
<1>4. CASE s \in StepRunning
  <2>1. \E a, b : c = StepRunningRow(a, b, e, p) /\ d = StepRunningRow(a, b, e, q)
    BY <1>4, Zenon DEF Lookup
  <2> QED
    BY <1>4, <2>1 DEF StepRunningRow
<1>5. CASE s \in StepStopping
  <2>1. \E a, b : c = StepStoppingRow(a, b, e) /\ d = StepStoppingRow(a, b, e)
    BY <1>5, Zenon DEF Lookup
  <2> QED
    BY <1>5, <2>1 DEF StepStoppingRow
<1>6. CASE s \in StepKilling
  <2>1. \E a : c = StepKillingRow(a, e) /\ d = StepKillingRow(a, e)
    BY <1>6, Zenon DEF Lookup
  <2> QED
    BY <1>6, <2>1 DEF StepKillingRow
<1>7. CASE s \in Settling
  <2> HIDE DEF T, I, X, LcmEvents
  <2>1. CASE s \in {"settling-continue-term", "settling-continue-kill"}
    <3>1. \E t, k, x, g : /\ c = SettlingRow(s, t, k, x, g, e) /\ d = SettlingRow(s, t, k, x, g, e)
                          /\ s = "settling-continue-kill" => x = X
      BY <2>1, Zenon DEF Lookup
    <3> QED
      BY <2>1, <3>1 DEF SettlingRow, I, X, LcmEvents
  <2>2. CASE s \in {"settling-fail-term", "settling-fail-kill"}
    <3>1. \E t, k, x : /\ c = SettlingRow(s, t, k, x, T("failed", p.carried, End), e)
                       /\ d = SettlingRow(s, t, k, x, T("failed", q.carried, End), e)
                       /\ s = "settling-fail-kill" => x = X
      BY <2>2 DEF Lookup
    <3> QED
      BY <2>2, <3>1 DEF SettlingRow, T, I, X, LcmEvents
  <2>3. CASE s \in SettlingCancelTimeout
    <3>1. \E k, x, g : /\ c = SettlingRow(s, X, k, x, g, e) /\ d = SettlingRow(s, X, k, x, g, e)
                       /\ s = "settling-cancel-timeout-kill" => x = X
      BY <2>3, Zenon DEF Lookup
    <3> QED
      BY <2>3, <3>1 DEF SettlingRow, I, X, LcmEvents
  <2>4. CASE s \in SettlingCancelRequested
    <3>1. \E x, g : /\ c = SettlingRow(s, I(s), I(s), x, g, e)
                    /\ d = SettlingRow(s, I(s), I(s), x, g, e)
                    /\ s = "settling-cancel-requested-kill" => x = X
      BY <2>4, Zenon DEF Lookup, SettlingCancelRequested
    <3> QED
      BY <2>4, <3>1 DEF SettlingRow, I, X, LcmEvents, SettlingCancelRequested
  <2> QED
    BY <1>7, <2>1, <2>2, <2>3, <2>4 DEF SettlingCancelRequested
<1>8. CASE s \in Final
  <2>1. c = FinalRow(s, e)
    BY <1>8 DEF Lookup
  <2> QED
    BY <1>8, <2>1 DEF FinalRow
<1>9. \/ s = "pending" \/ s = "ready" \/ s = "between-steps" \/ s \in StepRunning
      \/ s \in StepStopping \/ s \in StepKilling \/ s \in Settling \/ s \in Final
  BY Zenon DEF States
<1> QED
  BY ONLY <1>1, <1>2, <1>3, <1>4, <1>5, <1>6, <1>7, <1>8, <1>9

-----------------------------------------------------------------------------
(* The record *)

\* q says the same as r of the job's state, its triggers, its reason and the
\* signals its step was sent, and has armed no grace timer.
Agrees(r, q) ==
  /\ DOMAIN q = DOMAIN r
  /\ q.state = r.state /\ q.cancelTold = r.cancelTold /\ q.timeoutTold = r.timeoutTold
  /\ q.reason = r.reason /\ q.sent = r.sent
  /\ q.graceTimer = "armed" => r.graceTimer = "armed"

\* The fields these are about.
Named == {"state", "cancelTold", "timeoutTold", "reason", "sent", "graceTimer"}

\* Neither starting a job, nor recording or finishing a step, nor the end of a
\* job touches them (job_start, record_step, step_finish, job_end).
LEMMA ActionsAgree ==
  ASSUME NEW r, Named \subseteq DOMAIN r
  PROVE  /\ \A j, f : Agrees(r, StartJob(j, r, f))
         /\ \A c : Agrees(r, RecordStep(r, c))
         /\ Agrees(r, StepFinish(r))
         /\ Agrees(r, JobEnd(r))
<1> USE DEF Named, Agrees
<1>1. \A j, f : Agrees(r, StartJob(j, r, f))
  BY DEF StartJob
<1>2. \A c : Agrees(r, RecordStep(r, c))
  BY DEF RecordStep
<1>3. Agrees(r, StepFinish(r))
  BY DEF StepFinish
<1>4. Agrees(r, JobEnd(r))
  <2> DEFINE g == StepFinish(r)
  <2>1. Agrees(r, g)
    BY <1>3
  <2> HIDE DEF g
  <2>2. \A steps : Agrees(g, [g EXCEPT !.jobTimer = "closed", !.steps = steps])
    BY <2>1
  <2> QED
    BY <2>1, <2>2 DEF JobEnd, g
<1> QED
  BY <1>1, <1>2, <1>3, <1>4

\* The actions of a cell, in the order dispatch_one applies them: what they
\* leave of these fields.
LEMMA ApplyTells ==
  ASSUME NEW j, NEW r, Named \subseteq DOMAIN r, NEW c, NEW f,
         NEW q, q = Apply(j, r, c, f)
  PROVE  /\ DOMAIN q = DOMAIN r
         /\ q.state = r.state /\ q.cancelTold = r.cancelTold /\ q.timeoutTold = r.timeoutTold
         /\ "record-job" \in c.actions => q.reason = c.reason
         /\ "sigkill-group" \notin c.actions =>
              /\ "sigterm-group" \in c.actions => q.sent = "term"
              /\ "sigterm-group" \notin c.actions /\ "spawn-step" \notin c.actions => q.sent = r.sent
              /\ q.sent = "kill" => r.sent = "kill"
         /\ q.graceTimer = "armed" => r.graceTimer = "armed" \/ "arm-grace" \in c.actions
<1> DEFINE a1 == IF "start-job" \in c.actions THEN StartJob(j, r, f) ELSE r
           a2 == IF "spawn-step" \in c.actions THEN SpawnStep(j, a1, f) ELSE a1
           a3 == IF "sigterm-group" \in c.actions THEN [a2 EXCEPT !.sent = "term"] ELSE a2
           a4 == IF "arm-grace" \in c.actions THEN [a3 EXCEPT !.graceTimer = "armed"] ELSE a3
           a5 == IF "sigkill-group" \in c.actions THEN [a4 EXCEPT !.sent = "kill"] ELSE a4
           a6 == IF "record-step" \in c.actions THEN RecordStep(a5, c) ELSE a5
           a7 == IF "record-job" \in c.actions THEN [a6 EXCEPT !.reason = c.reason] ELSE a6
<1>q. q = IF "end-job" \in c.actions THEN JobEnd(a7) ELSE a7
  BY Zenon DEF Apply
<1>1. Agrees(r, a1)
  BY ActionsAgree DEF Agrees
<1> HIDE DEF a1
<1>2. /\ DOMAIN a2 = DOMAIN r
      /\ a2.state = r.state /\ a2.cancelTold = r.cancelTold /\ a2.timeoutTold = r.timeoutTold
      /\ a2.sent = r.sent \/ ("spawn-step" \in c.actions /\ a2.sent = "none")
      /\ a2.graceTimer = "armed" => r.graceTimer = "armed"
  BY <1>1 DEF Agrees, SpawnStep, Named
<1> HIDE DEF a2
<1>3. /\ DOMAIN a5 = DOMAIN r
      /\ a5.state = r.state /\ a5.cancelTold = r.cancelTold /\ a5.timeoutTold = r.timeoutTold
      /\ "sigkill-group" \notin c.actions =>
           a5.sent = IF "sigterm-group" \in c.actions THEN "term" ELSE a2.sent
      /\ a5.graceTimer = "armed" => a2.graceTimer = "armed" \/ "arm-grace" \in c.actions
  BY <1>2, Zenon DEF Named
<1> HIDE DEF a5
<1>4. Agrees(a5, a6)
  BY <1>3, ActionsAgree, SMTT(30) DEF Agrees
<1> HIDE DEF a6
<1>5. /\ DOMAIN a7 = DOMAIN r
      /\ a7.state = r.state /\ a7.cancelTold = r.cancelTold /\ a7.timeoutTold = r.timeoutTold
      /\ a7.sent = a5.sent /\ (a7.graceTimer = "armed" => a5.graceTimer = "armed")
      /\ "record-job" \in c.actions => a7.reason = c.reason
  BY <1>3, <1>4 DEF Agrees, Named
<1> HIDE DEF a7
<1>6. Agrees(a7, q)
  BY <1>5, <1>q, ActionsAgree, ZenonT(30) DEF Agrees
<1> QED
  BY <1>2, <1>3, <1>5, <1>6, ZenonT(30) DEF Agrees

\* What the cell c of event e makes of a record r that becomes q.
Tells(r, e, c, q) ==
  /\ q.state = c.next
  /\ q.cancelTold = (r.cancelTold \/ e = "cancel")
  /\ q.timeoutTold = (r.timeoutTold \/ e = "job-timeout")
  /\ "record-job" \in c.actions => q.reason = c.reason
  /\ "sigkill-group" \notin c.actions =>
       /\ "sigterm-group" \in c.actions => q.sent = "term"
       /\ "sigterm-group" \notin c.actions /\ "spawn-step" \notin c.actions => q.sent = r.sent
       /\ q.sent = "kill" => r.sent = "kill"
  /\ q.graceTimer = "armed" => r.graceTimer = "armed" \/ "arm-grace" \in c.actions

\* dispatch_one as a whole.
LEMMA TransitionTells ==
  ASSUME NEW j, NEW r, Named \subseteq DOMAIN r, NEW e, NEW p, NEW f
  PROVE  Tells(r, e, Cell(r, e, p), Transition(j, r, e, p, f))
<1> DEFINE c == Cell(r, e, p)
           q == Transition(j, r, e, p, f)
           t == Told(r, e, c)
           u == IF e = "group-empty" THEN StepFinish(t) ELSE t
<1>1. q = Apply(j, u, c, f)
  BY DEF Transition
<1>2. /\ DOMAIN t = DOMAIN r
      /\ t.state = c.next
      /\ t.cancelTold = (r.cancelTold \/ e = "cancel")
      /\ t.timeoutTold = (r.timeoutTold \/ e = "job-timeout")
      /\ t.sent = r.sent /\ t.graceTimer = r.graceTimer
  BY Zenon DEF Told, Named
<1> HIDE DEF t, q, c
<1>3. Agrees(t, u)
  BY <1>2, ActionsAgree, Zenon DEF Agrees
<1> HIDE DEF u
<1>4. Named \subseteq DOMAIN u
  BY <1>2, <1>3, Zenon DEF Agrees
<1>5. /\ q.state = u.state /\ q.cancelTold = u.cancelTold /\ q.timeoutTold = u.timeoutTold
      /\ "record-job" \in c.actions => q.reason = c.reason
      /\ "sigkill-group" \notin c.actions =>
           /\ "sigterm-group" \in c.actions => q.sent = "term"
           /\ "sigterm-group" \notin c.actions /\ "spawn-step" \notin c.actions => q.sent = u.sent
           /\ q.sent = "kill" => u.sent = "kill"
      /\ q.graceTimer = "armed" => u.graceTimer = "armed" \/ "arm-grace" \in c.actions
  BY <1>1, <1>4, ApplyTells
<1> QED
  BY <1>2, <1>3, <1>5 DEF Agrees, Tells, q, c

-----------------------------------------------------------------------------
(* The engine *)

\* Where the events come from that the loop sends of itself.
Caused(j, e) ==
  /\ e \in {"needs-met", "needs-failed", "slot-granted"} =>
       \E ev \in pass : ev.job = j /\ ev.event = e
  /\ e = "skip" => pc = "skip-disabled" /\ j \in todo
  /\ e = "cancel" => pc = "broadcast" \/ run[j].state = "between-steps"

\* A step leaves the record of job j as it is, but for what its handler reads or
\* the operating system does, or it is one event met by one possible cell.
Shape(j) ==
  \/ Agrees(run[j], run'[j])
  \/ \E s, e, p, f :
       /\ Agrees(run[j], s) /\ e \in Events /\ p \in Payloads /\ Caused(j, e)
       /\ Cell(s, e, p).kind # "impossible"
       /\ run'[j] = Transition(j, s, e, p, f)

\* A step is about one job, and reads a cancel only for itself or for a job
\* between two steps.
Single(j) ==
  /\ Shape(j)
  /\ \A k \in Jobs : k # j => run'[k] = run[k]
  /\ cancelRequested' = cancelRequested \/ run' = run \/ run[j].state = "between-steps"

\* dispatch_one changes the record of its job so, and no other.
LEMMA DispatchShape ==
  ASSUME Inv, Inv', NEW j \in Jobs, NEW s, NEW e \in Events, NEW p, NEW step,
         Agrees(run[j], s), p \in Payloads, Caused(j, e), Dispatch(j, s, e, p, step),
         cancelRequested' = cancelRequested \/ run[j].state = "between-steps"
  PROVE  \E k \in Jobs : Single(k)
<1>1. run = [k \in Jobs |-> run[k]]
  BY DEF Inv, TypeOK
<1>2. \A k \in Jobs : k # j => run'[k] = run[k]
  BY <1>1, Zenon DEF Dispatch
<1>3. Shape(j)
  <2>1. aborted' = FALSE
    BY Zenon DEF Inv, TypeOK
  <2>2. CASE IsStale(s.state, e, step, s.live)
    <3>1. run'[j] = s
      BY <1>1, <2>2, Zenon DEF Dispatch
    <3> QED
      BY <3>1 DEF Shape
  <2>3. CASE ~IsStale(s.state, e, step, s.live)
    <3>1. Cell(s, e, p).kind # "impossible"
      BY <2>1, <2>3, Zenon DEF Dispatch
    <3>2. PICK f : run' = [run EXCEPT ![j] = Transition(j, s, e, p, f)]
      BY <2>3, <3>1, Zenon DEF Dispatch
    <3>3. run'[j] = Transition(j, s, e, p, f)
      BY <1>1, <3>2, Zenon
    <3> QED
      BY <3>1, <3>3 DEF Shape
  <2> QED
    BY <2>2, <2>3, Zenon
<1> QED
  BY <1>2, <1>3, Zenon DEF Single

\* The record of a job has the fields these properties are about.
LEMMA RecordNamed ==
  ASSUME Inv, NEW j \in Jobs
  PROVE  /\ Named \subseteq DOMAIN run[j] /\ run[j].state \in States
         /\ run[j] \in JobRuns(j) /\ JobOK(run[j])
<1>1. run[j] \in JobRuns(j) /\ JobOK(run[j])
  BY DEF Inv, TypeOK
<1> QED
  BY <1>1, Zenon DEF JobRuns, Named

\* What the loop hands to dispatch_one with an event.
LEMMA SentPayloads ==
  /\ NoPayload \in Payloads
  /\ \A b \in BOOLEAN : [NoPayload EXCEPT !.coe = b] \in Payloads
  /\ \A y \in Reasons : [NoPayload EXCEPT !.reason = y] \in Payloads
  BY Zenon DEF NoPayload, Payloads, Reasons

\* A step that leaves every record alone.
LEMMA NothingShape ==
  ASSUME run' = run
  PROVE  \E k \in Jobs : Single(k)
<1>1. 1 \in Jobs
  BY SchedAssumption DEF Jobs
<1> QED
  BY <1>1 DEF Single, Shape, Agrees

\* Every step of the engine and its environment is of that shape.
LEMMA StepShape ==
  ASSUME Inv, Inv', [Next]_vars
  PROVE  \E k \in Jobs : Single(k)
<1> USE DEF Agrees, Named
<1>0. NoPayload \in Payloads
  BY SentPayloads, Zenon
<1>1. CASE \/ StartLoop \/ BroadcastDone \/ Schedule \/ EpollWait \/ BatchDone \/ ReapDone
           \/ GroupsDone \/ OperatorCancel \/ StrayExit \/ UNCHANGED vars
  BY <1>1, NothingShape DEF StartLoop, BroadcastDone, Schedule, EpollWait, BatchDone, ReapDone,
     GroupsDone, OperatorCancel, StrayExit, vars
<1>2. ASSUME NEW tag \in batch, CancelEvent(tag) \/ ReadChld(tag)
      PROVE  \E k \in Jobs : Single(k)
  BY <1>2, NothingShape, Zenon DEF CancelEvent, ReadChld
<1>3. ASSUME NEW j \in Jobs, SendStartFailed(j)
      PROVE  \E k \in Jobs : Single(k)
  <2> DEFINE s == [run[j] EXCEPT !.followup = FALSE]
  <2>1. Agrees(run[j], s) /\ "start-failed" \in Events /\ Caused(j, "start-failed")
    BY RecordNamed DEF Events, Caused
  <2>2. Dispatch(j, s, "start-failed", NoPayload, NoStep) /\ cancelRequested' = cancelRequested
    BY <1>3 DEF SendStartFailed
  <2> HIDE DEF s, Agrees
  <2> QED
    BY <1>0, <2>1, <2>2, DispatchShape, Zenon
<1>4. ASSUME NEW j \in Jobs, BetweenSteps(j)
      PROVE  \E k \in Jobs : Single(k)
  <2>1. PICK s, e, p : /\ e \in {"cancel", "job-timeout", "next-step", "no-more-steps"}
                       /\ s \in {run[j], [run[j] EXCEPT !.jobTimer = Read(@)]}
                       /\ \/ p = NoPayload
                          \/ /\ run[j].cur <= NSteps[j]
                             /\ p = [NoPayload EXCEPT !.coe = Coe[j][run[j].cur]]
                       /\ Dispatch(j, s, e, p, NoStep) /\ run[j].state = "between-steps"
    BY <1>4 DEF BetweenSteps
  <2>2. Agrees(run[j], s) /\ e \in Events /\ Caused(j, e)
    BY <2>1, RecordNamed, Zenon DEF Events, Caused
  <2>3. run[j].cur <= NSteps[j] => Coe[j][run[j].cur] \in BOOLEAN
    BY RecordNamed, EngineAssumption DEF JobRuns
  <2>4. p \in Payloads
    BY <2>1, <2>3, SentPayloads, Zenon
  <2> HIDE DEF Agrees
  <2> QED
    BY <2>1, <2>2, <2>4, DispatchShape, ZenonT(30)
<1>5. ASSUME NEW j \in Jobs, SkipDisabled(j) \/ BroadcastCancel(j)
      PROVE  \E k \in Jobs : Single(k)
  <2>0. [NoPayload EXCEPT !.reason = "target-disabled"] \in Payloads
    BY SentPayloads DEF Reasons
  <2>1. PICK e, p : /\ e \in {"skip", "cancel"} /\ p \in Payloads
                    /\ Dispatch(j, run[j], e, p, NoStep) /\ cancelRequested' = cancelRequested
                    /\ e = "skip" => pc = "skip-disabled" /\ j \in todo
                    /\ e = "cancel" => pc = "broadcast"
    BY <1>0, <1>5, <2>0 DEF SkipDisabled, BroadcastCancel
  <2>2. e \in Events /\ Caused(j, e) /\ Agrees(run[j], run[j])
    BY <2>1, Zenon DEF Events, Caused
  <2> HIDE DEF Agrees
  <2> QED
    BY <2>1, <2>2, DispatchShape, Zenon
<1>6. ASSUME NEW j \in Jobs, SendPass(j)
      PROVE  \E k \in Jobs : Single(k)
  <2>1. PICK ev \in pass : /\ ev.job = j /\ Dispatch(j, run[j], ev.event, NoPayload, NoStep)
                           /\ cancelRequested' = cancelRequested
    BY <1>6, Zenon DEF SendPass
  <2>2. ev.event \in {"needs-met", "needs-failed", "slot-granted"}
    BY Zenon DEF Inv, TypeOK
  <2>3. ev.event \in Events /\ Caused(j, ev.event) /\ Agrees(run[j], run[j])
    BY <2>1, <2>2, Zenon DEF Events, Caused
  <2> HIDE DEF Agrees
  <2> QED
    BY <1>0, <2>1, <2>3, DispatchShape, Zenon
<1>7. ASSUME NEW j \in Jobs, ReapLeader(j)
      PROVE  \E k \in Jobs : Single(k)
  <2> DEFINE s == [run[j] EXCEPT !.leader = "reaped"]
  <2>1. PICK e, p : /\ e \in {"leader-exit-ok", "leader-exit-fail"} /\ p \in Payloads
                    /\ Dispatch(j, s, e, p, s.live) /\ cancelRequested' = cancelRequested
    <3>1. \A why \in ExitReasons : [NoPayload EXCEPT !.reason = why] \in Payloads
      BY SentPayloads DEF Reasons
    <3> QED
      BY <1>0, <1>7, <3>1, Zenon DEF ReapLeader
  <2>2. Agrees(run[j], s) /\ e \in Events /\ Caused(j, e)
    BY <2>1, RecordNamed, Zenon DEF Events, StepScoped, Caused
  <2> HIDE DEF s, Agrees
  <2> QED
    BY <2>1, <2>2, DispatchShape
<1>8. ASSUME NEW j \in Jobs, CheckGroup(j)
      PROVE  \E k \in Jobs : Single(k)
  <2>1. /\ run' = run \/ Dispatch(j, run[j], "group-empty", NoPayload, run[j].live)
        /\ cancelRequested' = cancelRequested
    BY <1>8 DEF CheckGroup
  <2>2. "group-empty" \in Events /\ Caused(j, "group-empty") /\ Agrees(run[j], run[j])
    BY DEF Events, StepScoped, Caused
  <2> HIDE DEF Agrees
  <2> QED
    BY <1>0, <2>1, <2>2, DispatchShape, NothingShape, Zenon
<1>9. ASSUME NEW tag \in batch, JobEvent(tag)
      PROVE  \E k \in Jobs : Single(k)
  <2> DEFINE r == run[tag.job]
  <2>1. tag.job \in Jobs /\ cancelRequested' = cancelRequested
    BY <1>9, ZenonT(30) DEF Inv, JobEvent, StepTimerEvent, GraceTimerEvent, JobTimerEvent
  <2>2. run' = run \/ \E s, e :
          /\ e \in {"step-timeout", "grace-expired", "job-timeout"}
          /\ s \in {r, [r EXCEPT !.stepTimer = Read(@)], [r EXCEPT !.graceTimer = Read(@)],
                    [r EXCEPT !.jobTimer = Read(@)]}
          /\ \E step : Dispatch(tag.job, s, e, NoPayload, step)
    BY <1>9 DEF JobEvent, StepTimerEvent, GraceTimerEvent, JobTimerEvent
  <2>3. CASE run' = run
    BY <2>3, NothingShape
  <2>4. CASE run' # run
    <3>1. PICK s, e, step :
            /\ e \in {"step-timeout", "grace-expired", "job-timeout"}
            /\ s \in {r, [r EXCEPT !.stepTimer = Read(@)], [r EXCEPT !.graceTimer = Read(@)],
                      [r EXCEPT !.jobTimer = Read(@)]}
            /\ Dispatch(tag.job, s, e, NoPayload, step)
      BY <2>2, <2>4
    <3>2. Named \subseteq DOMAIN r
      BY <2>1, RecordNamed
    <3> HIDE DEF r
    <3>3. Agrees(r, s) /\ e \in Events /\ Caused(tag.job, e)
      BY <3>1, <3>2, Zenon DEF Events, StepScoped, Read, Caused
    <3> HIDE DEF Agrees
    <3> QED
      BY <1>0, <2>1, <3>1, <3>3, DispatchShape, Zenon DEF r
  <2> QED
    BY <2>3, <2>4, Zenon
<1>10. ASSUME NEW j \in Jobs,
              \/ Fork(j) \/ LeaderExit(j) \/ MemberExit(j) \/ Setsid(j)
              \/ JobTimerElapses(j) \/ StepTimerElapses(j) \/ GraceElapses(j)
       PROVE  \E k \in Jobs : Single(k)
  <2>1. Named \subseteq DOMAIN run[j] /\ run = [k \in Jobs |-> run[k]]
    BY RecordNamed DEF Inv, TypeOK
  <2>2. /\ \A k \in Jobs : k # j => run'[k] = run[k]
        /\ Agrees(run[j], run'[j]) /\ cancelRequested' = cancelRequested
    BY <1>10, <2>1 DEF Fork, LeaderExit, MemberExit, Setsid, JobTimerElapses, StepTimerElapses,
       GraceElapses
  <2> QED
    BY <2>2, Zenon DEF Shape, Single
<1> QED
  BY <1>1, <1>2, <1>3, <1>4, <1>5, <1>6, <1>7, <1>8, <1>9, <1>10, Zenon
     DEF Next, EngineStep, Environment, Stopped

-----------------------------------------------------------------------------
(* How a job ends *)

\* What Inv leaves open of a job's record: a group in its grace period has been
\* sent SIGTERM and no SIGKILL, and a trigger that was told to a running job
\* has decided its outcome, the strongest one if there are two.
TriggerOK(r) ==
  /\ r.state \in Term => r.sent = "term"
  /\ r.state \in Waiting => ~r.cancelTold /\ ~r.timeoutTold
  /\ r.state \in Running /\ r.cancelTold => r.state \in SettlingCancelRequested
  /\ r.state \in Running /\ r.timeoutTold =>
       r.state \in SettlingCancelTimeout \cup SettlingCancelRequested
  /\ r.state \in SettlingCancelRequested => r.cancelTold
  /\ r.state \in SettlingCancelTimeout => r.timeoutTold

TriggerInv == \A j \in Jobs : TriggerOK(run[j])

\* The three ranges of states.
LEMMA StateRanges ==
  /\ States = Waiting \cup Running \cup Final
  /\ Term \subseteq Running /\ StepRunning \subseteq Running
  /\ SettlingCancelRequested \cup SettlingCancelTimeout \subseteq Running
  /\ Waiting \cap Running = {} /\ Final \cap Running = {} /\ Waiting \cap Final = {}
  /\ SettlingCancelRequested \cap SettlingCancelTimeout = {}
  /\ (StepKilling \cup SettlingKill) \cap Term = {} /\ StepRunning \cap Term = {}
  /\ StepRunning \subseteq StepStates
  BY Zenon DEF States, Waiting, Running, Final, Term, StepStates, StepRunning, StepStopping, StepKilling,
         Settling, SettlingTerm, SettlingKill, SettlingCancelRequested, SettlingCancelTimeout

\* A job that is waiting has been told nothing.
LEMMA InitTrigger == Init => TriggerInv
  BY SMTT(30) DEF Init, TriggerInv, TriggerOK, NewRun, Term, Waiting, Running, StepStates,
     StepRunning,
         StepStopping, StepKilling, Settling, SettlingTerm, SettlingKill,
         SettlingCancelRequested, SettlingCancelTimeout

\* What a step may do to a job's record r, which is q after it: these facts
\* hold, SIGKILL follows SIGTERM and leads to a killing state, only a running
\* step's grace timer is armed, the strongest trigger decides the end, and the
\* new state is one the tests explore.
Outcome(r, q) ==
  /\ TriggerOK(q)
  /\ q.sent = "kill" /\ r.sent # "kill" =>
       r.sent = "term" /\ q.state \in StepKilling \cup SettlingKill
  /\ q.graceTimer = "armed" => r.graceTimer = "armed" \/ r.state \in StepRunning
  /\ r.state \in Running /\ q.state \in Final =>
       IF q.cancelTold THEN q.state = "cancelled" /\ q.reason = "cancel-requested"
       ELSE IF q.timeoutTold THEN q.state = "cancelled" /\ q.reason = "timeout"
       ELSE q.state \in {"success", "failed"}
  /\ q.state # r.state => q.state \in LcmNext(r.state)

\* One event met by one possible cell does no more than that.
LEMMA CellOutcome ==
  ASSUME NEW j, NEW r, NEW s, NEW e \in Events, NEW p, NEW f, NEW q,
         Named \subseteq DOMAIN r, r.state \in States, r.cancelTold \in BOOLEAN,
         r.timeoutTold \in BOOLEAN, Agrees(r, s), p \in Payloads, TriggerOK(r),
         Cell(s, e, p).kind # "impossible", q = Transition(j, s, e, p, f)
  PROVE  Outcome(r, q)
<1> DEFINE c == Cell(s, e, p)
           l == [p EXCEPT !.carried = s.lastReason]
<1>1. c = Lookup(r.state, e, l)
  BY DEF Cell, Agrees
<1>2. l.coe \in BOOLEAN
  BY Zenon DEF Payloads
<1> HIDE DEF l
<1>3. Named \subseteq DOMAIN s /\ s.state = r.state /\ s.sent = r.sent
      /\ s.cancelTold = r.cancelTold /\ s.timeoutTold = r.timeoutTold
      /\ (s.graceTimer = "armed" => r.graceTimer = "armed")
  BY DEF Agrees
<1>4. PICK d : d = c
  OBVIOUS
<1> HIDE DEF c
<1>5. d = Cell(s, e, p) /\ d = Lookup(r.state, e, l) /\ d.kind # "impossible"
  BY <1>1, <1>4, Zenon DEF c
<1>6. /\ "sigkill-group" \in d.actions =>
           e = "grace-expired" /\ r.state \in Term /\ d.next \in StepKilling \cup SettlingKill
      /\ "arm-grace" \in d.actions => r.state \in StepRunning
      /\ "spawn-step" \in d.actions => r.state = "between-steps" /\ d.actions = {"spawn-step"}
      /\ d.next \in Term => r.state \in Term \/ "sigterm-group" \in d.actions
  BY <1>5, TableStops
<1>7. Ranks(r.state, e, d)
  BY <1>5, TableRanks, Zenon
<1>8. d.next # r.state => d.next \in LcmNext(r.state)
  BY <1>2, <1>5, TableTested
<1>u. Tells(s, e, d, q)
  BY <1>3, <1>5, TransitionTells, Zenon
<1>9. /\ q.state = d.next
      /\ "record-job" \in d.actions => q.reason = d.reason
      /\ "sigkill-group" \notin d.actions =>
           /\ "sigterm-group" \in d.actions => q.sent = "term"
           /\ "sigterm-group" \notin d.actions /\ "spawn-step" \notin d.actions => q.sent = r.sent
           /\ q.sent = "kill" => r.sent = "kill"
      /\ q.graceTimer = "armed" => r.graceTimer = "armed" \/ "arm-grace" \in d.actions
  BY ONLY <1>3, <1>u, Zenon DEF Tells
<1>10. q.state \in Term => q.sent = "term"
  <2>1. "between-steps" \notin Term
    BY DEF Term, StepStopping, SettlingTerm
  <2> QED
    BY <1>6, <1>9, <2>1, StateRanges DEF TriggerOK
<1>c. q.cancelTold <=> r.cancelTold \/ e = "cancel"
  BY ONLY <1>3, <1>u, Zenon DEF Tells
<1>t. q.timeoutTold <=> r.timeoutTold \/ e = "job-timeout"
  BY ONLY <1>3, <1>u, Zenon DEF Tells
<1>11. TriggerOK(q)
  <2>1. q.state \in Waiting => ~q.cancelTold /\ ~q.timeoutTold
    BY <1>7, <1>9, <1>c, <1>t, StateRanges, ZenonT(30) DEF TriggerOK, Ranks
  <2>2. q.state \in Running /\ q.cancelTold => q.state \in SettlingCancelRequested
    BY <1>7, <1>9, <1>c, StateRanges, ZenonT(30) DEF TriggerOK, Ranks, Waiting
  <2>3. q.state \in Running /\ q.timeoutTold =>
          q.state \in SettlingCancelTimeout \cup SettlingCancelRequested
    BY <1>7, <1>9, <1>t, StateRanges, ZenonT(30) DEF TriggerOK, Ranks, Waiting
  <2>4. /\ q.state \in SettlingCancelRequested => q.cancelTold
        /\ q.state \in SettlingCancelTimeout => q.timeoutTold
    BY <1>7, <1>9, <1>c, <1>t, ZenonT(30) DEF TriggerOK, Ranks
  <2> QED
    BY <1>10, <2>1, <2>2, <2>3, <2>4, ZenonT(30) DEF TriggerOK
<1>12. r.state \in Running /\ q.state \in Final =>
         IF q.cancelTold THEN q.state = "cancelled" /\ q.reason = "cancel-requested"
         ELSE IF q.timeoutTold THEN q.state = "cancelled" /\ q.reason = "timeout"
         ELSE q.state \in {"success", "failed"}
  <2> SUFFICES ASSUME r.state \in Running, q.state \in Final
               PROVE  /\ q.cancelTold => q.state = "cancelled" /\ q.reason = "cancel-requested"
                      /\ ~q.cancelTold /\ q.timeoutTold =>
                           q.state = "cancelled" /\ q.reason = "timeout"
                      /\ ~q.cancelTold /\ ~q.timeoutTold => q.state \in {"success", "failed"}
    BY Zenon
  <2>1. /\ q.reason = d.reason
        /\ IF e = "cancel" \/ r.state \in SettlingCancelRequested
           THEN d.next = "cancelled" /\ d.reason = "cancel-requested"
           ELSE IF e = "job-timeout" \/ r.state \in SettlingCancelTimeout
           THEN d.next = "cancelled" /\ d.reason = "timeout"
           ELSE d.next \in {"success", "failed"}
    BY <1>7, <1>9, Zenon DEF Ranks
  <2>2. /\ q.cancelTold <=> e = "cancel" \/ r.state \in SettlingCancelRequested
        /\ ~q.cancelTold =>
             (q.timeoutTold <=> e = "job-timeout" \/ r.state \in SettlingCancelTimeout)
    BY <1>c, <1>t, Zenon DEF TriggerOK
  <2> QED
    BY <1>9, <2>1, <2>2
<1> QED
  BY <1>6, <1>8, <1>9, <1>11, <1>12, Zenon DEF TriggerOK, Outcome

\* A record that changes in none of these fields keeps the facts.
LEMMA AgreeTrigger ==
  ASSUME NEW r, NEW q, Agrees(r, q), TriggerOK(r)
  PROVE  TriggerOK(q)
  BY Zenon DEF Agrees, TriggerOK

\* Every step does that, and no more, to every job.
LEMMA NextOutcome ==
  ASSUME Inv, Inv', TriggerInv, [Next]_vars
  PROVE  \A j \in Jobs : Outcome(run[j], run'[j])
<1> SUFFICES ASSUME NEW j \in Jobs
             PROVE  Outcome(run[j], run'[j])
  OBVIOUS
<1>1. /\ Named \subseteq DOMAIN run[j] /\ run[j].state \in States
      /\ run[j].cancelTold \in BOOLEAN /\ run[j].timeoutTold \in BOOLEAN
  BY RecordNamed DEF JobRuns
<1>2. TriggerOK(run[j])
  BY DEF TriggerInv
<1>3. Shape(j)
  <2>1. PICK k \in Jobs : Single(k)
    BY StepShape
  <2>2. CASE j = k
    BY <2>1, <2>2, Zenon DEF Single
  <2>3. CASE j # k
    <3>1. run'[j] = run[j]
      BY <2>1, <2>3 DEF Single
    <3>2. Agrees(run[j], run'[j])
      BY <3>1, Zenon DEF Agrees
    <3> QED
      BY <3>2 DEF Shape
  <2> QED
    BY <2>2, <2>3
<1>4. CASE Agrees(run[j], run'[j])
  <2>1. TriggerOK(run'[j])
    BY <1>2, <1>4, AgreeTrigger, ZenonT(30)
  <2> QED
    BY <1>4, <2>1, StateRanges DEF Outcome, Agrees
<1>5. CASE ~Agrees(run[j], run'[j])
  <2>1. PICK s, e, p, f :
          /\ Agrees(run[j], s) /\ e \in Events /\ p \in Payloads
          /\ Cell(s, e, p).kind # "impossible" /\ run'[j] = Transition(j, s, e, p, f)
    BY <1>3, <1>5 DEF Shape
  <2> QED
    BY <1>1, <1>2, <2>1, CellOutcome, ZenonT(30)
<1> QED
  BY <1>4, <1>5, Zenon

-----------------------------------------------------------------------------
(* A cancel is told to every job *)

\* The loop sleeps only when no job is owed an event and a cancel it has read
\* has been told to all.
SleepInv ==
  pc = "wait" => (\A j \in Jobs : ~Owed(j)) /\ (cancelRequested => Untold = {})

\* Nothing that happens while the loop sleeps changes that.
LEMMA NextSleep ==
  ASSUME Inv, SleepInv, [Next]_vars
  PROVE  SleepInv'
<1> SUFFICES ASSUME pc' = "wait"
             PROVE  (\A j \in Jobs : ~Owed(j)') /\ (cancelRequested' => Untold' = {})
  BY DEF SleepInv
<1>1. CASE Schedule
  <2>1. run' = run /\ cancelRequested' = cancelRequested /\ Quiet
    BY <1>1 DEF Schedule
  <2>2. ~MustBroadcast
    BY <1>1 DEF Schedule
  <2> QED
    BY <2>1, <2>2 DEF MustBroadcast, Quiet, Owed, Untold
<1>2. CASE ~Schedule
  <2>1. pc = "wait"
    BY <1>2, ZenonT(30) DEF Next, EngineStep, Environment, Stopped, vars, loop, StartLoop, BroadcastDone,
       EpollWait, BatchDone, ReapDone, GroupsDone, Top, MustBroadcast, SendStartFailed,
       BetweenSteps, SkipDisabled, BroadcastCancel, SendPass, ReapLeader, CheckGroup, JobEvent,
       CancelEvent, ReadChld, OperatorCancel, StrayExit, Fork, LeaderExit, MemberExit, Setsid,
       JobTimerElapses, StepTimerElapses, GraceElapses
  <2>2. (\A j \in Jobs : ~Owed(j)) /\ (cancelRequested => Untold = {})
    BY <2>1, ZenonT(30) DEF SleepInv
  <2>3. Environment \/ UNCHANGED vars
    BY <1>2, <2>1, <2>2, Zenon DEF Next, EngineStep, Stopped, StartLoop, BroadcastDone, EpollWait,
       BatchDone, ReapDone, GroupsDone, Top, MustBroadcast, SendStartFailed, BetweenSteps, SkipDisabled,
       BroadcastCancel, SendPass, ReapLeader, CheckGroup, JobEvent, CancelEvent, ReadChld, Owed
  <2>4. cancelRequested' = cancelRequested
    BY <2>3, Zenon DEF Environment, vars, OperatorCancel, StrayExit, Fork, LeaderExit, MemberExit, Setsid,
       JobTimerElapses, StepTimerElapses, GraceElapses
  <2>5. ASSUME NEW k \in Jobs
        PROVE  /\ run'[k].followup = run[k].followup /\ run'[k].state = run[k].state
               /\ run'[k].cancelTold = run[k].cancelTold
    <3>1. run = [j \in Jobs |-> run[j]] /\ \A j \in Jobs : run[j] \in JobRuns(j)
      BY DEF Inv, TypeOK
    <3>2. CASE run' = run
      BY <3>2, Zenon
    <3>3. ASSUME NEW j \in Jobs,
                 \/ Fork(j) \/ LeaderExit(j) \/ MemberExit(j) \/ Setsid(j)
                 \/ JobTimerElapses(j) \/ StepTimerElapses(j) \/ GraceElapses(j)
          PROVE  /\ run'[k].followup = run[k].followup /\ run'[k].state = run[k].state
                 /\ run'[k].cancelTold = run[k].cancelTold
      <4>1. {"followup", "state", "cancelTold"} \subseteq DOMAIN run[j]
        BY <3>1 DEF JobRuns
      <4>2. CASE k = j
        BY <3>1, <3>3, <4>1, <4>2 DEF Fork, LeaderExit, MemberExit, Setsid, JobTimerElapses,
           StepTimerElapses, GraceElapses
      <4>3. CASE k # j
        BY <3>1, <3>3, <4>3 DEF Fork, LeaderExit, MemberExit, Setsid, JobTimerElapses,
           StepTimerElapses, GraceElapses
      <4> QED
        BY <4>2, <4>3
    <3> QED
      BY <2>3, <3>2, <3>3, Zenon DEF Environment, vars, OperatorCancel, StrayExit
  <2> QED
    BY <2>2, <2>4, <2>5, ZenonT(30) DEF Owed, Untold
<1> QED
  BY <1>1, <1>2

-----------------------------------------------------------------------------
(* No exit goes unnoticed *)

\* The loop still has to act on an exit of the step's processes.
Exited(r) == r.leader = "zombie" \/ (r.leader = "reaped" /\ r.members = 0)

\* q has released or started a leader, or has the leader and members of r.
Keeps(r, q) ==
  /\ DOMAIN q = DOMAIN r
  /\ q.leader \in {"none", "alive"} \/ (q.leader = r.leader /\ q.members = r.members)

\* It is transitive.
LEMMA KeepsTrans ==
  ASSUME NEW r, NEW q, NEW t, Keeps(r, q), Keeps(q, t)
  PROVE  Keeps(r, t)
  BY DEF Keeps

\* No action of the table makes an exit of its own (job_start, step_spawn,
\* record_step, step_finish, job_end).
LEMMA ActionsKeep ==
  ASSUME NEW r, {"leader", "members"} \subseteq DOMAIN r
  PROVE  /\ \A j, f : Keeps(r, StartJob(j, r, f)) /\ Keeps(r, SpawnStep(j, r, f))
         /\ \A c : Keeps(r, RecordStep(r, c))
         /\ Keeps(r, StepFinish(r)) /\ Keeps(r, JobEnd(r))
<1>1. \A j, f : Keeps(r, StartJob(j, r, f))
  BY DEF Keeps, StartJob
<1>2. \A j, f : Keeps(r, SpawnStep(j, r, f))
  BY DEF Keeps, SpawnStep
<1>3. \A c : Keeps(r, RecordStep(r, c))
  BY DEF Keeps, RecordStep
<1>4. Keeps(r, StepFinish(r))
  BY ZenonT(30) DEF Keeps, StepFinish
<1>5. Keeps(r, JobEnd(r))
  <2> DEFINE g == StepFinish(r)
  <2>1. Keeps(r, g)
    BY <1>4
  <2> HIDE DEF g
  <2>2. \A steps : Keeps(g, [g EXCEPT !.jobTimer = "closed", !.steps = steps])
    BY <2>1 DEF Keeps
  <2> QED
    BY <2>1, <2>2, KeepsTrans, Zenon DEF JobEnd, g
<1> QED
  BY <1>1, <1>2, <1>3, <1>4, <1>5

\* Nor does dispatch_one as a whole.
LEMMA TransitionKeeps ==
  ASSUME NEW r, {"leader", "members"} \subseteq DOMAIN r, NEW j, NEW e, NEW p, NEW f
  PROVE  Keeps(r, Transition(j, r, e, p, f))
<1> DEFINE c == Cell(r, e, p)
           t == Told(r, e, c)
           u == IF e = "group-empty" THEN StepFinish(t) ELSE t
           a1 == IF "start-job" \in c.actions THEN StartJob(j, u, f) ELSE u
           a2 == IF "spawn-step" \in c.actions THEN SpawnStep(j, a1, f) ELSE a1
           a3 == IF "sigterm-group" \in c.actions THEN [a2 EXCEPT !.sent = "term"] ELSE a2
           a4 == IF "arm-grace" \in c.actions THEN [a3 EXCEPT !.graceTimer = "armed"] ELSE a3
           a5 == IF "sigkill-group" \in c.actions THEN [a4 EXCEPT !.sent = "kill"] ELSE a4
           a6 == IF "record-step" \in c.actions THEN RecordStep(a5, c) ELSE a5
           a7 == IF "record-job" \in c.actions THEN [a6 EXCEPT !.reason = c.reason] ELSE a6
           q == IF "end-job" \in c.actions THEN JobEnd(a7) ELSE a7
<1>1. Transition(j, r, e, p, f) = q
  BY Zenon DEF Transition, Apply
<1> HIDE DEF c
<1>2. \A x : Keeps(x, x)
  BY DEF Keeps
<1>3. \A x : Keeps(r, x) => {"leader", "members"} \subseteq DOMAIN x
  BY DEF Keeps
<1>4. Keeps(r, t)
  BY Zenon DEF Keeps, Told
<1> HIDE DEF t
<1>5. Keeps(r, u)
  BY <1>3, <1>4, ActionsKeep, KeepsTrans, Zenon
<1> HIDE DEF u
<1>6. Keeps(r, a1)
  BY <1>3, <1>5, ActionsKeep, KeepsTrans, Zenon
<1> HIDE DEF a1
<1>7. Keeps(r, a2)
  BY <1>3, <1>6, ActionsKeep, KeepsTrans
<1> HIDE DEF a2
<1>8. Keeps(r, a5)
  BY <1>3, <1>7, Zenon DEF Keeps
<1> HIDE DEF a5
<1>9. Keeps(r, a6)
  BY <1>3, <1>8, ActionsKeep, KeepsTrans
<1> HIDE DEF a6
<1>10. Keeps(r, a7)
  BY <1>3, <1>9, Zenon DEF Keeps
<1> HIDE DEF a7
<1>11. Keeps(r, q)
  BY <1>3, <1>10, ActionsKeep, KeepsTrans, Zenon
<1> QED
  BY <1>1, <1>11, ZenonT(30)

\* An event leaves the other jobs alone, and its own job without a new exit.
LEMMA DispatchKeeps ==
  ASSUME Inv, NEW j \in Jobs, NEW s, Keeps(run[j], s), NEW e, NEW p, NEW step,
         Dispatch(j, s, e, p, step)
  PROVE  \A k \in Jobs : Keeps(run[k], run'[k])
<1>1. /\ run = [k \in Jobs |-> run[k]]
      /\ \A k \in Jobs : {"leader", "members"} \subseteq DOMAIN run[k]
  BY DEF Inv, TypeOK, JobRuns
<1>2. run' = [run EXCEPT ![j] = s] \/ \E f : run' = [run EXCEPT ![j] = Transition(j, s, e, p, f)]
  BY Zenon DEF Dispatch
<1>3. \A k \in Jobs : k # j => run'[k] = run[k]
  BY <1>1, <1>2, Zenon
<1>4. Keeps(run[j], run'[j])
  <2>1. {"leader", "members"} \subseteq DOMAIN s
    BY <1>1, Zenon DEF Keeps
  <2>2. \A f : Keeps(run[j], Transition(j, s, e, p, f))
    BY <2>1, TransitionKeeps, KeepsTrans, Zenon
  <2>3. run'[j] = s \/ \E f : run'[j] = Transition(j, s, e, p, f)
    BY <1>1, <1>2
  <2> QED
    BY <2>2, <2>3
<1> QED
  BY <1>3, <1>4, Zenon DEF Keeps

\* qwe_lc_lookup: an empty group ends the step.
LEMMA TableEmpty ==
  ASSUME NEW s \in Settling, NEW p
  PROVE  Lookup(s, "group-empty", p).next \notin StepStates
<1>1. PICK t, d, x, g : /\ g.next \in {"between-steps", "failed", "cancelled"}
                        /\ Lookup(s, "group-empty", p) = SettlingRow(s, t, d, x, g, "group-empty")
  BY DEF Lookup, T, Settling, SettlingTerm, SettlingKill
<1>2. Lookup(s, "group-empty", p) = g
  BY <1>1 DEF SettlingRow
<1> QED
  BY <1>1, <1>2 DEF StepStates, StepRunning, StepStopping, StepKilling, Settling, SettlingTerm,
     SettlingKill

\* check_group: a job whose group is found empty has no leader afterwards.
LEMMA GroupEmptyReleases ==
  ASSUME Inv, Inv', NEW j \in Jobs, run[j].leader = "reaped",
         Dispatch(j, run[j], "group-empty", NoPayload, run[j].live)
  PROVE  run'[j].leader = "none"
<1>1. run = [k \in Jobs |-> run[k]] /\ aborted' = FALSE /\ run[j].state \in Settling
  BY DEF Inv, TypeOK, JobOK
<1>2. ~IsStale(run[j].state, "group-empty", run[j].live, run[j].live)
  BY DEF IsStale
<1>3. PICK f : run' = [run EXCEPT ![j] = Transition(j, run[j], "group-empty", NoPayload, f)]
  BY <1>1, <1>2, Zenon DEF Dispatch
<1>4. run'[j] = Transition(j, run[j], "group-empty", NoPayload, f)
  BY <1>1, <1>3, Zenon
<1>5. Tells(run[j], "group-empty", Cell(run[j], "group-empty", NoPayload), run'[j])
  BY <1>4, RecordNamed, TransitionTells, Zenon
<1>6. run'[j].state \notin StepStates
  BY <1>1, <1>5, TableEmpty, SMTT(20) DEF Tells, Cell
<1> QED
  BY <1>6, ZenonT(30) DEF Inv, JobOK

\* An exit the loop has still to act on keeps chld_fd readable, unless the loop
\* is about to meet it: by waitpid, or by checking the group.
NoticedInv ==
  ~MaySetsid =>
    \A j \in Jobs : Exited(run[j]) =>
      chld \/ pc = "reap" \/ (pc = "groups" /\ j \in todo /\ run[j].leader = "reaped")

\* Every step keeps it so.
LEMMA NextNoticed ==
  ASSUME Inv, Inv', NoticedInv, [Next]_vars
  PROVE  NoticedInv'
<1> SUFFICES ASSUME ~MaySetsid, NEW k \in Jobs, Exited(run'[k])
             PROVE  chld' \/ pc' = "reap" \/ (/\ pc' = "groups" /\ k \in todo'
                                            /\ run'[k].leader = "reaped")
  BY DEF NoticedInv, Exited
<1>1. Exited(run[k]) =>
        chld \/ pc = "reap" \/ (pc = "groups" /\ k \in todo /\ run[k].leader = "reaped")
  BY DEF NoticedInv
<1> DEFINE Goal == chld' \/ pc' = "reap" \/ (/\ pc' = "groups" /\ k \in todo'
                                             /\ run'[k].leader = "reaped")
<1>2. ASSUME Keeps(run[k], run'[k])
      PROVE  Exited(run[k]) /\ run'[k].leader = run[k].leader
  BY <1>2, Zenon DEF Keeps, Exited
<1>3. CASE StartLoop \/ BroadcastDone \/ Schedule \/ EpollWait \/ BatchDone \/ GroupsDone
  BY <1>1, <1>3, Zenon DEF StartLoop, BroadcastDone, Schedule, EpollWait, BatchDone, GroupsDone
<1>4. CASE ReapDone
  BY <1>4, Zenon DEF ReapDone, Exited
<1>5. CASE OperatorCancel \/ StrayExit \/ UNCHANGED vars
  BY <1>1, <1>5 DEF OperatorCancel, StrayExit, vars, loop
<1>6. ASSUME NEW j \in Jobs, ReapLeader(j)
      PROVE  Goal
  BY <1>6 DEF ReapLeader, loop
<1>7. ASSUME NEW j \in Jobs, CheckGroup(j)
      PROVE  Goal
  <2>1. pc = "groups" /\ pc' = pc /\ chld' = chld /\ todo' = todo \ {j}
    BY <1>7, Zenon DEF CheckGroup
  <2>2. CASE run' = run
    <3>1. k = j => ~Exited(run[k]) \/ run[k].leader = "zombie"
      <4>1. SUFFICES ASSUME k = j, run[k].leader = "reaped", run[k].members = 0
                     PROVE  FALSE
        BY DEF Exited
      <4>2. run[j].live # NoStep
        BY <4>1, ZenonT(30) DEF Inv, JobOK
      <4>3. Dispatch(j, run[j], "group-empty", NoPayload, run[j].live)
        BY <1>7, <4>1, <4>2, Zenon DEF CheckGroup
      <4>4. run'[j].leader = "none"
        BY <4>1, <4>3, GroupEmptyReleases, Zenon
      <4> QED
        BY <2>2, <4>1, <4>4, Zenon
    <3> QED
      BY <1>1, <2>1, <2>2, <3>1, Zenon
  <2>3. CASE run' # run
    <3>1. run[j].leader = "reaped" /\ Dispatch(j, run[j], "group-empty", NoPayload, run[j].live)
      BY <1>7, <2>3, Zenon DEF CheckGroup
    <3>2. run'[j].leader = "none"
      BY <3>1, GroupEmptyReleases, Zenon
    <3>3. k # j
      BY <3>2, Zenon DEF Exited
    <3>4. Keeps(run[k], run'[k])
      BY <3>1, DispatchKeeps DEF Keeps
    <3> QED
      BY <1>1, <1>2, <2>1, <3>3, <3>4, SMTT(30)
  <2> QED
    BY <2>2, <2>3, Zenon
<1>8. ASSUME NEW j \in Jobs,
             SendStartFailed(j) \/ BetweenSteps(j) \/ SkipDisabled(j) \/ BroadcastCancel(j) \/ SendPass(j)
      PROVE  Goal
  <2>1. \E s, e, p : Keeps(run[j], s) /\ Dispatch(j, s, e, p, NoStep)
    <3>1. {"leader", "members"} \subseteq DOMAIN run[j]
      BY DEF Inv, TypeOK, JobRuns
    <3>2. /\ Keeps(run[j], run[j]) /\ Keeps(run[j], [run[j] EXCEPT !.followup = FALSE])
          /\ Keeps(run[j], [run[j] EXCEPT !.jobTimer = Read(@)])
      BY <3>1 DEF Keeps
    <3> QED
      BY <1>8, <3>2, Zenon DEF SendStartFailed, BetweenSteps, SkipDisabled, BroadcastCancel, SendPass
  <2>2. Keeps(run[k], run'[k])
    BY <2>1, DispatchKeeps, ZenonT(30)
  <2>3. /\ chld' = chld /\ pc' = pc
        /\ todo' = todo \/ pc = "skip-disabled"
    BY <1>8, Zenon DEF SendStartFailed, BetweenSteps, SkipDisabled, BroadcastCancel, SendPass, loop
  <2> QED
    BY <1>1, <1>2, <2>2, <2>3, ZenonT(30)
<1>9. ASSUME NEW tag \in batch, JobEvent(tag) \/ CancelEvent(tag) \/ ReadChld(tag)
      PROVE  Goal
  <2>1. CASE ReadChld(tag)
    BY <2>1 DEF ReadChld
  <2>2. CASE CancelEvent(tag)
    BY <1>1, <2>2 DEF CancelEvent
  <2>3. CASE JobEvent(tag)
    <3>1. Keeps(run[k], run'[k])
      <4> DEFINE r == run[tag.job]
      <4>1. tag.kind \in {"step-timer", "grace-timer", "job-timer"}
        BY <2>3, Zenon DEF JobEvent, StepTimerEvent, GraceTimerEvent, JobTimerEvent
      <4>2. tag.job \in Jobs
        BY <4>1, Zenon DEF Inv
      <4>3. r \in JobRuns(tag.job)
        BY <4>2, RecordNamed, Zenon
      <4>4. {"leader", "members"} \subseteq DOMAIN r
        BY <4>3 DEF JobRuns
      <4>5. /\ Keeps(r, r) /\ Keeps(r, [r EXCEPT !.stepTimer = Read(@)])
            /\ Keeps(r, [r EXCEPT !.graceTimer = Read(@)])
            /\ Keeps(r, [r EXCEPT !.jobTimer = Read(@)])
        BY <4>4, Zenon DEF Keeps
      <4>6. run' = run \/ \E s, e, step :
              Keeps(r, s) /\ Dispatch(tag.job, s, e, NoPayload, step)
        BY <2>3, <4>5, Zenon DEF JobEvent, StepTimerEvent, GraceTimerEvent, JobTimerEvent
      <4>7. CASE run' = run
        BY <4>7, Zenon DEF Keeps
      <4>8. CASE \E s, e, step : Keeps(r, s) /\ Dispatch(tag.job, s, e, NoPayload, step)
        BY <4>2, <4>4, <4>8, DispatchKeeps, Zenon
      <4> QED
        BY <4>6, <4>7, <4>8, Zenon
    <3>2. chld' = chld /\ pc' = pc /\ todo' = todo
      BY <2>3 DEF JobEvent
    <3> QED
      BY <1>1, <1>2, <3>1, <3>2, ZenonT(30)
  <2> QED
    BY <1>9, <2>1, <2>2, <2>3, Zenon
<1>10. ASSUME NEW j \in Jobs,
              \/ Fork(j) \/ LeaderExit(j) \/ MemberExit(j) \/ Setsid(j)
              \/ JobTimerElapses(j) \/ StepTimerElapses(j) \/ GraceElapses(j)
       PROVE  Goal
  <2>1. /\ run = [i \in Jobs |-> run[i]] /\ {"leader", "members"} \subseteq DOMAIN run[j]
        /\ run[j].members \in Nat
    <3>1. run = [i \in Jobs |-> run[i]] /\ run[j] \in JobRuns(j)
      BY Zenon DEF Inv, TypeOK
    <3>2. {"leader", "members"} \subseteq DOMAIN run[j] /\ run[j].members \in 0..MaxMembers
      BY <3>1 DEF JobRuns
    <3> QED
      BY <3>1, <3>2, EngineAssumption
  <2>2. pc' = pc /\ todo' = todo /\ (chld => chld')
    BY <1>10 DEF Fork, LeaderExit, MemberExit, Setsid, JobTimerElapses, StepTimerElapses,
       GraceElapses, loop
  <2>3. CASE k # j
    <3>1. run'[k] = run[k]
      BY <1>10, <2>1, <2>3, Zenon DEF Fork, LeaderExit, MemberExit, Setsid, JobTimerElapses,
         StepTimerElapses, GraceElapses
    <3> QED
      BY <1>1, <2>2, <3>1, Zenon
  <2>4. CASE k = j
    <3>1. CASE LeaderExit(j)
      BY <3>1 DEF LeaderExit
    <3>2. CASE MemberExit(j)
      <4>1. run'[j].leader = run[j].leader
        BY <2>1, <3>2 DEF MemberExit
      <4>2. run[j].leader # "alive"
        BY <2>4, <4>1, Zenon DEF Exited
      <4> QED
        BY <3>2, <4>2 DEF MemberExit
    <3>3. CASE Fork(j)
      <4>1. run'[j].leader = run[j].leader /\ run'[j].members = run[j].members + 1
        BY <2>1, <3>3 DEF Fork
      <4>2. run[j].leader = "zombie"
        BY <2>1, <2>4, <4>1 DEF Exited
      <4> QED
        BY <1>1, <2>2, <2>4, <4>2 DEF Exited
    <3>4. CASE JobTimerElapses(j) \/ StepTimerElapses(j) \/ GraceElapses(j)
      <4>1. Keeps(run[j], run'[j])
        BY <2>1, <3>4, SMTT(20) DEF JobTimerElapses, StepTimerElapses, GraceElapses, Keeps
      <4> QED
        BY <1>1, <1>2, <2>2, <2>4, <4>1, Zenon
    <3> QED
      BY <1>10, <3>1, <3>2, <3>3, <3>4, Zenon DEF Setsid
  <2> QED
    BY <2>3, <2>4, Zenon
<1> QED
  BY <1>3, <1>4, <1>5, <1>6, <1>7, <1>8, <1>9, <1>10, ZenonT(30) DEF Next, EngineStep, Environment, Stopped

-----------------------------------------------------------------------------

\* The jobs that will run once the pass has sent its grants.
Granted == {j \in Jobs : \E ev \in pass : ev.job = j /\ ev.event = "slot-granted"}

Busy == RunningIn(StateOf) \cup Granted

\* The jobs of B can run at the same time.
Within(B) ==
  /\ MaxParallel # 0 => Cardinality(B) <= MaxParallel
  /\ \A j \in Jobs : Target[j] # 0 =>
       Cardinality({k \in B : Target[k] = Target[j]}) <= MaxSessions[Target[j]]

-----------------------------------------------------------------------------
(* What becomes of a job in one step *)

\* qwe_lc_lookup: an ended job stays as it is; a waiting job ends only skipped,
\* and only by its needs, a cancel or a skip; and it gets ready by its needs.
LEMMA TablePhases ==
  ASSUME NEW s \in States, NEW e \in Events, NEW p,
         NEW c, c = Lookup(s, e, p), c.kind # "impossible"
  PROVE  /\ s \in Final => c.next = s
         /\ s \in Waiting /\ c.next \in Final =>
              c.next = "skipped" /\ e \in {"needs-failed", "cancel", "skip"}
         /\ c.next = "ready" /\ s # "ready" => e = "needs-met"
<1>1. CASE s \in Final
  BY <1>1 DEF Lookup, FinalRow, Final, I, X, Waiting
<1>2. CASE s = "pending"
  <2>1. c = PendingRow(e, p)
    BY <1>2 DEF Lookup
  <2> QED
    BY <1>2, <2>1 DEF PendingRow, T, X, Final
<1>3. CASE s = "ready"
  <2>1. c = ReadyRow(e, p)
    BY <1>3 DEF Lookup
  <2> QED
    BY <1>3, <2>1 DEF ReadyRow, T, X, Final
<1>4. CASE s \in Running
  <2>1. Ranks(s, e, c)
    BY TableRanks
  <2> QED
    BY <1>4, <2>1, StateRanges DEF Ranks, Waiting
<1> QED
  BY <1>1, <1>2, <1>3, <1>4, StateRanges, ZenonT(30) DEF Waiting

\* A step of the engine moves a job between its phases for these causes only.
Phases(j) ==
  LET old == run[j].state
      new == run'[j].state
  IN  /\ new \in States
      /\ old \in Final => new = old
      /\ old \in Running => new \in Running \cup {"success", "failed", "cancelled"}
      /\ old \in Waiting /\ new \in Running => j \in Granted
      /\ old \in Waiting /\ new \in Final =>
           /\ new = "skipped"
           /\ \/ \E ev \in pass : ev.job = j /\ ev.event = "needs-failed"
              \/ pc = "skip-disabled" /\ j \in todo
              \/ pc = "broadcast"
      /\ new = "ready" /\ old # "ready" =>
           \E ev \in pass : ev.job = j /\ ev.event = "needs-met"

\* Every step does.
LEMMA JobPhases ==
  ASSUME Inv, Inv', NEW j \in Jobs, Shape(j)
  PROVE  Phases(j)
<1>1. run[j].state \in States /\ run'[j].state \in States /\ Named \subseteq DOMAIN run[j]
  <2>1. run'[j] \in JobRuns(j)
    BY DEF Inv, TypeOK, JobRuns
  <2> QED
    BY <2>1, RecordNamed, Zenon DEF JobRuns
<1>2. CASE Agrees(run[j], run'[j])
  BY <1>1, <1>2, StateRanges, Zenon DEF Phases, Agrees
<1>3. CASE ~Agrees(run[j], run'[j])
  <2>1. PICK s, e, p, f :
          /\ Agrees(run[j], s) /\ e \in Events /\ p \in Payloads /\ Caused(j, e)
          /\ Cell(s, e, p).kind # "impossible"
          /\ run'[j] = Transition(j, s, e, p, f)
    BY <1>3 DEF Shape
  <2>2. PICK c : c = Cell(s, e, p)
    OBVIOUS
  <2>3. PICK l : c = Lookup(run[j].state, e, l)
    BY <2>1, <2>2, Zenon DEF Cell, Agrees
  <2>4. run'[j].state = c.next
    <3>1. Named \subseteq DOMAIN s
      BY <1>1, <2>1 DEF Agrees
    <3>2. Tells(s, e, c, run'[j])
      BY <2>1, <2>2, <3>1, TransitionTells, Zenon
    <3> QED
      BY <3>2 DEF Tells
  <2>5. c.kind # "impossible"
    BY <2>1, <2>2
  <2>6. Ranks(run[j].state, e, c)
    BY <1>1, <2>1, <2>3, <2>5, TableRanks, ZenonT(30)
  <2>7. /\ run[j].state \in Final => c.next = run[j].state
        /\ run[j].state \in Waiting /\ c.next \in Final =>
             c.next = "skipped" /\ e \in {"needs-failed", "cancel", "skip"}
        /\ c.next = "ready" /\ run[j].state # "ready" => e = "needs-met"
    BY <1>1, <2>1, <2>3, <2>5, TablePhases
  <2>8. run[j].state \in Waiting => run[j].state # "between-steps"
    BY DEF Waiting
  <2>9. run[j].state \in Running =>
          run'[j].state \in Running \cup {"success", "failed", "cancelled"}
    BY <1>1, <2>4, <2>6, StateRanges, ZenonT(30) DEF Ranks
  <2>10. run[j].state \in Waiting /\ run'[j].state \in Running => j \in Granted
    BY <2>1, <2>4, <2>6, StateRanges, ZenonT(30) DEF Ranks, Caused, Granted
  <2>11. run[j].state \in Waiting /\ run'[j].state \in Final =>
           /\ run'[j].state = "skipped"
           /\ \/ \E ev \in pass : ev.job = j /\ ev.event = "needs-failed"
              \/ pc = "skip-disabled" /\ j \in todo
              \/ pc = "broadcast"
    BY <2>1, <2>4, <2>7, <2>8, ZenonT(30) DEF Caused
  <2>12. run'[j].state = "ready" /\ run[j].state # "ready" =>
           \E ev \in pass : ev.job = j /\ ev.event = "needs-met"
    BY <2>1, <2>4, <2>7, Zenon DEF Caused
  <2> QED
    BY <1>1, <2>4, <2>7, <2>9, <2>10, <2>11, <2>12, ZenonT(30) DEF Phases
<1> QED
  BY <1>2, <1>3

\* A step is about one job, and that one moves so.
LEMMA StepPhases ==
  ASSUME Inv, Inv', [Next]_vars
  PROVE  /\ \A k \in Jobs : Phases(k)
         /\ \E j \in Jobs :
              /\ \A k \in Jobs : k # j => run'[k] = run[k]
              /\ cancelRequested' = cancelRequested \/ run' = run \/ run[j].state = "between-steps"
<1>2. PICK j \in Jobs : Single(j)
  BY StepShape, ZenonT(30)
<1>3. \A k \in Jobs : Shape(k)
  BY <1>2 DEF Single, Shape, Agrees
<1>4. \A k \in Jobs : Phases(k)
  BY <1>3, JobPhases, Zenon
<1> QED
  BY <1>2, <1>4 DEF Single

-----------------------------------------------------------------------------
(* The loop *)

\* Only qwe_sched_pass adds events to send; a cancel that was read stays read,
\* and it is what starts a broadcast; run_all skips the disabled jobs once,
\* before anything else, and leaves none of them out.
Loop ==
  /\ Schedule \/ pass' \subseteq pass
  /\ cancelRequested => cancelRequested'
  /\ pc' = "broadcast" => pc = "broadcast" \/ cancelRequested'
  /\ pc' = "skip-disabled" => pc = "skip-disabled" /\ todo' \subseteq todo
  /\ pc = "skip-disabled" =>
       \A k \in todo : run'[k].state \in Final \/ (pc' = "skip-disabled" /\ k \in todo')

\* The skip of a disabled job ends it.
LEMMA SkipEnds ==
  ASSUME Inv, Inv', NEW j \in Jobs, SkipDisabled(j)
  PROVE  run'[j].state = "skipped"
<1> DEFINE p == [NoPayload EXCEPT !.reason = "target-disabled"]
<1>1. run = [k \in Jobs |-> run[k]] /\ aborted' = FALSE /\ run[j].state = "pending"
  BY DEF Inv, TypeOK, SkipDisabled
<1>2. Dispatch(j, run[j], "skip", p, NoStep)
  BY DEF SkipDisabled
<1> HIDE DEF p
<1>3. ~IsStale(run[j].state, "skip", NoStep, run[j].live)
  BY DEF IsStale, StepScoped
<1>4. PICK f : run' = [run EXCEPT ![j] = Transition(j, run[j], "skip", p, f)]
  BY <1>1, <1>2, <1>3, ZenonT(30) DEF Dispatch
<1>5. run'[j] = Transition(j, run[j], "skip", p, f)
  BY <1>1, <1>4
<1>6. Tells(run[j], "skip", Cell(run[j], "skip", p), run'[j])
  BY <1>5, RecordNamed, TransitionTells, Zenon
<1>7. Cell(run[j], "skip", p).next = "skipped"
  BY <1>1, Zenon DEF Cell, Lookup, PendingRow, T
<1> QED
  BY <1>6, <1>7, Zenon DEF Tells

\* Every step moves the loop so.
LEMMA LoopShape ==
  ASSUME Inv, Inv', [Next]_vars
  PROVE  Loop
<1> USE DEF Loop, loop
<1>1. CASE UNCHANGED <<pc, pass, todo>> /\ (cancelRequested => cancelRequested')
  BY <1>1
<1>2. CASE StartLoop \/ BroadcastDone \/ EpollWait \/ BatchDone \/ ReapDone \/ GroupsDone
  BY <1>2 DEF StartLoop, BroadcastDone, EpollWait, BatchDone, ReapDone, GroupsDone, Top,
     MustBroadcast
<1>3. CASE Schedule
  <2>1. pc = "sched" /\ pc' # "skip-disabled" /\ cancelRequested' = cancelRequested
    BY <1>3 DEF Schedule
  <2>2. pc' = "broadcast" => cancelRequested
    BY <1>3 DEF Schedule, MustBroadcast
  <2> QED
    BY <1>3, <2>1, <2>2, Zenon
<1>4. ASSUME NEW j \in Jobs, SkipDisabled(j)
      PROVE  Loop
  BY <1>4, SkipEnds, Zenon DEF SkipDisabled, Final
<1>5. ASSUME NEW j \in Jobs, SendPass(j) \/ CheckGroup(j)
      PROVE  Loop
  BY <1>5 DEF SendPass, CheckGroup
<1>6. ASSUME NEW j \in Jobs,
             SendStartFailed(j) \/ BetweenSteps(j) \/ BroadcastCancel(j) \/ ReapLeader(j)
      PROVE  Loop
  <2>1. UNCHANGED <<pc, pass, todo>>
    BY <1>6 DEF SendStartFailed, BetweenSteps, BroadcastCancel, ReapLeader
  <2>2. cancelRequested => cancelRequested'
    BY <1>6, Zenon DEF SendStartFailed, BetweenSteps, BroadcastCancel, ReapLeader
  <2> QED
    BY <1>1, <2>1, <2>2, ZenonT(30)
<1>7. ASSUME NEW tag \in batch, JobEvent(tag) \/ CancelEvent(tag) \/ ReadChld(tag)
      PROVE  Loop
  <2>1. pass' = pass /\ todo' = todo /\ pc = "batch" /\ pc' \in {"batch", "reap"}
    BY <1>7 DEF JobEvent, CancelEvent, ReadChld
  <2>2. cancelRequested => cancelRequested'
    BY <1>7, Zenon DEF JobEvent, CancelEvent, ReadChld
  <2> QED
    BY <2>1, <2>2
<1>8. CASE Environment \/ UNCHANGED vars
  BY <1>1, <1>8 DEF Environment, OperatorCancel, StrayExit, Fork, LeaderExit, MemberExit, Setsid,
     JobTimerElapses, StepTimerElapses, GraceElapses, vars
<1> QED
  BY <1>2, <1>3, <1>4, <1>5, <1>6, <1>7, <1>8, Zenon DEF Next, EngineStep, Stopped

-----------------------------------------------------------------------------
(* The scheduler *)

\* What the scheduler's arithmetic rests on: sets of jobs are finite, and they
\* are counted as one expects; of some jobs one comes last in id order, and one
\* has the lowest rank.  SetFactsHold shows it from the library's theorems.
SetFacts ==
  /\ Cardinality({}) = 0
  /\ \A B \in SUBSET Jobs :
       /\ Cardinality(B) \in Nat
       /\ \A A \in SUBSET B : Cardinality(A) <= Cardinality(B) /\ (Cardinality(A) = Cardinality(B) => A = B)
       /\ \A m \in Jobs :
            Cardinality(B \cup {m}) = IF m \in B THEN Cardinality(B) ELSE Cardinality(B) + 1
       /\ \A A \in SUBSET Jobs : Cardinality(A \cup B) <= Cardinality(A) + Cardinality(B)
  /\ \A S \in SUBSET Jobs : S # {} =>
       /\ \E m \in S : \A k \in S : k <= m
       /\ \A rank \in [Jobs -> Jobs] : \E m \in S : \A k \in S : ~(rank[k] < rank[m])

\* A smaller set of jobs has no more members.
LEMMA JobSets ==
  ASSUME SetFacts, NEW B \in SUBSET Jobs
  PROVE  /\ Cardinality(B) \in Nat
         /\ \A A \in SUBSET B : Cardinality(A) <= Cardinality(B)
  BY DEF SetFacts

\* One job more.
LEMMA OneMore ==
  ASSUME SetFacts, NEW B \in SUBSET Jobs, NEW m \in Jobs
  PROVE  Cardinality(B \cup {m}) = IF m \in B THEN Cardinality(B) ELSE Cardinality(B) + 1
  BY Zenon DEF SetFacts

\* Of some jobs one comes last in id order.
LEMMA LastJob ==
  ASSUME SetFacts, NEW S \in SUBSET Jobs, S # {}
  PROVE  \E m \in S : \A k \in S : k <= m
  BY Zenon DEF SetFacts

\* Fewer jobs are within the limits too.
LEMMA WithinFewer ==
  ASSUME SetFacts, NEW B \in SUBSET Jobs, NEW A \in SUBSET B, Within(B)
  PROVE  Within(A)
<1>1. Cardinality(A) <= Cardinality(B) /\ Cardinality(A) \in Nat /\ Cardinality(B) \in Nat
  BY JobSets
<1>2. ASSUME NEW j \in Jobs, Target[j] # 0
      PROVE  Cardinality({k \in A : Target[k] = Target[j]}) <= MaxSessions[Target[j]]
  <2> DEFINE S == {k \in A : Target[k] = Target[j]}
             U == {k \in B : Target[k] = Target[j]}
  <2>1. S \in SUBSET U /\ S \in SUBSET Jobs /\ U \in SUBSET Jobs
    OBVIOUS
  <2>2. Cardinality(U) <= MaxSessions[Target[j]]
    BY <1>2 DEF Within
  <2> HIDE DEF S, U
  <2>3. Cardinality(S) <= Cardinality(U) /\ Cardinality(S) \in Nat /\ Cardinality(U) \in Nat
    BY <2>1, JobSets
  <2>4. MaxSessions[Target[j]] \in Nat
    BY <1>2, SchedAssumption
  <2> QED
    BY <2>2, <2>3, <2>4 DEF S
<1> QED
  BY <1>1, <1>2, SchedAssumption DEF Within

\* qwe_sched_pass hands out no more slots and sessions than are free.
LEMMA GrantsWithin ==
  ASSUME SetFacts, NEW st, NEW g \in SUBSET Jobs, Grants(st, g), Within(RunningIn(st))
  PROVE  Within(RunningIn(st) \cup g)
<1> DEFINE R == RunningIn(st)
           E(m) == {k \in g : k < m}
<1>1. R \in SUBSET Jobs
  BY DEF RunningIn
<1>2. \A m \in g :
        /\ MaxParallel # 0 => Cardinality(R) + Cardinality(E(m)) < MaxParallel
        /\ Target[m] # 0 => Cardinality(GroupUsed(st, E(m), m)) < MaxSessions[Target[m]]
  BY DEF Grants
<1>3. Within(R)
  OBVIOUS
<1> HIDE DEF R
<1>4. ASSUME MaxParallel # 0
      PROVE  Cardinality(R \cup g) <= MaxParallel
  <2>1. CASE g = {}
    <3>1. R \cup g = R
      BY <2>1
    <3> QED
      BY <1>3, <1>4, <3>1, Zenon DEF Within
  <2>2. CASE g # {}
    <3>1. PICK m \in g : \A k \in g : k <= m
      BY <2>2, LastJob
    <3>a. \A k \in g : k \in Int /\ (k < m \/ k = m) /\ ~(m < m)
      BY <3>1, SchedAssumption DEF Jobs
    <3>2. g = E(m) \cup {m} /\ E(m) \in SUBSET Jobs /\ m \notin E(m)
      BY <3>1, <3>a
    <3>3. Cardinality(R) + Cardinality(E(m)) < MaxParallel
      BY <1>2, <1>4
    <3> HIDE DEF E
    <3>4. Cardinality(g) = Cardinality(E(m)) + 1
      BY <3>2, OneMore
    <3>5. Cardinality(R \cup g) <= Cardinality(R) + Cardinality(g) /\ Cardinality(R \cup g) \in Nat
      BY <1>1, Zenon DEF SetFacts
    <3>6. Cardinality(R) \in Nat /\ Cardinality(E(m)) \in Nat /\ Cardinality(g) \in Nat
      BY <1>1, <3>2, JobSets, Zenon
    <3> QED
      BY <3>3, <3>4, <3>5, <3>6, SchedAssumption
  <2> QED
    BY <2>1, <2>2
<1>5. ASSUME NEW j \in Jobs, Target[j] # 0
      PROVE  Cardinality({k \in R \cup g : Target[k] = Target[j]}) <= MaxSessions[Target[j]]
  <2> DEFINE h == {k \in g : Target[k] = Target[j]}
             all == {k \in R \cup g : Target[k] = Target[j]}
  <2>1. CASE h = {}
    <3>1. all = {k \in R : Target[k] = Target[j]}
      BY <2>1
    <3> QED
      BY <1>3, <1>5, <3>1 DEF Within
  <2>2. CASE h # {}
    <3>1. PICK m \in h : \A k \in h : k <= m
      BY <2>2, LastJob, Zenon
    <3> DEFINE used == GroupUsed(st, E(m), m)
    <3>a. \A k \in h : k < m \/ k = m
      BY <3>1, SchedAssumption DEF Jobs
    <3>b. used = {k \in R \cup E(m) : Target[k] = Target[j]}
      BY <3>1 DEF GroupUsed, R
    <3>2. all = used \cup {m} /\ used \in SUBSET Jobs
      <4>1. \A k : k \in all => k \in used \cup {m}
        BY <3>1, <3>a, <3>b, Zenon
      <4>2. \A k : k \in used \cup {m} => k \in all
        BY <3>1, <3>b
      <4>3. used \in SUBSET Jobs
        BY <1>1, <3>b
      <4> HIDE DEF all, used
      <4> QED
        BY <4>1, <4>2, <4>3, Zenon
    <3>3. Cardinality(used) < MaxSessions[Target[j]]
      BY <1>2, <1>5, <3>1, Zenon
    <3> HIDE DEF used, all, E
    <3>4. Cardinality(used) \in Nat /\ Cardinality(all) <= Cardinality(used) + 1
      <4>1. Cardinality(used) \in Nat
        BY <3>2, JobSets
      <4>2. Cardinality(used \cup {m}) =
              IF m \in used THEN Cardinality(used) ELSE Cardinality(used) + 1
        BY <3>1, <3>2, OneMore, Zenon
      <4> QED
        BY <3>2, <4>1, <4>2
    <3>5. MaxSessions[Target[j]] \in Nat /\ Cardinality(all) \in Nat
      <4>1. all \in SUBSET Jobs
        BY <3>1, <3>2
      <4> QED
        BY <1>5, <4>1, JobSets, SchedAssumption, Zenon
    <3> QED
      BY <3>3, <3>4, <3>5 DEF all
  <2> QED
    BY <2>1, <2>2
<1> QED
  BY <1>4, <1>5 DEF Within, R

-----------------------------------------------------------------------------
(* The loop never gives up *)

\* Of some jobs one has the lowest rank.
LEMMA FirstJob ==
  ASSUME SetFacts, NEW S \in SUBSET Jobs, S # {}, NEW rank \in [Jobs -> Jobs]
  PROVE  \E m \in S : \A k \in S : ~(rank[k] < rank[m])
  BY Zenon DEF SetFacts

\* With nothing running and needs that are acyclic, a job that has not ended
\* gets an event from the scheduler pass.
LEMMA PassMoves ==
  ASSUME SetFacts, Acyclic, NEW st \in [Jobs -> States], RunningIn(st) = {}, {} \in SchedPass(st)
  PROVE  \A j \in Jobs : st[j] \in Final
<1>1. Resolved(st) = {} /\ Grants(st, {})
  <2>1. CASE Resolved(st) # {}
    <3>1. {} = {[job |-> j, event |-> NeedsEvent(st, j)] : j \in Resolved(st)}
      BY <2>1 DEF SchedPass
    <3> QED
      BY <2>1, <3>1, Zenon
  <2>2. CASE Resolved(st) = {}
    <3>1. PICK g \in SUBSET Jobs : Grants(st, g)
                                   /\ {} = {[job |-> j, event |-> "slot-granted"] : j \in g}
      BY <2>2 DEF SchedPass
    <3>2. g = {}
      BY <3>1, Zenon
    <3> QED
      BY <2>2, <3>1, <3>2, Zenon
  <2> QED
    BY <2>1, <2>2
<1>2. \A j \in Jobs : st[j] # "ready"
  <2> SUFFICES ASSUME NEW j \in Jobs, st[j] = "ready"
               PROVE  FALSE
    OBVIOUS
  <2>1. {k \in {} : k < j} = {} /\ GroupUsed(st, {}, j) = {} /\ Cardinality({}) = 0
    BY DEF GroupUsed, SetFacts
  <2>2. ~(/\ MaxParallel = 0 \/ Cardinality({}) + Cardinality({}) < MaxParallel
          /\ Target[j] = 0 \/ Cardinality({}) < MaxSessions[Target[j]])
    BY <1>1, <2>1, Zenon DEF Grants
  <2> QED
    BY <2>1, <2>2, SchedAssumption
<1>3. \A j \in Jobs : st[j] # "pending"
  <2> DEFINE S == {j \in Jobs : st[j] = "pending"}
  <2> SUFFICES ASSUME S # {}
               PROVE  FALSE
    OBVIOUS
  <2>1. PICK rank \in [Jobs -> Jobs] : \A j \in Jobs : \A n \in Needs[j] : rank[n] < rank[j]
    BY DEF Acyclic
  <2>2. PICK m \in S : \A k \in S : ~(rank[k] < rank[m])
    BY FirstJob, Zenon
  <2>3. \A n \in Needs[m] : n \in Jobs /\ st[n] # "pending"
    BY <2>1, <2>2, SchedAssumption
  <2>4. \A n \in Needs[m] : st[n] \in Final
    BY <1>2, <2>3, StateRanges DEF RunningIn, Waiting
  <2> QED
    BY <1>1, <2>2, <2>4, Zenon DEF Resolved
<1> QED
  BY <1>2, <1>3, StateRanges, Zenon DEF RunningIn, Waiting

\* So run_all does not come to that end.
LEMMA NextRunnable ==
  ASSUME SetFacts, Inv, NeverUnrunnable, [Next]_vars
  PROVE  NeverUnrunnable'
<1> SUFFICES ASSUME Acyclic, pc' = "unrunnable", pc # "unrunnable"
             PROVE  FALSE
  BY Zenon DEF NeverUnrunnable, Acyclic, Jobs
<1>1. Schedule
  BY Zenon DEF Next, EngineStep, Environment, Stopped, vars, loop, StartLoop, BroadcastDone,
     EpollWait, BatchDone, ReapDone, GroupsDone, Top, MustBroadcast, SendStartFailed,
     BetweenSteps, SkipDisabled, BroadcastCancel, SendPass, ReapLeader, CheckGroup, JobEvent,
     CancelEvent, ReadChld, OperatorCancel, StrayExit, Fork, LeaderExit, MemberExit, Setsid,
     JobTimerElapses, StepTimerElapses, GraceElapses
<1>2. /\ {} \in SchedPass(StateOf) /\ RunningIn(StateOf) = {}
      /\ ~\A j \in Jobs : run[j].state \in Final
  BY <1>1, Zenon DEF Schedule
<1>3. StateOf \in [Jobs -> States] /\ \A j \in Jobs : StateOf[j] = run[j].state
  BY RecordNamed DEF StateOf
<1> QED
  BY <1>2, <1>3, PassMoves

-----------------------------------------------------------------------------
(* The invariant of the contract *)

NeedsDone(j) == \A n \in Needs[j] : run[n].state = "success"

NeedFailed(j) == \E n \in Needs[j] : run[n].state \in Final \ {"success"}

\* The jobs that run or are about to are within the limits; a broadcast has a
\* cancel behind it; a disabled job has ended or is still to be skipped; and a
\* job that is ready, or that the pass is about to make so or to skip, has the
\* needs for it.
ContractInv ==
  /\ Within(Busy)
  /\ pc = "broadcast" => cancelRequested
  /\ pc = "skip-disabled" => todo \subseteq Disabled
  /\ \A j \in Disabled : run[j].state \in Final \/ (pc = "skip-disabled" /\ j \in todo)
  /\ \A j \in Jobs : run[j].state = "ready" => NeedsDone(j)
  /\ \A ev \in pass : /\ ev.event = "needs-met" => NeedsDone(ev.job)
                      /\ ev.event = "needs-failed" => NeedFailed(ev.job)

\* It holds at the start.
LEMMA InitContract ==
  ASSUME SetFacts, Init
  PROVE  ContractInv
<1>1. \A j \in Jobs : run[j].state = "pending"
  BY DEF Init, NewRun
<1>2. Busy = {}
  BY <1>1 DEF Init, Busy, Granted, RunningIn, StateOf, Running, StepStates, StepRunning,
     StepStopping, StepKilling, Settling, SettlingTerm, SettlingKill
<1>3. Within(Busy)
  <2>1. Cardinality({}) = 0
    BY DEF SetFacts
  <2>2. \A j \in Jobs : {k \in {} : Target[k] = Target[j]} = {}
    OBVIOUS
  <2> QED
    BY <1>2, <2>1, <2>2, SchedAssumption DEF Within
<1> QED
  BY <1>1, <1>3, Zenon DEF Init, ContractInv

\* Within the limits once the scheduler pass is done.
LEMMA ScheduleWithin ==
  ASSUME SetFacts, Inv, ContractInv, Schedule
  PROVE  Within(Busy)'
<1> DEFINE R == RunningIn(StateOf)
<1>1. R' = R /\ R \subseteq Busy /\ Busy \subseteq Jobs /\ Busy' = R \cup Granted'
  BY DEF Schedule, Busy, StateOf, RunningIn, Granted
<1>2. Within(R)
  BY <1>1, WithinFewer, Zenon DEF ContractInv
<1>3. PICK evs \in SchedPass(StateOf) : pass' = evs
  BY DEF Schedule
<1>4. CASE Resolved(StateOf) # {}
  <2>1. evs = {[job |-> j, event |-> NeedsEvent(StateOf, j)] : j \in Resolved(StateOf)}
    BY <1>3, <1>4, Zenon DEF SchedPass
  <2>2. Granted' = {}
    BY <1>3, <2>1 DEF Granted, NeedsEvent
  <2>3. Busy' = R
    BY <1>1, <2>2, Zenon
  <2> QED
    BY <1>2, <2>3, Zenon DEF Within
<1>5. CASE Resolved(StateOf) = {}
  <2>1. PICK g \in SUBSET Jobs : /\ Grants(StateOf, g)
                                 /\ evs = {[job |-> j, event |-> "slot-granted"] : j \in g}
    BY <1>3, <1>5 DEF SchedPass
  <2>2. Granted' = g
    <3>1. \A ev \in pass' : ev.job \in g
      BY <1>3, <2>1
    <3>2. ASSUME NEW j \in g
          PROVE  \E ev \in pass' : ev.job = j /\ ev.event = "slot-granted"
      <4>1. [job |-> j, event |-> "slot-granted"] \in pass'
        BY <1>3, <2>1
      <4> QED
        BY <4>1
    <3>3. Granted' = {j \in Jobs : \E ev \in pass' : ev.job = j /\ ev.event = "slot-granted"}
      BY DEF Granted
    <3> QED
      BY <3>1, <3>2, <3>3, Zenon
  <2>3. Busy' = R \cup g
    BY <1>1, <2>2, Zenon
  <2>4. Within(R \cup g)
    BY <1>2, <2>1, GrantsWithin, Zenon
  <2> HIDE DEF R
  <2> QED
    BY <2>3, <2>4, Zenon DEF Within
<1> QED
  BY <1>4, <1>5, Zenon

\* The events of the pass are for jobs whose needs are as they say.
LEMMA ScheduleNeeds ==
  ASSUME Inv, Schedule
  PROVE  \A ev \in pass' : /\ ev.event = "needs-met" => NeedsDone(ev.job)
                           /\ ev.event = "needs-failed" => NeedFailed(ev.job)
<1>1. PICK evs \in SchedPass(StateOf) : pass' = evs
  BY DEF Schedule
<1>2. \A j \in Jobs : StateOf[j] = run[j].state
  BY DEF StateOf
<1>3. \A j \in Jobs : Needs[j] \subseteq Jobs
  BY SchedAssumption, Zenon
<1>4. CASE Resolved(StateOf) # {}
  <2>1. evs = {[job |-> j, event |-> NeedsEvent(StateOf, j)] : j \in Resolved(StateOf)}
    BY <1>1, <1>4, Zenon DEF SchedPass
  <2>2. \A j \in Resolved(StateOf) : j \in Jobs /\ \A n \in Needs[j] : run[n].state \in Final
    BY <1>2, <1>3, Zenon DEF Resolved
  <2>3. \A j \in Resolved(StateOf) :
          /\ NeedsEvent(StateOf, j) = "needs-met" => NeedsDone(j)
          /\ NeedsEvent(StateOf, j) = "needs-failed" => NeedFailed(j)
    BY <1>2, <1>3, <2>2, Zenon DEF NeedsEvent, NeedsDone, NeedFailed
  <2> QED
    BY <1>1, <2>1, <2>3
<1>5. CASE Resolved(StateOf) = {}
  <2>1. \A ev \in evs : ev.event = "slot-granted"
    BY <1>1, <1>5 DEF SchedPass
  <2> QED
    BY <1>1, <2>1, Zenon
<1> QED
  BY <1>4, <1>5, Zenon

\* Every step keeps the invariant.
LEMMA NextContract ==
  ASSUME SetFacts, Inv, Inv', ContractInv, [Next]_vars
  PROVE  ContractInv'
<1>1. Inv' /\ \A k \in Jobs : Phases(k)
  BY StepPhases
<1>2. Loop
  BY <1>1, LoopShape, Zenon
<1>3. \A j \in Jobs : run[j].state \in Final => run'[j].state = run[j].state
  BY <1>1 DEF Phases
<1>4. /\ \A j \in Jobs : NeedsDone(j) => NeedsDone(j)'
      /\ \A j \in Jobs : NeedFailed(j) => NeedFailed(j)'
  BY <1>3, SchedAssumption DEF NeedsDone, NeedFailed, Final
<1>5. Within(Busy)'
  <2>1. CASE Schedule
    BY <2>1, ScheduleWithin
  <2>2. CASE ~Schedule
    <3>1. pass' \subseteq pass
      BY <1>2, <2>2, Zenon DEF Loop
    <3>2. \A j \in Jobs : run'[j].state \in Running => run[j].state \in Running \/ j \in Granted
      <4>1. \A j \in Jobs : run[j].state \in States
        BY RecordNamed
      <4> QED
        BY <1>1, <4>1, StateRanges DEF Phases
    <3>3. Busy' \subseteq Busy /\ Busy \subseteq Jobs
      BY <3>1, <3>2, Zenon DEF Busy, Granted, RunningIn, StateOf
    <3>4. Within(Busy')
      BY <3>3, WithinFewer, Zenon DEF ContractInv
    <3> QED
      BY <3>4 DEF Within
  <2> QED
    BY <2>1, <2>2
<1>6. pc' = "broadcast" => cancelRequested'
  BY <1>2 DEF Loop, ContractInv
<1>7. pc' = "skip-disabled" => todo' \subseteq Disabled
  BY <1>2, Zenon DEF Loop, ContractInv
<1>8. \A j \in Disabled : run'[j].state \in Final \/ (pc' = "skip-disabled" /\ j \in todo')
  BY <1>2, <1>3, EngineAssumption, Zenon DEF Loop, ContractInv
<1>9. \A j \in Jobs : run'[j].state = "ready" => NeedsDone(j)'
  <2> SUFFICES ASSUME NEW j \in Jobs, run'[j].state = "ready"
               PROVE  NeedsDone(j)
    BY <1>4
  <2> QED
    BY <1>1 DEF Phases, ContractInv
<1>10. \A ev \in pass' : /\ ev.event = "needs-met" => NeedsDone(ev.job)'
                         /\ ev.event = "needs-failed" => NeedFailed(ev.job)'
  <2>1. \A ev \in pass' : /\ ev.event = "needs-met" => NeedsDone(ev.job)
                          /\ ev.event = "needs-failed" => NeedFailed(ev.job)
    BY <1>2, ScheduleNeeds, Zenon DEF Loop, ContractInv
  <2>2. \A ev \in pass' : ev.job \in Jobs
    BY <1>1, Zenon DEF Inv, TypeOK
  <2> QED
    BY <1>4, <2>1, <2>2, ZenonT(30)
<1> QED
  BY <1>5, <1>6, <1>7, <1>8, <1>9, <1>10, Zenon DEF ContractInv

-----------------------------------------------------------------------------
(* The refinement *)

\* The phases of Workflow are these ranges of states.
LEMMA PhaseOf ==
  ASSUME NEW s \in States
  PROVE  /\ s \in Waiting <=> Phase(s) = "waiting"
         /\ s \in Running <=> Phase(s) = "running"
         /\ s \in Final => Phase(s) = s
         /\ s = "success" <=> Phase(s) = "success"
  BY StateRanges, Zenon DEF Phase, Waiting, Final

\* A job that is granted its slot finds one free, and a session too.
LEMMA GrantedFits ==
  ASSUME SetFacts, Inv, ContractInv, NEW j \in Granted
  PROVE  /\ j \in Jobs /\ run[j].state = "ready"
         /\ MaxParallel = 0 \/ Cardinality(RunningIn(StateOf)) < MaxParallel
         /\ \/ Target[j] = 0
            \/ Cardinality({k \in RunningIn(StateOf) : Target[k] = Target[j]})
                 < MaxSessions[Target[j]]
<1> DEFINE R == RunningIn(StateOf)
           A == {k \in R : Target[k] = Target[j]}
           B == {k \in Busy : Target[k] = Target[j]}
<1>1. j \in Jobs /\ run[j].state = "ready"
  BY DEF Granted, Inv, PassOK
<1>2. "ready" \notin Running
  BY DEF Running, StepStates, StepRunning, StepStopping, StepKilling, Settling, SettlingTerm,
         SettlingKill
<1>3. R \subseteq Jobs /\ j \notin R /\ j \in Busy /\ R \subseteq Busy /\ Busy \subseteq Jobs
  BY <1>1, <1>2, Zenon DEF Busy, RunningIn, StateOf, Granted
<1> HIDE DEF R
<1>4. ASSUME NEW S \in SUBSET Jobs, NEW U \in SUBSET Jobs, S \subseteq U, j \in U, j \notin S
      PROVE  Cardinality(S) \in Nat /\ Cardinality(U) \in Nat /\ Cardinality(S) < Cardinality(U)
  <2>1. /\ Cardinality(S) \in Nat /\ Cardinality(U) \in Nat
        /\ Cardinality(S) <= Cardinality(U)
    BY <1>4, JobSets, Zenon
  <2>2. Cardinality(S) # Cardinality(U)
    BY <1>4, <2>1, Zenon DEF SetFacts
  <2> QED
    BY <2>1, <2>2
<1>5. MaxParallel = 0 \/ Cardinality(R) < MaxParallel
  <2>1. Cardinality(R) \in Nat /\ Cardinality(Busy) \in Nat /\ Cardinality(R) < Cardinality(Busy)
    BY <1>3, <1>4, Zenon
  <2> QED
    BY <2>1, SchedAssumption DEF ContractInv, Within
<1>6. Target[j] = 0 \/ Cardinality(A) < MaxSessions[Target[j]]
  <2>1. A \in SUBSET Jobs /\ B \in SUBSET Jobs /\ A \subseteq B /\ j \in B /\ j \notin A
    BY <1>3
  <2>2. Target[j] # 0 => Cardinality(B) <= MaxSessions[Target[j]]
    BY <1>1 DEF ContractInv, Within
  <2>3. Target[j] # 0 => MaxSessions[Target[j]] \in Nat
    BY <1>1, SchedAssumption
  <2> HIDE DEF A, B
  <2>4. Cardinality(A) \in Nat /\ Cardinality(B) \in Nat /\ Cardinality(A) < Cardinality(B)
    BY <1>4, <2>1, Zenon
  <2> QED
    BY <2>2, <2>3, <2>4
<1> QED
  BY <1>1, <1>5, <1>6, Zenon DEF R

\* Every step of the engine is a step of the contract, or changes nothing of it.
LEMMA StepSimulates ==
  ASSUME SetFacts, Inv, Inv', ContractInv, [Next]_vars
  PROVE  [W!Next]_<<[j \in Jobs |-> Phase(run[j].state)], cancelRequested>>
<1> DEFINE phase == [j \in Jobs |-> Phase(run[j].state)]
<1>1. Inv' /\ \A k \in Jobs : Phases(k)
  BY StepPhases
<1>2. PICK j \in Jobs :
        /\ \A k \in Jobs : k # j => run'[k] = run[k]
        /\ cancelRequested' = cancelRequested \/ run' = run \/ run[j].state = "between-steps"
  BY StepPhases
<1>3. Loop
  BY <1>1, LoopShape, Zenon
<1>4. \A k \in Jobs : run[k].state \in States /\ run'[k].state \in States
  BY <1>1, RecordNamed, Zenon DEF Phases
<1>5. cancelRequested' \in {cancelRequested, TRUE}
  BY <1>1, <1>3, Zenon DEF Inv, TypeOK, Loop
<1>6. /\ \A k \in Jobs : phase[k] = Phase(run[k].state) /\ phase'[k] = Phase(run'[k].state)
      /\ phase' = [phase EXCEPT ![j] = Phase(run'[j].state)]
  BY <1>2, Zenon
<1>7. W!Jobs = Jobs
  BY DEF W!Jobs, Jobs
<1>8. CASE Phase(run'[j].state) = Phase(run[j].state)
  <2>1. phase' = phase
    BY <1>2, <1>8, Zenon
  <2> QED
    BY <1>5, <2>1, Zenon DEF W!Next, W!AskStop
<1>9. CASE run[j].state \in Running /\ run'[j].state \in Final
  <2>1. Phase(run'[j].state) \in {"success", "failed", "cancelled"} /\ phase[j] = "running"
    BY <1>1, <1>4, <1>6, <1>9, PhaseOf, StateRanges DEF Phases
  <2>2. W!End(j)
    BY <1>5, <1>6, <2>1, Zenon DEF W!End
  <2> QED
    BY <1>7, <2>2, Zenon DEF W!Next
<1>10. CASE run[j].state \in Waiting /\ run'[j].state # run[j].state
  <2>0. cancelRequested' = cancelRequested /\ phase[j] = "waiting"
    BY <1>2, <1>4, <1>6, <1>10, PhaseOf, ZenonT(30) DEF Waiting
  <2>1. CASE run'[j].state \in Running
    <3>1. j \in Granted
      BY <1>1, <1>10, <2>1, Zenon DEF Phases
    <3>2. \A n \in Needs[j] : phase[n] = "success"
      <4>1. NeedsDone(j)
        BY <3>1, GrantedFits, Zenon DEF ContractInv
      <4> QED
        BY <1>4, <1>6, <4>1, PhaseOf, SchedAssumption, ZenonT(30) DEF NeedsDone
    <3>3. j \notin Disabled
      <4>1. run[j].state \notin Final /\ pass # {}
        BY <1>4, <1>10, <3>1, StateRanges, Zenon DEF Granted
      <4>2. pc = "sched"
        BY <4>1, Zenon DEF Inv
      <4> QED
        BY <4>1, <4>2, Zenon DEF ContractInv
    <3>4. W!Active = RunningIn(StateOf)
      BY <1>4, <1>6, <1>7, PhaseOf, Zenon DEF W!Active, RunningIn, StateOf
    <3>5. W!SlotFree /\ W!SessionFree(j)
      <4>1. /\ MaxParallel = 0 \/ Cardinality(RunningIn(StateOf)) < MaxParallel
            /\ \/ Target[j] = 0
               \/ Cardinality({k \in RunningIn(StateOf) : Target[k] = Target[j]})
                    < MaxSessions[Target[j]]
        BY <3>1, GrantedFits, Zenon
      <4>2. \A S : W!Cardinality(S) = Cardinality(S)
        BY DEF W!Cardinality, Cardinality
      <4> QED
        BY ONLY <3>4, <4>1, <4>2, Zenon DEF W!SlotFree, W!SessionFree
    <3>6. Phase(run'[j].state) = "running"
      BY <1>4, <2>1, PhaseOf, ZenonT(30)
    <3>7. W!Start(j)
      BY <1>6, <2>0, <3>2, <3>3, <3>5, <3>6, Zenon DEF W!Start
    <3> QED
      BY <1>7, <3>7, Zenon DEF W!Next
  <2>2. CASE run'[j].state \in Final
    <3>1. /\ run'[j].state = "skipped"
          /\ \/ \E ev \in pass : ev.job = j /\ ev.event = "needs-failed"
             \/ pc = "skip-disabled" /\ j \in todo
             \/ pc = "broadcast"
      BY <1>1, <1>10, <2>2, ZenonT(30) DEF Phases
    <3>2. \/ j \in Disabled \/ cancelRequested
          \/ \E n \in Needs[j] : run[n].state \in Final \ {"success"}
      BY <3>1 DEF ContractInv, NeedFailed
    <3>3. ASSUME NEW n \in Needs[j], run[n].state \in Final \ {"success"}
          PROVE  phase[n] \in W!Ended \ {"success"}
      <4>1. n \in Jobs
        BY SchedAssumption
      <4>2. phase[n] = run[n].state
        BY <1>4, <1>6, <3>3, <4>1, PhaseOf, ZenonT(30)
      <4> QED
        BY <3>3, <4>2, Zenon DEF W!Ended, Final
    <3>4. Phase(run'[j].state) = "skipped"
      BY <1>4, <2>2, <3>1, PhaseOf, ZenonT(30)
    <3>5. W!Skip(j)
      BY <1>6, <2>0, <3>2, <3>3, <3>4, Zenon DEF W!Skip
    <3> QED
      BY <1>7, <3>5, Zenon DEF W!Next
  <2>3. CASE run'[j].state \in Waiting
    BY <1>4, <1>8, <1>10, <2>3, PhaseOf
  <2> QED
    BY <1>4, <2>1, <2>2, <2>3, StateRanges, Zenon
<1>11. CASE run[j].state \in Running /\ run'[j].state \in Running
  BY <1>4, <1>8, <1>11, PhaseOf, SMTT(30)
<1>12. \/ run'[j].state = run[j].state
       \/ run[j].state \in Waiting
       \/ run[j].state \in Running /\ run'[j].state \in Running \cup Final
  BY <1>1, <1>4, StateRanges, Zenon DEF Phases, Final
<1> QED
  BY <1>8, <1>9, <1>10, <1>11, <1>12, Zenon

-----------------------------------------------------------------------------
(* Where the engine starts, and what the invariants mean *)

\* A run starts awake, with no exit to notice, with something to do and with a
\* contract that starts with it.
LEMMA InitMeans ==
  ASSUME Init
  PROVE  SleepInv /\ NoticedInv /\ NeverUnrunnable /\ W!Init
<1>1. SleepInv /\ NeverUnrunnable
  BY DEF Init, SleepInv, NeverUnrunnable
<1>2. NoticedInv
  BY DEF Init, NewRun, NoticedInv, Exited
<1>3. W!Init
  BY DEF Init, W!Init, W!Jobs, Jobs, NewRun, Phase
<1> QED
  BY <1>1, <1>2, <1>3, Zenon

\* Asleep, the loop has no cancel to tell ...
LEMMA SleepMeans ==
  ASSUME SleepInv
  PROVE  CancelHeard
  BY DEF SleepInv, CancelHeard

\* ... and no exit to reap.
LEMMA NoticedMeans ==
  ASSUME NoticedInv
  PROVE  NoLostExit
  BY DEF NoticedInv, NoLostExit, Exited
=============================================================================
