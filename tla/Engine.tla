------------------------------- MODULE Engine --------------------------------
(***************************************************************************)
(* The engine that runs a workflow (src/src/kernel/workflow.c): one        *)
(* process, one thread, an epoll loop that turns child exits, timers and   *)
(* the operator's cancel into lifecycle events, and the scheduler pass     *)
(* that starts jobs.  The operating system (step processes, timerfds,      *)
(* signalfds) is the environment and interleaves with every step.          *)
(*                                                                         *)
(* run[j] is the struct job_run of job j with the kernel objects it owns:  *)
(*   state       the lifecycle state                                       *)
(*   cur, live   the cursor and the live step, counted from 1 (0: no step  *)
(*               is live; -1 in the code)                                  *)
(*   leader      the live step's leader: "none" (proc_ok = 0), "alive",    *)
(*               "zombie", or "reaped" (leader_reaped = 1)                 *)
(*   members     the other live processes of the step's group              *)
(*   sent        the strongest signal the group was sent                   *)
(*   jobTimer, stepTimer, graceTimer   a timerfd: "closed", "idle",        *)
(*               "armed", "elapsed" (readable) or "fired" (read)           *)
(*   cancelTold, timeoutTold, lastReason, followup   as in the struct;     *)
(*               followup is "a start-failed is owed"                      *)
(*   started     job->steps # NULL                                         *)
(*   steps       the recorded outcome and reason of each step              *)
(*   reason      the recorded reason of the job                            *)
(***************************************************************************)
EXTENDS Integers, Sched

CONSTANTS
  NSteps,       \* NSteps[j]: the number of steps of j
  Coe,          \* Coe[j][k]: continue-on-error of step k
  StepTimeout,  \* StepTimeout[j][k]: step k has a timeout
  JobTimeout,   \* JobTimeout[j]: job j has a timeout
  Disabled,     \* the jobs whose target is marked out of service
  ExitReasons,  \* the reasons leader_exit_event gives a failed leader
  MaxMembers,   \* bound: live group members besides the leader
  MaySetsid     \* whether a group member may leave its group (setsid)

ASSUME EngineAssumption ==
  /\ NSteps \in [Jobs -> Nat]
  /\ \A j \in Jobs : Coe[j] \in [1..NSteps[j] -> BOOLEAN]
  /\ \A j \in Jobs : StepTimeout[j] \in [1..NSteps[j] -> BOOLEAN]
  /\ JobTimeout \in [Jobs -> BOOLEAN]
  /\ Disabled \subseteq Jobs
  /\ ExitReasons \subseteq STRING
  /\ MaxMembers \in Nat
  /\ MaySetsid \in BOOLEAN

\* leader_exit_event gives every failed leader a reason.
ASSUME ReasonsAssumption == "none" \notin ExitReasons

VARIABLES
  run,             \* the jobs
  aborted,         \* qwe_lc_lookup met an impossible cell
  pc,              \* where run_all is
  pass,            \* the events of the scheduler pass still to be sent
  batch,           \* the epoll events of this wakeup still to be handled
  todo,            \* the jobs whose group reap_children has still to check
  chld,            \* chld_fd is readable
  cancelFd,        \* cancel_fd is readable
  cancelRequested  \* ctx->cancel_requested

vars == <<run, aborted, pc, pass, batch, todo, chld, cancelFd, cancelRequested>>

loop == <<pc, pass, batch, todo>>

Lowest(S) == CHOOSE j \in S : \A k \in S : j <= k

NoStep == 0

NotRecorded == [outcome |-> "none", reason |-> "none"]

NoPayload == [coe |-> FALSE, reason |-> "none", carried |-> "none"]

NewRun(j) ==
  [state |-> "pending", cur |-> 1, live |-> NoStep, leader |-> "none", members |-> 0,
   sent |-> "none", jobTimer |-> "closed", stepTimer |-> "closed",
   graceTimer |-> "closed", cancelTold |-> FALSE, timeoutTold |-> FALSE,
   lastReason |-> "none", followup |-> FALSE, started |-> FALSE,
   steps |-> [k \in 1..NSteps[j] |-> NotRecorded], reason |-> "none"]

-----------------------------------------------------------------------------
(***************************************************************************)
(* The actions of the table, each on the record of its job.                *)
(***************************************************************************)

\* job_start; fails: the ring, the log or the timer could not be opened, so
\* everything is released again and a start-failed is owed.
StartJob(j, r, fails) ==
  IF fails THEN [r EXCEPT !.followup = TRUE]
  ELSE [r EXCEPT !.started = TRUE,
                 !.jobTimer = IF JobTimeout[j] THEN "armed" ELSE "idle"]

\* step_spawn; fails: a template, a refused ssh master, the output file, a
\* timer or the process could not be made.  The step is live all the same.
SpawnStep(j, r, fails) ==
  IF fails THEN [r EXCEPT !.live = r.cur, !.followup = TRUE]
  ELSE [r EXCEPT !.live = r.cur, !.leader = "alive", !.sent = "none",
                 !.stepTimer = IF StepTimeout[j][r.cur] THEN "armed" ELSE "idle",
                 !.graceTimer = "idle"]

\* Mutant of StepFinish: the early return for "no step is live" is dropped.
StepFinishAlways(r) ==
  [r EXCEPT !.live = NoStep, !.cur = r.cur + 1, !.leader = "none",
            !.stepTimer = "closed", !.graceTimer = "closed"]

\* step_finish: release what the step held and move the cursor past it.
StepFinish(r) ==
  IF r.live = NoStep THEN r
  ELSE [r EXCEPT !.live = NoStep, !.cur = r.cur + 1, !.leader = "none",
                 !.stepTimer = "closed", !.graceTimer = "closed"]

RecordStep(r, c) ==
  [r EXCEPT !.steps[r.cur] = [outcome |-> StepOutcome(c), reason |-> c.reason]]

\* job_end and job_release: the steps that never ran are skipped.
JobEnd(r) ==
  LET f == StepFinish(r)
  IN  [f EXCEPT !.jobTimer = "closed",
                !.steps = [k \in DOMAIN f.steps |->
                             IF f.started /\ k >= f.cur
                             THEN [outcome |-> "skipped", reason |-> "none"]
                             ELSE f.steps[k]]]

\* The apply_action loop of dispatch_one.
Apply(j, r, c, fails) ==
  LET does(a) == a \in c.actions
      a1 == IF does("start-job") THEN StartJob(j, r, fails) ELSE r
      a2 == IF does("spawn-step") THEN SpawnStep(j, a1, fails) ELSE a1
      a3 == IF does("sigterm-group") THEN [a2 EXCEPT !.sent = "term"] ELSE a2
      a4 == IF does("arm-grace") THEN [a3 EXCEPT !.graceTimer = "armed"] ELSE a3
      a5 == IF does("sigkill-group") THEN [a4 EXCEPT !.sent = "kill"] ELSE a4
      a6 == IF does("record-step") THEN RecordStep(a5, c) ELSE a5
      a7 == IF does("record-job") THEN [a6 EXCEPT !.reason = c.reason] ELSE a6
  IN  IF does("end-job") THEN JobEnd(a7) ELSE a7

\* Mutant of Cell: the recorded reason is not carried.
CellForgets(r, e, p) == Lookup(r.state, e, p)

Cell(r, e, p) == Lookup(r.state, e, [p EXCEPT !.carried = r.lastReason])

\* What every event that is not stale leaves in the record.
Told(r, e, c) ==
  [r EXCEPT !.cancelTold = r.cancelTold \/ e = "cancel",
            !.timeoutTold = r.timeoutTold \/ e = "job-timeout",
            !.state = c.next,
            !.lastReason = IF c.reason = "none" THEN r.lastReason ELSE c.reason]

\* dispatch_one, past the stale filter.
Transition(j, r, e, p, fails) ==
  LET c == Cell(r, e, p)
      told == Told(r, e, c)
  IN  Apply(j, IF e = "group-empty" THEN StepFinish(told) ELSE told, c, fails)

\* dispatch_one on the record r of job j: the handler has already changed r
\* (read a timer, reaped the leader).  An impossible cell aborts the engine.
Dispatch(j, r, e, p, step) ==
  LET stale == IsStale(r.state, e, step, r.live)
      c == Cell(r, e, p)
  IN  /\ aborted' = (~stale /\ c.kind = "impossible")
      /\ IF stale \/ c.kind = "impossible"
         THEN run' = [run EXCEPT ![j] = r]
         ELSE \E fails \in IF c.actions \cap {"start-job", "spawn-step"} = {}
                           THEN {FALSE} ELSE BOOLEAN :
                run' = [run EXCEPT ![j] = Transition(j, r, e, p, fails)]

-----------------------------------------------------------------------------
(***************************************************************************)
(* job_send: after an event the job is sent whatever it is owed, and the   *)
(* loop goes on only when no job is owed anything.                         *)
(***************************************************************************)

Owed(j) == run[j].followup \/ run[j].state = "between-steps"

Quiet == ~aborted /\ \A j \in Jobs : ~Owed(j)

\* qwe_timer_expired on a timer: reading an elapsed one consumes it.
Read(timer) == IF timer = "elapsed" THEN "fired" ELSE timer

Expired(timer) == timer \in {"elapsed", "fired"}

SendStartFailed(j) ==
  /\ ~aborted
  /\ run[j].followup
  /\ Dispatch(j, [run[j] EXCEPT !.followup = FALSE], "start-failed", NoPayload, NoStep)
  /\ UNCHANGED <<loop, chld, cancelFd, cancelRequested>>

\* between_steps_event: it asks the cancel signalfd first, then the job timer,
\* and only then moves the cursor.
BetweenSteps(j) ==
  LET r == run[j]
      asks == ~r.cancelTold
      cancel == asks /\ (cancelRequested \/ cancelFd)
      reads == ~cancel /\ r.jobTimer # "closed" /\ ~r.timeoutTold
      timeout == reads /\ Expired(r.jobTimer)
      s == IF reads THEN [r EXCEPT !.jobTimer = Read(@)] ELSE r
  IN  /\ ~aborted
      /\ ~r.followup /\ r.state = "between-steps"
      /\ cancelRequested' = (cancelRequested \/ cancel)
      /\ cancelFd' = (cancelFd /\ ~asks)
      /\ \/ cancel /\ Dispatch(j, s, "cancel", NoPayload, NoStep)
         \/ timeout /\ Dispatch(j, s, "job-timeout", NoPayload, NoStep)
         \/ /\ ~cancel /\ ~timeout /\ r.cur <= NSteps[j]
            /\ Dispatch(j, s, "next-step", [NoPayload EXCEPT !.coe = Coe[j][r.cur]], NoStep)
         \/ /\ ~cancel /\ ~timeout /\ r.cur > NSteps[j]
            /\ Dispatch(j, s, "no-more-steps", NoPayload, NoStep)
      /\ UNCHANGED <<loop, chld>>

-----------------------------------------------------------------------------
(***************************************************************************)
(* run_all: skip what is disabled, then broadcast, schedule, wait, handle. *)
(***************************************************************************)

StateOf == [j \in Jobs |-> run[j].state]

Untold == {j \in Jobs : ~run[j].cancelTold}

\* Mutant of MustBroadcast: no second broadcast after the scheduler pass.
MustBroadcastOnce == pc # "sched" /\ cancelRequested /\ Untold # {}

\* broadcast_cancel has someone to tell.
MustBroadcast == cancelRequested /\ Untold # {}

Top == IF MustBroadcast THEN "broadcast" ELSE "sched"

SkipDisabled(j) ==
  /\ pc = "skip-disabled" /\ Quiet
  /\ j \in todo /\ j = Lowest(todo)
  /\ Dispatch(j, run[j], "skip", [NoPayload EXCEPT !.reason = "target-disabled"], NoStep)
  /\ todo' = todo \ {j}
  /\ UNCHANGED <<pc, pass, batch, chld, cancelFd, cancelRequested>>

StartLoop ==
  /\ pc = "skip-disabled" /\ Quiet /\ todo = {}
  /\ pc' = Top
  /\ UNCHANGED <<run, aborted, pass, batch, todo, chld, cancelFd, cancelRequested>>

BroadcastCancel(j) ==
  /\ pc = "broadcast" /\ Quiet
  /\ j \in Untold /\ j = Lowest(Untold)
  /\ Dispatch(j, run[j], "cancel", NoPayload, NoStep)
  /\ UNCHANGED <<loop, chld, cancelFd, cancelRequested>>

BroadcastDone ==
  /\ pc = "broadcast" /\ Quiet /\ Untold = {}
  /\ pc' = "sched"
  /\ UNCHANGED <<run, aborted, pass, batch, todo, chld, cancelFd, cancelRequested>>

\* One qwe_sched_pass.  When it has nothing to send: broadcast again if a job
\* read the cancel meanwhile, else end, give up, or wait.
Schedule ==
  /\ pc = "sched" /\ Quiet /\ pass = {}
  /\ \E evs \in SchedPass(StateOf) :
       /\ pass' = evs
       /\ pc' = IF evs # {} THEN "sched"
                ELSE IF MustBroadcast THEN "broadcast"
                ELSE IF \A j \in Jobs : run[j].state \in Final THEN "done"
                ELSE IF RunningIn(StateOf) = {} THEN "unrunnable"
                ELSE "wait"
  /\ UNCHANGED <<run, aborted, batch, todo, chld, cancelFd, cancelRequested>>

SendPass(j) ==
  /\ pc = "sched" /\ Quiet
  /\ \E ev \in pass :
       /\ ev.job = j /\ \A other \in pass : j <= other.job
       /\ Dispatch(j, run[j], ev.event, NoPayload, NoStep)
       /\ pass' = pass \ {ev}
  /\ UNCHANGED <<pc, batch, todo, chld, cancelFd, cancelRequested>>

Tag(kind, j, step) == [kind |-> kind, job |-> j, step |-> step]

\* The readable fds.  The pipes' events are left to module Output: they change
\* no lifecycle state.
Readable ==
  {Tag("child", 0, NoStep) : x \in {y \in {0} : chld}}
    \cup {Tag("cancel", 0, NoStep) : x \in {y \in {0} : cancelFd}}
    \cup {Tag("job-timer", j, NoStep) : j \in {k \in Jobs : run[k].jobTimer = "elapsed"}}
    \cup {Tag("step-timer", j, run[j].live) : j \in {k \in Jobs : run[k].stepTimer = "elapsed"}}
    \cup {Tag("grace-timer", j, run[j].live) :
            j \in {k \in Jobs : run[k].graceTimer = "elapsed"}}

EpollWait ==
  /\ pc = "wait" /\ Quiet
  /\ Readable # {}
  /\ batch' = Readable
  /\ pc' = "batch"
  /\ UNCHANGED <<run, aborted, pass, todo, chld, cancelFd, cancelRequested>>

BatchDone ==
  /\ pc = "batch" /\ Quiet /\ batch = {}
  /\ pc' = Top
  /\ UNCHANGED <<run, aborted, pass, batch, todo, chld, cancelFd, cancelRequested>>

\* Mutant of StepTimerEvent: the expiry is taken to be the live step's.
StepTimerEventUntagged(tag) ==
  LET r == run[tag.job]
  IN  /\ tag.kind = "step-timer"
      /\ Dispatch(tag.job, [r EXCEPT !.stepTimer = Read(@)], "step-timeout", NoPayload, r.live)

\* job_event for the two timers of a step.  The tag says which step the timer
\* was opened for; only the live step's timers are read.
StepTimerEvent(tag) ==
  LET r == run[tag.job]
      live == tag.step = r.live /\ r.leader # "none"
      s == IF live THEN [r EXCEPT !.stepTimer = Read(@)] ELSE r
  IN  /\ tag.kind = "step-timer"
      /\ IF live /\ ~Expired(r.stepTimer) THEN UNCHANGED <<run, aborted>>
         ELSE Dispatch(tag.job, s, "step-timeout", NoPayload, tag.step)

GraceTimerEvent(tag) ==
  LET r == run[tag.job]
      live == tag.step = r.live /\ r.leader # "none"
      s == IF live THEN [r EXCEPT !.graceTimer = Read(@)] ELSE r
  IN  /\ tag.kind = "grace-timer"
      /\ IF live /\ ~Expired(r.graceTimer) THEN UNCHANGED <<run, aborted>>
         ELSE Dispatch(tag.job, s, "grace-expired", NoPayload, tag.step)

\* Mutant of JobTimerEvent: the timer is read and left to between_steps_event.
JobTimerEventLater(tag) ==
  /\ tag.kind = "job-timer"
  /\ run' = [run EXCEPT ![tag.job].jobTimer = Read(@)]
  /\ UNCHANGED aborted

\* A timeout the job was already told of (between_steps_event) is not sent again.
JobTimerEvent(tag) ==
  LET r == run[tag.job]
      open == r.jobTimer # "closed"
      s == IF open /\ ~r.timeoutTold THEN [r EXCEPT !.jobTimer = Read(@)] ELSE r
  IN  /\ tag.kind = "job-timer"
      /\ IF open /\ (r.timeoutTold \/ ~Expired(r.jobTimer)) THEN UNCHANGED <<run, aborted>>
         ELSE Dispatch(tag.job, s, "job-timeout", NoPayload, NoStep)

JobEvent(tag) ==
  /\ pc = "batch" /\ Quiet /\ tag \in batch
  /\ StepTimerEvent(tag) \/ GraceTimerEvent(tag) \/ JobTimerEvent(tag)
  /\ batch' = batch \ {tag}
  /\ UNCHANGED <<pc, pass, todo, chld, cancelFd, cancelRequested>>

\* Mutant of CancelEvent: the signal is read and the sticky flag is not set.
CancelEventLost(tag) ==
  /\ pc = "batch" /\ Quiet /\ tag \in batch
  /\ tag.kind = "cancel"
  /\ cancelFd' = FALSE
  /\ batch' = batch \ {tag}
  /\ UNCHANGED <<run, aborted, pc, pass, todo, chld, cancelRequested>>

\* poll_cancel from the loop.
CancelEvent(tag) ==
  /\ pc = "batch" /\ Quiet /\ tag \in batch
  /\ tag.kind = "cancel"
  /\ cancelRequested' = (cancelRequested \/ cancelFd)
  /\ cancelFd' = FALSE
  /\ batch' = batch \ {tag}
  /\ UNCHANGED <<run, aborted, pc, pass, todo, chld>>

\* reap_children: first the signalfd is emptied ...
ReadChld(tag) ==
  /\ pc = "batch" /\ Quiet /\ tag \in batch
  /\ tag.kind = "child"
  /\ chld' = FALSE
  /\ batch' = batch \ {tag}
  /\ pc' = "reap"
  /\ UNCHANGED <<run, aborted, pass, todo, cancelFd, cancelRequested>>

\* ... then waitpid takes the exits, in any order.  leader_exit_event says what
\* a leader's exit means: success, or a failure with a reason.
ReapLeader(j) ==
  /\ pc = "reap" /\ Quiet
  /\ run[j].leader = "zombie"
  /\ LET r == [run[j] EXCEPT !.leader = "reaped"]
     IN  \/ Dispatch(j, r, "leader-exit-ok", NoPayload, r.live)
         \/ \E why \in ExitReasons :
              Dispatch(j, r, "leader-exit-fail", [NoPayload EXCEPT !.reason = why], r.live)
  /\ UNCHANGED <<loop, chld, cancelFd, cancelRequested>>

\* waitpid returns 0: the groups are checked next, in job order.
ReapDone ==
  /\ pc = "reap" /\ Quiet
  /\ \A j \in Jobs : run[j].leader # "zombie"
  /\ pc' = "groups"
  /\ todo' = Jobs
  /\ UNCHANGED <<run, aborted, pass, batch, chld, cancelFd, cancelRequested>>

\* Mutant of CheckGroup: the step is over when its leader is.
CheckGroupLeader(j) ==
  /\ pc = "groups" /\ Quiet
  /\ j \in todo /\ j = Lowest(todo)
  /\ IF run[j].live # NoStep /\ run[j].leader = "reaped"
     THEN Dispatch(j, run[j], "group-empty", NoPayload, run[j].live)
     ELSE UNCHANGED <<run, aborted>>
  /\ todo' = todo \ {j}
  /\ UNCHANGED <<pc, pass, batch, chld, cancelFd, cancelRequested>>

CheckGroup(j) ==
  /\ pc = "groups" /\ Quiet
  /\ j \in todo /\ j = Lowest(todo)
  /\ IF run[j].live # NoStep /\ run[j].leader = "reaped" /\ run[j].members = 0
     THEN Dispatch(j, run[j], "group-empty", NoPayload, run[j].live)
     ELSE UNCHANGED <<run, aborted>>
  /\ todo' = todo \ {j}
  /\ UNCHANGED <<pc, pass, batch, chld, cancelFd, cancelRequested>>

\* Mutant of GroupsDone: the signalfd is emptied last instead of first.
GroupsDoneLate ==
  /\ pc = "groups" /\ Quiet /\ todo = {}
  /\ pc' = "batch"
  /\ chld' = FALSE
  /\ UNCHANGED <<run, aborted, pass, batch, todo, cancelFd, cancelRequested>>

GroupsDone ==
  /\ pc = "groups" /\ Quiet /\ todo = {}
  /\ pc' = "batch"
  /\ UNCHANGED <<run, aborted, pass, batch, todo, chld, cancelFd, cancelRequested>>

-----------------------------------------------------------------------------
(***************************************************************************)
(* The operating system and the operator.                                  *)
(***************************************************************************)

\* A process of the step's group forks; one that was sent SIGKILL runs no more.
Fork(j) ==
  /\ run[j].leader = "alive" \/ run[j].members > 0
  /\ run[j].sent # "kill"
  /\ run[j].members < MaxMembers
  /\ run' = [run EXCEPT ![j].members = @ + 1]
  /\ UNCHANGED <<aborted, loop, chld, cancelFd, cancelRequested>>

\* The leader is a child of qwe: its exit makes chld_fd readable.
LeaderExit(j) ==
  /\ run[j].leader = "alive"
  /\ run' = [run EXCEPT ![j].leader = "zombie"]
  /\ chld' = TRUE
  /\ UNCHANGED <<aborted, loop, cancelFd, cancelRequested>>

\* Another member exits.  While the leader lives its parent may be the leader or
\* qwe; after that qwe, the subreaper, is the parent of the last one at the latest.
MemberExit(j) ==
  /\ run[j].members > 0
  /\ run' = [run EXCEPT ![j].members = @ - 1]
  /\ chld' \in BOOLEAN
  /\ chld \/ run[j].leader # "alive" => chld'
  /\ UNCHANGED <<aborted, loop, cancelFd, cancelRequested>>

\* A member leaves the group without exiting (design section 9.3).
Setsid(j) ==
  /\ MaySetsid
  /\ run[j].members > 0 /\ run[j].sent # "kill"
  /\ run' = [run EXCEPT ![j].members = @ - 1]
  /\ UNCHANGED <<aborted, loop, chld, cancelFd, cancelRequested>>

\* A child of qwe that is in no step's group exits: one that left its group.
StrayExit ==
  /\ MaySetsid
  /\ chld' = TRUE
  /\ UNCHANGED <<run, aborted, loop, cancelFd, cancelRequested>>

JobTimerElapses(j) ==
  /\ run[j].jobTimer = "armed"
  /\ run' = [run EXCEPT ![j].jobTimer = "elapsed"]
  /\ UNCHANGED <<aborted, loop, chld, cancelFd, cancelRequested>>

StepTimerElapses(j) ==
  /\ run[j].stepTimer = "armed"
  /\ run' = [run EXCEPT ![j].stepTimer = "elapsed"]
  /\ UNCHANGED <<aborted, loop, chld, cancelFd, cancelRequested>>

GraceElapses(j) ==
  /\ run[j].graceTimer = "armed"
  /\ run' = [run EXCEPT ![j].graceTimer = "elapsed"]
  /\ UNCHANGED <<aborted, loop, chld, cancelFd, cancelRequested>>

\* SIGINT or SIGTERM to qwe, at any time and any number of times.
OperatorCancel ==
  /\ cancelFd' = TRUE
  /\ UNCHANGED <<run, aborted, loop, chld, cancelRequested>>

-----------------------------------------------------------------------------
Init ==
  /\ run = [j \in Jobs |-> NewRun(j)]
  /\ aborted = FALSE
  /\ pc = "skip-disabled"
  /\ pass = {} /\ batch = {} /\ todo = Disabled
  /\ chld = FALSE /\ cancelFd = FALSE /\ cancelRequested = FALSE

EngineStep ==
  \/ StartLoop \/ BroadcastDone \/ Schedule \/ EpollWait \/ BatchDone
  \/ ReapDone \/ GroupsDone
  \/ \E j \in Jobs :
       \/ SendStartFailed(j) \/ BetweenSteps(j) \/ SkipDisabled(j)
       \/ BroadcastCancel(j) \/ SendPass(j) \/ ReapLeader(j) \/ CheckGroup(j)
  \/ \E tag \in batch : JobEvent(tag) \/ CancelEvent(tag) \/ ReadChld(tag)

Finished == aborted \/ pc \in {"done", "unrunnable"}

Environment ==
  /\ ~Finished
  /\ \/ OperatorCancel \/ StrayExit
     \/ \E j \in Jobs :
          \/ Fork(j) \/ LeaderExit(j) \/ MemberExit(j) \/ Setsid(j)
          \/ JobTimerElapses(j) \/ StepTimerElapses(j) \/ GraceElapses(j)

\* The engine has returned from run_all, or aborted.
Stopped == Finished /\ UNCHANGED vars

Next == EngineStep \/ Environment \/ Stopped

Spec == Init /\ [][Next]_vars

-----------------------------------------------------------------------------
Timers == {"closed", "idle", "armed", "elapsed", "fired"}

Reasons ==
  {"none", "dependency-failed", "cancel-requested", "timeout", "engine-error",
   "target-disabled"} \cup ExitReasons

Outcomes == {"none", "success", "failed", "cancelled", "skipped"}

Payloads == [coe : BOOLEAN, reason : Reasons, carried : Reasons]

\* The states a job waits in.
Waiting == {"pending", "ready"}

JobRuns(j) ==
  [state : States, cur : 1..NSteps[j] + 1, live : 0..NSteps[j],
   leader : {"none", "alive", "zombie", "reaped"}, members : 0..MaxMembers,
   sent : {"none", "term", "kill"},
   jobTimer : Timers, stepTimer : Timers, graceTimer : Timers,
   cancelTold : BOOLEAN, timeoutTold : BOOLEAN, lastReason : Reasons,
   followup : BOOLEAN, started : BOOLEAN,
   steps : [1..NSteps[j] -> [outcome : Outcomes, reason : Reasons]],
   reason : Reasons]

Tags ==
  [kind : {"child", "cancel", "job-timer", "step-timer", "grace-timer"},
   job : 0..N, step : Nat]

\* Every variable keeps its type: in particular the cursor never passes the
\* step after the last one, whichever of step_finish and job_end moves it.
TypeOK ==
  /\ run = [j \in Jobs |-> run[j]] /\ \A j \in Jobs : run[j] \in JobRuns(j)
  /\ aborted \in BOOLEAN
  /\ pc \in {"skip-disabled", "broadcast", "sched", "wait", "batch", "reap", "groups",
             "done", "unrunnable"}
  /\ pass \subseteq [job : Jobs, event : {"needs-met", "needs-failed", "slot-granted"}]
  /\ batch \subseteq Tags
  /\ todo \subseteq Jobs
  /\ chld \in BOOLEAN /\ cancelFd \in BOOLEAN /\ cancelRequested \in BOOLEAN

(***************************************************************************)
(* The inductive invariant behind NeverAborts, TimeoutIsOwn and            *)
(* NothingOutlivesItsStep.  For one job: which step is live, what the step *)
(* holds open, and what the state says about its leader and timers.        *)
(***************************************************************************)

JobOK(r) ==
  /\ r.live # NoStep => r.live = r.cur
  /\ r.state \in StepStates <=> r.live # NoStep
  /\ r.live = NoStep \/ r.followup =>
       r.leader = "none" /\ r.members = 0 /\ r.stepTimer = "closed" /\ r.graceTimer = "closed"
  /\ r.live # NoStep /\ ~r.followup => r.leader # "none"
  /\ r.followup => r.state \in StepRunning \cup {"between-steps"}
  /\ r.state \in StepStopping \cup StepKilling => r.stepTimer = "fired"
  /\ r.state \in StepRunning => r.graceTimer \in {"idle", "closed"}
  /\ r.state \in StepStopping \cup SettlingTerm => r.graceTimer \in {"armed", "elapsed"}
  /\ r.state \in StepKilling \cup SettlingKill => r.graceTimer = "fired"
  /\ r.leader = "reaped" => r.state \in Settling
  /\ r.state \in SettlingCancelTimeout => r.timeoutTold
  /\ r.jobTimer # "closed" => r.state \in Running

\* An epoll event still to be handled is about the live step and its timer has
\* not been read, or it is about a step that is over.
TagOK(r, tag) ==
  /\ tag.kind = "step-timer" =>
       /\ tag.step \in 1..r.cur
       /\ tag.step = r.cur => r.live = r.cur /\ r.stepTimer = "elapsed"
  /\ tag.kind = "grace-timer" =>
       /\ tag.step \in 1..r.cur
       /\ tag.step = r.cur => r.live = r.cur /\ r.graceTimer = "elapsed"
  /\ tag.kind = "job-timer" => r.state \in Final \/ r.jobTimer # "closed"

\* An event of the scheduler pass still to be sent finds its job as the pass
\* saw it.
PassOK(ev) ==
  /\ ev.event \in {"needs-met", "needs-failed"} => run[ev.job].state = "pending"
  /\ ev.event = "slot-granted" => run[ev.job].state = "ready"

Inv ==
  /\ TypeOK
  /\ ~aborted
  /\ \A j \in Jobs : JobOK(run[j])
  /\ \A tag \in batch : tag.kind \in {"step-timer", "grace-timer", "job-timer"} =>
       tag.job \in Jobs /\ TagOK(run[tag.job], tag)
  /\ \A ev \in pass : PassOK(ev)
  /\ \A ev1, ev2 \in pass : ev1.job = ev2.job => ev1 = ev2
  /\ pass # {} => pc = "sched"
  /\ pc = "skip-disabled" => \A j \in todo : run[j].state = "pending"

\* No event the loop, the scheduler or a follow-up sends ever meets an
\* impossible cell of the table, so qwe_lc_lookup never aborts a run.
NeverAborts == ~aborted

\* SIGKILL goes only to a group that was sent SIGTERM and whose grace period
\* has run out (the stopping and settling rows of the table).
KillAfterGrace ==
  [][\A j \in Jobs :
       run'[j].sent = "kill" /\ run[j].sent # "kill" =>
         run[j].sent = "term" /\ run'[j].graceTimer = "fired"]_vars

\* A step gets one grace period: a further trigger during its teardown never
\* arms the grace timer again and so never delays the SIGKILL.
OneGracePeriod ==
  [][\A j \in Jobs :
       run[j].live # NoStep /\ run[j].graceTimer \in {"elapsed", "fired"}
         => run'[j].graceTimer # "armed"]_vars

\* When several triggers fire the strongest decides how the job ends: the
\* operator's cancel, then the job timeout, then whatever the steps did.
StrongestTriggerWins ==
  [][\A j \in Jobs :
       LET r == run'[j]
       IN  run[j].state \in Running /\ r.state \in Final =>
             IF r.cancelTold THEN r.state = "cancelled" /\ r.reason = "cancel-requested"
             ELSE IF r.timeoutTold THEN r.state = "cancelled" /\ r.reason = "timeout"
             ELSE r.state \in {"success", "failed"}]_vars

\* A step in teardown for a timeout has had its own step timer expire: an
\* expiry left over in the batch from an earlier step never stops this one.
TimeoutIsOwn ==
  \A j \in Jobs : run[j].state \in StepStopping \cup StepKilling => run[j].stepTimer = "fired"

\* A step that may be followed by another: it succeeded, or failed with
\* continue-on-error.
Passed(j, k) ==
  LET s == run[j].steps[k]
  IN  s.outcome = "success" \/ (s.outcome = "failed" /\ Coe[j][k])

\* Every step of a started job that has ended is accounted for: the steps that
\* ran, then at most one that stopped the job, then only skipped ones.  A
\* failed job carries the very reason of the step that failed it.
StepsAccountedFor ==
  \A j \in Jobs :
    LET r == run[j]
        outcome(k) == r.steps[k].outcome
        ends == {k \in 1..NSteps[j] : ~Passed(j, k) /\ outcome(k) # "skipped"}
    IN  r.state \in Final /\ r.started =>
          /\ \A k \in 1..NSteps[j] : outcome(k) # "none"
          /\ \A k, l \in 1..NSteps[j] : k < l /\ ~Passed(j, k) => outcome(l) = "skipped"
          /\ Cardinality(ends) <= 1
          /\ r.state = "success" => \A k \in 1..NSteps[j] : Passed(j, k)
          /\ r.state = "failed" =>
               \E k \in 1..NSteps[j] :
                 /\ r.steps[k] = [outcome |-> "failed", reason |-> r.reason]
                 /\ \A l \in k + 1..NSteps[j] : outcome(l) = "skipped"

\* A step is over only when its whole process group is: no process of the group
\* runs on beside the next step or after the job (reap_children, step_finish).
NothingOutlivesItsStep ==
  \A j \in Jobs : run[j].live = NoStep => run[j].leader = "none" /\ run[j].members = 0

\* When the engine goes to sleep, every exit that still has to be acted on
\* keeps chld_fd readable: emptying the signalfd before waitpid loses none.
\* (Assumes no member leaves its group.)
NoLostExit ==
  pc = "wait" /\ ~MaySetsid =>
    \A j \in Jobs :
      LET r == run[j]
      IN  r.leader = "zombie" \/ (r.leader = "reaped" /\ r.members = 0) => chld

\* When the engine goes to sleep, a cancel it has read has been told to every
\* job, also one that a job read between two steps during the scheduler pass.
CancelHeard == pc = "wait" /\ cancelRequested => Untold = {}

\* max_parallel and every target's session cap hold at all times.
LimitsHold ==
  LET active == RunningIn(StateOf)
  IN  /\ MaxParallel # 0 => Cardinality(active) <= MaxParallel
      /\ \A j \in Jobs : Target[j] # 0 =>
           Cardinality({k \in active : Target[k] = Target[j]}) <= MaxSessions[Target[j]]

\* The "neither finished nor runnable" exit of run_all is never taken when the
\* needs are acyclic.
NeverUnrunnable == Acyclic => pc # "unrunnable"

-----------------------------------------------------------------------------
(***************************************************************************)
(* Fairness: the loop is never idle while it can step; a grace period runs *)
(* out; a process that was sent SIGKILL dies.  Nothing else is fair: a step*)
(* may run for ever and may ignore SIGTERM.                                *)
(***************************************************************************)

Killed(j) == run[j].sent = "kill" /\ (LeaderExit(j) \/ MemberExit(j))

Fairness ==
  /\ WF_vars(EngineStep)
  /\ \A j \in Jobs : WF_vars(GraceElapses(j)) /\ WF_vars(Killed(j))

FairSpec == Spec /\ Fairness

\* Teardown ends: a step that is being stopped is over within a grace period
\* and the time its processes take to die.
TeardownEnds ==
  \A j \in Jobs : run[j].state \in TeardownStarted ~> run[j].state \notin TeardownStarted

\* An operator's cancel ends the run, wherever in the loop it arrives.
CancelEndsRun == cancelFd ~> pc = "done"

\* A job whose timeout has elapsed ends.
JobTimeoutEndsJob ==
  \A j \in Jobs : run[j].jobTimer = "elapsed" ~> run[j].state \in Final
=============================================================================
