------------------------------- MODULE Remote --------------------------------
(***************************************************************************)
(* Steps on ssh targets: one ControlMaster per target, started before the  *)
(* first job and again when it has died, the clients that run a step's     *)
(* commands over it, the helpers that signal a step's processes on the     *)
(* remote host, and the end of the run (backend-ssh/ssh.lua, luaexec.c and *)
(* the remote_* functions, preconnect and close_masters of workflow.c).    *)
(*                                                                         *)
(* A master may die at any time, an "ssh -O" command may go unanswered,    *)
(* starting a master may fail, or time out although the master has come    *)
(* up, and the socket directory may be refused.  What happens to a step's  *)
(* processes on the host is not followed: a helper is heard or it is not.  *)
(***************************************************************************)
EXTENDS Naturals, Sequences, FiniteSets

CONSTANTS
  NJobs,      \* the number of jobs
  NSteps,     \* job -> how many steps it has
  TargetOf,   \* job -> target
  LocalOnly,  \* the jobs whose steps all run "on: local"
  Disabled,   \* the targets marked out of service
  MaxDeaths,  \* bound: how many masters die
  MaxSlow     \* bound: how many "ssh -O" commands go unanswered

Jobs == 1..NJobs
Targets == {TargetOf[j] : j \in Jobs}

ASSUME RemoteAssumption == NJobs \in Nat /\ NSteps \in [Jobs -> Nat] /\ MaxSlow \in Nat

VARIABLES
  phase,      \* "connect", "loop", "wait" and "exit" in close_all, "closed"
  next,       \* the job preconnect looks at next
  up,         \* target -> its master runs
  entry,      \* masters[target]: "none", "known" or "unreachable"
  job,        \* job -> its live step
  kills,      \* the kill helpers that are still running
  faults,     \* how many masters have died and commands gone unanswered
  seen        \* what has happened: not in the code

vars == <<phase, next, up, entry, job, kills, faults, seen>>

NoStep == [n |-> 0, st |-> "ready", client |-> "none", code |-> 0, unreach |-> FALSE,
           torn |-> "no", reason |-> "none", lost |-> FALSE, again |-> FALSE]

\* Only jobs with a step on a target in service concern this module.
Remote == {j \in Jobs : j \notin LocalOnly /\ TargetOf[j] \notin Disabled}

-----------------------------------------------------------------------------
(* The connection *)

\* exec_run with a timeout: the command's exit code, or none when the bound has
\* passed, whatever the command has done by then.
NoCode == 999
ExecRun(code, late) == IF late THEN NoCode ELSE code

\* alive: "ssh -O check" answers 0 within CHECK_TIMEOUT.
Alive(t, answer) ==
  \E late \in BOOLEAN :
    /\ late => faults.slow < MaxSlow
    /\ answer = (ExecRun(IF up[t] THEN 0 ELSE 255, late) = 0)
    /\ faults' = IF late THEN [faults EXCEPT !.slow = @ + 1] ELSE faults

\* ensure: the socket directory is refused, the master answers, or it is started
\* (again).  An entry that is there keeps its mark when the master answers.  A
\* start that times out may have brought the master up all the same.
Ensure(t, result) ==
  LET known == IF entry[t] = "none" THEN "known" ELSE entry[t]
  IN  \/ /\ result = "refused"
         /\ entry' = [entry EXCEPT ![t] = known] /\ UNCHANGED <<up, faults>>
      \/ /\ result = "up" /\ Alive(t, TRUE)
         /\ entry' = [entry EXCEPT ![t] = known] /\ up' = up
      \/ /\ Alive(t, FALSE)
         /\ \E code \in {0, 255}, late \in BOOLEAN :
              /\ result = IF ExecRun(code, late) = 0 THEN "up" ELSE "failed"
              /\ entry' = [entry EXCEPT ![t] = IF result = "up" THEN "known" ELSE "unreachable"]
              /\ up' = [up EXCEPT ![t] = @ \/ code = 0]

\* preconnect: the job's target is remote, in service, and a step runs on it.
Wanted(j) == j \notin LocalOnly /\ TargetOf[j] \notin Disabled

\* preconnect: one job, unless an earlier one has the same target.
Preconnect ==
  /\ phase = "connect" /\ next <= NJobs
  /\ next' = next + 1
  /\ IF Wanted(next)
        /\ ~\E k \in 1..next - 1 : TargetOf[k] = TargetOf[next] /\ k \notin LocalOnly
     THEN /\ \E result \in {"refused", "up", "failed"} : Ensure(TargetOf[next], result)
          /\ seen' = [seen EXCEPT !.contacted = @ \cup {TargetOf[next]}]
     ELSE UNCHANGED <<up, entry, faults, seen>>
  /\ UNCHANGED <<phase, job, kills>>

StartLoop ==
  /\ phase = "connect" /\ next > NJobs
  /\ phase' = "loop"
  /\ UNCHANGED <<next, up, entry, job, kills, faults, seen>>

-----------------------------------------------------------------------------
(* A step *)

\* Mutant of Asks: every step asks for the master, given up on or not.
AsksAlways(t) == TRUE

\* step_spawn: a target the run has given up on is not asked for again.
Asks(t) == entry[t] # "unreachable"

\* step_spawn: the master is ensured, the step spawned whether or not it is up.
\* Without a socket its ssh exits 255 at once.  A refusal is a start-failed.
SpawnStep(j) ==
  LET t == TargetOf[j]
      n == job[j].n + 1
  IN  /\ phase = "loop" /\ j \in Remote
      /\ job[j].st \in {"ready", "over"} /\ n <= NSteps[j]
      /\ \E result \in {"refused", "up", "failed", "unasked"} :
           /\ result = "unasked" <=> ~Asks(t)
           /\ IF Asks(t) THEN Ensure(t, result) ELSE UNCHANGED <<up, entry, faults>>
           /\ LET others == [k \in Jobs |->
                    IF TargetOf[k] = t /\ job[k].lost /\ up'[t] /\ ~up[t]
                    THEN [job[k] EXCEPT !.again = TRUE] ELSE job[k]]
              IN  job' = [others EXCEPT ![j] =
                    IF result = "refused"
                    THEN [NoStep EXCEPT !.n = n, !.st = "ended", !.reason = "engine-error"]
                    ELSE [NoStep EXCEPT !.n = n, !.st = "running",
                                        !.client = IF up'[t] THEN "running" ELSE "cut",
                                        !.unreach = entry'[t] = "unreachable"]]
           /\ seen' = [seen EXCEPT
                !.redialled = IF Asks(t) /\ entry[t] = "unreachable" THEN @ \cup {t} ELSE @]
      /\ UNCHANGED <<phase, next, kills>>

\* The job ends: skipped or cancelled before it starts, after a step that failed
\* or was stopped, or after its last step.
JobEnds(j) ==
  /\ phase = "loop" /\ job[j].st \in {"ready", "over"}
  /\ job' = [job EXCEPT ![j].st = "ended"]
  /\ UNCHANGED <<phase, next, up, entry, kills, faults, seen>>

\* The command ends on the host and its client with it.
CommandEnds(j) ==
  /\ job[j].client = "running"
  /\ \E c \in {0, 1, 255} : job' = [job EXCEPT ![j].client = "exited", ![j].code = c]
  /\ UNCHANGED <<phase, next, up, entry, kills, faults, seen>>

\* ssh without a master exits 255; so does one that is told to stop.
ClientExits(j) ==
  /\ \/ job[j].client = "cut"
     \/ job[j].client = "running" /\ job[j].torn # "no"
  /\ job' = [job EXCEPT ![j].client = "exited", ![j].code = 255]
  /\ UNCHANGED <<phase, next, up, entry, kills, faults, seen>>

\* ssh.kill, called by remote_kill for a leader that is not reaped: a helper is
\* started over a master that answers.
Helper(j, sig) ==
  LET t == TargetOf[j]
      h == [j |-> j, n |-> job[j].n, sig |-> sig]
  IN  IF entry[t] # "known"
      THEN UNCHANGED <<kills, faults>>
      ELSE \E answer \in BOOLEAN :
             /\ Alive(t, answer)
             /\ kills' = IF answer THEN kills \cup {h} ELSE kills

\* A timeout or a cancel: SIGTERM to the step, here and on the host; then, while
\* the leader is not reaped, the grace period ends with SIGKILL.
Stop(j) ==
  /\ phase = "loop" /\ job[j].st = "running" /\ job[j].torn # "KILL"
  /\ LET sig == IF job[j].torn = "no" THEN "TERM" ELSE "KILL"
     IN  /\ Helper(j, sig)
         /\ job' = [job EXCEPT ![j].torn = sig]
  /\ UNCHANGED <<phase, next, up, entry, seen>>

\* Mutant of ExitReason: any exit 255 of a step on a target is a lost connection.
ExitReasonAny(j, alive) ==
  IF job[j].torn # "no" THEN "stopped"
  ELSE IF job[j].code = 0 THEN "ok"
  ELSE IF job[j].code = 255 /\ job[j].unreach THEN "unreachable"
  ELSE IF job[j].code = 255 THEN "connection-lost"
  ELSE "exit-code"

\* leader_exit_event and remote_lost for a run: step, after a stop the table's.
ExitReason(j, alive) ==
  IF job[j].torn # "no" THEN "stopped"
  ELSE IF job[j].code = 0 THEN "ok"
  ELSE IF job[j].code = 255 /\ job[j].unreach THEN "unreachable"
  ELSE IF job[j].code = 255 /\ ~alive THEN "connection-lost"
  ELSE "exit-code"

\* reap_children: the client is the whole group, so the step is over too; what
\* the settling step sends to its group then goes to no host (leader_reaped).
Reap(j) ==
  /\ phase = "loop" /\ job[j].st = "running" /\ job[j].client = "exited"
  /\ \E alive \in BOOLEAN :
       /\ IF job[j].code = 255 /\ ~job[j].unreach
          THEN Alive(TargetOf[j], alive) ELSE UNCHANGED faults
       /\ job' = [job EXCEPT ![j].st = "over", ![j].reason = ExitReason(j, alive)]
  /\ UNCHANGED <<phase, next, up, entry, kills, seen>>

-----------------------------------------------------------------------------
(* The hosts and the network *)

\* A master that dies cuts off its clients and helpers.
MasterDies(t) ==
  /\ up[t] /\ faults.deaths < MaxDeaths /\ phase # "closed"
  /\ faults' = [faults EXCEPT !.deaths = @ + 1]
  /\ up' = [up EXCEPT ![t] = FALSE]
  /\ job' = [j \in Jobs |->
       IF TargetOf[j] # t \/ job[j].st # "running" THEN job[j]
       ELSE [job[j] EXCEPT !.client = IF @ = "running" THEN "cut" ELSE @, !.lost = TRUE]]
  /\ kills' = {h \in kills : TargetOf[h.j] # t}
  /\ UNCHANGED <<phase, next, entry, seen>>

\* A helper has signalled the step's processes and exits; whether the loop or
\* exec.wait reaps it makes no difference.
HelperDone(h) ==
  /\ kills' = kills \ {h}
  /\ UNCHANGED <<phase, next, up, entry, job, faults, seen>>

-----------------------------------------------------------------------------
(* close_all *)

EndLoop ==
  /\ phase = "loop" /\ \A j \in Jobs : job[j].st = "ended"
  /\ phase' = "wait"
  /\ UNCHANGED <<next, up, entry, job, kills, faults, seen>>

\* Mutant of MayClose: the masters are closed while helpers are at work.
MayCloseAtOnce == TRUE

\* exec.wait for each helper: it is gone, or KILL_WAIT has passed.
MayClose == kills = {} \/ seen.expired

WaitKills ==
  /\ phase = "wait" /\ MayClose /\ phase' = "exit"
  /\ UNCHANGED <<next, up, entry, job, kills, faults, seen>>

KillWaitPasses ==
  /\ phase = "wait" /\ kills # {} /\ faults.slow < MaxSlow
  /\ faults' = [faults EXCEPT !.slow = @ + 1]
  /\ seen' = [seen EXCEPT !.expired = TRUE]
  /\ UNCHANGED <<phase, next, up, entry, job, kills>>

\* Mutant of Closes: only the masters of targets that ran a step are closed.
ClosesUsed(t) == entry[t] = "known" /\ \E j \in Jobs : TargetOf[j] = t /\ job[j].n > 0

\* close_all: the masters of the targets it has not given up on.
Closes(t) == entry[t] = "known"

\* "ssh -O exit" for each; helpers still at work are cut off.
ExitMasters ==
  /\ phase = "exit" /\ phase' = "closed"
  /\ \E deaf \in SUBSET {t \in Targets : Closes(t) /\ up[t]} :
       /\ faults.slow + Cardinality(deaf) <= MaxSlow
       /\ faults' = [faults EXCEPT !.slow = @ + Cardinality(deaf)]
       /\ up' = [t \in Targets |-> up[t] /\ (~Closes(t) \/ t \in deaf)]
       /\ seen' = [seen EXCEPT !.deaf = deaf,
                               !.left = {t \in Targets : entry[t] = "unreachable"},
                               !.cut = {h \in kills : up[TargetOf[h.j]] /\ ~up'[TargetOf[h.j]]}]
  /\ kills' = {h \in kills : up'[TargetOf[h.j]]}
  /\ entry' = [t \in Targets |-> "none"]
  /\ UNCHANGED <<next, job>>

Closed == phase = "closed" /\ UNCHANGED vars

Init ==
  /\ phase = "connect" /\ next = 1
  /\ up = [t \in Targets |-> FALSE] /\ entry = [t \in Targets |-> "none"]
  /\ job = [j \in Jobs |-> NoStep] /\ kills = {}
  /\ faults = [deaths |-> 0, slow |-> 0]
  /\ seen = [contacted |-> {}, redialled |-> {}, expired |-> FALSE, cut |-> {},
             deaf |-> {}, left |-> {}]

Next ==
  \/ Preconnect \/ StartLoop \/ EndLoop \/ WaitKills \/ KillWaitPasses
  \/ ExitMasters \/ Closed
  \/ \E j \in Jobs : \/ SpawnStep(j) \/ CommandEnds(j) \/ ClientExits(j)
                     \/ Stop(j) \/ Reap(j) \/ JobEnds(j)
  \/ \E t \in Targets : MasterDies(t)
  \/ \E h \in kills : HelperDone(h)

Spec == Init /\ [][Next]_vars

-----------------------------------------------------------------------------
(* Properties *)

\* The run's end cuts off no helper that is still to signal a step's processes,
\* unless KILL_WAIT has passed: close_all lets the kills in flight have their
\* say before it closes the masters.
StopsAreHeard == seen.cut # {} => seen.expired

\* Once the run is over, a master of its own still runs only on a target it has
\* given up on (its start had timed out and it came up late) or when "ssh -O exit"
\* went unanswered (close_all; ensure makes an entry before it starts a master).
MastersClosed == phase = "closed" => \A t \in Targets : up[t] => t \in seen.deaf \cup seen.left

\* A run: step that lost its connection says so, unless another job's step has
\* started the master again before the exit was reaped; and connection-lost is
\* said only when the master went away during the step or did not answer
\* (remote_lost asks for the master as it is now).
LostIsSaidSo ==
  \A j \in Jobs :
    /\ job[j].reason = "exit-code" /\ job[j].code = 255 /\ job[j].lost => job[j].again
    /\ job[j].reason = "connection-lost" => job[j].lost \/ faults.slow > 0

\* Only targets in service that some step runs on are ever contacted, and one
\* that was given up on is never asked for again (preconnect, step_spawn).
AsksNoMoreThanItShould ==
  /\ seen.contacted \subseteq {TargetOf[j] : j \in Remote}
  /\ seen.redialled = {}
==============================================================================
