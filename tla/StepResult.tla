----------------------------- MODULE StepResult ------------------------------
(***************************************************************************)
(* How a step comes to its result: the forked child that hands the step to *)
(* its plugin (workflow.c child_argv, plugins.lua, checkapply.lua, the     *)
(* built-in plugins), the result pipe, and the parent that reads it and    *)
(* the exit status (leader_exit_event).  One job runs its steps in turn    *)
(* while other jobs may change the same file and the connection to the     *)
(* target may be lost or made again at any time.                           *)
(*                                                                         *)
(* The target holds one file and one package.  A command that the backend  *)
(* runs either gets through or fails, and after one that fails the later   *)
(* ones of the same phase fail too.  A message on the result pipe is a     *)
(* run of pieces; the parent sees some prefix of it.                       *)
(***************************************************************************)
EXTENDS Integers, Sequences, FiniteSetsExt

CONSTANTS
  Steps,       \* the steps a workflow may name
  NSteps,      \* how many steps the job has
  Targets,     \* where the job may run: "local", "remote", "unreachable"
  Hosts,       \* the target as the job may find it
  Meddled,     \* the file as another job may leave it
  MaxMeddles,  \* bound: how often another job does so during one step
  ResultMax,   \* RESULT_MAX, in pieces
  PipeCap,     \* capacity of the result pipe, in pieces
  BigLines     \* the text whose outputs exceed RESULT_MAX

\* A message without outputs fits; a step is of one of the kinds there are.
ASSUME StepAssumption ==
  /\ NSteps \in Nat /\ ResultMax \in Nat /\ ResultMax >= 2
  /\ Steps # {}
  /\ \A s \in Steps :
       s.uses \in {"run", "argv", "project", "file.line", "file.ensure", "file.read",
                  "apt.package", "assert"}

VARIABLES
  where,       \* the job's target
  givenUp,     \* backend.ssh has given up on it
  conn,        \* its ControlMaster is up
  host,        \* the target: its file and whether the package is installed
  cur,         \* r->cur
  step,        \* the live step's table
  phase,       \* where its child is; "idle" between steps
  todo,        \* what apply has decided to do
  msg,         \* the child's message, and how many pieces of it are written
  pipe, buf,   \* the result pipe; res_buf
  overflow,    \* res_overflow
  code,        \* how the leader has ended
  unreach,     \* step_unreachable
  outFile,     \* what the command has put into $QWE_OUTPUT
  outputs,     \* outputs_ref: the outputs later steps can read
  rec,         \* job->steps
  ghost        \* what really happened in the live step

child == <<step, phase, todo, msg, outFile, code>>
parent == <<buf, overflow, unreach, outputs, rec>>
vars == <<where, givenUp, conn, host, cur, child, pipe, parent, ghost>>

-----------------------------------------------------------------------------
(* The file on the target *)

NoFile == [exists |-> FALSE, lines |-> <<>>, nl |-> TRUE, mode |-> "none"]
NoText == [lines |-> <<>>, nl |-> TRUE]
DefaultMode == "0644"
Text(f) == [lines |-> f.lines, nl |-> f.nl]

\* "cat > path": an existing file keeps its mode.
WithText(f, t) ==
  [exists |-> TRUE, lines |-> t.lines, nl |-> t.nl,
   mode |-> IF f.exists THEN f.mode ELSE DefaultMode]

\* stat -c %a prints no leading zeros and normalize_mode wants two digits.
ModeReadable(m) == m # "0000"

\* join_lines: no newline is put after no lines; split_lines is its inverse.
Join(lines, nl) == [lines |-> lines, nl |-> lines = <<>> \/ nl]

-----------------------------------------------------------------------------
(* The built-in plugins: what check says and what apply sets out to do,    *)
(* given the commands that get through                                     *)

Commands == <<"stat", "cat", "sha", "list", "write", "chmod", "apt">>
All == {Commands[i] : i \in DOMAIN Commands}
Through == {{Commands[i] : i \in 1..n} : n \in 0..Len(Commands)}

Matches(w, l) == IF w.regexp # {} THEN l \in w.regexp ELSE l = w.line

Hits(w, lines) == {i \in DOMAIN lines : Matches(w, lines[i])}

\* file.line, edited's second result: whether there is something to edit.
Changes(w, t) ==
  LET hits == Hits(w, t.lines)
  IN  IF w.state = "absent" THEN hits # {}
      ELSE hits = {} \/ t.lines[Max(hits)] # w.line

\* Mutant of Edited: a present line is put after every other line, so the
\* line it replaces takes the later ones with it.
EditedCut(w, t) ==
  LET hits == Hits(w, t.lines)
  IN  IF ~Changes(w, t) THEN t
      ELSE IF w.state = "absent"
      THEN Join(SelectSeq(t.lines, LAMBDA l : ~Matches(w, l)), t.nl)
      ELSE IF hits = {} THEN Join(Append(t.lines, w.line), TRUE)
      ELSE Join(Append(SubSeq(t.lines, 1, Min(hits) - 1), w.line), t.nl)

\* Its first: the text with the line in it, or without the lines that match.
Edited(w, t) ==
  LET hits == Hits(w, t.lines)
  IN  IF ~Changes(w, t) THEN t
      ELSE IF w.state = "absent"
      THEN Join(SelectSeq(t.lines, LAMBDA l : ~Matches(w, l)), t.nl)
      ELSE IF hits = {} THEN Join(Append(t.lines, w.line), TRUE)
      ELSE Join([t.lines EXCEPT ![Max(hits)] = w.line], t.nl)

NoOutputs == <<"none">>
Needs(b, what) == [verdict |-> IF b THEN "needs" ELSE "fine", what |-> what]
Raised == [verdict |-> "raise", what |-> NoOutputs]

\* The file is missing, as far as stat can tell.
Missing(h, got) == "stat" \notin got \/ ~h.file.exists

\* Mutant of LineCheck: a file that is not there needs nothing.
LineCheckLax(w, h, got) ==
  IF Missing(h, got) THEN Needs(FALSE, NoOutputs)
  ELSE IF "cat" \notin got THEN Raised
  ELSE Needs(Changes(w, Text(h.file)), NoOutputs)

LineCheck(w, h, got) ==
  IF Missing(h, got) THEN Needs(w.state # "absent", NoOutputs)
  ELSE IF "cat" \notin got THEN Raised
  ELSE Needs(Changes(w, Text(h.file)), NoOutputs)

\* inspect raises for a mode it cannot read and a content it cannot read.
EnsureRaises(w, h, got) ==
  /\ ~Missing(h, got)
  /\ ~ModeReadable(h.file.mode) \/ (w.sets /\ "cat" \notin got)

Differs(w, h) == w.sets /\ Text(h.file) # w.text

EnsureCheck(w, h, got) ==
  IF EnsureRaises(w, h, got) THEN Raised
  ELSE IF Missing(h, got) THEN Needs(TRUE, NoOutputs)
  ELSE Needs(Differs(w, h) \/ (w.mode # "none" /\ h.file.mode # w.mode),
             <<"mode", h.file.mode>>)

ReadCheck(h, got) ==
  IF Missing(h, got) THEN Needs(FALSE, <<"missing">>)
  ELSE IF {"cat", "sha"} \subseteq got THEN Needs(FALSE, <<"read", h.file.lines>>)
  ELSE Raised

\* The exit status of "apt list" is not looked at.
AptCheck(w, h, got) ==
  LET installed == "list" \in got /\ h.pkg
  IN  Needs(installed # (w.state # "absent"), <<"version", installed>>)

AssertCheck(w) == IF w.holds THEN Needs(FALSE, NoOutputs) ELSE Raised

\* A project plugin's check may say anything and return anything.
ProjectChecks ==
  {Raised} \cup {Needs(b, what) : b \in BOOLEAN, what \in {NoOutputs, <<"odd">>}}

Checks(s, h, got) ==
  CASE s.uses = "file.line" -> {LineCheck(s.with, h, got)}
    [] s.uses = "file.ensure" -> {EnsureCheck(s.with, h, got)}
    [] s.uses = "file.read" -> {ReadCheck(h, got)}
    [] s.uses = "apt.package" -> {AptCheck(s.with, h, got)}
    [] s.uses = "assert" -> {AssertCheck(s.with)}
    [] s.uses = "project" -> ProjectChecks

\* What the plugin is to achieve, said of the target and not of what was seen.
Desired(s, h) ==
  CASE s.uses = "file.line" ->
         LET hits == IF h.file.exists THEN Hits(s.with, h.file.lines) ELSE {}
         IN  IF s.with.state = "absent" THEN hits = {}
             ELSE hits # {} /\ h.file.lines[Max(hits)] = s.with.line
    [] s.uses = "file.ensure" ->
         /\ h.file.exists /\ ~Differs(s.with, h)
         /\ s.with.mode \in {"none", h.file.mode}
    [] s.uses = "apt.package" -> h.pkg <=> s.with.state # "absent"
    [] s.uses = "assert" -> s.with.holds
    [] OTHER -> TRUE

NoTodo == [write |-> FALSE, text |-> NoText, chmod |-> FALSE, apt |-> FALSE]

\* The part of apply before its first command that changes something.
LineTodo(w, h, got) ==
  [NoTodo EXCEPT !.write = TRUE,
                 !.text = IF Missing(h, got) THEN Join(<<w.line>>, TRUE)
                          ELSE Edited(w, Text(h.file))]

EnsureTodo(w, h, got) ==
  [NoTodo EXCEPT !.write = Missing(h, got) \/ Differs(w, h),
                 !.text = IF w.sets THEN w.text ELSE NoText,
                 !.chmod = w.mode # "none"
                           /\ (Missing(h, got) \/ h.file.mode # w.mode)]

ApplyRaises(s, h, got) ==
  CASE s.uses = "file.line" -> ~Missing(h, got) /\ "cat" \notin got
    [] s.uses = "file.ensure" -> EnsureRaises(s.with, h, got)
    [] OTHER -> FALSE

Todo(s, h, got) ==
  CASE s.uses = "file.line" -> LineTodo(s.with, h, got)
    [] s.uses = "file.ensure" -> EnsureTodo(s.with, h, got)
    [] s.uses = "apt.package" -> [NoTodo EXCEPT !.apt = TRUE]
    [] OTHER -> NoTodo

\* A write that fails, or whose child is killed, may have truncated the file or
\* may have written it; a chmod or an apt-get may have taken effect.
Written(h, t, got) ==
  IF ~t.write THEN {h.file}
  ELSE IF "write" \in got THEN {WithText(h.file, t.text)}
  ELSE {h.file, WithText(h.file, NoText), WithText(h.file, t.text)}

Chmodded(f, s, t, got) ==
  IF ~t.chmod \/ (t.write /\ "write" \notin got) THEN {f}
  ELSE {[f EXCEPT !.mode = s.with.mode]} \cup (IF "chmod" \in got THEN {} ELSE {f})

Apted(h, s, t, got) ==
  IF ~t.apt THEN {h.pkg}
  ELSE {s.with.state # "absent"} \cup (IF "apt" \in got THEN {} ELSE {h.pkg})

Applied(s, h, t, got) ==
  UNION {{[file |-> g, pkg |-> p] : g \in Chmodded(f, s, t, got),
                                    p \in Apted(h, s, t, got)} : f \in Written(h, t, got)}

WriteRaises(t, got) ==
  \/ t.write /\ "write" \notin got
  \/ t.chmod /\ "chmod" \notin got
  \/ t.apt /\ "apt" \notin got

-----------------------------------------------------------------------------
(* Messages *)

NoMsg == [status |-> "none", reason |-> "none", changed |-> TRUE, of |-> 0,
          what |-> NoOutputs]

Message(status, reason, changed, what) ==
  [status |-> status, reason |-> reason, changed |-> changed, of |-> cur, what |-> what]

Pieces(m) == IF m.what = <<"read", BigLines>> THEN ResultMax + 1 ELSE 2

Unsent == [m |-> NoMsg, sent |-> 0]
Sending(m) == [m |-> m, sent |-> 0]
AllSent == msg.m = NoMsg \/ msg.sent = Pieces(msg.m)

\* Mutant of RaisedResult: a plugin that raises is taken to have changed nothing.
RaisedResultClean == Message("failed", "plugin-error", FALSE, NoOutputs)

\* run_step: whether apply ran is not known, so it counts as changed.
RaisedResult == Message("failed", "plugin-error", TRUE, NoOutputs)

\* Mutant of FirstCheckResult: apply runs whatever check said.
FirstCheckResultEager(c) ==
  IF c.verdict = "raise" THEN RaisedResult ELSE NoMsg

\* checkapply.run after the first check: a result, or NoMsg when apply is to run.
FirstCheckResult(c) ==
  IF c.verdict = "raise" THEN RaisedResult
  ELSE IF c.verdict = "fine" THEN Message("ok", "none", FALSE, c.what)
  ELSE NoMsg

\* Mutant of SecondCheckResult: the second check is not looked at.
SecondCheckResultTrusting(c) == Message("ok", "none", TRUE, c.what)

\* checkapply.run after the second check.
SecondCheckResult(c) ==
  IF c.verdict = "raise" THEN RaisedResult
  ELSE IF c.verdict = "needs" THEN Message("failed", "not-converged", TRUE, NoOutputs)
  ELSE Message("ok", "none", TRUE, c.what)

\* send_result: outputs that cannot be encoded are an engine-error.
Encodable(m) ==
  IF m.what = <<"odd">> THEN Message("failed", "engine-error", TRUE, NoOutputs) ELSE m

-----------------------------------------------------------------------------
(* The child *)

Exec(s) == s.uses \in {"run", "argv"}

\* A command may fail because the connection is lost, or for itself.
Lose(got) ==
  IF got = All \/ where = "local" THEN conn' = conn ELSE conn' \in {conn, FALSE}

\* On a target without a master ssh finds no socket, and nothing gets through.
Reach(got) == (where # "local" /\ ~conn) => got = {}

Calm(got) == ghost.calm /\ got = All

Ends(m) == /\ msg' = Sending(Encodable(m))
           /\ phase' = "send"

CauseOf(c, unmet) ==
  IF c.verdict = "raise" THEN "raised"
  ELSE IF c.verdict = unmet THEN "unconverged"
  ELSE IF c.what = <<"odd">> /\ c.verdict = "fine" THEN "unsent"
  ELSE "none"

\* become.check: sudo lets the step through, or refuses; ssh's own failure is
\* no refusal.
Probe ==
  /\ phase = "probe"
  /\ \/ /\ phase' = IF Exec(step) THEN "argv" ELSE "check"
        /\ UNCHANGED <<msg, ghost>>
     \/ /\ step.become /\ (where # "local" => conn)
        /\ Ends(Message("failed", "become-denied", FALSE, NoOutputs))
        /\ ghost' = [ghost EXCEPT !.cause = "denied", !.calm = FALSE]
  /\ UNCHANGED <<where, givenUp, conn, host, cur, step, todo, outFile, code, pipe, parent>>

\* checkapply.run: the first check.
FirstCheck ==
  /\ phase = "check"
  /\ \E got \in Through : \E c \in Checks(step, host, got) :
       /\ Reach(got) /\ Lose(got)
       /\ LET m == FirstCheckResult(c)
          IN  IF m = NoMsg THEN phase' = "apply" /\ msg' = msg ELSE Ends(m)
       /\ ghost' = [ghost EXCEPT !.calm = Calm(got), !.cause = CauseOf(c, "never")]
  /\ UNCHANGED <<where, givenUp, host, cur, step, todo, outFile, code, pipe, parent>>

\* apply up to its first command that changes something.
ApplyRead ==
  /\ phase = "apply"
  /\ \E got \in Through :
       /\ Reach(got) /\ Lose(got)
       /\ IF ApplyRaises(step, host, got)
          THEN /\ Ends(RaisedResult)
               /\ ghost' = [ghost EXCEPT !.calm = Calm(got), !.cause = "raised"]
               /\ todo' = todo
          ELSE /\ phase' = "write" /\ msg' = msg
               /\ todo' = Todo(step, host, got)
               /\ ghost' = [ghost EXCEPT !.calm = Calm(got)]
  /\ UNCHANGED <<where, givenUp, host, cur, step, outFile, code, pipe, parent>>

\* The rest of apply; the second check follows.  A project plugin's apply may
\* raise too.
ApplyWrite ==
  /\ phase = "write"
  /\ \E got \in Through :
       /\ Reach(got) /\ Lose(got)
       /\ host' \in Applied(step, host, todo, got)
       /\ \/ /\ WriteRaises(todo, got) \/ step.uses = "project"
             /\ Ends(RaisedResult)
             /\ ghost' = [ghost EXCEPT !.wrote = TRUE, !.calm = FALSE, !.cause = "raised"]
          \/ /\ ~WriteRaises(todo, got)
             /\ phase' = "recheck" /\ msg' = msg
             /\ ghost' = [ghost EXCEPT !.wrote = TRUE, !.calm = Calm(got)]
  /\ todo' = NoTodo
  /\ UNCHANGED <<where, givenUp, cur, step, outFile, code, pipe, parent>>

\* checkapply.run: the second check.
SecondCheck ==
  /\ phase = "recheck"
  /\ \E got \in Through : \E c \in Checks(step, host, got) :
       /\ Reach(got) /\ Lose(got)
       /\ Ends(SecondCheckResult(c))
       /\ ghost' = [ghost EXCEPT !.calm = Calm(got), !.cause = CauseOf(c, "needs")]
  /\ UNCHANGED <<where, givenUp, host, cur, step, todo, outFile, code, pipe, parent>>

\* child_argv for a command: the argv is bad (nothing is said), memory runs out
\* (an engine-error), or "exec" is sent.  qwe_proc_spawn exits 126 without argv.
BuildArgv ==
  /\ phase = "argv"
  /\ \/ /\ step.uses = "argv"
        /\ phase' = "dead" /\ code' = 126 /\ msg' = msg
        /\ ghost' = [ghost EXCEPT !.cause = "badargv", !.calm = FALSE]
     \/ /\ msg' = Sending(Message("failed", "engine-error", TRUE, NoOutputs))
        /\ phase' = "nomem" /\ code' = code
        /\ ghost' = [ghost EXCEPT !.cause = "unsent", !.calm = FALSE]
     \/ /\ msg' = Sending(Message("exec", "none", TRUE, NoOutputs))
        /\ phase' = "exec" /\ code' = code
        /\ ghost' = ghost
     \/ /\ step.uses = "argv"
        /\ Ends(RaisedResult) /\ code' = code
        /\ ghost' = [ghost EXCEPT !.cause = "raised", !.calm = FALSE]
  /\ UNCHANGED <<where, givenUp, conn, host, cur, step, todo, outFile, pipe, parent>>

\* write(2) to the result pipe; it blocks while the pipe is full.
SendPiece ==
  /\ phase \in {"send", "nomem", "exec"} /\ ~AllSent /\ Len(pipe) < PipeCap
  /\ pipe' = Append(pipe, [m |-> msg.m, of |-> cur])
  /\ msg' = [msg EXCEPT !.sent = @ + 1]
  /\ UNCHANGED <<where, givenUp, conn, host, cur, step, phase, todo, outFile, code,
                 parent, ghost>>

\* The check/apply child exits; a result it could not flush its output for is
\* a failure whatever it said.
ChildExits ==
  /\ phase = "send" /\ AllSent
  /\ phase' = "dead"
  /\ \/ /\ code' = IF msg.m.status = "ok" THEN 0 ELSE 1
        /\ ghost' = ghost
     \/ /\ msg.m.status = "ok" /\ code' = 1
        /\ ghost' = [ghost EXCEPT !.cause = "unflushed", !.calm = FALSE]
  /\ UNCHANGED <<where, givenUp, conn, host, cur, step, todo, msg, outFile, pipe, parent>>

\* The command writes to $QWE_OUTPUT (on the local host only) and ends; its stdin
\* cannot be set up or it cannot be executed; over ssh, 255 is ssh's own status.
CommandExits ==
  /\ phase \in {"exec", "nomem"} /\ AllSent
  /\ phase' = "dead"
  /\ code' \in IF phase = "nomem" THEN {126}
               ELSE IF where # "local" /\ ~conn THEN {126, 127, 255}
               ELSE {0, 1, 126, 127, 255}
  /\ outFile' \in {outFile} \cup (IF where = "local" /\ code' \in {0, 1} THEN {cur} ELSE {})
  /\ ghost' = IF phase = "nomem" THEN ghost
              ELSE [ghost EXCEPT !.wrote = TRUE,
                                 !.cause = IF code' = 0 THEN "none" ELSE "code"]
  /\ UNCHANGED <<where, givenUp, conn, host, cur, step, todo, msg, pipe, parent>>

\* The leader is killed (by teardown, by the kernel, by a crash) wherever it is.
Killed ==
  /\ phase \notin {"idle", "dead", "over"}
  /\ phase' = "dead" /\ code' = -9 /\ todo' = NoTodo
  /\ host' \in IF phase = "write" THEN Applied(step, host, todo, {}) ELSE {host}
  /\ ghost' = [ghost EXCEPT !.calm = FALSE,
                            !.wrote = @ \/ phase \in {"write", "exec"},
                            !.cause = IF @ = "none" \/ ~AllSent THEN "killed" ELSE @]
  /\ UNCHANGED <<where, givenUp, conn, cur, step, msg, outFile, pipe, parent>>

-----------------------------------------------------------------------------
(* The parent *)

\* drain_result: a piece that would exceed RESULT_MAX is dropped.
Taken == SubSeq(buf \o pipe, 1, Min({ResultMax, Len(buf) + Len(pipe)}))
Overflowed == overflow \/ Len(buf) + Len(pipe) > ResultMax

\* read_step_msg: nothing, too much or part of a message is no message; of more
\* than one, the decoder takes the first.
StepMsg ==
  IF Taken = <<>> \/ Overflowed THEN NoMsg
  ELSE IF Len(Taken) < Pieces(Taken[1].m) THEN NoMsg
  ELSE Taken[1].m

\* Mutant of ExitEvent: the payload is copied before the event is worked out.
ExitEventUnfilled(m) ==
  [ok |-> IF step.uses = "run" \/ m.status = "exec" THEN code = 0 /\ m.status # "failed"
          ELSE m.status = "ok" /\ code = 0,
   changed |-> m.changed, reason |-> "exit-code"]

\* leader_exit_event; remote_lost asks whether the master is there now.
ExitEvent(m) ==
  LET exited == code = 0
  IN  IF step.uses = "run" /\ m.status # "failed"
      THEN [ok |-> exited, changed |-> TRUE,
            reason |-> IF unreach /\ code = 255 THEN "unreachable"
                       ELSE IF where # "local" /\ code = 255 /\ ~conn
                            THEN "connection-lost"
                       ELSE "exit-code"]
      ELSE IF step.uses # "run" /\ m.status = "exec"
      THEN [ok |-> exited, changed |-> TRUE, reason |-> "exit-code"]
      ELSE [ok |-> m.status = "ok" /\ exited, changed |-> m.changed,
            reason |-> IF m.status = "failed" THEN m.reason ELSE "plugin-error"]

\* store_outputs: an "ok" message's outputs, and a run: step's $QWE_OUTPUT.
Stored(m) ==
  IF m.status = "ok" THEN [of |-> m.of, what |-> m.what]
  ELSE IF step.uses = "run" THEN [of |-> outFile, what |-> <<"file">>]
  ELSE [of |-> 0, what |-> NoOutputs]

\* EV_RESULT while the child lives.
DrainResult ==
  /\ phase \notin {"idle", "over"} /\ pipe # <<>>
  /\ buf' = Taken /\ overflow' = Overflowed /\ pipe' = <<>>
  /\ UNCHANGED <<where, givenUp, conn, host, cur, child, unreach, outputs, rec, ghost>>

\* The leader is reaped, its event told to the table and the step recorded.
ReapLeader ==
  /\ phase = "dead"
  /\ phase' = "over"
  /\ buf' = Taken /\ overflow' = Overflowed /\ pipe' = <<>>
  /\ outputs' = [outputs EXCEPT ![cur] = Stored(StepMsg)]
  /\ LET e == ExitEvent(StepMsg)
     IN  rec' = Append(rec, [ok |-> e.ok, reason |-> e.reason, changed |-> e.changed,
                             outs |-> Stored(StepMsg)])
  /\ UNCHANGED <<where, givenUp, conn, host, cur, step, todo, msg, outFile, code,
                 unreach, ghost>>

NewGhost == [wrote |-> FALSE, calm |-> TRUE, cause |-> "none", start |-> host, meddles |-> 0]

\* Mutant of Emptied: the last step's message is left in the buffer.
EmptiedNot == buf' = buf /\ overflow' = FALSE /\ pipe' = <<>>

\* step_spawn: res_len and res_overflow are reset, the pipe is a new one.
Emptied == buf' = <<>> /\ overflow' = FALSE /\ pipe' = <<>>

\* step_spawn, with remote_ensure: on a target not given up on, the master is up
\* or is started, or the target is given up on and the step is spawned anyway.
SpawnStep ==
  /\ phase \in {"idle", "over"} /\ cur < NSteps
  /\ cur' = cur + 1 /\ phase' = "probe"
  /\ step' \in Steps
  /\ \/ where = "local" /\ UNCHANGED <<conn, givenUp>>
     \/ where # "local" /\ givenUp /\ UNCHANGED <<conn, givenUp>>
     \/ where # "local" /\ ~givenUp /\ conn' = TRUE /\ givenUp' = FALSE
     \/ where # "local" /\ ~givenUp /\ ~conn /\ conn' = FALSE /\ givenUp' = TRUE
  /\ unreach' = givenUp'
  /\ todo' = NoTodo /\ msg' = Unsent /\ code' = -1 /\ outFile' = 0
  /\ Emptied
  /\ ghost' = NewGhost
  /\ UNCHANGED <<where, host, outputs, rec>>

-----------------------------------------------------------------------------
(* Other jobs and the network *)

Meddle ==
  /\ phase \in {"check", "apply", "write", "recheck"} /\ ghost.meddles < MaxMeddles
  /\ \E f \in Meddled \ {host.file} : host' = [host EXCEPT !.file = f]
  /\ ghost' = [ghost EXCEPT !.meddles = @ + 1, !.calm = FALSE]
  /\ UNCHANGED <<where, givenUp, conn, cur, child, pipe, parent>>

\* The master dies, or another job's step starts it again.
Connection ==
  /\ where # "local" /\ ~givenUp /\ phase \notin {"idle", "over"}
  /\ conn' = ~conn
  /\ ghost' = [ghost EXCEPT !.calm = FALSE]
  /\ UNCHANGED <<where, givenUp, host, cur, child, pipe, parent>>

Init ==
  /\ where \in Targets
  /\ givenUp = (where = "unreachable") 
  /\ conn \in IF where = "remote" THEN BOOLEAN ELSE {FALSE}
  /\ host \in Hosts
  /\ cur = 0 /\ phase = "idle" /\ step \in {CHOOSE s \in Steps : TRUE}
  /\ todo = NoTodo /\ msg = Unsent /\ pipe = <<>> /\ buf = <<>>
  /\ overflow = FALSE /\ code = -1 /\ unreach = FALSE /\ outFile = 0
  /\ outputs = [i \in 1..NSteps |-> [of |-> 0, what |-> NoOutputs]]
  /\ rec = <<>>
  /\ ghost = NewGhost

Finished == phase = "over" /\ cur = NSteps /\ UNCHANGED vars

Next ==
  \/ SpawnStep \/ Probe \/ FirstCheck \/ ApplyRead \/ ApplyWrite \/ SecondCheck
  \/ BuildArgv \/ SendPiece \/ ChildExits \/ CommandExits \/ Killed
  \/ DrainResult \/ ReapLeader \/ Meddle \/ Connection \/ Finished

Spec == Init /\ [][Next]_vars

-----------------------------------------------------------------------------
(* Properties *)

Over == phase = "over"
Now == rec[cur]

\* A step that is recorded as done, and that nothing disturbed, has left the
\* target as it was asked to: checkapply.lua believes the second check and not
\* that apply has run.
SuccessMeansDone == Over /\ Now.ok /\ ghost.calm => Desired(step, host)

\* A step recorded as unchanged has run no command that changes its target,
\* whatever was lost, killed or too big on the way (step_changed, "changed").
UnchangedIsHonest == Over /\ ~Now.changed => ~ghost.wrote

\* What ended the step, with a message over the limit among the causes.
Why == IF ghost.cause = "none" /\ Pieces(msg.m) > ResultMax THEN "toobig" ELSE ghost.cause

\* A command was run, or was to be, and its exit status counts.
Commanded == step.uses = "run" \/ (AllSent /\ msg.m.status = "exec")

ReasonsOf(why) ==
  CASE why = "denied" -> {"become-denied"}
    [] why = "unconverged" -> {"not-converged"}
    [] why = "unsent" -> {"engine-error"}
    [] why \in {"raised", "unflushed", "toobig", "badargv"} -> {"plugin-error"}
    [] why = "killed" -> IF Commanded THEN {"exit-code"} ELSE {"plugin-error"}
    [] why = "code" ->
         IF code # 255 \/ step.uses # "run" \/ where = "local" THEN {"exit-code"}
         ELSE IF unreach THEN {"unreachable"} ELSE {"exit-code", "connection-lost"}

\* The recorded outcome and reason are those of what really ended the step, in
\* whatever order message, end of the child and drain came: a message that was
\* cut short, too big or left over by an earlier step has no say
\* (leader_exit_event, read_step_msg, drain_result).
ReasonIsTheCause ==
  Over => /\ Now.ok <=> Why = "none"
          /\ ~Now.ok => Now.reason \in ReasonsOf(Why)

\* What is recorded as a step's outputs, and what later steps read under its id,
\* comes from that step alone; an undisturbed file.read gives the file
\* (store_outputs, collect_file_outputs, the reset in step_spawn).
OutputsAreTheSteps ==
  /\ \A i \in DOMAIN rec : rec[i].outs.of \in {0, i} /\ rec[i].outs = outputs[i]
  /\ Over /\ Now.ok /\ ghost.calm /\ step.uses = "file.read" =>
       Now.outs.what = IF host.file.exists THEN <<"read", host.file.lines>>
                       ELSE <<"missing">>

\* What a plugin can do: the line matches its own regexp, the mode has two
\* digits, the outputs fit, the assertion holds.
WellPosed(s, h) ==
  CASE s.uses = "file.line" -> s.with.state = "absent" \/ Matches(s.with, s.with.line)
    [] s.uses = "file.ensure" -> s.with.mode # "0000" /\ ModeReadable(h.file.mode)
    [] s.uses = "file.read" -> h.file.lines # BigLines
    [] s.uses = "assert" -> s.with.holds
    [] OTHER -> s.uses = "apt.package"

\* An undisturbed and well-posed check/apply step converges, and says that it
\* changed something exactly when the target was not as wanted: so the same
\* step a second time changes nothing (checkapply.lua and the built-in plugins).
Converges ==
  Over /\ ghost.calm /\ WellPosed(step, ghost.start) =>
    Now.ok /\ Now.changed = ~Desired(step, ghost.start)

\* An undisturbed file.line step keeps every other line, in order, and the mode
\* (edited, and "cat >" instead of a new file).
OnlyItsLine ==
  LET others(f) == SelectSeq(f.lines, LAMBDA l : ~Matches(step.with, l) /\ l # step.with.line)
  IN  Over /\ ghost.calm /\ step.uses = "file.line" =>
        /\ others(host.file) = others(ghost.start.file)
        /\ ghost.start.file.exists => host.file.mode = ghost.start.file.mode

\* On a target the run has given up on, a step succeeds only when it runs no
\* command, when what it wants is that something be absent, or when it reports
\* what it reads: stat and apt list cannot tell "absent" from "not connected".
GivenUpSeesAbsence ==
  Over /\ unreach /\ Now.ok =>
    \/ step.uses \in {"assert", "project", "file.read"}
    \/ step.uses \in {"file.line", "apt.package"} /\ step.with.state = "absent"

\* A step on a target the run has given up on fails (workflow.c:1027, "is spawned
\* and fails at once").
GivenUpFails == Over /\ unreach => ~Now.ok
==============================================================================
