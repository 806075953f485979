------------------------------ MODULE StepProofs ------------------------------
(***************************************************************************)
(* How a step comes to its result, for any steps, targets and files, any   *)
(* size of message, and other jobs, connection and kills that get in the   *)
(* way any number of times: the recorded reason is what ended the step,    *)
(* "unchanged" is true, a success that nothing disturbed left the target   *)
(* as wanted, outputs are the step's own, and a target that was given up   *)
(* on can only look empty.                                                 *)
(***************************************************************************)
EXTENDS StepResult, TLAPS

Piece == [m |-> msg.m, of |-> cur]

\* What is in the buffer and in the pipe are pieces of the live step's message,
\* all that were sent unless the limit was passed.
PipeInv ==
  /\ pipe \in Seq({Piece}) /\ buf \in Seq({Piece}) /\ overflow \in BOOLEAN
  /\ ~overflow => Len(buf) + Len(pipe) = msg.sent
  /\ overflow => msg.sent > ResultMax

MsgInv ==
  /\ msg = [m |-> msg.m, sent |-> msg.sent] /\ msg.sent \in Nat
  /\ msg.m.status \in {"none", "ok", "failed", "exec"}
  /\ msg.m.status = "none" => msg.m = NoMsg /\ msg.sent = 0
  /\ msg.m.status # "none" => msg.m.of = cur /\ msg.sent <= Pieces(msg.m)
  /\ msg.m.status \in {"failed", "exec"} => msg.m.what = NoOutputs
  /\ msg.m.status = "ok" => ~Exec(step)
  /\ msg.m.status = "exec" => Exec(step)

GhostInv ==
  /\ ghost = [wrote |-> ghost.wrote, calm |-> ghost.calm, cause |-> ghost.cause,
              start |-> ghost.start, meddles |-> ghost.meddles]
  /\ ghost.wrote \in BOOLEAN /\ ghost.calm \in BOOLEAN

Plugins == {"project", "file.line", "file.ensure", "apt.package"}

\* Where the child is says which kind of step it runs.
PhaseInv ==
  /\ phase \in {"idle", "probe", "check", "apply", "write", "recheck", "argv", "send",
                "nomem", "exec", "dead", "over"}
  /\ step \in Steps
  /\ phase = "check" => ~Exec(step)
  /\ phase \in {"apply", "write", "recheck"} => step.uses \in Plugins
  /\ phase \in {"argv", "nomem", "exec"} => Exec(step)

\* A failure that the child reports is the one that happened.
FailedBy ==
  /\ msg.m.status = "failed"
  /\ \/ ghost.cause = "denied" /\ msg.m.reason = "become-denied"
     \/ ghost.cause = "raised" /\ msg.m.reason = "plugin-error"
     \/ ghost.cause = "unconverged" /\ msg.m.reason = "not-converged"
     \/ ghost.cause = "unsent" /\ msg.m.reason = "engine-error"

\* The ways in which a leader ends.
Ended ==
  \/ ghost.cause = "badargv" /\ msg.m = NoMsg /\ code = 126 /\ step.uses = "argv"
  \/ ghost.cause = "none" /\ AllSent /\ msg.m.status = "ok" /\ code = 0
  \/ ghost.cause = "unflushed" /\ AllSent /\ msg.m.status = "ok" /\ code = 1
  \/ FailedBy /\ AllSent /\ code \in {1, 126, -9}
  \/ /\ AllSent /\ msg.m.status = "exec" /\ code \in {0, 1, 126, 127, 255}
     /\ ghost.cause = IF code = 0 THEN "none" ELSE "code"
  \/ ghost.cause = "killed" /\ code = -9 /\ (AllSent => msg.m.status # "failed")

CauseInv ==
  /\ phase \in {"idle", "probe", "check", "apply", "write", "recheck", "argv"} =>
       msg = Unsent /\ ghost.cause = "none"
  /\ phase = "send" => FailedBy \/ (msg.m.status = "ok" /\ ghost.cause = "none")
  /\ phase = "nomem" => FailedBy /\ ghost.cause = "unsent"
  /\ phase = "exec" => msg.m.status = "exec" /\ ghost.cause = "none"
  /\ phase \in {"dead", "over"} => Ended

\* A child that says "unchanged" has not written and will not.
HonestInv ==
  /\ phase \in {"probe", "check"} => ~ghost.wrote
  /\ ~msg.m.changed => ~ghost.wrote
  /\ phase = "exec" => msg.m.changed

\* On a target given up on no command gets through.
GivenUpInv ==
  /\ givenUp => where # "local" /\ ~conn
  /\ unreach => givenUp
  /\ unreach /\ phase = "write" => step.uses = "project" \/ WriteRaises(todo, {})
  /\ unreach /\ phase = "recheck" => step.uses = "project"
  /\ unreach /\ msg.m.status = "ok" =>
       \/ step.uses \in {"assert", "project", "file.read"}
       \/ step.uses \in {"file.line", "apt.package"} /\ step.with.state = "absent"
  /\ unreach /\ phase \in {"dead", "over"} /\ msg.m.status = "exec" => code # 0

Reading == IF host.file.exists THEN <<"read", host.file.lines>> ELSE <<"missing">>

\* An undisturbed file.read reports the file as it is.
ReadInv == ghost.calm /\ step.uses = "file.read" /\ msg.m.status = "ok" => msg.m.what = Reading

ChildInv ==
  PipeInv /\ MsgInv /\ GhostInv /\ PhaseInv /\ CauseInv /\ HonestInv /\ GivenUpInv /\ ReadInv

\* The records so far: those of the steps that are over, with the outputs that
\* are kept for later steps.
RecordInv ==
  /\ cur \in 0..NSteps /\ outFile \in {0, cur}
  /\ phase = "idle" <=> cur = 0
  /\ \E S : rec \in Seq(S)
  /\ Len(rec) = IF phase \in {"idle", "over"} THEN cur ELSE cur - 1
  /\ outputs = [i \in 1..NSteps |-> outputs[i]]
  /\ \A i \in DOMAIN rec : rec[i].outs.of \in {0, i} /\ rec[i].outs = outputs[i]

Recorded == UnchangedIsHonest /\ ReasonIsTheCause /\ OutputsAreTheSteps /\ GivenUpSeesAbsence

\* The inductive invariant.
StepInv == ChildInv /\ RecordInv /\ Recorded

-----------------------------------------------------------------------------
(* Messages and the pipe *)

\* A failure and an "exec" take two pieces, and those fit.
LEMMA PiecesOf ==
  ASSUME NEW m
  PROVE  /\ Pieces(m) \in {2, ResultMax + 1}
         /\ m.what = NoOutputs => Pieces(m) = 2
BY DEF Pieces, NoOutputs

\* A child that has told nothing has left nothing in the pipe.
LEMMA Silent ==
  ASSUME ChildInv, msg = Unsent
  PROVE  pipe = <<>> /\ buf = <<>> /\ overflow = FALSE
<1>1. msg.sent = 0
  BY DEF Unsent
<1>2. overflow = FALSE /\ Len(buf) + Len(pipe) = 0
  BY <1>1, StepAssumption DEF ChildInv, PipeInv
<1>3. pipe \in Seq({Piece}) /\ buf \in Seq({Piece})
  BY DEF ChildInv, PipeInv
<1>4. Len(buf) = 0 /\ Len(pipe) = 0
  BY <1>2, <1>3
<1> QED
  BY <1>2, <1>3, <1>4

\* The child starts to tell its result.
LEMMA Sends ==
  ASSUME ChildInv, msg = Unsent, NEW m, msg' = Sending(m),
         m.status \in {"ok", "failed", "exec"}, m.of = cur,
         m.status \in {"failed", "exec"} => m.what = NoOutputs,
         m.status = "ok" => ~Exec(step), m.status = "exec" => Exec(step),
         UNCHANGED <<cur, step, pipe, buf, overflow>>
  PROVE  PipeInv' /\ MsgInv' /\ msg'.m = m
<1>1. msg'.m = m /\ msg'.sent = 0 /\ msg' = [m |-> msg'.m, sent |-> msg'.sent]
  BY DEF Sending
<1>2. pipe' = <<>> /\ buf' = <<>> /\ overflow' = FALSE
  BY Silent
<1>3. PipeInv'
  <2>1. \A S : <<>> \in Seq(S)
    OBVIOUS
  <2>2. Len(buf') + Len(pipe') = msg'.sent
    BY <1>1, <1>2
  <2> QED
    BY <1>2, <2>1, <2>2, Zenon DEF PipeInv
<1>4. Pieces(m) \in Nat
  BY PiecesOf, StepAssumption
<1>5. MsgInv'
  BY <1>1, <1>4 DEF MsgInv, Exec, Pieces
<1> QED
  BY <1>1, <1>3, <1>5

\* Steps that leave message and pipe alone.
LEMMA Quiet ==
  ASSUME ChildInv, UNCHANGED <<msg, cur, step, pipe, buf, overflow>>
  PROVE  PipeInv' /\ MsgInv'
BY DEF ChildInv, PipeInv, MsgInv, Piece, Exec, Pieces

LEMMA MinOfTwo ==
  ASSUME NEW a \in Nat, NEW b \in Nat
  PROVE  Min({a, b}) = IF a <= b THEN a ELSE b
BY DEF Min

\* What drain_result leaves: pieces of the message, all that were sent unless
\* the limit was passed.
LEMMA Drained ==
  ASSUME ChildInv
  PROVE  /\ Taken \in Seq({Piece}) /\ Overflowed \in BOOLEAN
         /\ Overflowed <=> msg.sent > ResultMax
         /\ ~Overflowed => Len(Taken) = msg.sent
<1>1. /\ pipe \in Seq({Piece}) /\ buf \in Seq({Piece}) /\ overflow \in BOOLEAN
      /\ ~overflow => Len(buf) + Len(pipe) = msg.sent
      /\ overflow => msg.sent > ResultMax
  BY DEF ChildInv, PipeInv
<1>2. buf \o pipe \in Seq({Piece}) /\ Len(buf \o pipe) = Len(buf) + Len(pipe)
      /\ Len(buf) \in Nat /\ Len(pipe) \in Nat
  BY <1>1
<1>3. PICK n \in Nat : /\ n = Min({ResultMax, Len(buf) + Len(pipe)})
                       /\ n = IF ResultMax <= Len(buf) + Len(pipe) THEN ResultMax ELSE Len(buf) + Len(pipe)
  BY <1>2, MinOfTwo, StepAssumption
<1>4. Taken = SubSeq(buf \o pipe, 1, n)
  BY <1>3 DEF Taken
<1>5. n <= Len(buf \o pipe)
  BY <1>2, <1>3, StepAssumption
<1>6. Taken \in Seq({Piece}) /\ Len(Taken) = n
  BY <1>2, <1>4, <1>5
<1>7. Overflowed <=> msg.sent > ResultMax
  BY <1>1, <1>2, StepAssumption DEF Overflowed
<1> QED
  BY <1>1, <1>2, <1>3, <1>6, <1>7, StepAssumption DEF Overflowed

\* read_step_msg: the parent has the message when all of it was sent and it is
\* within the limit, and otherwise has none.
LEMMA MsgRead ==
  ASSUME ChildInv
  PROVE  StepMsg = IF AllSent /\ Pieces(msg.m) <= ResultMax THEN msg.m ELSE NoMsg
<1>1. /\ msg.sent \in Nat
      /\ msg.m.status = "none" => msg.m = NoMsg /\ msg.sent = 0
      /\ msg.m.status # "none" => msg.sent <= Pieces(msg.m)
      /\ NoMsg.status = "none"
  BY DEF ChildInv, MsgInv, NoMsg
<1>2. Pieces(msg.m) \in Nat /\ Pieces(msg.m) >= 2
  BY PiecesOf, StepAssumption
<1>3. CASE msg.m = NoMsg
  <2>1. msg.sent = 0
    BY <1>1, <1>3
  <2>2. Taken = <<>> \/ Overflowed
    BY <2>1, Drained
  <2> QED
    BY <1>3, <2>2 DEF StepMsg
<1>4. CASE msg.m # NoMsg /\ msg.sent = 0
  <2>1. Taken = <<>> \/ Overflowed
    BY <1>4, Drained
  <2> QED
    BY <1>2, <1>4, <2>1 DEF StepMsg, AllSent
<1>5. CASE msg.m # NoMsg /\ msg.sent > ResultMax
  <2>1. Overflowed
    BY <1>5, Drained
  <2>2. ~(AllSent /\ Pieces(msg.m) <= ResultMax)
    BY <1>2, <1>5, StepAssumption DEF AllSent
  <2> QED
    BY <2>1, <2>2 DEF StepMsg
<1>6. CASE msg.m # NoMsg /\ msg.sent # 0 /\ ~(msg.sent > ResultMax)
  <2>1. Taken \in Seq({Piece}) /\ Len(Taken) = msg.sent /\ ~Overflowed
    BY <1>6, Drained
  <2>2. Taken # <<>> /\ Taken[1] = Piece
    BY <1>1, <1>6, <2>1
  <2>3. Taken[1].m = msg.m
    BY <2>2 DEF Piece
  <2>4. StepMsg = IF msg.sent < Pieces(msg.m) THEN NoMsg ELSE msg.m
    BY <2>1, <2>2, <2>3 DEF StepMsg
  <2> QED
    BY <1>1, <1>2, <1>6, <2>4, StepAssumption DEF AllSent
<1> QED
  BY <1>3, <1>4, <1>5, <1>6

-----------------------------------------------------------------------------
(* The child *)

\* become.check lets the step through or denies it.
LEMMA ProbeOK ==
  ASSUME ChildInv, Probe
  PROVE  ChildInv'
<1>1. phase = "probe" /\ msg = Unsent /\ ghost.cause = "none" /\ ~ghost.wrote
      /\ msg.m.status = "none"
  BY DEF ChildInv, Probe, CauseInv, HonestInv, Unsent, NoMsg
<1>2. UNCHANGED <<where, givenUp, conn, host, cur, step, todo, code, pipe, buf, overflow, unreach>>
  BY DEF Probe, parent
<1>3. CASE phase' = (IF Exec(step) THEN "argv" ELSE "check") /\ UNCHANGED <<msg, ghost>>
  <2>1. PipeInv' /\ MsgInv'
    BY <1>2, <1>3, Quiet
  <2> QED
    BY <1>1, <1>2, <1>3, <2>1
    DEF ChildInv, GhostInv, PhaseInv, CauseInv, HonestInv, GivenUpInv, ReadInv, Exec
<1>4. CASE /\ Ends(Message("failed", "become-denied", FALSE, NoOutputs))
           /\ ghost' = [ghost EXCEPT !.cause = "denied", !.calm = FALSE]
  <2> DEFINE m == Message("failed", "become-denied", FALSE, NoOutputs)
  <2>1. /\ Encodable(m) = m /\ m.status = "failed" /\ m.reason = "become-denied"
        /\ m.of = cur /\ m.what = NoOutputs
    BY DEF Encodable, Message, NoOutputs
  <2> HIDE DEF m
  <2>2. PipeInv' /\ MsgInv' /\ msg'.m = m /\ phase' = "send"
    BY <1>1, <1>2, <1>4, <2>1, Sends, Zenon DEF Ends, m
  <2>3. /\ ghost'.cause = "denied" /\ ghost'.calm = FALSE /\ ghost'.wrote = ghost.wrote
        /\ GhostInv'
    BY <1>4, Zenon DEF ChildInv, GhostInv
  <2> QED
    BY <1>1, <1>2, <2>1, <2>2, <2>3
    DEF ChildInv, PhaseInv, CauseInv, FailedBy, HonestInv, GivenUpInv, ReadInv, Exec
<1> QED
  BY <1>3, <1>4, Zenon DEF Probe

\* What the first check may say: on a target given up on, only that what is to
\* be absent is.
LEMMA CheckSays ==
  ASSUME NEW s \in Steps, ~Exec(s), NEW h, NEW got \in Through, NEW c \in Checks(s, h, got)
  PROVE  /\ c.verdict \in {"raise", "needs", "fine"}
         /\ c.verdict = "raise" => c.what = NoOutputs
         /\ c.verdict = "needs" => s.uses \in Plugins
         /\ got = {} /\ c.verdict = "fine" =>
              \/ s.uses \in {"assert", "project", "file.read"}
              \/ s.uses \in {"file.line", "apt.package"} /\ s.with.state = "absent"
         /\ got = All /\ s.uses = "file.read" /\ c.verdict = "fine" =>
              c.what = IF h.file.exists THEN <<"read", h.file.lines>> ELSE <<"missing">>
<1> USE DEF Needs, Raised, Missing
<1>1. s.uses \in {"project", "file.line", "file.ensure", "file.read", "apt.package", "assert"}
  BY StepAssumption DEF Exec
<1>2. CASE s.uses = "file.line"
  BY <1>2 DEF Checks, LineCheck, Plugins
<1>3. CASE s.uses = "file.ensure"
  BY <1>3 DEF Checks, EnsureCheck, EnsureRaises, Plugins
<1>4. CASE s.uses = "file.read"
  <2>1. {"stat", "cat", "sha"} \subseteq All
    BY DEF All, Commands
  <2> QED
    BY <1>4, <2>1 DEF Checks, ReadCheck, Plugins
<1>5. CASE s.uses = "apt.package"
  BY <1>5 DEF Checks, AptCheck, Plugins
<1>6. CASE s.uses = "assert"
  BY <1>6 DEF Checks, AssertCheck, Plugins
<1>7. CASE s.uses = "project"
  BY <1>7 DEF Checks, ProjectChecks, Plugins
<1> QED
  BY <1>1, <1>2, <1>3, <1>4, <1>5, <1>6, <1>7

\* Nothing gets through to a target given up on, and its master stays down.
LEMMA Unreached ==
  ASSUME GivenUpInv, NEW got, Reach(got), Lose(got), UNCHANGED <<where, givenUp, unreach>>
  PROVE  /\ givenUp' => where' # "local" /\ ~conn'
         /\ unreach' => givenUp'
         /\ unreach => got = {}
BY Zenon DEF GivenUpInv, Reach, Lose

\* What checkapply.run may return, with what happened.
Returned(m, cause, what, changed) ==
  \/ m = Message("failed", "plugin-error", TRUE, NoOutputs) /\ cause = "raised"
  \/ m = Message("failed", "not-converged", TRUE, NoOutputs) /\ cause = "unconverged"
  \/ /\ m = Message("ok", "none", changed, what)
     /\ cause = IF what = <<"odd">> THEN "unsent" ELSE "none"

\* A message that tells what happened: a failure with its cause, or a success.
Tells(e, cause, what, changed) ==
  /\ e.status \in {"ok", "failed"} /\ e.of = cur
  /\ e.status = "failed" =>
       /\ e.what = NoOutputs /\ e.changed
       /\ \/ cause = "raised" /\ e.reason = "plugin-error"
          \/ cause = "unconverged" /\ e.reason = "not-converged"
          \/ cause = "unsent" /\ e.reason = "engine-error"
  /\ e.status = "ok" => e.what = what /\ e.changed = changed /\ cause = "none"

\* send_result sends what tells it.
LEMMA Result ==
  ASSUME NEW m, NEW cause, NEW what, NEW changed, Returned(m, cause, what, changed)
  PROVE  Tells(Encodable(m), cause, what, changed)
<1> USE DEF Returned, Tells
<1> DEFINE f == Message("failed", "engine-error", TRUE, NoOutputs)
<1>1. f.status = "failed" /\ f.reason = "engine-error" /\ f.changed = TRUE /\ f.of = cur /\ f.what = NoOutputs
  BY DEF Message
<1>2. NoOutputs # <<"odd">>
  BY DEF NoOutputs
<1>3. Encodable(m) = IF m.what = <<"odd">> THEN f ELSE m
  BY DEF Encodable
<1> HIDE DEF f
<1>4. CASE m = Message("failed", "plugin-error", TRUE, NoOutputs) /\ cause = "raised"
  <2>1. m.status = "failed" /\ m.reason = "plugin-error" /\ m.changed = TRUE /\ m.of = cur /\ m.what = NoOutputs
    BY <1>4 DEF Message
  <2> QED
    BY <1>2, <1>3, <1>4, <2>1, Zenon
<1>5. CASE m = Message("failed", "not-converged", TRUE, NoOutputs) /\ cause = "unconverged"
  <2>1. m.status = "failed" /\ m.reason = "not-converged" /\ m.changed = TRUE /\ m.of = cur /\ m.what = NoOutputs
    BY <1>5 DEF Message
  <2> QED
    BY <1>2, <1>3, <1>5, <2>1, Zenon
<1>6. CASE /\ m = Message("ok", "none", changed, what)
           /\ cause = IF what = <<"odd">> THEN "unsent" ELSE "none"
  <2>1. m.status = "ok" /\ m.changed = changed /\ m.of = cur /\ m.what = what
    BY <1>6 DEF Message
  <2> QED
    BY <1>1, <1>3, <1>6, <2>1
<1> QED
  BY <1>4, <1>5, <1>6, Zenon

\* The first check: the step is done, or it has failed, or apply is to run.
LEMMA FirstCheckOK ==
  ASSUME ChildInv, FirstCheck
  PROVE  ChildInv'
<1>1. /\ phase = "check" /\ msg = Unsent /\ ghost.cause = "none" /\ ~ghost.wrote
      /\ msg.m.status = "none" /\ step \in Steps /\ ~Exec(step) /\ GivenUpInv
  BY DEF ChildInv, FirstCheck, PhaseInv, CauseInv, HonestInv, Unsent, NoMsg
<1>2. UNCHANGED <<where, givenUp, host, cur, step, todo, code, pipe, buf, overflow, unreach>>
  BY DEF FirstCheck, parent
<1>3. PICK got \in Through : \E c \in Checks(step, host, got) :
        /\ Reach(got) /\ Lose(got)
        /\ LET m == FirstCheckResult(c)
           IN  IF m = NoMsg THEN phase' = "apply" /\ msg' = msg ELSE Ends(m)
        /\ ghost' = [ghost EXCEPT !.calm = Calm(got), !.cause = CauseOf(c, "never")]
  BY Zenon DEF FirstCheck
<1>4. PICK c \in Checks(step, host, got) :
        /\ Reach(got) /\ Lose(got)
        /\ LET m == FirstCheckResult(c)
           IN  IF m = NoMsg THEN phase' = "apply" /\ msg' = msg ELSE Ends(m)
        /\ ghost' = [ghost EXCEPT !.calm = Calm(got), !.cause = CauseOf(c, "never")]
  BY <1>3, Zenon
<1>5. /\ c.verdict \in {"raise", "needs", "fine"}
      /\ c.verdict = "raise" => c.what = NoOutputs
      /\ c.verdict = "needs" => step.uses \in Plugins
      /\ got = {} /\ c.verdict = "fine" =>
           \/ step.uses \in {"assert", "project", "file.read"}
           \/ step.uses \in {"file.line", "apt.package"} /\ step.with.state = "absent"
      /\ got = All /\ step.uses = "file.read" /\ c.verdict = "fine" => c.what = Reading
  BY <1>1, CheckSays DEF Reading
<1>6. /\ ghost'.cause = CauseOf(c, "never") /\ ghost'.calm = Calm(got)
      /\ ghost'.wrote = ghost.wrote /\ GhostInv'
  BY <1>4, Zenon DEF ChildInv, GhostInv, Calm
<1>7. /\ givenUp' => where' # "local" /\ ~conn'
      /\ unreach' => givenUp'
      /\ unreach => got = {}
  BY <1>1, <1>2, <1>4, Unreached, Zenon
<1>8. CASE c.verdict = "needs"
  <2>1. FirstCheckResult(c) = NoMsg /\ CauseOf(c, "never") = "none"
    BY <1>8 DEF FirstCheckResult, CauseOf
  <2>2. phase' = "apply" /\ msg' = msg /\ ghost'.cause = "none"
    BY <1>4, <1>6, <2>1
  <2>3. PipeInv' /\ MsgInv'
    BY <1>2, <2>2, Quiet
  <2> QED
    BY <1>1, <1>2, <1>5, <1>6, <1>7, <1>8, <2>2, <2>3
    DEF ChildInv, PhaseInv, CauseInv, HonestInv, GivenUpInv, ReadInv, Exec
<1>9. CASE c.verdict \in {"raise", "fine"}
  <2> DEFINE m == FirstCheckResult(c)
             e == Encodable(m)
  <2>1. /\ c.verdict = "raise" => /\ m = Message("failed", "plugin-error", TRUE, NoOutputs)
                                  /\ CauseOf(c, "never") = "raised"
        /\ c.verdict = "fine" => /\ m = Message("ok", "none", FALSE, c.what)
                                 /\ CauseOf(c, "never") = IF c.what = <<"odd">> THEN "unsent" ELSE "none"
    BY Zenon DEF FirstCheckResult, RaisedResult, CauseOf
  <2>2. m # NoMsg
    BY <1>9, <2>1 DEF Message, NoMsg
  <2>3. msg' = Sending(e) /\ phase' = "send"
    BY <1>4, <2>2 DEF Ends
  <2>4. Tells(e, CauseOf(c, "never"), c.what, FALSE)
    <3>1. Returned(m, CauseOf(c, "never"), c.what, FALSE)
      BY <1>9, <2>1, Zenon DEF Returned
    <3> QED
      BY <3>1, Result, Zenon
  <2>5. e.status = "ok" => c.verdict = "fine"
    BY <1>9, <2>1, <2>4 DEF Tells, CauseOf
  <2> HIDE DEF e, m
  <2>6. PipeInv' /\ MsgInv' /\ msg'.m = e
    BY <1>1, <1>2, <2>3, <2>4, Sends DEF Tells
  <2>7. CauseInv'
    BY <1>6, <2>3, <2>4, <2>6 DEF CauseInv, FailedBy, Tells
  <2>8. ReadInv'
    BY <1>2, <1>5, <1>6, <2>4, <2>5, <2>6, Zenon DEF ReadInv, Reading, Calm, Tells
  <2>9. GivenUpInv'
    BY <1>2, <1>5, <1>7, <2>3, <2>5, <2>6 DEF GivenUpInv
  <2> QED
    BY <1>1, <1>2, <1>6, <2>3, <2>6, <2>7, <2>8, <2>9 DEF ChildInv, PhaseInv, HonestInv, Exec
<1> QED
  BY <1>5, <1>8, <1>9

\* A plugin that raises: the child says so, and nothing it did is denied.
LEMMA Raises ==
  ASSUME ChildInv, msg = Unsent, Ends(RaisedResult), ghost'.cause = "raised",
         UNCHANGED <<cur, step, pipe, buf, overflow>>
  PROVE  /\ PipeInv' /\ MsgInv' /\ CauseInv' /\ phase' = "send"
         /\ msg'.m.status = "failed" /\ msg'.m.changed
<1> DEFINE e == Encodable(RaisedResult)
<1>1. msg' = Sending(e) /\ phase' = "send"
  BY DEF Ends
<1>2. e.status = "failed" /\ e.of = cur /\ e.what = NoOutputs /\ e.reason = "plugin-error" /\ e.changed
  BY DEF Encodable, RaisedResult, Message, NoOutputs
<1> HIDE DEF e
<1>3. PipeInv' /\ MsgInv' /\ msg'.m = e
  BY <1>1, <1>2, Sends
<1> QED
  BY <1>1, <1>2, <1>3 DEF CauseInv, FailedBy

\* apply up to its first command that changes something.
LEMMA ApplyReadOK ==
  ASSUME ChildInv, ApplyRead
  PROVE  ChildInv'
<1>1. /\ phase = "apply" /\ msg = Unsent /\ ghost.cause = "none"
      /\ msg.m.status = "none" /\ step \in Steps /\ step.uses \in Plugins /\ GivenUpInv
  BY DEF ChildInv, ApplyRead, PhaseInv, CauseInv, Unsent, NoMsg
<1>2. UNCHANGED <<where, givenUp, host, cur, step, code, pipe, buf, overflow, unreach>>
  BY DEF ApplyRead, parent
<1>3. PICK got \in Through :
        /\ Reach(got) /\ Lose(got)
        /\ IF ApplyRaises(step, host, got)
           THEN /\ Ends(RaisedResult)
                /\ ghost' = [ghost EXCEPT !.calm = Calm(got), !.cause = "raised"]
                /\ todo' = todo
           ELSE /\ phase' = "write" /\ msg' = msg
                /\ todo' = Todo(step, host, got)
                /\ ghost' = [ghost EXCEPT !.calm = Calm(got)]
  BY Zenon DEF ApplyRead
<1>4. /\ givenUp' => where' # "local" /\ ~conn'
      /\ unreach' => givenUp'
      /\ unreach => got = {}
  BY <1>1, <1>2, <1>3, Unreached
<1>5. ghost'.wrote = ghost.wrote /\ GhostInv'
  BY <1>3, Zenon DEF ChildInv, GhostInv, Calm
<1>6. CASE ApplyRaises(step, host, got)
  <2>1. Ends(RaisedResult) /\ ghost'.cause = "raised"
    BY <1>3, <1>6, Zenon DEF ChildInv, GhostInv
  <2>2. /\ PipeInv' /\ MsgInv' /\ CauseInv' /\ phase' = "send"
        /\ msg'.m.status = "failed" /\ msg'.m.changed
    BY <1>1, <1>2, <2>1, Raises
  <2> QED
    BY <1>1, <1>2, <1>4, <1>5, <2>2 DEF ChildInv, PhaseInv, HonestInv, GivenUpInv, ReadInv, Exec
<1>7. CASE ~ApplyRaises(step, host, got)
  <2>1. phase' = "write" /\ msg' = msg /\ todo' = Todo(step, host, got) /\ ghost'.cause = "none"
    BY <1>1, <1>3, <1>7 DEF ChildInv, GhostInv
  <2>2. PipeInv' /\ MsgInv'
    BY <1>2, <2>1, Quiet
  <2>3. unreach' => step'.uses = "project" \/ WriteRaises(todo', {})
    <3>1. unreach => Missing(host, got)
      BY <1>4 DEF Missing
    <3> QED
      BY <1>1, <1>2, <2>1, <3>1, Zenon DEF Todo, LineTodo, EnsureTodo, NoTodo, WriteRaises, Plugins
  <2> QED
    BY <1>1, <1>2, <1>4, <1>5, <2>1, <2>2, <2>3
    DEF ChildInv, PhaseInv, CauseInv, HonestInv, GivenUpInv, ReadInv, Exec
<1> QED
  BY <1>6, <1>7

\* The commands of apply that change the target.
LEMMA ApplyWriteOK ==
  ASSUME ChildInv, ApplyWrite
  PROVE  ChildInv'
<1>1. /\ phase = "write" /\ msg = Unsent /\ ghost.cause = "none"
      /\ msg.m.status = "none" /\ step \in Steps /\ step.uses \in Plugins /\ GivenUpInv
      /\ msg.m.changed
  BY DEF ChildInv, ApplyWrite, PhaseInv, CauseInv, Unsent, NoMsg
<1>2. UNCHANGED <<where, givenUp, cur, step, code, pipe, buf, overflow, unreach>>
  BY DEF ApplyWrite, parent
<1>3. PICK got \in Through :
        /\ Reach(got) /\ Lose(got)
        /\ \/ /\ WriteRaises(todo, got) \/ step.uses = "project"
              /\ Ends(RaisedResult)
              /\ ghost' = [ghost EXCEPT !.wrote = TRUE, !.calm = FALSE, !.cause = "raised"]
           \/ /\ ~WriteRaises(todo, got)
              /\ phase' = "recheck" /\ msg' = msg
              /\ ghost' = [ghost EXCEPT !.wrote = TRUE, !.calm = Calm(got)]
  BY Zenon DEF ApplyWrite
<1>4. /\ givenUp' => where' # "local" /\ ~conn'
      /\ unreach' => givenUp'
      /\ unreach => got = {}
  BY <1>1, <1>2, <1>3, Unreached
<1>5. GhostInv'
  BY <1>3, Zenon DEF ChildInv, GhostInv, Calm
<1>6. CASE Ends(RaisedResult) /\ ghost' = [ghost EXCEPT !.wrote = TRUE, !.calm = FALSE, !.cause = "raised"]
  <2>1. ghost'.cause = "raised"
    BY <1>6 DEF ChildInv, GhostInv
  <2>2. /\ PipeInv' /\ MsgInv' /\ CauseInv' /\ phase' = "send"
        /\ msg'.m.status = "failed" /\ msg'.m.changed
    BY <1>1, <1>2, <1>6, <2>1, Raises
  <2> QED
    BY <1>1, <1>2, <1>4, <1>5, <2>2 DEF ChildInv, PhaseInv, HonestInv, GivenUpInv, ReadInv, Exec
<1>7. CASE /\ ~WriteRaises(todo, got)
           /\ phase' = "recheck" /\ msg' = msg
           /\ ghost' = [ghost EXCEPT !.wrote = TRUE, !.calm = Calm(got)]
  <2>1. ghost'.cause = "none"
    BY <1>1, <1>7 DEF ChildInv, GhostInv
  <2>2. PipeInv' /\ MsgInv'
    BY <1>2, <1>7, Quiet
  <2>3. unreach => step.uses = "project"
    BY <1>1, <1>4, <1>7 DEF GivenUpInv
  <2> QED
    BY <1>1, <1>2, <1>4, <1>5, <1>7, <2>1, <2>2, <2>3
    DEF ChildInv, PhaseInv, CauseInv, HonestInv, GivenUpInv, ReadInv, Exec
<1> QED
  BY <1>3, <1>6, <1>7

\* The second check decides, whatever apply has done.
LEMMA SecondCheckOK ==
  ASSUME ChildInv, SecondCheck
  PROVE  ChildInv'
<1>1. /\ phase = "recheck" /\ msg = Unsent /\ ghost.cause = "none"
      /\ msg.m.status = "none" /\ step \in Steps /\ step.uses \in Plugins /\ GivenUpInv
  BY DEF ChildInv, SecondCheck, PhaseInv, CauseInv, Unsent, NoMsg
<1>2. UNCHANGED <<where, givenUp, host, cur, step, todo, code, pipe, buf, overflow, unreach>>
  BY DEF SecondCheck, parent
<1>3. ~Exec(step) /\ step.uses # "file.read"
  BY <1>1 DEF Exec, Plugins
<1>4. PICK got \in Through : \E c \in Checks(step, host, got) :
        /\ Reach(got) /\ Lose(got)
        /\ Ends(SecondCheckResult(c))
        /\ ghost' = [ghost EXCEPT !.calm = Calm(got), !.cause = CauseOf(c, "needs")]
  BY Zenon DEF SecondCheck
<1>5. PICK c \in Checks(step, host, got) :
        /\ Reach(got) /\ Lose(got)
        /\ Ends(SecondCheckResult(c))
        /\ ghost' = [ghost EXCEPT !.calm = Calm(got), !.cause = CauseOf(c, "needs")]
  BY <1>4, Zenon
<1>6. c.verdict \in {"raise", "needs", "fine"}
  BY <1>1, <1>3, CheckSays, Zenon
<1>7. ghost'.cause = CauseOf(c, "needs") /\ ghost'.wrote = ghost.wrote /\ GhostInv'
  BY <1>5, Zenon DEF ChildInv, GhostInv, Calm
<1>8. /\ givenUp' => where' # "local" /\ ~conn'
      /\ unreach' => givenUp'
  BY <1>1, <1>2, <1>5, Unreached
<1> DEFINE m == SecondCheckResult(c)
           e == Encodable(m)
<1>9. Returned(m, CauseOf(c, "needs"), c.what, TRUE)
  BY <1>6, Zenon DEF Returned, SecondCheckResult, RaisedResult, CauseOf
<1>10. Tells(e, CauseOf(c, "needs"), c.what, TRUE)
  BY <1>9, Result, Zenon
<1>11. msg' = Sending(e) /\ phase' = "send"
  BY <1>5 DEF Ends
<1> HIDE DEF e, m
<1>12. PipeInv' /\ MsgInv' /\ msg'.m = e
  BY <1>1, <1>2, <1>3, <1>10, <1>11, Sends DEF Tells
<1>13. CauseInv'
  BY <1>7, <1>10, <1>11, <1>12 DEF CauseInv, FailedBy, Tells
<1>14. HonestInv'
  BY <1>10, <1>11, <1>12 DEF HonestInv, Tells
<1>15. GivenUpInv'
  BY <1>1, <1>2, <1>8, <1>11, <1>12, <1>10 DEF GivenUpInv, Tells
<1> QED
  BY <1>1, <1>2, <1>3, <1>7, <1>11, <1>12, <1>13, <1>14, <1>15 DEF ChildInv, PhaseInv, ReadInv, Exec

\* child_argv: a command to execute, or the reason why there is none.
LEMMA BuildArgvOK ==
  ASSUME ChildInv, BuildArgv
  PROVE  ChildInv'
<1>1. /\ phase = "argv" /\ msg = Unsent /\ ghost.cause = "none" /\ msg.m = NoMsg
      /\ msg.m.status = "none" /\ msg.m.changed /\ Exec(step) /\ GivenUpInv
  BY DEF ChildInv, BuildArgv, PhaseInv, CauseInv, Unsent, NoMsg
<1>2. UNCHANGED <<where, givenUp, conn, host, cur, step, todo, pipe, buf, overflow, unreach>>
  BY DEF BuildArgv, parent
<1>3. GhostInv' /\ ghost'.wrote = ghost.wrote
  <2>1. ghost' = ghost \/ \E c : ghost' = [ghost EXCEPT !.cause = c, !.calm = FALSE]
    BY Zenon DEF BuildArgv
  <2> QED
    BY <2>1, Zenon DEF ChildInv, GhostInv
<1>4. CASE /\ step.uses = "argv" /\ phase' = "dead" /\ code' = 126 /\ msg' = msg
           /\ ghost' = [ghost EXCEPT !.cause = "badargv", !.calm = FALSE]
  <2>1. PipeInv' /\ MsgInv'
    BY <1>2, <1>4, Quiet
  <2>2. ghost'.cause = "badargv"
    BY <1>4 DEF ChildInv, GhostInv
  <2>3. CauseInv'
    BY <1>1, <1>2, <1>4, <2>2 DEF CauseInv, Ended
  <2> QED
    BY <1>1, <1>2, <1>3, <1>4, <2>1, <2>3 DEF ChildInv, PhaseInv, HonestInv, GivenUpInv, ReadInv, Exec
<1>5. ASSUME NEW m, NEW ph, NEW cause,
             \/ /\ m = Message("failed", "engine-error", TRUE, NoOutputs)
                /\ ph = "nomem" /\ cause = "unsent"
             \/ /\ m = Message("exec", "none", TRUE, NoOutputs)
                /\ ph = "exec" /\ cause = "none",
             msg' = Sending(m), phase' = ph, ghost'.cause = cause
      PROVE  ChildInv'
  <2>1. /\ m.status \in {"failed", "exec"} /\ m.of = cur /\ m.what = NoOutputs /\ m.changed
        /\ \/ ph = "nomem" /\ cause = "unsent" /\ m.status = "failed" /\ m.reason = "engine-error"
           \/ ph = "exec" /\ cause = "none" /\ m.status = "exec"
    BY <1>5 DEF Message
  <2>2. PipeInv' /\ MsgInv' /\ msg'.m = m
    BY <1>1, <1>2, <1>5, <2>1, Sends
  <2>3. CauseInv'
    BY <1>5, <2>1, <2>2 DEF CauseInv, FailedBy
  <2> QED
    BY <1>1, <1>2, <1>3, <1>5, <2>1, <2>2, <2>3
    DEF ChildInv, PhaseInv, HonestInv, GivenUpInv, ReadInv, Exec
<1>6. CASE /\ msg' = Sending(Message("failed", "engine-error", TRUE, NoOutputs))
           /\ phase' = "nomem"
           /\ ghost' = [ghost EXCEPT !.cause = "unsent", !.calm = FALSE]
  <2>1. ghost'.cause = "unsent"
    BY <1>6 DEF ChildInv, GhostInv
  <2> QED
    BY <1>5, <1>6, <2>1, Zenon
<1>7. CASE /\ msg' = Sending(Message("exec", "none", TRUE, NoOutputs))
           /\ phase' = "exec" /\ ghost' = ghost
  BY <1>1, <1>5, <1>7, Zenon
<1>8. CASE /\ Ends(RaisedResult)
           /\ ghost' = [ghost EXCEPT !.cause = "raised", !.calm = FALSE]
  <2>1. ghost'.cause = "raised"
    BY <1>8 DEF ChildInv, GhostInv
  <2>2. /\ PipeInv' /\ MsgInv' /\ CauseInv' /\ phase' = "send"
        /\ msg'.m.status = "failed" /\ msg'.m.changed
    BY <1>1, <1>2, <1>8, <2>1, Raises
  <2> QED
    BY <1>1, <1>2, <1>3, <2>2 DEF ChildInv, PhaseInv, HonestInv, GivenUpInv, ReadInv, Exec
<1> QED
  BY <1>4, <1>6, <1>7, <1>8, Zenon DEF BuildArgv

\* A piece of the message is written.
LEMMA SendPieceOK ==
  ASSUME ChildInv, SendPiece
  PROVE  ChildInv'
<1>1. /\ phase \in {"send", "nomem", "exec"} /\ ~AllSent
      /\ pipe' = Append(pipe, [m |-> msg.m, of |-> cur])
      /\ msg' = [msg EXCEPT !.sent = @ + 1]
      /\ UNCHANGED <<where, givenUp, conn, host, cur, step, phase, todo, code, buf, overflow,
                     unreach, ghost>>
  BY DEF SendPiece, parent
<1>2. /\ msg = [m |-> msg.m, sent |-> msg.sent] /\ msg.sent \in Nat /\ MsgInv /\ PipeInv
  BY DEF ChildInv, MsgInv
<1>3. msg' = [m |-> msg.m, sent |-> msg.sent + 1]
  BY <1>1, <1>2
<1>4. msg'.m = msg.m /\ msg'.sent = msg.sent + 1
  BY <1>3
<1>5. MsgInv'
  <2>1. msg.m.status # "none" /\ msg.sent < Pieces(msg.m)
    <3>1. Pieces(msg.m) \in Nat
      BY PiecesOf, StepAssumption
    <3> QED
      BY <1>1, <1>2, <3>1 DEF AllSent, MsgInv
  <2>2. msg.sent + 1 <= Pieces(msg.m)
    BY <1>2, <2>1, PiecesOf, StepAssumption
  <2> QED
    BY <1>1, <1>2, <1>3, <1>4, <2>1, <2>2 DEF MsgInv, Exec, Pieces
<1>6. PipeInv'
  <2>1. /\ pipe' \in Seq({Piece}) /\ Len(pipe') = Len(pipe) + 1 /\ Piece' = Piece
        /\ Len(pipe) \in Nat /\ Len(buf) \in Nat
    BY <1>1, <1>2, <1>4 DEF Piece, PipeInv
  <2> QED
    BY <1>1, <1>2, <1>4, <2>1, StepAssumption DEF PipeInv
<1> QED
  BY <1>1, <1>4, <1>5, <1>6
  DEF ChildInv, GhostInv, PhaseInv, CauseInv, FailedBy, HonestInv, GivenUpInv, ReadInv, Reading, Exec

\* The check/apply child exits.
LEMMA ChildExitsOK ==
  ASSUME ChildInv, ChildExits
  PROVE  ChildInv'
<1>1. /\ phase = "send" /\ AllSent /\ phase' = "dead"
      /\ UNCHANGED <<where, givenUp, conn, host, cur, step, todo, msg, pipe, buf, overflow, unreach>>
  BY DEF ChildExits, parent
<1>2. PipeInv' /\ MsgInv'
  BY <1>1, Quiet
<1>3. FailedBy \/ (msg.m.status = "ok" /\ ghost.cause = "none")
  BY <1>1 DEF ChildInv, CauseInv
<1>4. AllSent'
  BY <1>1 DEF AllSent, Pieces
<1>5. \/ code' = (IF msg.m.status = "ok" THEN 0 ELSE 1) /\ ghost' = ghost
      \/ /\ msg.m.status = "ok" /\ code' = 1
         /\ ghost' = [ghost EXCEPT !.cause = "unflushed", !.calm = FALSE]
  BY DEF ChildExits
<1>6. /\ GhostInv' /\ ghost'.wrote = ghost.wrote /\ (ghost'.calm => ghost.calm)
      /\ \/ ghost' = ghost /\ code' = IF msg.m.status = "ok" THEN 0 ELSE 1
         \/ ghost'.cause = "unflushed" /\ msg.m.status = "ok" /\ code' = 1
  <2>1. CASE ghost' = ghost /\ code' = IF msg.m.status = "ok" THEN 0 ELSE 1
    BY <2>1 DEF ChildInv, GhostInv
  <2>2. CASE /\ msg.m.status = "ok" /\ code' = 1
             /\ ghost' = [ghost EXCEPT !.cause = "unflushed", !.calm = FALSE]
    BY <2>2, Zenon DEF ChildInv, GhostInv
  <2> QED
    BY <1>5, <2>1, <2>2
<1>7. Ended'
  <2>1. CASE ghost' = ghost /\ FailedBy /\ code' = 1
    BY <1>1, <1>4, <2>1 DEF Ended, FailedBy
  <2>2. CASE ghost' = ghost /\ msg.m.status = "ok" /\ ghost.cause = "none" /\ code' = 0
    BY <1>1, <1>4, <2>2 DEF Ended
  <2>3. CASE msg.m.status = "ok" /\ code' = 1 /\ ghost'.cause = "unflushed"
    BY <1>1, <1>4, <2>3 DEF Ended
  <2> QED
    BY <1>3, <1>6, <2>1, <2>2, <2>3 DEF FailedBy
<1>8. CauseInv'
  BY <1>1, <1>7 DEF CauseInv
<1>9. msg'.m.status # "exec"
  BY <1>1, <1>3 DEF FailedBy
<1> QED
  BY <1>1, <1>2, <1>6, <1>8, <1>9
  DEF ChildInv, PhaseInv, HonestInv, GivenUpInv, ReadInv, Reading, Exec

\* The command ends, or could not be executed.
LEMMA CommandExitsOK ==
  ASSUME ChildInv, CommandExits
  PROVE  ChildInv'
<1>1. /\ phase \in {"exec", "nomem"} /\ AllSent /\ phase' = "dead"
      /\ UNCHANGED <<where, givenUp, conn, host, cur, step, todo, msg, pipe, buf, overflow, unreach>>
  BY DEF CommandExits, parent
<1>2. PipeInv' /\ MsgInv' /\ AllSent'
  BY <1>1, Quiet DEF AllSent, Pieces
<1>3. Exec(step) /\ step' \in Steps
  BY <1>1 DEF ChildInv, PhaseInv
<1>4. CASE phase = "nomem"
  <2>1. code' = 126 /\ ghost' = ghost /\ FailedBy
    BY <1>4 DEF CommandExits, ChildInv, CauseInv
  <2>2. CauseInv'
    BY <1>1, <1>2, <2>1 DEF CauseInv, Ended, FailedBy
  <2> QED
    BY <1>1, <1>2, <2>1, <2>2
    DEF ChildInv, GhostInv, PhaseInv, HonestInv, GivenUpInv, ReadInv, Reading, Exec, FailedBy
<1>5. CASE phase = "exec"
  <2>1. /\ msg.m.status = "exec" /\ ghost.cause = "none" /\ msg.m.changed
        /\ code' \in {0, 1, 126, 127, 255} /\ (code' = 0 => where = "local" \/ conn)
        /\ ghost' = [ghost EXCEPT !.wrote = TRUE, !.cause = IF code' = 0 THEN "none" ELSE "code"]
    BY <1>5 DEF CommandExits, ChildInv, CauseInv, HonestInv
  <2>2. /\ GhostInv' /\ ghost'.cause = IF code' = 0 THEN "none" ELSE "code"
    BY <2>1, Zenon DEF ChildInv, GhostInv
  <2>3. CauseInv'
    BY <1>1, <1>2, <2>1, <2>2 DEF CauseInv, Ended
  <2>4. GivenUpInv'
    BY <1>1, <2>1 DEF ChildInv, GivenUpInv
  <2> QED
    BY <1>1, <1>2, <1>3, <2>1, <2>2, <2>3, <2>4 DEF ChildInv, PhaseInv, HonestInv, ReadInv, Exec
<1> QED
  BY <1>1, <1>4, <1>5

\* The leader is killed: what it had told in full still counts, and only that.
LEMMA KilledOK ==
  ASSUME ChildInv, Killed
  PROVE  ChildInv'
<1>1. /\ phase \notin {"idle", "dead", "over"} /\ phase' = "dead" /\ code' = -9
      /\ host' \in IF phase = "write" THEN Applied(step, host, todo, {}) ELSE {host}
      /\ UNCHANGED <<where, givenUp, conn, cur, step, msg, pipe, buf, overflow, unreach>>
  BY Zenon DEF Killed, parent
<1>2. PipeInv' /\ MsgInv' /\ (AllSent' <=> AllSent)
  BY <1>1, Quiet DEF AllSent, Pieces
<1>3. /\ GhostInv' /\ ~ghost'.calm
      /\ ghost'.wrote = (ghost.wrote \/ phase \in {"write", "exec"})
      /\ ghost'.cause = IF ghost.cause = "none" \/ ~AllSent THEN "killed" ELSE ghost.cause
  <2>1. ghost' = [ghost EXCEPT !.calm = FALSE,
                               !.wrote = ghost.wrote \/ phase \in {"write", "exec"},
                               !.cause = IF ghost.cause = "none" \/ ~AllSent THEN "killed" ELSE ghost.cause]
    BY DEF Killed
  <2>2. ghost' = [wrote |-> ghost.wrote \/ phase \in {"write", "exec"}, calm |-> FALSE,
                  cause |-> IF ghost.cause = "none" \/ ~AllSent THEN "killed" ELSE ghost.cause,
                  start |-> ghost.start, meddles |-> ghost.meddles]
    BY <2>1, Zenon DEF ChildInv, GhostInv
  <2> QED
    BY <2>2 DEF GhostInv
<1>4. /\ ghost.cause = "none" => msg.m.status # "failed"
      /\ ghost.cause # "none" => FailedBy
      /\ phase = "write" => msg.m.changed
      /\ phase = "exec" => msg.m.changed
  BY <1>1 DEF ChildInv, PhaseInv, CauseInv, FailedBy, HonestInv, Unsent, NoMsg
<1>5. CauseInv'
  BY <1>1, <1>2, <1>3, <1>4 DEF CauseInv, Ended, FailedBy
<1>6. HonestInv'
  <2>1. ~msg.m.changed => ~ghost.wrote /\ phase \notin {"write", "exec"}
    BY <1>4 DEF ChildInv, HonestInv
  <2> QED
    BY <1>1, <1>3, <2>1, Zenon DEF HonestInv
<1>7. GivenUpInv'
  BY <1>1 DEF ChildInv, GivenUpInv
<1> QED
  BY <1>1, <1>2, <1>3, <1>5, <1>6, <1>7, Zenon DEF ChildInv, PhaseInv, ReadInv, Exec

\* How the leader has ended stays what it is.
LEMMA StaysEnded ==
  ASSUME UNCHANGED <<step, msg, code, ghost>>
  PROVE  (FailedBy' <=> FailedBy) /\ (Ended => Ended')
<1>1. UNCHANGED step /\ UNCHANGED msg /\ UNCHANGED code /\ UNCHANGED ghost
  OBVIOUS
<1>2. (AllSent' <=> AllSent) /\ (FailedBy' <=> FailedBy)
  BY <1>1, Zenon DEF FailedBy, AllSent, Pieces
<1>3. ASSUME Ended PROVE Ended'
  <2>1. CASE ghost.cause = "badargv" /\ msg.m = NoMsg /\ code = 126 /\ step.uses = "argv"
    BY <1>1, <2>1, Zenon DEF Ended
  <2>2. CASE ghost.cause = "none" /\ AllSent /\ msg.m.status = "ok" /\ code = 0
    BY <1>1, <1>2, <2>2, Zenon DEF Ended
  <2>3. CASE ghost.cause = "unflushed" /\ AllSent /\ msg.m.status = "ok" /\ code = 1
    BY <1>1, <1>2, <2>3, Zenon DEF Ended
  <2>4. CASE FailedBy /\ AllSent /\ code \in {1, 126, -9}
    BY <1>1, <1>2, <2>4, Zenon DEF Ended
  <2>5. CASE /\ AllSent /\ msg.m.status = "exec" /\ code \in {0, 1, 126, 127, 255}
             /\ ghost.cause = IF code = 0 THEN "none" ELSE "code"
    <3>1. AllSent' /\ msg'.m.status = "exec" /\ code' \in {0, 1, 126, 127, 255}
      BY <1>1, <1>2, <2>5
    <3>2. ghost'.cause = IF code' = 0 THEN "none" ELSE "code"
      BY <1>1, <2>5
    <3> QED
      BY <3>1, <3>2, Zenon DEF Ended
  <2>6. CASE ghost.cause = "killed" /\ code = -9 /\ (AllSent => msg.m.status # "failed")
    BY <1>1, <1>2, <2>6, Zenon DEF Ended
  <2> QED
    BY <1>3, <2>1, <2>2, <2>3, <2>4, <2>5, <2>6, Zenon DEF Ended
<1> QED
  BY <1>2, <1>3

\* The parent empties the pipe while the child lives.
LEMMA DrainResultOK ==
  ASSUME ChildInv, DrainResult
  PROVE  ChildInv'
<1>1. /\ buf' = Taken /\ overflow' = Overflowed /\ pipe' = <<>>
      /\ UNCHANGED <<where, givenUp, conn, host, cur, step, phase, todo, msg, code, unreach, ghost>>
  BY DEF DrainResult, child
<1>2. PipeInv'
  <2>1. /\ Taken \in Seq({Piece}) /\ Overflowed \in BOOLEAN /\ msg.sent \in Nat
        /\ Overflowed <=> msg.sent > ResultMax
        /\ ~Overflowed => Len(Taken) = msg.sent
    BY Drained DEF ChildInv, MsgInv
  <2>2. Piece' = Piece /\ pipe' \in Seq({Piece}) /\ Len(pipe') = 0
    BY <1>1 DEF Piece
  <2> QED
    BY <1>1, <2>1, <2>2 DEF PipeInv
<1>3. MsgInv'
  BY <1>1 DEF ChildInv, MsgInv, Exec, Pieces
<1>4. GhostInv' /\ PhaseInv' /\ HonestInv' /\ ReadInv'
  BY <1>1, Zenon DEF ChildInv, GhostInv, PhaseInv, HonestInv, ReadInv, Reading, Exec
<1>5. (FailedBy' <=> FailedBy) /\ (Ended => Ended')
  BY <1>1, StaysEnded, Zenon
<1>6. CauseInv'
  BY <1>1, <1>5, Zenon DEF ChildInv, CauseInv
<1>7. GivenUpInv'
  BY <1>1, Zenon DEF ChildInv, GivenUpInv, WriteRaises
<1> QED
  BY <1>2, <1>3, <1>4, <1>6, <1>7, Zenon DEF ChildInv

\* Another job changes the file.
LEMMA MeddleOK ==
  ASSUME ChildInv, Meddle
  PROVE  ChildInv'
<1>1. /\ phase \in {"check", "apply", "write", "recheck"}
      /\ UNCHANGED <<where, givenUp, conn, cur, step, phase, todo, msg, code, pipe, buf, overflow, unreach>>
      /\ ghost' = [ghost EXCEPT !.meddles = @ + 1, !.calm = FALSE]
  BY DEF Meddle, child, parent
<1>2. PipeInv' /\ MsgInv'
  BY <1>1, Quiet
<1>3. GhostInv' /\ ghost'.wrote = ghost.wrote /\ ghost'.cause = ghost.cause
  BY <1>1, Zenon DEF ChildInv, GhostInv
<1> QED
  BY <1>1, <1>2, <1>3
  DEF ChildInv, PhaseInv, CauseInv, HonestInv, GivenUpInv, ReadInv, Exec, Unsent, NoMsg

\* The master dies or is started again.
LEMMA ConnectionOK ==
  ASSUME ChildInv, Connection
  PROVE  ChildInv'
<1>1. /\ ~givenUp /\ phase \notin {"idle", "over"}
      /\ UNCHANGED <<where, givenUp, host, cur, step, phase, todo, msg, code, pipe, buf, overflow, unreach>>
      /\ ghost' = [ghost EXCEPT !.calm = FALSE]
  BY DEF Connection, child, parent
<1>2. PipeInv' /\ MsgInv'
  BY <1>1, Quiet
<1>3. GhostInv' /\ ghost'.wrote = ghost.wrote /\ ghost'.cause = ghost.cause /\ ~ghost'.calm
  BY <1>1, Zenon DEF ChildInv, GhostInv
<1>4. CauseInv'
  BY <1>1, <1>3 DEF ChildInv, CauseInv, FailedBy, Ended, AllSent, Pieces
<1> QED
  BY <1>1, <1>2, <1>3, <1>4 DEF ChildInv, PhaseInv, HonestInv, GivenUpInv, ReadInv, Exec

-----------------------------------------------------------------------------
(* The parent *)

\* step_spawn: a new child, that has told nothing.
LEMMA SpawnStepOK ==
  ASSUME ChildInv, SpawnStep
  PROVE  ChildInv'
<1>1. /\ phase' = "probe" /\ step' \in Steps /\ UNCHANGED <<where, host>>
      /\ msg' = Unsent /\ buf' = <<>> /\ overflow' = FALSE /\ pipe' = <<>>
      /\ ghost' = NewGhost /\ unreach' = givenUp'
  BY DEF SpawnStep, Emptied
<1>2. /\ msg' = [m |-> NoMsg, sent |-> 0] /\ msg'.m = NoMsg /\ msg'.sent = 0
      /\ msg'.m.status = "none" /\ msg'.m.changed
  BY <1>1 DEF Unsent, NoMsg
<1>3. PipeInv'
  <2>1. \A S : <<>> \in Seq(S)
    OBVIOUS
  <2>2. Len(buf') + Len(pipe') = msg'.sent
    BY <1>1, <1>2
  <2> QED
    BY <1>1, <2>1, <2>2, Zenon DEF PipeInv
<1>4. MsgInv'
  BY <1>2 DEF MsgInv
<1>5. GhostInv' /\ ~ghost'.wrote /\ ghost'.cause = "none"
  BY <1>1 DEF GhostInv, NewGhost
<1>6. givenUp' => where' # "local" /\ ~conn'
  BY Zenon DEF SpawnStep, ChildInv, GivenUpInv
<1> QED
  BY <1>1, <1>2, <1>3, <1>4, <1>5, <1>6
  DEF ChildInv, PhaseInv, CauseInv, HonestInv, GivenUpInv, ReadInv, Exec

\* What leader_exit_event makes of an end: the record tells it as it was.
LEMMA ExitEventOK ==
  ASSUME ChildInv, phase = "dead"
  PROVE  LET e == ExitEvent(StepMsg)
         IN  /\ ~e.changed => ~ghost.wrote
             /\ e.ok <=> Why = "none"
             /\ ~e.ok => e.reason \in ReasonsOf(Why)
             /\ e.ok => \/ msg.m.status = "ok" /\ StepMsg = msg.m
                        \/ msg.m.status = "exec" /\ code = 0
<1> DEFINE sm == StepMsg
<1>1. sm = IF AllSent /\ Pieces(msg.m) <= ResultMax THEN msg.m ELSE NoMsg
  BY MsgRead
<1> HIDE DEF sm
<1>2. /\ Ended /\ MsgInv /\ HonestInv /\ (unreach => where # "local")
      /\ NoMsg.status = "none" /\ NoMsg.changed = TRUE
  BY DEF ChildInv, CauseInv, GivenUpInv, NoMsg
<1>3. msg.m.status \in {"failed", "exec"} => Pieces(msg.m) = 2 /\ 2 <= ResultMax
  BY <1>2, PiecesOf, StepAssumption DEF MsgInv
<1>4. Pieces(NoMsg) = 2 /\ ~(2 > ResultMax)
  BY PiecesOf, StepAssumption DEF NoMsg
<1>5. Pieces(msg.m) > ResultMax <=> ~(Pieces(msg.m) <= ResultMax)
  BY PiecesOf, StepAssumption
<1>6. CASE ghost.cause = "badargv" /\ msg.m = NoMsg /\ code = 126 /\ step.uses = "argv"
  <2>1. sm = NoMsg /\ Why = "badargv"
    BY <1>1, <1>6 DEF Why
  <2> QED
    BY <1>2, <1>6, <2>1, Zenon DEF ExitEvent, ReasonsOf, sm
<1>7. CASE ghost.cause = "none" /\ AllSent /\ msg.m.status = "ok" /\ code = 0
  <2>1. ~Exec(step)
    BY <1>2, <1>7 DEF MsgInv
  <2>2. CASE Pieces(msg.m) <= ResultMax
    <3>1. sm = msg.m /\ Why = "none"
      BY <1>1, <1>5, <1>7, <2>2 DEF Why
    <3> QED
      BY <1>2, <1>7, <2>1, <3>1, Zenon DEF ExitEvent, HonestInv, Exec, sm
  <2>3. CASE ~(Pieces(msg.m) <= ResultMax)
    <3>1. sm = NoMsg /\ Why = "toobig"
      BY <1>1, <1>5, <1>7, <2>3 DEF Why
    <3> QED
      BY <1>2, <1>7, <2>1, <3>1, Zenon DEF ExitEvent, ReasonsOf, Exec, sm
  <2> QED
    BY <2>2, <2>3
<1>8. CASE ghost.cause = "unflushed" /\ AllSent /\ msg.m.status = "ok" /\ code = 1
  <2>1. ~Exec(step) /\ Why = "unflushed" /\ code # 0
    BY <1>2, <1>8 DEF MsgInv, Why
  <2>2. sm.status \in {"none", "ok"} /\ (~sm.changed => ~ghost.wrote)
    BY <1>1, <1>2, <1>8 DEF HonestInv
  <2>3. ExitEvent(sm) = [ok |-> FALSE, changed |-> sm.changed,
                         reason |-> "plugin-error"]
    BY <2>1, <2>2, Zenon DEF ExitEvent, Exec
  <2>4. /\ ExitEvent(sm).ok = FALSE /\ ExitEvent(sm).reason = "plugin-error"
        /\ ExitEvent(sm).changed = sm.changed
    BY <2>3
  <2>5. ReasonsOf("unflushed") = {"plugin-error"}
    BY DEF ReasonsOf
  <2> QED
    BY <2>1, <2>2, <2>4, <2>5 DEF sm
<1>9. CASE FailedBy /\ AllSent /\ code \in {1, 126, -9}
  <2>1. sm = msg.m /\ Why = ghost.cause
    BY <1>1, <1>3, <1>9 DEF FailedBy, Why
  <2> QED
    BY <1>2, <1>9, <2>1, Zenon DEF ExitEvent, ReasonsOf, FailedBy, HonestInv, sm
<1>10. CASE /\ AllSent /\ msg.m.status = "exec" /\ code \in {0, 1, 126, 127, 255}
            /\ ghost.cause = IF code = 0 THEN "none" ELSE "code"
  <2>1. sm = msg.m /\ Why = ghost.cause
    BY <1>1, <1>3, <1>5, <1>10 DEF Why
  <2> QED
    BY <1>2, <1>10, <2>1, Zenon DEF ExitEvent, ReasonsOf, sm
<1>11. CASE ghost.cause = "killed" /\ code = -9 /\ (AllSent => msg.m.status # "failed")
  <2>1. Why = "killed" /\ code # 0 /\ code # 255
    BY <1>11 DEF Why
  <2>2. CASE AllSent /\ msg.m.status = "exec"
    <3>1. sm = msg.m
      BY <1>1, <1>3, <2>2
    <3> QED
      BY <1>2, <2>1, <2>2, <3>1, Zenon DEF ExitEvent, ReasonsOf, Commanded, sm
  <2>3. CASE ~(AllSent /\ msg.m.status = "exec")
    <3>1. sm.status \in {"none", "ok"} /\ (~sm.changed => ~ghost.wrote)
      BY <1>1, <1>2, <1>11, <2>3 DEF MsgInv, HonestInv
    <3> QED
      BY <1>2, <2>1, <2>3, <3>1, Zenon DEF ExitEvent, ReasonsOf, Commanded, sm
  <2> QED
    BY <2>2, <2>3
<1> QED
  BY <1>2, <1>6, <1>7, <1>8, <1>9, <1>10, <1>11 DEF Ended

\* The leader is reaped: for the child nothing changes but that it is over.
LEMMA ReapChildOK ==
  ASSUME ChildInv, ReapLeader
  PROVE  ChildInv'
<1>1. /\ phase = "dead" /\ phase' = "over"
      /\ buf' = Taken /\ overflow' = Overflowed /\ pipe' = <<>>
      /\ UNCHANGED <<where, givenUp, conn, host, cur, step, todo, msg, code, unreach, ghost>>
  BY DEF ReapLeader
<1>2. PipeInv'
  <2>1. /\ Taken \in Seq({Piece}) /\ Overflowed \in BOOLEAN /\ msg.sent \in Nat
        /\ Overflowed <=> msg.sent > ResultMax
        /\ ~Overflowed => Len(Taken) = msg.sent
    BY Drained DEF ChildInv, MsgInv
  <2>2. Piece' = Piece /\ pipe' \in Seq({Piece}) /\ Len(pipe') = 0
    BY <1>1 DEF Piece
  <2> QED
    BY <1>1, <2>1, <2>2 DEF PipeInv
<1>3. MsgInv'
  BY <1>1 DEF ChildInv, MsgInv, Exec, Pieces
<1>4. GhostInv' /\ PhaseInv' /\ HonestInv' /\ ReadInv'
  BY <1>1 DEF ChildInv, GhostInv, PhaseInv, HonestInv, ReadInv, Reading, Exec
<1>5. Ended => Ended'
  BY <1>1, StaysEnded, Zenon
<1>6. CauseInv'
  BY <1>1, <1>5 DEF ChildInv, CauseInv
<1>7. GivenUpInv'
  BY <1>1 DEF ChildInv, GivenUpInv
<1> QED
  BY <1>2, <1>3, <1>4, <1>6, <1>7, Zenon DEF ChildInv

\* Outputs are kept under the number of the step they come from.
LEMMA StoredOK ==
  ASSUME ChildInv, RecordInv
  PROVE  Stored(StepMsg).of \in {0, cur}
<1>1. StepMsg = msg.m \/ StepMsg = NoMsg
  BY MsgRead
<1>2. NoMsg.status = "none" /\ (msg.m.status = "ok" => msg.m.of = cur) /\ outFile \in {0, cur}
  BY DEF ChildInv, MsgInv, NoMsg, RecordInv
<1>3. StepMsg.status = "ok" => StepMsg.of = cur
  BY <1>1, <1>2
<1> QED
  BY <1>2, <1>3 DEF Stored

\* The step is recorded.
LEMMA ReapLeaderOK ==
  ASSUME StepInv, ReapLeader
  PROVE  StepInv'
<1> DEFINE e == ExitEvent(StepMsg)
           o == Stored(StepMsg)
           r == [ok |-> e.ok, reason |-> e.reason, changed |-> e.changed, outs |-> o]
<1>1. ChildInv /\ RecordInv /\ ChildInv'
  BY ReapChildOK DEF StepInv
<1>2. /\ phase = "dead" /\ phase' = "over" /\ outputs' = [outputs EXCEPT ![cur] = o]
      /\ rec' = Append(rec, r)
      /\ UNCHANGED <<where, host, cur, step, msg, code, unreach, outFile, ghost>>
  BY DEF ReapLeader
<1>3. /\ ~e.changed => ~ghost.wrote
      /\ e.ok <=> Why = "none"
      /\ ~e.ok => e.reason \in ReasonsOf(Why)
      /\ e.ok => \/ msg.m.status = "ok" /\ StepMsg = msg.m
                 \/ msg.m.status = "exec" /\ code = 0
  BY <1>1, <1>2, ExitEventOK
<1>4. o.of \in {0, cur} /\ (StepMsg.status = "ok" => o.what = StepMsg.what)
  BY <1>1, StoredOK DEF Stored
<1>5. r.ok = e.ok /\ r.reason = e.reason /\ r.changed = e.changed /\ r.outs = o
  OBVIOUS
<1> HIDE DEF e, o, r
<1>6. PICK S : rec \in Seq(S)
  BY <1>1 DEF RecordInv
<1>7. /\ rec' \in Seq(S \cup {r}) /\ Len(rec') = Len(rec) + 1 /\ DOMAIN rec' = 1..(Len(rec) + 1)
      /\ \A i \in 1..Len(rec) : rec'[i] = rec[i]
      /\ rec'[Len(rec) + 1] = r /\ Len(rec) \in Nat /\ DOMAIN rec = 1..Len(rec)
  <2>1. rec \in Seq(S \cup {r}) /\ r \in S \cup {r}
    BY <1>6
  <2> QED
    BY <1>2, <2>1
<1>8. /\ cur \in 1..NSteps /\ Len(rec) = cur - 1 /\ NSteps \in Nat
      /\ outputs = [i \in 1..NSteps |-> outputs[i]]
      /\ \A i \in DOMAIN rec : rec[i].outs.of \in {0, i} /\ rec[i].outs = outputs[i]
  <2>1. cur \in 0..NSteps /\ cur # 0 /\ Len(rec) = cur - 1
    BY <1>1, <1>2 DEF RecordInv
  <2>2. cur \in 1..NSteps
    BY <2>1, StepAssumption
  <2> QED
    BY <1>1, <2>1, <2>2, StepAssumption, Zenon DEF RecordInv
<1>9. /\ outputs' = [i \in 1..NSteps |-> outputs'[i]] /\ outputs'[cur] = o
      /\ \A i \in 1..NSteps : i # cur => outputs'[i] = outputs[i]
  BY <1>2, <1>8, Zenon
<1>10. \A i \in DOMAIN rec' : rec'[i].outs.of \in {0, i} /\ rec'[i].outs = outputs'[i]
  <2>1. ASSUME NEW i \in 1..Len(rec)
        PROVE  rec'[i].outs.of \in {0, i} /\ rec'[i].outs = outputs'[i]
    <3>1. i # cur /\ i \in 1..NSteps /\ i \in DOMAIN rec
      BY <1>7, <1>8
    <3>2. rec'[i] = rec[i] /\ outputs'[i] = outputs[i]
      BY <1>7, <1>9, <3>1
    <3>3. rec[i].outs.of \in {0, i} /\ rec[i].outs = outputs[i]
      BY <1>8, <3>1, Zenon
    <3> QED
      BY <3>2, <3>3
  <2>2. rec'[cur] = r /\ r.outs.of \in {0, cur} /\ r.outs = outputs'[cur]
    BY <1>4, <1>5, <1>7, <1>8, <1>9
  <2> QED
    BY <1>7, <1>8, <2>1, <2>2
<1>11. RecordInv'
  <2>1. \E T : rec' \in Seq(T)
    BY <1>7
  <2>2. Len(rec') = cur /\ cur' = cur /\ cur # 0
    BY <1>2, <1>7, <1>8
  <2> QED
    BY <1>1, <1>2, <1>8, <1>9, <1>10, <2>1, <2>2 DEF RecordInv
<1>12. Over' /\ Now' = r
  BY <1>2, <1>7, <1>8 DEF Over, Now
<1>13. Why' = Why /\ ReasonsOf(Why)' = ReasonsOf(Why)
  BY <1>2 DEF Why, ReasonsOf, Commanded, AllSent, Pieces
<1>14. UnchangedIsHonest' /\ ReasonIsTheCause'
  BY <1>2, <1>3, <1>5, <1>12, <1>13 DEF UnchangedIsHonest, ReasonIsTheCause
<1>15. OutputsAreTheSteps'
  <2>1. ASSUME r.ok, ghost.calm, step.uses = "file.read"
        PROVE  r.outs.what = Reading
    <3>1. msg.m.status = "ok" /\ StepMsg = msg.m
      <4>1. msg.m.status # "exec"
        BY <1>1, <1>2, <2>1, SMTT(30) DEF ChildInv, MsgInv, Exec
      <4> QED
        BY <1>3, <1>5, <2>1, <4>1
    <3> QED
      BY <1>1, <1>4, <1>5, <2>1, <3>1 DEF ChildInv, ReadInv
  <2> QED
    BY <1>2, <1>10, <1>12, <2>1 DEF OutputsAreTheSteps, Reading
<1>16. GivenUpSeesAbsence'
  <2>1. unreach /\ e.ok => msg.m.status = "ok"
    BY <1>1, <1>2, <1>3 DEF ChildInv, GivenUpInv
  <2> QED
    BY <1>1, <1>2, <1>5, <1>12, <2>1, SMTT(30) DEF GivenUpSeesAbsence, ChildInv, GivenUpInv
<1> QED
  BY <1>1, <1>11, <1>14, <1>15, <1>16 DEF StepInv, Recorded

-----------------------------------------------------------------------------
(* Records of steps that are over *)

\* While a step runs, the records of the earlier ones stay.
LEMMA RecordsKept ==
  ASSUME RecordInv, OutputsAreTheSteps, phase \notin {"idle", "over"}, phase' \notin {"idle", "over"},
         outFile' \in {0, cur}, UNCHANGED <<cur, rec, outputs>>
  PROVE  RecordInv' /\ Recorded'
<1>1. RecordInv'
  BY Zenon DEF RecordInv
<1>2. OutputsAreTheSteps'
  BY DEF OutputsAreTheSteps, Over
<1>3. UnchangedIsHonest' /\ ReasonIsTheCause' /\ GivenUpSeesAbsence'
  BY DEF UnchangedIsHonest, ReasonIsTheCause, GivenUpSeesAbsence, Over
<1> QED
  BY <1>1, <1>2, <1>3 DEF Recorded

\* The next step adds none before it is over.
LEMMA SpawnRecords ==
  ASSUME StepInv, SpawnStep
  PROVE  RecordInv' /\ Recorded'
<1>1. /\ phase \in {"idle", "over"} /\ cur < NSteps /\ cur' = cur + 1 /\ phase' = "probe"
      /\ outFile' = 0 /\ UNCHANGED <<rec, outputs>>
  BY DEF SpawnStep
<1>2. RecordInv /\ OutputsAreTheSteps
  BY DEF StepInv, Recorded
<1>3. RecordInv'
  <2>1. cur \in 0..NSteps /\ Len(rec) = cur
    BY <1>1, <1>2 DEF RecordInv
  <2>2. cur' \in 0..NSteps /\ cur' # 0 /\ Len(rec) = cur' - 1
    BY <1>1, <2>1, StepAssumption
  <2> QED
    BY <1>1, <1>2, <2>2, Zenon DEF RecordInv
<1>4. OutputsAreTheSteps'
  BY <1>1, <1>2 DEF OutputsAreTheSteps, Over
<1>5. UnchangedIsHonest' /\ ReasonIsTheCause' /\ GivenUpSeesAbsence'
  BY <1>1 DEF UnchangedIsHonest, ReasonIsTheCause, GivenUpSeesAbsence, Over
<1> QED
  BY <1>3, <1>4, <1>5 DEF Recorded

LEMMA StepInit == Init => StepInv
<1> SUFFICES ASSUME Init
             PROVE  StepInv
  OBVIOUS
<1>1. /\ givenUp = (where = "unreachable") /\ conn \in (IF where = "remote" THEN BOOLEAN ELSE {FALSE})
      /\ cur = 0 /\ phase = "idle" /\ step \in Steps /\ msg = Unsent /\ pipe = <<>> /\ buf = <<>>
      /\ overflow = FALSE /\ unreach = FALSE /\ outFile = 0 /\ rec = <<>> /\ ghost = NewGhost
      /\ outputs = [i \in 1..NSteps |-> [of |-> 0, what |-> NoOutputs]]
  BY StepAssumption, Zenon DEF Init
<1>2. msg = [m |-> NoMsg, sent |-> 0] /\ msg.m = NoMsg /\ msg.sent = 0 /\ NoMsg.status = "none" /\ NoMsg.changed
  BY <1>1 DEF Unsent, NoMsg
<1>3. PipeInv
  <2>1. \A S : <<>> \in Seq(S)
    OBVIOUS
  <2>2. Len(buf) + Len(pipe) = msg.sent
    BY <1>1, <1>2
  <2> QED
    BY <1>1, <2>1, <2>2, Zenon DEF PipeInv
<1>4. MsgInv /\ GhostInv
  BY <1>1, <1>2 DEF MsgInv, GhostInv, NewGhost
<1>5. PhaseInv /\ CauseInv /\ HonestInv /\ GivenUpInv /\ ReadInv
  BY <1>1, <1>2, Zenon DEF PhaseInv, CauseInv, HonestInv, GivenUpInv, ReadInv, NewGhost
<1>6. RecordInv
  <2>1. rec \in Seq({}) /\ Len(rec) = 0 /\ DOMAIN rec = {}
    BY <1>1
  <2>2. outputs = [i \in 1..NSteps |-> outputs[i]]
    BY <1>1
  <2> QED
    BY <1>1, <2>1, <2>2, StepAssumption DEF RecordInv
<1>7. Recorded
  <2>1. DOMAIN rec = {} /\ ~Over
    BY <1>1 DEF Over
  <2> QED
    BY <2>1, Zenon
    DEF Recorded, UnchangedIsHonest, ReasonIsTheCause, OutputsAreTheSteps, GivenUpSeesAbsence
<1> QED
  BY <1>3, <1>4, <1>5, <1>6, <1>7 DEF StepInv, ChildInv

\* A step of the child, of the parent's drain or of the environment.
LEMMA ChildStep ==
  ASSUME StepInv,
         \/ Probe \/ FirstCheck \/ ApplyRead \/ ApplyWrite \/ SecondCheck \/ BuildArgv \/ SendPiece
         \/ ChildExits \/ CommandExits \/ Killed \/ DrainResult \/ Meddle \/ Connection
  PROVE  StepInv'
<1>1. ChildInv /\ RecordInv /\ OutputsAreTheSteps /\ outFile \in {0, cur}
  BY Zenon DEF StepInv, Recorded, RecordInv
<1>2. ChildInv'
  BY <1>1, ProbeOK, FirstCheckOK, ApplyReadOK, ApplyWriteOK, SecondCheckOK, BuildArgvOK, SendPieceOK,
     ChildExitsOK, CommandExitsOK, KilledOK, DrainResultOK, MeddleOK, ConnectionOK
<1>3. UNCHANGED <<cur, rec, outputs>>
  BY Zenon DEF Probe, FirstCheck, ApplyRead, ApplyWrite, SecondCheck, BuildArgv, SendPiece, ChildExits,
         CommandExits, Killed, DrainResult, Meddle, Connection, parent
<1>4. phase \notin {"idle", "over"} /\ phase' \notin {"idle", "over"}
  BY Zenon DEF Probe, FirstCheck, ApplyRead, ApplyWrite, SecondCheck, BuildArgv, SendPiece, ChildExits,
         CommandExits, Killed, DrainResult, Meddle, Connection, child, Ends
<1>5. outFile' \in {0, cur}
  BY <1>1, Zenon DEF Probe, FirstCheck, ApplyRead, ApplyWrite, SecondCheck, BuildArgv, SendPiece, ChildExits,
         CommandExits, Killed, DrainResult, Meddle, Connection, child
<1> QED
  BY <1>1, <1>2, <1>3, <1>4, <1>5, RecordsKept DEF StepInv

\* A state like the last one.
LEMMA StepStutters ==
  ASSUME StepInv, UNCHANGED vars
  PROVE  StepInv'
<1>1. UNCHANGED <<where, givenUp, conn, host, cur, step, phase, todo, msg, outFile, code, pipe, buf,
                  overflow, unreach, outputs, rec, ghost>>
  BY DEF vars, child, parent
<1>2. PipeInv' /\ MsgInv'
  BY <1>1, Quiet DEF StepInv
<1>3. ChildInv'
  <2>1. GhostInv' /\ PhaseInv' /\ HonestInv' /\ ReadInv'
    BY <1>1, Zenon DEF StepInv, ChildInv, GhostInv, PhaseInv, HonestInv, ReadInv, Reading, Exec
  <2>2. (FailedBy' <=> FailedBy) /\ (Ended => Ended')
    BY <1>1, StaysEnded, Zenon
  <2>3. CauseInv'
    BY <1>1, <2>2, Zenon DEF StepInv, ChildInv, CauseInv
  <2>4. GivenUpInv'
    BY <1>1, Zenon DEF StepInv, ChildInv, GivenUpInv, WriteRaises
  <2> QED
    BY <1>2, <2>1, <2>3, <2>4, Zenon DEF ChildInv
<1>4. RecordInv'
  BY <1>1, Zenon DEF StepInv, RecordInv
<1>5. Recorded'
  BY <1>1, Zenon DEF StepInv, Recorded, UnchangedIsHonest, ReasonIsTheCause, OutputsAreTheSteps,
              GivenUpSeesAbsence, Over, Now, Why, ReasonsOf, Commanded, AllSent, Pieces
<1> QED
  BY <1>3, <1>4, <1>5 DEF StepInv

-----------------------------------------------------------------------------
(* The theorems *)

\* The invariant holds in every state of a job's steps: what the parent reads is
\* the live step's whole message or nothing (drain_result, read_step_msg), and
\* every end of a child is told by message and exit status together.
THEOREM StepsAreTold == Spec => []StepInv
<1>1. StepInv /\ [Next]_vars => StepInv'
  <2> SUFFICES ASSUME StepInv, [Next]_vars
               PROVE  StepInv'
    OBVIOUS
  <2>1. CASE SpawnStep
    <3>1. ChildInv'
      BY <2>1, SpawnStepOK DEF StepInv
    <3> QED
      BY <2>1, <3>1, SpawnRecords DEF StepInv
  <2>2. CASE ReapLeader
    BY <2>2, ReapLeaderOK
  <2>3. CASE Finished \/ UNCHANGED vars
    BY <2>3, StepStutters DEF Finished
  <2> QED
    BY <2>1, <2>2, <2>3, ChildStep DEF Next
<1> QED
  BY <1>1, StepInit, PTL DEF Spec

\* The recorded outcome and reason are those of what really ended the step,
\* however message, exit and drain fall (leader_exit_event).
THEOREM ReasonsAreCauses == Spec => []ReasonIsTheCause
<1>1. StepInv => ReasonIsTheCause
  BY DEF StepInv, Recorded
<1> QED
  BY <1>1, StepsAreTold, PTL

\* A step recorded as unchanged has run no command that changes its target
\* (run_step, leader_exit_event).
THEOREM UnchangedIsTrue == Spec => []UnchangedIsHonest
<1>1. StepInv => UnchangedIsHonest
  BY DEF StepInv, Recorded
<1> QED
  BY <1>1, StepsAreTold, PTL

\* Outputs are recorded and kept for the step they come from, and an undisturbed
\* file.read gives the file (store_outputs, step_spawn).
THEOREM OutputsBelong == Spec => []OutputsAreTheSteps
<1>1. StepInv => OutputsAreTheSteps
  BY DEF StepInv, Recorded
<1> QED
  BY <1>1, StepsAreTold, PTL

\* On a target given up on, the steps that succeed are those that find nothing
\* where nothing is wanted, read, or run no command (the built-in plugins).
THEOREM OnlyAbsenceIsSeen == Spec => []GivenUpSeesAbsence
<1>1. StepInv => GivenUpSeesAbsence
  BY DEF StepInv, Recorded
<1> QED
  BY <1>1, StepsAreTold, PTL

-----------------------------------------------------------------------------
(* What a success says of the target *)

\* An undisturbed child that says "ok" has left the target as it was asked to.
DoneInv == ghost.calm /\ msg.m.status = "ok" => Desired(step, host)

\* What a check that saw everything and wants nothing says of the target.
LEMMA FineMeansDesired ==
  ASSUME NEW s \in Steps, ~Exec(s), NEW h, NEW c \in Checks(s, h, All), c.verdict = "fine"
  PROVE  Desired(s, h)
<1> USE DEF Needs, Raised
<1>1. s.uses \in {"project", "file.line", "file.ensure", "file.read", "apt.package", "assert"}
  BY StepAssumption DEF Exec
<1>2. /\ "stat" \in All /\ "cat" \in All /\ "list" \in All
  BY DEF All, Commands
<1>3. Missing(h, All) <=> ~h.file.exists
  BY <1>2, Zenon DEF Missing
<1>4. CASE s.uses = "file.line"
  <2>1. c = LineCheck(s.with, h, All)
    BY <1>4, SMTT(30) DEF Checks
  <2>2. Changes(s.with, Text(h.file)) <=>
          IF s.with.state = "absent" THEN Hits(s.with, h.file.lines) # {}
          ELSE \/ Hits(s.with, h.file.lines) = {}
               \/ h.file.lines[Max(Hits(s.with, h.file.lines))] # s.with.line
    BY DEF Changes, Text
  <2>3. CASE h.file.exists
    <3>1. ~Changes(s.with, Text(h.file))
      BY <1>2, <1>3, <2>1, <2>3 DEF LineCheck
    <3> QED
      BY <1>4, <2>2, <2>3, <3>1, SMTT(30) DEF Desired
  <2>4. CASE ~h.file.exists
    <3>1. s.with.state = "absent"
      BY <1>3, <2>1, <2>4 DEF LineCheck
    <3> QED
      BY <1>4, <2>4, <3>1, SMTT(30) DEF Desired
  <2> QED
    BY <2>3, <2>4
<1>5. CASE s.uses = "file.ensure"
  <2>1. c = EnsureCheck(s.with, h, All)
    BY <1>5, SMTT(30) DEF Checks
  <2>2. /\ h.file.exists /\ ~Differs(s.with, h)
        /\ s.with.mode = "none" \/ h.file.mode = s.with.mode
    BY <1>3, <2>1 DEF EnsureCheck
  <2> QED
    BY <1>5, <2>2 DEF Desired
<1>6. CASE s.uses = "apt.package"
  <2>1. c = AptCheck(s.with, h, All)
    BY <1>6 DEF Checks
  <2>2. ~(("list" \in All /\ h.pkg) # (s.with.state # "absent"))
    BY <2>1 DEF AptCheck
  <2>3. h.pkg <=> s.with.state # "absent"
    BY <1>2, <2>2, Zenon
  <2> QED
    BY <1>6, <2>3 DEF Desired
<1>7. CASE s.uses = "assert"
  BY <1>7 DEF Checks, AssertCheck, Desired
<1>8. CASE s.uses \in {"file.read", "project"}
  BY <1>8 DEF Desired
<1> QED
  BY <1>1, <1>4, <1>5, <1>6, <1>7, <1>8

\* The outcome that send_result sends is the one it was given, or a failure.
LEMMA OnlyOKIsOK ==
  ASSUME NEW m, Encodable(m).status = "ok"
  PROVE  m.status = "ok" /\ Encodable(m) = m
<1>1. Message("failed", "engine-error", TRUE, NoOutputs).status = "failed"
  BY DEF Message
<1> QED
  BY <1>1, Zenon DEF Encodable

\* Ends with a message that is not "ok" leaves none.
LEMMA EndsBadly ==
  ASSUME NEW m, Ends(m), m.status # "ok"
  PROVE  msg'.m.status # "ok"
<1>1. msg'.m = Encodable(m)
  BY DEF Ends, Sending
<1> QED
  BY <1>1, OnlyOKIsOK

\* A check that says "fine" with everything seen is believed; nothing else is.
LEMMA CheckDone ==
  ASSUME ChildInv, FirstCheck \/ SecondCheck
  PROVE  DoneInv'
<1>1. step \in Steps /\ ~Exec(step) /\ msg.m.status = "none" /\ GhostInv
  <2>1. phase \in {"check", "recheck"} /\ PhaseInv /\ CauseInv /\ GhostInv
    BY Zenon DEF ChildInv, FirstCheck, SecondCheck
  <2>2. Unsent.m.status = "none"
    BY DEF Unsent, NoMsg
  <2> QED
    BY <2>1, <2>2 DEF PhaseInv, CauseInv, Plugins, Exec
<1>2. UNCHANGED <<step, host>>
  BY Zenon DEF FirstCheck, SecondCheck
<1> SUFFICES ASSUME ghost'.calm, msg'.m.status = "ok"
             PROVE  Desired(step, host)
  BY <1>2, Zenon DEF DoneInv
<1>3. PICK got \in Through : \E c \in Checks(step, host, got) :
        /\ \/ FirstCheckResult(c) = NoMsg /\ msg' = msg
           \/ Ends(FirstCheckResult(c))
           \/ Ends(SecondCheckResult(c))
        /\ \E why : ghost' = [ghost EXCEPT !.calm = Calm(got), !.cause = why]
  BY Zenon DEF FirstCheck, SecondCheck
<1>4. PICK c \in Checks(step, host, got) :
        /\ \/ FirstCheckResult(c) = NoMsg /\ msg' = msg
           \/ Ends(FirstCheckResult(c))
           \/ Ends(SecondCheckResult(c))
        /\ \E why : ghost' = [ghost EXCEPT !.calm = Calm(got), !.cause = why]
  BY <1>3, Zenon
<1>5. got = All
  <2>1. ghost'.calm = Calm(got)
    BY <1>1, <1>4, Zenon DEF GhostInv
  <2> QED
    BY <2>1, Zenon DEF Calm
<1>6. FirstCheckResult(c).status = "ok" \/ SecondCheckResult(c).status = "ok"
  BY <1>1, <1>4, EndsBadly, Zenon
<1>7. c.verdict = "fine"
  <2>1. c.verdict \in {"raise", "needs", "fine"}
    BY <1>1, CheckSays, Zenon
  <2>2. RaisedResult.status = "failed" /\ NoMsg.status = "none"
    BY DEF RaisedResult, Message, NoMsg
  <2>3. Message("failed", "not-converged", TRUE, NoOutputs).status = "failed"
    BY DEF Message
  <2> QED
    BY <1>6, <2>1, <2>2, <2>3, Zenon DEF FirstCheckResult, SecondCheckResult
<1> QED
  BY <1>1, <1>4, <1>5, <1>7, FineMeansDesired, Zenon

\* What else a child sends is not "ok".
LEMMA NothingDone ==
  ASSUME ChildInv, SpawnStep \/ Probe \/ ApplyRead \/ ApplyWrite \/ BuildArgv
  PROVE  DoneInv'
<1>1. Unsent.m.status # "ok"
  BY DEF Unsent, NoMsg
<1>2. phase \in {"probe", "apply", "write", "argv"} => msg = Unsent
  BY DEF ChildInv, CauseInv
<1>3. \A why, b : Message("failed", why, b, NoOutputs).status # "ok"
  BY DEF Message
<1>4. Message("exec", "none", TRUE, NoOutputs).status # "ok"
  BY DEF Message
<1>5. \A m : Sending(m).m = m
  BY DEF Sending
<1>6. \/ msg' = Unsent
      \/ \E why, b : Ends(Message("failed", why, b, NoOutputs))
      \/ \E why, b : msg' = Sending(Message("failed", why, b, NoOutputs))
      \/ msg' = Sending(Message("exec", "none", TRUE, NoOutputs))
  <2>1. CASE SpawnStep
    BY <2>1, Zenon DEF SpawnStep
  <2>2. CASE Probe
    BY <1>2, <2>2, Zenon DEF Probe
  <2>3. CASE ApplyRead \/ ApplyWrite
    BY <1>2, <2>3, Zenon DEF ApplyRead, ApplyWrite, RaisedResult
  <2>4. CASE BuildArgv
    BY <1>2, <2>4, Zenon DEF BuildArgv, RaisedResult
  <2> QED
    BY <2>1, <2>2, <2>3, <2>4, Zenon
<1>7. msg'.m.status # "ok"
  <2>1. CASE \E why, b : Ends(Message("failed", why, b, NoOutputs))
    <3>1. PICK why, b : Ends(Message("failed", why, b, NoOutputs))
      BY <2>1, Zenon
    <3>2. Message("failed", why, b, NoOutputs).status # "ok"
      BY <1>3, Zenon
    <3> QED
      BY <3>1, <3>2, EndsBadly, Zenon
  <2>2. CASE \E why, b : msg' = Sending(Message("failed", why, b, NoOutputs))
    BY <1>3, <1>5, <2>2, Zenon
  <2> QED
    BY <1>1, <1>4, <1>5, <1>6, <2>1, <2>2, Zenon
<1> QED
  BY <1>7, Zenon DEF DoneInv

\* The other steps leave message, step and target alone, or disturb the step.
LEMMA DoneStays ==
  ASSUME ChildInv, DoneInv,
         \/ SendPiece \/ ChildExits \/ CommandExits \/ Killed \/ DrainResult \/ ReapLeader
         \/ Meddle \/ Connection \/ UNCHANGED vars
  PROVE  DoneInv'
<1>1. GhostInv /\ MsgInv
  BY DEF ChildInv
<1>2. CASE Killed \/ Meddle \/ Connection
  <2>1. ghost'.calm = FALSE
    BY <1>1, <1>2, Zenon DEF GhostInv, Killed, Meddle, Connection
  <2> QED
    BY <2>1 DEF DoneInv
<1>3. CASE SendPiece \/ ChildExits \/ CommandExits \/ DrainResult \/ ReapLeader \/ UNCHANGED vars
  <2>1. UNCHANGED <<step, host>>
    BY <1>3, Zenon DEF SendPiece, ChildExits, CommandExits, DrainResult, ReapLeader, vars, child
  <2>2. msg'.m = msg.m
    BY <1>1, <1>3, Zenon
    DEF MsgInv, SendPiece, ChildExits, CommandExits, DrainResult, ReapLeader, vars, child
  <2>3. ghost'.calm => ghost.calm
    BY <1>1, <1>3, Zenon
    DEF GhostInv, SendPiece, ChildExits, CommandExits, DrainResult, ReapLeader, vars
  <2> QED
    BY <2>1, <2>2, <2>3, Zenon DEF DoneInv
<1> QED
  BY <1>2, <1>3

\* A step recorded as done that nothing disturbed has left the target as it was
\* asked to, whatever its file and its lines: the outcome comes from a check
\* made after the last write, and a check that finds nothing to do has seen the
\* wanted state (checkapply.run and the built-in plugins' check).
THEOREM SuccessIsReal == Spec => []SuccessMeansDone
<1>1. Init => DoneInv
  BY DEF Init, DoneInv, Unsent, NoMsg
<1>2. StepInv /\ DoneInv /\ [Next]_vars => DoneInv'
  BY CheckDone, NothingDone, DoneStays, Zenon DEF StepInv, Next, Finished
<1>3. StepInv /\ DoneInv => SuccessMeansDone
  <2> SUFFICES ASSUME StepInv, DoneInv, Over, Now.ok, ghost.calm
               PROVE  Desired(step, host)
    BY DEF SuccessMeansDone
  <2>1. Ended /\ ghost.cause = "none" /\ (msg.m.status = "exec" => Exec(step))
    BY DEF StepInv, ChildInv, CauseInv, MsgInv, Over, Recorded, ReasonIsTheCause, Why
  <2>2. msg.m.status = "ok" \/ Exec(step)
    BY <2>1 DEF Ended, FailedBy
  <2>3. Exec(step) => Desired(step, host)
    BY DEF Exec, Desired
  <2> QED
    BY <2>2, <2>3, Zenon DEF DoneInv
<1> QED
  BY <1>1, <1>2, <1>3, StepsAreTold, PTL DEF Spec
==============================================================================
