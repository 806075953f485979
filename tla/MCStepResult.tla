---------------------------- MODULE MCStepResult -----------------------------
(* Instances of StepResult: every built-in plugin, a command and a project     *)
(* plugin, on files of up to three lines.                                      *)
EXTENDS StepResult

Step(uses, become, with) == [uses |-> uses, become |-> become, with |-> with]
Line(line, regexp, state) == [line |-> line, regexp |-> regexp, state |-> state]
Ensure(sets, text, mode) == [sets |-> sets, text |-> text, mode |-> mode]
File(lines, nl, mode) == [exists |-> TRUE, lines |-> lines, nl |-> nl, mode |-> mode]

AB == [lines |-> <<"a", "b">>, nl |-> TRUE]

MCSteps ==
  {Step("run", b, <<>>) : b \in BOOLEAN}
  \cup {Step("argv", FALSE, <<>>), Step("project", FALSE, <<>>),
        Step("file.read", TRUE, <<>>)}
  \cup {Step("file.line", FALSE, w) :
          w \in {Line("a", {}, "present"), Line("a", {"a", "b"}, "present"),
                 Line("a", {"b"}, "present"), Line("a", {}, "absent"),
                 Line("a", {"b", "c"}, "absent")}}
  \cup {Step("file.ensure", FALSE, w) :
          w \in {Ensure(TRUE, AB, "0600"), Ensure(FALSE, AB, "0000"),
                 Ensure(TRUE, AB, "none")}}
  \cup {Step("apt.package", FALSE, [state |-> st]) : st \in {"present", "absent"}}
  \cup {Step("assert", FALSE, [holds |-> b]) : b \in BOOLEAN}

MCFiles ==
  {NoFile, File(<<>>, TRUE, "0644"), File(<<"b", "b">>, FALSE, "0644"),
   File(<<"b", "a", "c">>, TRUE, "0600"), File(<<"c">>, FALSE, "0000")}

MCHosts ==
  {[file |-> f, pkg |-> FALSE] : f \in MCFiles} \cup {[file |-> NoFile, pkg |-> TRUE]}

MCMeddled == {NoFile, File(<<"b", "c">>, TRUE, "0644")}

MCBigLines == <<"b", "b">>
==============================================================================
