--------------------------------- MODULE Plan ---------------------------------
(***************************************************************************)
(* A run from its document to its exit code (qwe_run_workflow in           *)
(* src/src/kernel/workflow.c): load, validate (validate.c), the search for *)
(* a cycle of needs (dag.c), the jobs asked for with --job (select_jobs),  *)
(* the run itself, and the report.  What happens inside the run is module  *)
(* Engine's; here a job ends the way module Workflow promises.  One job's  *)
(* steps are followed for their ${{ }} references (module Template).       *)
(*                                                                         *)
(* The jobs are 1..N in the order of their ids, in which both the graph    *)
(* check and the run have them; a document is                              *)
(*   needs     needs[j]: the sequence of names job j needs; N + 1 is a     *)
(*             name no job has                                             *)
(*   tpl       the references of job 1                                     *)
(***************************************************************************)
EXTENDS Template, FiniteSets, FiniteSetsExt, Functions

CONSTANTS
  N,         \* the number of jobs
  Docs,      \* the documents, in families
  Disabled   \* the jobs whose target is out of service

Jobs == 1..N

Unknown == N + 1

\* A document is what the YAML decoder and the schema make of a file.
ASSUME PlanAssumption ==
  /\ N \in Nat
  /\ \A family \in Docs : \A d \in family :
       d.needs \in [Jobs -> Seq(1..Unknown)] /\ d.tpl \in Tpls

VARIABLES
  pc,        \* where qwe_run_workflow is
  doc,       \* the document
  problems,  \* a project plugin has a problem (nplugin)
  search,    \* the walk of dag.c: color and stack, and what it reported
  keep,      \* the jobs selected
  sweep,     \* the do loop of select_jobs: i, as at, and changed
  outcome,   \* how each job ended; "pending"
  cancel,    \* ctx.cancel_requested
  steps,     \* job 1: the step it is at, what is stored, what its texts became
  exit       \* the exit code, the outcome in the summary, and the jobs that
             \* the line of report_disabled counts

vars == <<pc, doc, problems, search, keep, sweep, outcome, cancel, steps, exit>>

NotOver == [code |-> "none", summary |-> "none", disabled |-> {}]

NeedsOf(j) == Range(doc.needs[j])

-----------------------------------------------------------------------------
(* Loading and validating. *)

\* An early return of qwe_run_workflow: nothing has run.
Usage == pc' = "over" /\ exit' = [NotOver EXCEPT !.code = "usage"]

\* load_workflow up to qwe_validate_doc: the file, the YAML, the Lua state,
\* the decoder or the inventory fails, or the document is there.
LoadWorkflow ==
  /\ pc = "load"
  /\ \/ Usage
     \/ pc' = "validate" /\ UNCHANGED exit
  /\ UNCHANGED <<doc, problems, search, keep, sweep, outcome, cancel, steps>>

\* qwe_validate_doc up to check_dag, which is run only on a document with no
\* error of its own; a problem in a plugin does not keep it from running.
ValidateDoc ==
  /\ pc = "validate"
  /\ \E plugin, schema \in BOOLEAN :
       /\ problems' = plugin
       /\ IF schema \/ Rejected(doc.tpl) THEN Usage ELSE pc' = "dag" /\ UNCHANGED exit
  /\ UNCHANGED <<doc, search, keep, sweep, outcome, cancel, steps>>

-----------------------------------------------------------------------------
(* qwe_dag_check.  A stack frame is a job and the need it looks at next.    *)

NewSearch == [color |-> [j \in Jobs |-> "white"], stack |-> <<>>, status |-> "none", path |-> <<>>]

\* The first pass: every need names a job.  There may be no memory for the second.
CheckNames ==
  /\ pc = "dag"
  /\ \E status \in IF \E j \in Jobs : Unknown \in NeedsOf(j)
                   THEN {"unknown-need"} ELSE {"none", "no-memory"} :
       /\ search' = [search EXCEPT !.status = status]
       /\ IF status = "none" THEN pc' = "visit" /\ UNCHANGED exit ELSE Usage
  /\ UNCHANGED <<doc, problems, keep, sweep, outcome, cancel, steps>>

Enter(s, j) ==
  [s EXCEPT !.color[j] = "grey", !.stack = Append(@, [job |-> j, next |-> 1])]

Top(s) == s.stack[Len(s.stack)]

Return(s) == [s EXCEPT !.color[Top(s).job] = "black", !.stack = SubSeq(@, 1, Len(@) - 1)]

Advance(s) == [s EXCEPT !.stack[Len(s.stack)].next = @ + 1]

\* Mutant of Cycle: the path is the whole stack.
CycleWhole(s, d) ==
  [s EXCEPT !.status = "cycle", !.path = [i \in DOMAIN s.stack |-> s.stack[i].job]]

\* The cycle is the stack from d to here.
Cycle(s, d) ==
  LET at == CHOOSE i \in DOMAIN s.stack : s.stack[i].job = d
  IN  [s EXCEPT !.status = "cycle",
                !.path = [i \in 1..(Len(s.stack) - at + 1) |-> s.stack[at + i - 1].job]]

\* One turn of the loop in visit, or of the loop over the jobs.
VisitStep(s) ==
  LET white == {j \in Jobs : s.color[j] = "white"}
      top == Top(s)
      d == doc.needs[top.job][top.next]
  IN  IF s.stack = <<>> THEN IF white = {} THEN [s EXCEPT !.status = "ok"] ELSE Enter(s, Min(white))
      ELSE IF top.next > Len(doc.needs[top.job]) THEN Return(s)
      ELSE CASE s.color[d] = "grey" -> Cycle(s, d)
             [] s.color[d] = "white" -> Enter(Advance(s), d)
             [] OTHER -> Advance(s)

Visit ==
  /\ pc = "visit"
  /\ search' = VisitStep(search)
  /\ CASE search'.status = "none" -> UNCHANGED <<pc, exit>>
       [] search'.status = "ok" /\ ~problems -> pc' = "jobs" /\ UNCHANGED exit
       [] OTHER -> Usage
  /\ UNCHANGED <<doc, problems, keep, sweep, outcome, cancel, steps>>

-----------------------------------------------------------------------------
(* qwe_jobs_load, select_jobs and the run directory. *)

\* select_jobs up to its do loop: the names asked for with --job.
SelectJobs ==
  \E asked \in SUBSET (Jobs \cup {Unknown}) \ {{}} :
    IF Unknown \in asked THEN Usage /\ UNCHANGED keep
    ELSE pc' = "select" /\ keep' = asked /\ UNCHANGED exit

\* The jobs are loaded, or it fails; without --job every job is kept.
JobsLoad ==
  /\ pc = "jobs"
  /\ \/ Usage /\ UNCHANGED keep
     \/ pc' = "rundir" /\ keep' = Jobs /\ UNCHANGED exit
     \/ SelectJobs
  /\ UNCHANGED <<doc, problems, search, sweep, outcome, cancel, steps>>

NewSweep == [at |-> 1, changed |-> 0]

\* The body of the for loop of select_jobs: the needs of job i, if it is kept.
MarkNeeds ==
  /\ pc = "select" /\ sweep.at <= N
  /\ keep' = IF sweep.at \in keep THEN keep \cup NeedsOf(sweep.at) ELSE keep
  /\ sweep' = [at |-> sweep.at + 1, changed |-> IF keep' = keep THEN sweep.changed ELSE 1]
  /\ UNCHANGED <<pc, doc, problems, search, outcome, cancel, steps, exit>>

\* Mutant of SweepEnds: one sweep over the jobs is enough.
SweepEndsAtOnce ==
  /\ pc = "select" /\ sweep.at > N
  /\ pc' = "rundir"
  /\ UNCHANGED <<doc, problems, search, keep, sweep, outcome, cancel, steps, exit>>

\* The condition of the do loop; the jobs that are not marked are dropped.
SweepEnds ==
  /\ pc = "select" /\ sweep.at > N
  /\ pc' = IF sweep.changed = 1 THEN "select" ELSE "rundir"
  /\ sweep' = NewSweep
  /\ UNCHANGED <<doc, problems, search, keep, outcome, cancel, steps, exit>>

\* mkdir_p and the trace.
RunDir ==
  /\ pc = "rundir"
  /\ Usage \/ (pc' = "run" /\ UNCHANGED exit)
  /\ UNCHANGED <<doc, problems, search, keep, sweep, outcome, cancel, steps>>

-----------------------------------------------------------------------------
(* The run, as module Workflow has it. *)

Startable(j) ==
  /\ j \in keep /\ outcome[j] = "pending" /\ j \notin Disabled
  /\ \A k \in NeedsOf(j) \cap Jobs : outcome[k] = "success"

Skippable(j) ==
  /\ j \in keep /\ outcome[j] = "pending"
  /\ \/ j \in Disabled \/ cancel
     \/ \E k \in NeedsOf(j) : outcome[k] \in {"failed", "cancelled", "skipped"}

AtStep == pc = "run" /\ Startable(1) /\ steps.at <= Len(doc.tpl.steps)

\* resolve_step, then store_outputs at the step's end: a step may store and
\* fail, or continue on error, so any outcome may follow.
Step ==
  /\ AtStep
  /\ \E keys \in MayStore(doc.tpl, steps.at) :
       steps' = [at |-> steps.at + 1,
                 outputs |-> Store(doc.tpl, steps.at, keys, steps.outputs),
                 wrote |-> Append(steps.wrote, keys),
                 got |-> Append(steps.got, Resolve(doc.tpl, steps.at, steps.outputs))]
  /\ UNCHANGED <<pc, doc, problems, search, keep, sweep, outcome, cancel, exit>>

\* A job succeeds when its steps are done; it may fail or be cancelled before.
JobEnds(j) ==
  /\ pc = "run" /\ Startable(j)
  /\ \E how \in (IF j = 1 /\ AtStep THEN {} ELSE {"success"}) \cup {"failed", "cancelled"} :
       outcome' = [outcome EXCEPT ![j] = how]
  /\ UNCHANGED <<pc, doc, problems, search, keep, sweep, cancel, steps, exit>>

JobSkipped(j) ==
  /\ pc = "run" /\ Skippable(j)
  /\ outcome' = [outcome EXCEPT ![j] = "skipped"]
  /\ UNCHANGED <<pc, doc, problems, search, keep, sweep, cancel, steps, exit>>

CancelArrives ==
  /\ pc = "run" /\ ~cancel /\ cancel' = TRUE
  /\ UNCHANGED <<pc, doc, problems, search, keep, sweep, outcome, steps, exit>>

-----------------------------------------------------------------------------
(* The report. *)

\* Mutant of AllOk: a job that was cancelled is not a failure.
AllOkCancelled == \A j \in keep : outcome[j] \in {"success", "skipped", "cancelled"}

AllOk == \A j \in keep : outcome[j] \in {"success", "skipped"}

\* The exit code; stuck: run_all found jobs that never become runnable.
ExitCode(stuck, wrote) ==
  CASE ~wrote -> "failed"
    [] cancel -> "cancelled"
    [] ~AllOk \/ stuck -> "failed"
    [] OTHER -> "ok"

\* report_disabled: the jobs that skip_disabled took out of the run.
TargetDisabled == {j \in keep \cap Disabled : outcome[j] = "skipped"}

\* run_all has come to its end; result.json and the summary are written.
Report ==
  /\ pc = "run"
  /\ ~\E j \in Jobs : Startable(j) \/ Skippable(j)
  /\ \E wrote \in BOOLEAN :
       LET code == ExitCode(\E j \in keep : outcome[j] = "pending", wrote)
       IN  exit' = [code |-> code,
                    summary |-> CASE code = "cancelled" -> "cancelled"
                                  [] AllOk -> "success"
                                  [] OTHER -> "failed",
                    disabled |-> TargetDisabled]
  /\ pc' = "over"
  /\ UNCHANGED <<doc, problems, search, keep, sweep, outcome, cancel, steps>>

Over == pc = "over" /\ UNCHANGED vars

Init ==
  /\ pc = "load" /\ \E family \in Docs : doc \in family
  /\ problems = FALSE /\ search = NewSearch /\ keep = {} /\ sweep = NewSweep
  /\ outcome = [j \in Jobs |-> "pending"] /\ cancel = FALSE
  /\ steps = [at |-> 1, outputs |-> {}, wrote |-> <<>>, got |-> <<>>] /\ exit = NotOver

Next ==
  \/ LoadWorkflow \/ ValidateDoc \/ CheckNames \/ Visit
  \/ JobsLoad \/ MarkNeeds \/ SweepEnds \/ RunDir
  \/ Step \/ CancelArrives \/ Report \/ Over
  \/ \E j \in Jobs : JobEnds(j) \/ JobSkipped(j)

Spec == Init /\ [][Next]_vars

-----------------------------------------------------------------------------

\* Some jobs each need one of the others: none of them can ever start.
Circular(S) == S # {} /\ \A j \in S : NeedsOf(j) \cap S # {}

\* The depth-first search of dag.c reports a cycle exactly when there is one,
\* what it prints is a cycle of the document (each job needs the next, the
\* last needs the first, none twice), and its stack, an array with a place
\* for each job, is never overrun.
CycleFoundIffThere ==
  /\ Len(search.stack) <= N
  /\ search.status = "ok" => \A S \in SUBSET Jobs : ~Circular(S)
  /\ search.status = "cycle" =>
       /\ search.path # <<>> /\ Cardinality(Range(search.path)) = Len(search.path)
       /\ \A i \in DOMAIN search.path :
            search.path[(i % Len(search.path)) + 1] \in NeedsOf(search.path[i])

\* What validation accepted and --job cut down is fit to run: no kept job
\* needs a job that was dropped (find_job would return no job, and its index
\* is computed without a check) or waits in a circle, so the run never ends
\* in the "neither finished nor runnable" of run_all.
SelectionIsRunnable ==
  /\ pc = "run" => \A j \in keep : NeedsOf(j) \subseteq keep
  /\ pc = "over" /\ exit.code \notin {"usage", "none"} => \A j \in keep : outcome[j] # "pending"

\* Whether j did not run because a target is out of service: its own, or that
\* of a job it needs, directly or not.
LeftOut == {j \in Jobs : \E S \in SUBSET Jobs :
              /\ j \in S /\ S \cap Disabled # {}
              /\ \A k \in S \ Disabled : NeedsOf(k) \cap S # {}}

\* The exit code does not flatter: 0 means that no cancel was taken, and every
\* kept job ran to its success or is left out for a disabled target, itself
\* or through its needs, and then the last line of the run says so; a usage
\* error means that no job was touched; and a summary that says "failed"
\* without a cancel has a job that failed.
ExitTellsTheTruth ==
  /\ exit.code = "ok" =>
       /\ ~cancel /\ exit.summary = "success"
       /\ \A j \in keep : \/ outcome[j] = "success"
                          \/ outcome[j] = "skipped" /\ j \in LeftOut /\ exit.disabled # {}
  /\ exit.code = "usage" => \A j \in Jobs : outcome[j] = "pending"
  /\ exit.code = "failed" /\ ~cancel /\ exit.summary = "failed" =>
       \E j \in keep : outcome[j] \in {"failed", "cancelled"}

\* The step an id names, as the author of the document means it.
Named(id) == {i \in DOMAIN doc.tpl.steps : doc.tpl.steps[i].id = id}

\* v is what the reference r of step i stands for.
Means(r, i, v) ==
  CASE r.kind = "secrets" -> {v} = {<<"secret", p>> : p \in Visible(doc.tpl, doc.tpl.target)}
    [] r.kind = "vars" -> v = <<"var", r.name>>
    [] r.kind = "steps" ->
         \E s \in Named(r.name) :
           /\ s < i /\ Cardinality(Named(r.name)) = 1
           /\ v = IF r.key \in steps.wrote[s] THEN <<"output", s, r.key>> ELSE Empty
    [] OTHER -> v = Empty

\* What validation accepts means, when its step starts, what the document
\* says: a secret that exactly one place in scope defines, a var the target
\* has, or the output of the one step of that id, which ran before; a
\* reference is empty only if that step did not write the output, or if it
\* names an env variable nobody declared (check and resolve of template.lua).
AcceptedRefsResolve ==
  \A i \in DOMAIN steps.got :
    LET r == doc.tpl.steps[i].text
    IN  IF r.kind = "env" /\ r.name = "E" THEN Means(EnvRef(doc.tpl, i), i, steps.got[i])
        ELSE Means(r, i, steps.got[i])
=============================================================================
