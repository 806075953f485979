------------------------------- MODULE Template -------------------------------
(***************************************************************************)
(* ${{ }} references: what validation accepts (structure in                *)
(* src/src/kernel/lua/validate.lua, check in lua/template.lua) and what    *)
(* they stand for when a step is about to start (resolve).  Validation     *)
(* sees the document only; resolve runs much later, against what the       *)
(* earlier steps of the job have stored.  Pure operators; module Plan      *)
(* applies them.                                                           *)
(*                                                                         *)
(* A job's side of a document is a record: target, the places that define  *)
(* the one secret "s" (secrets), the vars of the target, the values of the *)
(* workflow (env) and of the job (jobEnv) for the env variable "E", and    *)
(* the steps.  A step has an id (NoId: none), uses (a plugin that declares *)
(* the output "k", or a run: step), here (on: local), a value for "E"      *)
(* (env) and a text: its run: or with: value.  A value or a text is at     *)
(* most one reference.                                                     *)
(***************************************************************************)
EXTENDS Naturals, Sequences

NoId == "-"

NoRef == [kind |-> "none", name |-> "-", key |-> "-"]

Secret == [NoRef EXCEPT !.kind = "secrets", !.name = "s"]

Var == [NoRef EXCEPT !.kind = "vars", !.name = "v"]

Env(x) == [NoRef EXCEPT !.kind = "env", !.name = x]

Out(id, k) == [kind |-> "steps", name |-> id, key |-> k]

Empty == <<>>

\* The references, and what of a job's side of a document is looked at.
Refs == [kind : {"none", "secrets", "vars", "env", "steps"}, name : STRING, key : STRING]

Tpls ==
  [target : {"local", "t"}, secrets : SUBSET {"workflow", "inventory", "target"},
   vars : SUBSET STRING, env : Refs, jobEnv : Refs,
   steps : Seq([id : STRING, uses : BOOLEAN, here : BOOLEAN, env : Refs, text : Refs])]

Declared == {"k"}

-----------------------------------------------------------------------------
(* Validation. *)

\* structure: no two steps of a job have one id.
DuplicateId(t) ==
  \E a, b \in DOMAIN t.steps : a # b /\ t.steps[a].id = t.steps[b].id /\ t.steps[a].id # NoId

\* inventory.secrets_for, and the workflow's own: the places a job on this
\* target ("nil": no job, the workflow's env) sees a secret defined in.
Visible(t, target) ==
  t.secrets \cap ({"workflow", "inventory"} \cup (IF target = "t" THEN {"target"} ELSE {}))

\* Mutant of Ambiguous: the target's own secrets are not compared.
AmbiguousBesides(t) == {"workflow", "inventory"} \subseteq t.secrets

\* structure: a name is defined in two places that one job can see.
Ambiguous(t) ==
  \/ {"workflow", "inventory"} \subseteq t.secrets
  \/ t.target = "t" /\ "target" \in t.secrets /\ t.secrets # {"target"}

\* earlier, as check has it when it comes to step i.
Earlier(t, i) == {b \in 1..(i - 1) : t.steps[b].id # NoId}

\* scan, for a reference r met at step i (0: outside the steps).
Refused(t, r, i, inEnv, isRun, target) ==
  \/ r.kind = "env" /\ inEnv
  \/ r.kind = "secrets" /\ (isRun \/ Visible(t, target) = {})
  \/ r.kind = "vars" /\ (target = "nil" \/ target = "local" \/ r.name \notin t.vars)
  \/ /\ r.kind = "steps"
     /\ ~\E b \in Earlier(t, i) :
           t.steps[b].id = r.name /\ (t.steps[b].uses => r.key \in Declared)

\* The errors of one job in structure and template.check.
Rejected(t) ==
  \/ DuplicateId(t)
  \/ Ambiguous(t)
  \/ Refused(t, t.env, 0, TRUE, FALSE, "nil")
  \/ Refused(t, t.jobEnv, 0, TRUE, FALSE, t.target)
  \/ \E i \in DOMAIN t.steps :
        \/ Refused(t, t.steps[i].env, i, TRUE, FALSE, t.target)
        \/ Refused(t, t.steps[i].text, i, FALSE, ~t.steps[i].uses, t.target)

-----------------------------------------------------------------------------
(* Evaluation.  A value is named by where it comes from; Empty is "".       *)

\* secret_scope: the workflow's definition covers the target's, and that the
\* inventory's.
Revealed(t) ==
  LET seen == Visible(t, t.target)
  IN  CASE "workflow" \in seen -> <<"secret", "workflow">>
        [] "target" \in seen \ {"workflow"} -> <<"secret", "target">>
        [] seen = {"inventory"} -> <<"secret", "inventory">>
        [] OTHER -> Empty

\* resolve: everything but env; outputs is the set of <<step id, step, key>>
\* stored so far.
Lookup(t, r, outputs) ==
  CASE r.kind = "secrets" -> Revealed(t)
    [] r.kind = "vars" -> IF t.target = "t" /\ r.name \in t.vars THEN <<"var", r.name>> ELSE Empty
    [] r.kind = "steps" /\ (\E o \in outputs : o.id = r.name /\ o.key = r.key) ->
         LET o == CHOOSE o \in outputs : o.id = r.name /\ o.key = r.key
         IN  <<"output", o.step, o.key>>
    [] OTHER -> Empty

\* The merged env: the step's value covers the job's, and that the workflow's.
EnvRef(t, i) ==
  CASE t.steps[i].env # NoRef -> t.steps[i].env
    [] t.steps[i].env = NoRef /\ t.jobEnv # NoRef -> t.jobEnv
    [] OTHER -> t.env

\* resolve and resolve_all: what the text of step i becomes.
Resolve(t, i, outputs) ==
  LET r == t.steps[i].text
  IN  IF r.kind # "env" THEN Lookup(t, r, outputs)
      ELSE IF r.name = "E" THEN Lookup(t, EnvRef(t, i), outputs) ELSE Empty

\* store: the outputs of step i, under its id if it has one; a step with no
\* output to store leaves the table alone.
Store(t, i, keys, outputs) ==
  IF keys = {} \/ t.steps[i].id = NoId THEN outputs
  ELSE {o \in outputs : o.id # t.steps[i].id}
         \cup {[id |-> t.steps[i].id, step |-> i, key |-> k] : k \in keys}

\* A run: step on a remote target has no $QWE_OUTPUT to write to.
MayStore(t, i) ==
  IF t.target = "t" /\ ~t.steps[i].uses /\ ~t.steps[i].here THEN {{}} ELSE SUBSET {"k", "x"}
=============================================================================
