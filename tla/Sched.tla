-------------------------------- MODULE Sched --------------------------------
(***************************************************************************)
(* The scheduler pass (src/src/kernel/sched.c): a pure function of the     *)
(* jobs' states that says which jobs get an event now.  Jobs are numbered  *)
(* in id order.  Target 0 is "local"; any other target t has MaxSessions[t]*)
(* sessions.  MaxParallel = 0 means no limit.                              *)
(***************************************************************************)
EXTENDS Naturals, FiniteSets, Lifecycle

CONSTANTS
  N,            \* number of jobs
  Needs,        \* Needs[j]: the jobs that j needs
  MaxParallel,  \* --max-parallel, 0 for no limit
  Target,       \* Target[j]: the session group of j, 0 for local
  MaxSessions   \* MaxSessions[t]: the session cap of target t

Jobs == 1..N

\* validate.c rejects an unknown id, a self-need and a cycle: in some numbering
\* of the jobs every need comes first.
Acyclic ==
  \E rank \in [Jobs -> Jobs] : \A j \in Jobs : \A n \in Needs[j] : rank[n] < rank[j]

ASSUME SchedAssumption ==
  /\ N \in Nat \ {0}
  /\ Needs \in [Jobs -> SUBSET Jobs]
  /\ MaxParallel \in Nat
  /\ Target \in [Jobs -> Nat]
  /\ \A j \in Jobs : Target[j] # 0 => MaxSessions[Target[j]] \in Nat \ {0}

RunningIn(st) == {j \in Jobs : st[j] \in Running}

\* Mutant of Resolved: a job waits until its needs have succeeded.
ResolvedOnSuccess(st) ==
  {j \in Jobs : st[j] = "pending" /\ \A n \in Needs[j] : st[n] = "success"}

\* Pending jobs whose needs have all ended.
Resolved(st) == {j \in Jobs : st[j] = "pending" /\ \A n \in Needs[j] : st[n] \in Final}

\* Mutant of NeedsEvent: any end of a need will do.
NeedsEventAny(st, j) == "needs-met"

NeedsEvent(st, j) ==
  IF \A n \in Needs[j] : st[n] = "success" THEN "needs-met" ELSE "needs-failed"

\* Mutant of GroupUsed: the grants of this very pass are not counted.
GroupUsedBefore(st, granted, j) == {k \in RunningIn(st) : Target[k] = Target[j]}

\* The jobs that hold a session of j's target if those of granted get their slot.
GroupUsed(st, granted, j) ==
  {k \in RunningIn(st) \cup granted : Target[k] = Target[j]}

\* The slots the scan in id order hands out.  It stops at max_parallel (once
\* full it stays full, so "break" is "no later job qualifies") and passes over
\* a job whose target has no session left.
Grants(st, granted) ==
  \A j \in Jobs :
    LET earlier == {k \in granted : k < j}
    IN  j \in granted <=>
          /\ st[j] = "ready"
          /\ \/ MaxParallel = 0
             \/ Cardinality(RunningIn(st)) + Cardinality(earlier) < MaxParallel
          /\ \/ Target[j] = 0
             \/ Cardinality(GroupUsed(st, earlier, j)) < MaxSessions[Target[j]]

\* qwe_sched_pass: needs events first; slots only when there are none.  The set
\* of lists the pass can return (the scan is deterministic: there is one).
SchedPass(st) ==
  IF Resolved(st) # {}
  THEN {{[job |-> j, event |-> NeedsEvent(st, j)] : j \in Resolved(st)}}
  ELSE {{[job |-> j, event |-> "slot-granted"] : j \in granted} :
           granted \in {g \in SUBSET Jobs : Grants(st, g)}}
=============================================================================
