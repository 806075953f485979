------------------------------ MODULE EdgeProofs ------------------------------
(***************************************************************************)
(* The properties of the engine's edges for every value of the constants:  *)
(* the targets reached through a master (Remote), the way of a step's      *)
(* output into the log (Output) and the redactor on that way (Redact).     *)
(***************************************************************************)
EXTENDS Remote, Output, Redact, Integers, TLAPS

-----------------------------------------------------------------------------
(* Remote: any number of jobs, steps and targets, of masters that die and of  *)
(* commands that go unanswered                                                *)

\* The values of the record of a step, of a helper, and of the two histories.
Reasons ==
  {"none", "engine-error", "stopped", "ok", "unreachable", "connection-lost", "exit-code"}

StepRecords ==
  [n : Nat, st : {"ready", "running", "over", "ended"},
   client : {"none", "running", "cut", "exited"}, code : {0, 1, 255}, unreach : BOOLEAN,
   torn : {"no", "TERM", "KILL"},
   reason : Reasons, lost : BOOLEAN, again : BOOLEAN]

Helpers == [j : Jobs, n : Nat, sig : {"TERM", "KILL"}]

Faults == [deaths : Nat, slow : Nat]

Seen ==
  [contacted : SUBSET Targets, redialled : SUBSET Targets, expired : BOOLEAN,
   cut : SUBSET Helpers, deaf : SUBSET Targets, left : SUBSET Targets]

\* The type invariant.
RemoteTypeOK ==
  /\ phase \in {"connect", "loop", "wait", "exit", "closed"} /\ next \in Nat \ {0}
  /\ up \in [Targets -> BOOLEAN]
  /\ entry \in [Targets -> {"none", "known", "unreachable"}]
  /\ job \in [Jobs -> StepRecords]
  /\ kills \subseteq Helpers /\ faults \in Faults /\ seen \in Seen

\* One step, with its master up or not: what it may still say of its end.
StepOK(r, isUp, slow) ==
  /\ r.st = "running" => r.reason = "none"
  /\ r.client \in {"running", "cut"} => r.st = "running"
  /\ r.st = "running" /\ ~r.unreach /\ ~isUp => r.lost
  /\ r.st = "running" /\ r.lost /\ isUp => r.again
  /\ r.reason = "exit-code" /\ r.code = 255 /\ r.lost => r.again
  /\ r.reason = "connection-lost" => r.lost \/ slow > 0

\* Every job's step.
StepsOK == \A j \in Jobs : StepOK(job[j], up[TargetOf[j]], faults.slow)

\* A master that runs has an entry until the run is over.
Entered ==
  IF phase = "closed" THEN \A t \in Targets : up[t] => t \in seen.deaf \cup seen.left
  ELSE \A t \in Targets : up[t] => entry[t] # "none"

\* No step runs before the loop or after it.
LoopOnly ==
  /\ phase = "connect" => \A j \in Jobs : job[j].st = "ready"
  /\ phase \in {"wait", "exit", "closed"} => \A j \in Jobs : job[j].st = "ended"

\* Past the wait, helpers are left only if the wait has run out.
Heard ==
  /\ phase = "exit" => kills = {} \/ seen.expired
  /\ seen.cut # {} => seen.expired

\* The inductive invariant.
Inv ==
  /\ RemoteTypeOK /\ StepsOK /\ Entered /\ LoopOnly /\ Heard
  /\ AsksNoMoreThanItShould

\* A job's target is a target.
LEMMA TargetsOfJobs == \A j \in Jobs : TargetOf[j] \in Targets
  BY DEF Targets

\* Sets of targets can be counted.
Countable == \A S \in SUBSET Targets : Cardinality(S) \in Nat

\* Asking for a master (alive): the answer is the truth unless it came too late,
\* and the count of late answers only grows.
LEMMA AliveTells ==
  ASSUME faults \in Faults, NEW t \in Targets, up[t] \in BOOLEAN, NEW answer \in BOOLEAN,
         Alive(t, answer)
  PROVE  /\ faults' \in Faults /\ faults'.slow >= faults.slow
         /\ answer => up[t]
         /\ ~answer => ~up[t] \/ faults'.slow > 0
  BY DEF Alive, ExecRun, NoCode, Faults

\* What ensure does: only this target's entry and master change, a master that
\* was up stays up, there is an entry afterwards, and if it is not given up on,
\* after an ensure that was not refused, its master is up.
Ensured(t, result) ==
  /\ up' \in [Targets -> BOOLEAN]
  /\ entry' \in [Targets -> {"none", "known", "unreachable"}]
  /\ faults' \in Faults /\ faults'.slow >= faults.slow
  /\ up[t] => up'[t]
  /\ entry'[t] # "none"
  /\ \A u \in Targets \ {t} : up'[u] = up[u] /\ entry'[u] = entry[u]
  /\ result # "refused" /\ entry'[t] # "unreachable" => up'[t]

\* ensure (ssh.lua) does so on each of its paths.
LEMMA EnsureDoes ==
  ASSUME RemoteTypeOK, NEW t \in Targets, NEW result, Ensure(t, result)
  PROVE  Ensured(t, result)
<1> DEFINE known == IF entry[t] = "none" THEN "known" ELSE entry[t]
<1>1. up[t] \in BOOLEAN /\ faults \in Faults
  BY DEF RemoteTypeOK
<1>2. CASE result = "refused" /\ UNCHANGED <<up, faults>> /\ entry' = [entry EXCEPT ![t] = known]
  BY <1>1, <1>2 DEF RemoteTypeOK, Faults, Ensured
<1>3. CASE Alive(t, TRUE) /\ up' = up /\ entry' = [entry EXCEPT ![t] = known]
  <2>1. faults' \in Faults /\ faults'.slow >= faults.slow /\ up[t]
    BY <1>1, <1>3, AliveTells, Zenon
  <2> QED
    BY <1>3, <2>1 DEF RemoteTypeOK, Ensured
<1>4. ASSUME Alive(t, FALSE), NEW code \in {0, 255}, NEW silent \in BOOLEAN,
             result = (IF ExecRun(code, silent) = 0 THEN "up" ELSE "failed"),
             entry' = [entry EXCEPT ![t] = IF result = "up" THEN "known" ELSE "unreachable"],
             up' = [up EXCEPT ![t] = @ \/ code = 0]
      PROVE  Ensured(t, result)
  <2>1. faults' \in Faults /\ faults'.slow >= faults.slow
    BY <1>1, <1>4, AliveTells, Zenon
  <2>2. result = "up" => code = 0
    BY <1>4 DEF ExecRun, NoCode
  <2>3. /\ up' \in [Targets -> BOOLEAN]
        /\ entry' \in [Targets -> {"none", "known", "unreachable"}]
    BY <1>4 DEF RemoteTypeOK
  <2>4. up'[t] = (up[t] \/ code = 0) /\ entry'[t] = IF result = "up" THEN "known" ELSE "unreachable"
    BY <1>4 DEF RemoteTypeOK
  <2>5. \A u \in Targets \ {t} : up'[u] = up[u] /\ entry'[u] = entry[u]
    BY <1>4 DEF RemoteTypeOK
  <2> QED
    BY <2>1, <2>2, <2>3, <2>4, <2>5 DEF Ensured
<1>5. \/ result = "refused" /\ UNCHANGED <<up, faults>> /\ entry' = [entry EXCEPT ![t] = known]
      \/ Alive(t, TRUE) /\ up' = up /\ entry' = [entry EXCEPT ![t] = known]
      \/ /\ Alive(t, FALSE)
         /\ \E code \in {0, 255}, silent \in BOOLEAN :
              /\ result = (IF ExecRun(code, silent) = 0 THEN "up" ELSE "failed")
              /\ entry' = [entry EXCEPT ![t] = IF result = "up" THEN "known" ELSE "unreachable"]
              /\ up' = [up EXCEPT ![t] = @ \/ code = 0]
  BY ZenonT(30) DEF Ensure
<1> HIDE DEF known
<1> QED
  BY <1>2, <1>3, <1>4, <1>5, ZenonT(30)

-----------------------------------------------------------------------------

\* The first state is good.
LEMMA InitInv == Init => Inv
<1> SUFFICES ASSUME Init PROVE Inv
  OBVIOUS
<1>1. NoStep \in StepRecords
  BY DEF NoStep, StepRecords, Reasons
<1>2. RemoteTypeOK
  BY <1>1 DEF Init, RemoteTypeOK, Faults, Seen
<1>3. StepsOK /\ LoopOnly
  BY DEF Init, StepsOK, StepOK, LoopOnly, NoStep
<1>4. Entered /\ Heard /\ AsksNoMoreThanItShould
  BY DEF Init, Entered, Heard, AsksNoMoreThanItShould
<1> QED
  BY <1>2, <1>3, <1>4 DEF Inv

\* Steps of the program that leave masters, entries and steps alone.
LEMMA QuietInv ==
  ASSUME Inv,
         StartLoop \/ EndLoop \/ WaitKills \/ KillWaitPasses \/ UNCHANGED vars
         \/ \E h \in kills : HelperDone(h)
  PROVE  Inv'
<1> USE DEF Inv
<1>1. CASE StartLoop
  BY <1>1 DEF StartLoop, RemoteTypeOK, StepsOK, Entered, LoopOnly, Heard, AsksNoMoreThanItShould
<1>2. CASE EndLoop
  BY <1>2 DEF EndLoop, RemoteTypeOK, StepsOK, Entered, LoopOnly, Heard, AsksNoMoreThanItShould
<1>3. CASE WaitKills
  BY <1>3 DEF WaitKills, MayClose, RemoteTypeOK, StepsOK, Entered, LoopOnly, Heard,
              AsksNoMoreThanItShould
<1>4. CASE KillWaitPasses
  <2>1. /\ seen' \in Seen /\ seen'.expired /\ seen'.cut = seen.cut
        /\ seen'.contacted = seen.contacted /\ seen'.redialled = seen.redialled
        /\ seen'.deaf = seen.deaf /\ seen'.left = seen.left
    BY <1>4, Zenon DEF KillWaitPasses, RemoteTypeOK, Seen
  <2>2. faults' \in Faults /\ faults'.slow > 0
    BY <1>4 DEF KillWaitPasses, RemoteTypeOK, Faults
  <2>3. RemoteTypeOK' /\ Entered' /\ LoopOnly' /\ Heard' /\ AsksNoMoreThanItShould'
    BY <1>4, <2>1, <2>2 DEF KillWaitPasses, RemoteTypeOK, Entered, LoopOnly, Heard,
                            AsksNoMoreThanItShould
  <2>4. StepsOK'
    BY <1>4, <2>2 DEF KillWaitPasses, StepsOK, StepOK
  <2> QED
    BY <2>3, <2>4
<1>5. CASE \E h \in kills : HelperDone(h)
  BY <1>5 DEF HelperDone, RemoteTypeOK, StepsOK, Entered, LoopOnly, Heard, AsksNoMoreThanItShould
<1>6. CASE UNCHANGED vars
  BY <1>6 DEF vars, RemoteTypeOK, StepsOK, Entered, LoopOnly, Heard, AsksNoMoreThanItShould
<1> QED
  BY <1>1, <1>2, <1>3, <1>4, <1>5, <1>6

\* preconnect, before any step runs.
LEMMA PreconnectInv ==
  ASSUME Inv, Preconnect
  PROVE  Inv'
<1> USE DEF Inv
<1>1. phase = "connect" /\ phase' = phase /\ next \in 1..NJobs /\ next' = next + 1
      /\ UNCHANGED <<job, kills>>
  BY RemoteAssumption DEF Preconnect, RemoteTypeOK
<1>2. TargetOf[next] \in Targets
  BY <1>1 DEF Targets, Jobs
<1>3. CASE /\ Wanted(next) /\ \E result : Ensure(TargetOf[next], result)
           /\ seen' = [seen EXCEPT !.contacted = @ \cup {TargetOf[next]}]
  <2>1. PICK result : Ensured(TargetOf[next], result)
    BY <1>2, <1>3, EnsureDoes
  <2>2. /\ seen' \in Seen /\ seen'.contacted = seen.contacted \cup {TargetOf[next]}
        /\ seen'.redialled = seen.redialled /\ seen'.expired = seen.expired
        /\ seen'.cut = seen.cut
    BY <1>2, <1>3 DEF RemoteTypeOK, Seen
  <2>3. RemoteTypeOK'
    BY <1>1, <2>1, <2>2 DEF RemoteTypeOK, Ensured
  <2>4. StepsOK'
    <3> SUFFICES ASSUME NEW j \in Jobs
                 PROVE  StepOK(job[j], up'[TargetOf[j]], faults'.slow)
      BY <1>1 DEF StepsOK
    <3>1. job[j].st = "ready" /\ StepOK(job[j], up[TargetOf[j]], faults.slow)
      BY <1>1 DEF LoopOnly, StepsOK
    <3>2. faults'.slow >= faults.slow /\ faults'.slow \in Nat /\ faults.slow \in Nat
      BY <2>1 DEF Ensured, RemoteTypeOK, Faults
    <3> QED
      BY <3>1, <3>2 DEF StepOK
  <2>5. Entered' /\ LoopOnly' /\ Heard'
    BY <1>1, <2>1, <2>2 DEF Entered, LoopOnly, Heard, Ensured
  <2>6. AsksNoMoreThanItShould'
    BY <1>1, <1>3, <2>2 DEF AsksNoMoreThanItShould, Remote, Wanted, Jobs
  <2> QED
    BY <2>3, <2>4, <2>5, <2>6
<1>4. CASE UNCHANGED <<up, entry, faults, seen>>
  BY <1>1, <1>4 DEF RemoteTypeOK, StepsOK, Entered, LoopOnly, Heard, AsksNoMoreThanItShould
<1> QED
  BY <1>3, <1>4 DEF Preconnect

\* Only the record of one step changes, and it stays good.
LEMMA StepMoves ==
  ASSUME Inv, NEW j \in Jobs, NEW r \in StepRecords, phase \in {"loop", "wait", "exit", "closed"},
         job' = [job EXCEPT ![j] = r], r.st = "ended" \/ phase = "loop",
         StepOK(r, up[TargetOf[j]], faults'.slow),
         faults' \in Faults, faults'.slow >= faults.slow,
         kills' = kills \/ (phase = "loop" /\ kills' \subseteq Helpers),
         UNCHANGED <<phase, next, up, entry, seen>>
  PROVE  Inv'
<1> USE DEF Inv
<1>1. RemoteTypeOK'
  BY DEF RemoteTypeOK
<1>2. StepsOK'
  <2> SUFFICES ASSUME NEW k \in Jobs
               PROVE  StepOK(job'[k], up[TargetOf[k]], faults'.slow)
    BY DEF StepsOK
  <2>1. CASE k = j
    BY <2>1 DEF RemoteTypeOK
  <2>2. CASE k # j
    <3>1. job'[k] = job[k] /\ StepOK(job[k], up[TargetOf[k]], faults.slow)
      BY <2>2 DEF RemoteTypeOK, StepsOK
    <3>2. faults'.slow \in Nat /\ faults.slow \in Nat
      BY DEF RemoteTypeOK, Faults
    <3> QED
      BY <3>1, <3>2 DEF StepOK
  <2> QED
    BY <2>1, <2>2
<1>3. LoopOnly'
  BY DEF LoopOnly, RemoteTypeOK
<1>4. Entered' /\ Heard' /\ AsksNoMoreThanItShould'
  BY DEF Entered, Heard, AsksNoMoreThanItShould
<1> QED
  BY <1>1, <1>2, <1>3, <1>4

\* The end of a job, of a command and of a client.
LEMMA EndsInv ==
  ASSUME Inv, NEW j \in Jobs, JobEnds(j) \/ CommandEnds(j) \/ ClientExits(j)
  PROVE  Inv'
<1> DEFINE old == job[j]
<1>1. /\ old \in StepRecords /\ StepOK(old, up[TargetOf[j]], faults.slow)
      /\ phase \in {"connect", "loop", "wait", "exit", "closed"} /\ job \in [Jobs -> StepRecords]
      /\ faults \in Faults /\ faults.slow \in Nat
  BY DEF Inv, RemoteTypeOK, StepsOK, Faults
<1>2. old.st = "running" => phase = "loop"
  BY <1>1 DEF Inv, LoopOnly
<1>3. CASE JobEnds(j)
  <2> DEFINE r == [old EXCEPT !.st = "ended"]
  <2>1. /\ job' = [job EXCEPT ![j] = r] /\ phase = "loop"
        /\ UNCHANGED <<phase, next, up, entry, kills, faults, seen>>
    BY <1>1, <1>3 DEF JobEnds
  <2>2. r \in StepRecords /\ StepOK(r, up[TargetOf[j]], faults.slow)
    BY <1>1, <1>3 DEF JobEnds, StepRecords, StepOK
  <2>3. faults' \in Faults /\ faults'.slow >= faults.slow /\ r.st = "ended"
        /\ StepOK(r, up[TargetOf[j]], faults'.slow)
    BY <1>1, <2>1, <2>2 DEF StepRecords
  <2> HIDE DEF r
  <2> QED
    BY <1>1, <2>1, <2>2, <2>3, StepMoves, Zenon
<1>4. ASSUME NEW c \in {0, 1, 255}, old.client \in {"running", "cut"},
             job' = [job EXCEPT ![j].client = "exited", ![j].code = c],
             UNCHANGED <<phase, next, up, entry, kills, faults, seen>>
      PROVE  Inv'
  <2> DEFINE r == [old EXCEPT !.client = "exited", !.code = c]
  <2>1. job' = [job EXCEPT ![j] = r] /\ phase = "loop"
    BY <1>1, <1>2, <1>4, ZenonT(30) DEF StepOK
  <2>2. r \in StepRecords /\ StepOK(r, up[TargetOf[j]], faults.slow)
    <3>1. old.st = "running" /\ old.reason = "none"
      BY <1>1, <1>4 DEF StepOK
    <3>2. /\ r \in StepRecords /\ r.st = old.st /\ r.reason = old.reason /\ r.client = "exited"
          /\ r.lost = old.lost /\ r.again = old.again /\ r.unreach = old.unreach
      BY <1>1, ZenonT(30) DEF StepRecords
    <3> HIDE DEF r
    <3> QED
      BY <1>1, <3>1, <3>2 DEF StepOK
  <2>3. faults' \in Faults /\ faults'.slow >= faults.slow
        /\ StepOK(r, up[TargetOf[j]], faults'.slow)
    BY <1>1, <1>4, <2>2
  <2>4. UNCHANGED <<phase, next, up, entry, seen>> /\ kills' = kills
    BY <1>4
  <2> HIDE DEF r
  <2> QED
    BY <2>1, <2>2, <2>3, <2>4, StepMoves, Zenon
<1>5. CASE CommandEnds(j)
  <2>1. PICK c \in {0, 1, 255} : job' = [job EXCEPT ![j].client = "exited", ![j].code = c]
    BY <1>5, Zenon DEF CommandEnds
  <2> QED
    BY <1>4, <1>5, <2>1, Zenon DEF CommandEnds
<1>6. CASE ClientExits(j)
  <2>1. /\ job' = [job EXCEPT ![j].client = "exited", ![j].code = 255]
        /\ old.client \in {"running", "cut"}
        /\ UNCHANGED <<phase, next, up, entry, kills, faults, seen>>
    BY <1>6 DEF ClientExits
  <2>2. 255 \in {0, 1, 255}
    OBVIOUS
  <2> QED
    BY <1>4, <2>1, <2>2
<1> QED
  BY <1>3, <1>5, <1>6

\* A stop: SIGTERM or SIGKILL and its helper.
LEMMA StopInv ==
  ASSUME Inv, NEW j \in Jobs, Stop(j)
  PROVE  Inv'
<1> DEFINE old == job[j]
           sig == IF old.torn = "no" THEN "TERM" ELSE "KILL"
           r == [old EXCEPT !.torn = sig]
<1>1. /\ old \in StepRecords /\ StepOK(old, up[TargetOf[j]], faults.slow)
      /\ job \in [Jobs -> StepRecords] /\ kills \subseteq Helpers
      /\ faults \in Faults /\ faults.slow \in Nat
      /\ TargetOf[j] \in Targets /\ up[TargetOf[j]] \in BOOLEAN
  BY TargetsOfJobs DEF Inv, RemoteTypeOK, StepsOK, Faults
<1>2. /\ job' = [job EXCEPT ![j] = r] /\ phase = "loop"
      /\ UNCHANGED <<phase, next, up, entry, seen>> /\ Helper(j, sig)
  BY <1>1 DEF Stop
<1>3. faults' \in Faults /\ faults'.slow >= faults.slow /\ kills' \subseteq Helpers
  <2>1. [j |-> j, n |-> old.n, sig |-> sig] \in Helpers
    BY <1>1 DEF Helpers, StepRecords
  <2>2. CASE UNCHANGED <<kills, faults>>
    BY <1>1, <2>2
  <2>3. ASSUME NEW answer \in BOOLEAN, Alive(TargetOf[j], answer),
               kills' = IF answer THEN kills \cup {[j |-> j, n |-> old.n, sig |-> sig]} ELSE kills
        PROVE  faults' \in Faults /\ faults'.slow >= faults.slow /\ kills' \subseteq Helpers
    BY <1>1, <2>1, <2>3, AliveTells
  <2> QED
    BY <1>2, <2>2, <2>3 DEF Helper
<1>4. r \in StepRecords /\ StepOK(r, up[TargetOf[j]], faults'.slow)
  <2>1. /\ r \in StepRecords /\ r.st = old.st /\ r.reason = old.reason /\ r.client = old.client
        /\ r.lost = old.lost /\ r.again = old.again /\ r.unreach = old.unreach
        /\ r.code = old.code
    BY <1>1 DEF StepRecords
  <2>2. faults'.slow \in Nat
    BY <1>3 DEF Faults
  <2> HIDE DEF r
  <2> QED
    BY <1>1, <1>3, <2>1, <2>2 DEF StepOK
<1> HIDE DEF r
<1> QED
  BY <1>2, <1>3, <1>4, StepMoves, Zenon

\* The record of a step that is over (record_step).
LEMMA OverRecord ==
  ASSUME NEW o \in StepRecords,
         NEW w \in Reasons
  PROVE  LET r == [o EXCEPT !.st = "over", !.reason = w]
         IN  /\ r \in StepRecords /\ r.st = "over" /\ r.reason = w /\ r.client = o.client
             /\ r.lost = o.lost /\ r.again = o.again /\ r.code = o.code
<1> DEFINE r == [o EXCEPT !.st = "over", !.reason = w]
<1>1. r \in StepRecords
  BY ZenonT(30) DEF StepRecords
<1>2. /\ r.st = "over" /\ r.reason = w /\ r.client = o.client
      /\ r.lost = o.lost /\ r.again = o.again /\ r.code = o.code
  BY DEF StepRecords
<1> QED
  BY <1>1, <1>2

\* A reaped leader: what it says of its end is what happened to its master.
LEMMA ReapInv ==
  ASSUME Inv, NEW j \in Jobs, Reap(j)
  PROVE  Inv'
<1> DEFINE old == job[j]
<1>1. /\ old \in StepRecords /\ StepOK(old, up[TargetOf[j]], faults.slow)
      /\ job \in [Jobs -> StepRecords]
      /\ faults \in Faults /\ faults.slow \in Nat
      /\ TargetOf[j] \in Targets /\ up[TargetOf[j]] \in BOOLEAN
  BY TargetsOfJobs DEF Inv, RemoteTypeOK, StepsOK, Faults
<1>2. PICK alive \in BOOLEAN :
        /\ IF old.code = 255 /\ ~old.unreach THEN Alive(TargetOf[j], alive) ELSE UNCHANGED faults
        /\ job' = [job EXCEPT ![j].st = "over", ![j].reason = ExitReason(j, alive)]
  BY Zenon DEF Reap
<1> DEFINE why == ExitReason(j, alive)
           r == [old EXCEPT !.st = "over", !.reason = why]
<1>3. /\ job' = [job EXCEPT ![j] = r] /\ phase = "loop" /\ old.st = "running"
      /\ old.client = "exited" /\ UNCHANGED <<phase, next, up, entry, kills, seen>>
  BY <1>1, <1>2, Zenon DEF Reap
<1>4. faults' \in Faults /\ faults'.slow >= faults.slow
  <2>1. CASE Alive(TargetOf[j], alive)
    BY <1>1, <2>1, AliveTells
  <2> QED
    BY <1>1, <1>2, <2>1
<1>5. why \in {"stopped", "ok", "unreachable", "connection-lost", "exit-code"}
  BY DEF ExitReason
<1>6. why = "exit-code" /\ old.code = 255 /\ old.lost => old.again
  <2> SUFFICES ASSUME why = "exit-code", old.code = 255, old.lost PROVE old.again
    OBVIOUS
  <2>1. alive /\ ~old.unreach
    BY DEF ExitReason
  <2>2. up[TargetOf[j]]
    BY <1>1, <1>2, <2>1, AliveTells, Zenon
  <2> QED
    BY <1>1, <1>3, <2>2 DEF StepOK
<1>7. why = "connection-lost" => old.lost \/ faults'.slow > 0
  <2> SUFFICES ASSUME why = "connection-lost" PROVE old.lost \/ faults'.slow > 0
    OBVIOUS
  <2>1. ~alive /\ ~old.unreach /\ old.code = 255
    BY DEF ExitReason
  <2>2. ~up[TargetOf[j]] \/ faults'.slow > 0
    BY <1>1, <1>2, <2>1, AliveTells
  <2> QED
    BY <1>1, <1>3, <2>1, <2>2 DEF StepOK
<1> HIDE DEF why, old
<1>8. r \in StepRecords /\ StepOK(r, up[TargetOf[j]], faults'.slow)
  <2>1. /\ r \in StepRecords /\ r.st = "over" /\ r.reason = why /\ r.client = old.client
        /\ r.lost = old.lost /\ r.again = old.again /\ r.code = old.code
    <3>1. why \in Reasons
      BY <1>5 DEF Reasons
    <3> QED
      BY <1>1, <3>1, OverRecord, Zenon
  <2> HIDE DEF r
  <2> QED
    BY <1>3, <1>6, <1>7, <2>1 DEF StepOK
<1> HIDE DEF r
<1> QED
  BY <1>3, <1>4, <1>8, StepMoves, Zenon

\* step_spawn: the new step is good with its master up or given up on, and where
\* the master is back, the steps that had lost it know.
LEMMA SpawnStepInv ==
  ASSUME Inv, NEW j \in Jobs, SpawnStep(j)
  PROVE  Inv'
<1> DEFINE t == TargetOf[j]
           n == job[j].n + 1
           fresh(result) ==
             IF result = "refused"
             THEN [NoStep EXCEPT !.n = n, !.st = "ended", !.reason = "engine-error"]
             ELSE [NoStep EXCEPT !.n = n, !.st = "running",
                                 !.client = IF up'[t] THEN "running" ELSE "cut",
                                 !.unreach = entry'[t] = "unreachable"]
           others == [k \in Jobs |->
             IF TargetOf[k] = t /\ job[k].lost /\ up'[t] /\ ~up[t]
             THEN [job[k] EXCEPT !.again = TRUE] ELSE job[k]]
<1>1. PICK result \in {"refused", "up", "failed", "unasked"} :
        /\ result = "unasked" <=> ~Asks(t)
        /\ IF Asks(t) THEN Ensure(t, result) ELSE UNCHANGED <<up, entry, faults>>
        /\ job' = [others EXCEPT ![j] = fresh(result)]
        /\ seen' = [seen EXCEPT
             !.redialled = IF Asks(t) /\ entry[t] = "unreachable" THEN @ \cup {t} ELSE @]
  BY Zenon DEF SpawnStep
<1>2. phase = "loop" /\ UNCHANGED <<phase, next, kills>>
  BY DEF SpawnStep
<1>3. /\ RemoteTypeOK /\ t \in Targets /\ job \in [Jobs -> StepRecords] /\ n \in Nat
      /\ up \in [Targets -> BOOLEAN] /\ faults \in Faults
      /\ entry \in [Targets -> {"none", "known", "unreachable"}]
  BY TargetsOfJobs DEF Inv, RemoteTypeOK, StepRecords
<1>4. seen' = seen
  BY <1>1, <1>3 DEF Asks, RemoteTypeOK, Seen
<1>5. /\ up' \in [Targets -> BOOLEAN]
      /\ entry' \in [Targets -> {"none", "known", "unreachable"}]
      /\ faults' \in Faults /\ faults'.slow >= faults.slow
      /\ up[t] => up'[t]
      /\ entry'[t] # "none"
      /\ \A u \in Targets \ {t} : up'[u] = up[u] /\ entry'[u] = entry[u]
      /\ result # "refused" /\ entry'[t] # "unreachable" => up'[t]
  <2>1. CASE Asks(t)
    <3>1. Ensured(t, result)
      BY <1>1, <1>3, <2>1, EnsureDoes
    <3> QED
      BY <3>1 DEF Ensured
  <2>2. CASE ~Asks(t)
    BY <1>1, <1>3, <2>2 DEF Asks, Faults
  <2> QED
    BY <2>1, <2>2
<1>6. fresh(result) \in StepRecords /\ StepOK(fresh(result), up'[t], faults'.slow)
  <2>1. CASE result = "refused"
    <3>1. fresh(result) = [NoStep EXCEPT !.n = n, !.st = "ended", !.reason = "engine-error"]
      BY <2>1
    <3> QED
      BY <1>3, <3>1, ZenonT(30) DEF StepRecords, StepOK, NoStep, Reasons
  <2>2. CASE result # "refused"
    <3> DEFINE c == IF up'[t] THEN "running" ELSE "cut"
               u == entry'[t] = "unreachable"
    <3>1. fresh(result) = [NoStep EXCEPT !.n = n, !.st = "running", !.client = c, !.unreach = u]
      BY <2>2
    <3>2. c \in {"running", "cut"} /\ u \in BOOLEAN /\ (~u => up'[t])
      BY <1>5, <2>2
    <3> HIDE DEF c, u, fresh, n
    <3>3. fresh(result) = [n |-> n, st |-> "running", client |-> c, code |-> 0, unreach |-> u,
                           torn |-> "no", reason |-> "none", lost |-> FALSE, again |-> FALSE]
      BY <3>1, Zenon DEF NoStep
    <3>4. fresh(result) \in StepRecords
      BY <1>3, <3>2, <3>3 DEF StepRecords, Reasons
    <3> QED
      BY <3>2, <3>3, <3>4 DEF StepOK
  <2> QED
    BY <2>1, <2>2
<1> HIDE DEF fresh
<1>7. ASSUME NEW k \in Jobs, k # j
      PROVE  job'[k] \in StepRecords /\ StepOK(job'[k], up'[TargetOf[k]], faults'.slow)
  <2>1. job[k] \in StepRecords /\ StepOK(job[k], up[TargetOf[k]], faults.slow)
        /\ TargetOf[k] \in Targets /\ faults.slow \in Nat /\ faults'.slow \in Nat
    BY <1>3, <1>5, TargetsOfJobs DEF Inv, StepsOK, Faults
  <2>2. CASE TargetOf[k] = t /\ job[k].lost /\ up'[t] /\ ~up[t]
    <3> DEFINE r == [job[k] EXCEPT !.again = TRUE]
    <3>1. job'[k] = r
      BY <1>1, <1>7, <2>2, Zenon
    <3>2. /\ r \in StepRecords /\ r.again /\ r.st = job[k].st /\ r.reason = job[k].reason
          /\ r.client = job[k].client /\ r.lost = job[k].lost
      BY <2>1, ZenonT(30) DEF StepRecords
    <3> HIDE DEF r
    <3> QED
      BY <1>5, <2>1, <2>2, <3>1, <3>2 DEF StepOK
  <2>3. CASE ~(TargetOf[k] = t /\ job[k].lost /\ up'[t] /\ ~up[t])
    <3>1. job'[k] = job[k]
      BY <1>1, <1>7, <2>3
    <3> QED
      BY <1>5, <2>1, <2>3, <3>1 DEF StepOK
  <2> QED
    BY <2>2, <2>3
<1>8. job'[j] = fresh(result) /\ job' = [k \in Jobs |-> job'[k]]
  BY <1>1, Zenon
<1>9. job' \in [Jobs -> StepRecords] /\ StepsOK'
  BY <1>6, <1>7, <1>8 DEF StepsOK
<1>10. RemoteTypeOK'
  BY <1>2, <1>4, <1>5, <1>9 DEF Inv, RemoteTypeOK
<1>11. Entered'
  BY <1>2, <1>5 DEF Inv, Entered
<1> QED
  BY <1>2, <1>4, <1>9, <1>10, <1>11 DEF Inv, LoopOnly, Heard, AsksNoMoreThanItShould

\* A master that dies takes its clients and helpers with it, and its steps know.
LEMMA MasterDiesInv ==
  ASSUME Inv, NEW t \in Targets, MasterDies(t)
  PROVE  Inv'
<1> USE DEF Inv
<1>1. /\ up' = [up EXCEPT ![t] = FALSE] /\ kills' \subseteq kills
      /\ UNCHANGED <<phase, next, entry, seen>> /\ phase # "closed"
      /\ faults' \in Faults /\ faults'.slow = faults.slow /\ faults.slow \in Nat
  <2>1. /\ up' = [up EXCEPT ![t] = FALSE] /\ kills' = {h \in kills : TargetOf[h.j] # t}
        /\ UNCHANGED <<phase, next, entry, seen>> /\ phase # "closed"
        /\ faults' = [faults EXCEPT !.deaths = @ + 1] /\ faults \in Faults
    BY Zenon DEF MasterDies, RemoteTypeOK
  <2>2. faults' \in Faults /\ faults'.slow = faults.slow /\ faults.slow \in Nat
    BY <2>1 DEF Faults
  <2> QED
    BY <2>1, <2>2, ZenonT(30)
<1>2. ASSUME NEW k \in Jobs
      PROVE  /\ job'[k] \in StepRecords /\ job'[k].st = job[k].st
             /\ StepOK(job'[k], up'[TargetOf[k]], faults'.slow)
  <2>1. job[k] \in StepRecords /\ StepOK(job[k], up[TargetOf[k]], faults.slow)
        /\ TargetOf[k] \in Targets
    BY TargetsOfJobs DEF RemoteTypeOK, StepsOK
  <2>2. CASE TargetOf[k] # t \/ job[k].st # "running"
    <3>1. job'[k] = job[k]
      BY <2>2, Zenon DEF MasterDies
    <3>2. up'[TargetOf[k]] = up[TargetOf[k]] \/ job[k].st # "running"
      BY <1>1, <2>1, <2>2, Zenon DEF RemoteTypeOK
    <3> QED
      BY <1>1, <2>1, <3>1, <3>2, ZenonT(30) DEF StepOK
  <2>3. CASE TargetOf[k] = t /\ job[k].st = "running"
    <3> DEFINE r == [job[k] EXCEPT !.client = IF @ = "running" THEN "cut" ELSE @, !.lost = TRUE]
    <3>1. job'[k] = r
      BY <2>3, Zenon DEF MasterDies
    <3>2. /\ r \in StepRecords /\ r.lost /\ r.st = job[k].st /\ r.reason = job[k].reason
      BY <2>1, ZenonT(30) DEF StepRecords
    <3>3. up'[TargetOf[k]] = FALSE
      BY <1>1, <2>1, <2>3 DEF RemoteTypeOK
    <3> HIDE DEF r
    <3> QED
      BY <2>1, <2>3, <3>1, <3>2, <3>3 DEF StepOK
  <2> QED
    BY <2>2, <2>3
<1>3. job' \in [Jobs -> StepRecords]
  <2>1. job' = [k \in Jobs |-> job'[k]]
    BY Zenon DEF MasterDies
  <2> QED
    BY <1>2, <2>1
<1>4. RemoteTypeOK'
  BY <1>1, <1>3 DEF RemoteTypeOK
<1>5. StepsOK' /\ LoopOnly'
  BY <1>1, <1>2, Zenon DEF StepsOK, LoopOnly
<1>6. Entered'
  BY <1>1 DEF Entered, RemoteTypeOK
<1>7. Heard' /\ AsksNoMoreThanItShould'
  BY <1>1 DEF Heard, AsksNoMoreThanItShould
<1> QED
  BY <1>4, <1>5, <1>6, <1>7

\* close_all: the masters of every target it has not given up on are told to exit.
LEMMA ExitMastersInv ==
  ASSUME Inv, ExitMasters, Countable
  PROVE  Inv'
<1> USE DEF Inv
<1>1. PICK deaf \in SUBSET {t \in Targets : Closes(t) /\ up[t]} :
        /\ faults' = [faults EXCEPT !.slow = @ + Cardinality(deaf)]
        /\ up' = [t \in Targets |-> up[t] /\ (~Closes(t) \/ t \in deaf)]
        /\ seen' = [seen EXCEPT !.deaf = deaf,
                                !.left = {t \in Targets : entry[t] = "unreachable"},
                                !.cut = {h \in kills : up[TargetOf[h.j]] /\ ~up'[TargetOf[h.j]]}]
  BY Zenon DEF ExitMasters
<1>2. /\ phase = "exit" /\ phase' = "closed" /\ kills' \subseteq kills
      /\ entry' = [t \in Targets |-> "none"] /\ UNCHANGED <<next, job>>
  BY DEF ExitMasters
<1>3. Cardinality(deaf) \in Nat
  BY Zenon DEF Countable
<1>4. faults' \in Faults /\ faults'.slow >= faults.slow /\ faults.slow \in Nat
  <2>1. faults \in Faults
    BY DEF RemoteTypeOK
  <2> QED
    BY <1>1, <1>3, <2>1 DEF Faults
<1> DEFINE left == {t \in Targets : entry[t] = "unreachable"}
           cut == {h \in kills : up[TargetOf[h.j]] /\ ~up'[TargetOf[h.j]]}
<1>5. /\ seen' \in Seen /\ seen'.deaf = deaf /\ seen'.left = left /\ seen'.cut \subseteq kills
      /\ seen'.expired = seen.expired /\ seen'.contacted = seen.contacted
      /\ seen'.redialled = seen.redialled
  <2>1. /\ seen \in Seen /\ cut \subseteq kills /\ cut \subseteq Helpers
        /\ left \subseteq Targets /\ deaf \subseteq Targets
    BY DEF RemoteTypeOK
  <2>2. seen' = [seen EXCEPT !.deaf = deaf, !.left = left, !.cut = cut]
    BY <1>1
  <2> HIDE DEF left, cut
  <2> QED
    BY <2>1, <2>2, Zenon DEF Seen
<1>6. RemoteTypeOK'
  <2>1. up' \in [Targets -> BOOLEAN]
    BY <1>1 DEF RemoteTypeOK
  <2> QED
    BY <1>2, <1>4, <1>5, <2>1 DEF RemoteTypeOK
<1>7. StepsOK'
  <2> SUFFICES ASSUME NEW k \in Jobs
               PROVE  StepOK(job[k], up'[TargetOf[k]], faults'.slow)
    BY <1>2 DEF StepsOK
  <2>1. job[k].st = "ended" /\ StepOK(job[k], up[TargetOf[k]], faults.slow)
    BY <1>2 DEF LoopOnly, StepsOK
  <2>2. faults'.slow \in Nat
    BY <1>4 DEF Faults
  <2>3. faults.slow > 0 => faults'.slow > 0
    BY <1>4, <2>2
  <2>4. "ended" # "running"
    OBVIOUS
  <2> QED
    BY <2>1, <2>3, <2>4, ZenonT(30) DEF StepOK
<1>8. Entered'
  <2> SUFFICES ASSUME NEW t \in Targets, up'[t]
               PROVE  t \in deaf \cup left
    BY <1>2, <1>5 DEF Entered
  <2>1. up[t] /\ (~Closes(t) \/ t \in deaf)
    BY <1>1, Zenon
  <2>2. entry[t] \in {"known", "unreachable"}
    BY <1>2, <2>1 DEF Entered, RemoteTypeOK
  <2> QED
    BY <2>1, <2>2 DEF Closes
<1>9. LoopOnly' /\ Heard'
  BY <1>2, <1>5 DEF LoopOnly, Heard
<1>10. AsksNoMoreThanItShould'
  BY <1>5 DEF AsksNoMoreThanItShould
<1> QED
  BY <1>6, <1>7, <1>8, <1>9, <1>10, ZenonT(30)

\* Every step of the program, of the hosts and of the network preserves Inv.
LEMMA NextInv == Countable /\ Inv /\ [Next]_vars => Inv'
<1> SUFFICES ASSUME Countable, Inv, [Next]_vars PROVE Inv'
  OBVIOUS
<1>1. CASE Preconnect
  BY <1>1, PreconnectInv
<1>2. CASE ExitMasters
  BY <1>2, ExitMastersInv
<1>3. CASE \E j \in Jobs : SpawnStep(j)
  BY <1>3, SpawnStepInv
<1>4. CASE \E j \in Jobs : JobEnds(j) \/ CommandEnds(j) \/ ClientExits(j)
  BY <1>4, EndsInv
<1>5. CASE \E j \in Jobs : Stop(j)
  BY <1>5, StopInv
<1>6. CASE \E j \in Jobs : Reap(j)
  BY <1>6, ReapInv
<1>7. CASE \E t \in Targets : MasterDies(t)
  BY <1>7, MasterDiesInv
<1>8. CASE \/ StartLoop \/ EndLoop \/ WaitKills \/ KillWaitPasses \/ UNCHANGED vars
           \/ \E h \in kills : HelperDone(h)
  BY <1>8, QuietInv
<1> QED
  BY <1>1, <1>2, <1>3, <1>4, <1>5, <1>6, <1>7, <1>8 DEF Next, Closed

\* What Inv says of the end of the run and of lost connections.
LEMMA InvMeans == Inv => StopsAreHeard /\ MastersClosed /\ LostIsSaidSo
<1>1. Inv => StopsAreHeard
  BY DEF Inv, Heard, StopsAreHeard
<1>2. Inv => MastersClosed
  BY DEF Inv, Entered, MastersClosed
<1>3. Inv => LostIsSaidSo
  BY DEF Inv, StepsOK, StepOK, LostIsSaidSo
<1> QED
  BY <1>1, <1>2, <1>3, Zenon

-----------------------------------------------------------------------------
(* Output: any stream, any sizes of pipe, read and ring that OutputAssumption *)
(* allows                                                                     *)

\* A number is a multiple of M and a remainder.
LEMMA Remainder ==
  ASSUME NEW M \in Nat \ {0}, NEW x \in Nat
  PROVE  x % M \in 0..M - 1 /\ \E q \in Nat : x = M * q + (x % M)
<1>1. x \div M \in Nat /\ x = M * (x \div M) + (x % M)
  OBVIOUS
<1>2. x % M \in 0..M - 1
  OBVIOUS
<1> QED
  BY <1>1, <1>2, Zenon

\* The remainder is the only one.
LEMMA RemainderIs ==
  ASSUME NEW M \in Nat \ {0}, NEW x \in Nat, NEW q \in Int, NEW r \in 0..M - 1, x = M * q + r
  PROVE  x % M = r
<1> DEFINE s == x % M
<1>1. PICK p \in Nat : s \in 0..M - 1 /\ x = M * p + s
  BY Remainder, Zenon
<1> HIDE DEF s
<1>2. M * (q - p) = s - r /\ M * (p - q) = r - s
  BY <1>1
<1>3. ASSUME q - p >= 1
      PROVE  FALSE
  <2>1. M * (q - p) >= M
    BY <1>3
  <2> QED
    BY <1>1, <1>2, <2>1
<1>4. ASSUME p - q >= 1
      PROVE  FALSE
  <2>1. M * (p - q) >= M
    BY <1>4
  <2> QED
    BY <1>1, <1>2, <2>1
<1>5. q = p
  BY <1>3, <1>4
<1>6. s = r
  BY <1>1, <1>2, <1>5
<1> QED
  BY <1>6 DEF s

\* Positions may be reduced at any time.
LEMMA RemainderOfSum ==
  ASSUME NEW M \in Nat \ {0}, NEW a \in Nat, NEW b \in Nat
  PROVE  ((a % M) + b) % M = (a + b) % M
<1> DEFINE r == a % M
           t == (a + b) % M
<1>1. PICK p \in Nat : r \in 0..M - 1 /\ a = M * p + r
  BY Remainder, Zenon
<1>2. a + b \in Nat
  OBVIOUS
<1>3. PICK q \in Nat : t \in 0..M - 1 /\ a + b = M * q + t
  BY <1>2, Remainder, Zenon
<1> HIDE DEF r, t
<1>4. r + b \in Nat /\ q - p \in Int /\ t \in 0..M - 1 /\ r + b = M * (q - p) + t
  BY <1>1, <1>3
<1>5. (r + b) % M = t
  BY <1>4, RemainderIs, Zenon
<1> QED
  BY <1>5 DEF r, t

\* Below M a number is its own remainder, and stays it when M is added.
LEMMA SmallRemainder ==
  ASSUME NEW M \in Nat \ {0}, NEW r \in 0..M - 1
  PROVE  r % M = r /\ (r + M) % M = r
<1>1. r \in Nat /\ r + M \in Nat /\ r = M * 0 + r /\ r + M = M * 1 + r /\ 0 \in Int /\ 1 \in Int
  OBVIOUS
<1> QED
  BY <1>1, RemainderIs, Zenon

-----------------------------------------------------------------------------
\* The ring between two writes: empty, its head anywhere, nothing dropped.
Rings == [buf : [0..RingCap - 1 -> Bytes], head : 0..RingCap - 1, len : {0}, dropped : {0}]

\* The place in a ring that is k after the head is found again from the head.
LEMMA RingPlace ==
  ASSUME NEW C \in Nat \ {0}, NEW h \in 0..C - 1, NEW k \in 0..C - 1
  PROVE  /\ (h + k) % C \in 0..C - 1
         /\ (((h + k) % C) + C - h) % C = k
<1>1. CASE h + k < C
  <2>1. (h + k) % C = h + k
    BY <1>1, SmallRemainder
  <2>2. (k + C) % C = k
    BY SmallRemainder
  <2>3. h + k + C - h = k + C
    OBVIOUS
  <2> QED
    BY <1>1, <2>1, <2>2, <2>3
<1>2. CASE h + k >= C
  <2>1. h + k - C \in 0..C - 1 /\ h + k - C + C = h + k /\ h + k - C + C - h = k
    BY <1>2
  <2>2. (h + k) % C = h + k - C
    BY <2>1, SmallRemainder
  <2>3. k % C = k
    BY SmallRemainder
  <2> QED
    BY <2>1, <2>2, <2>3
<1> QED
  BY <1>1, <1>2

\* An empty ring gives back what is written into it, wherever its head stands.
LEMMA RingPasses ==
  ASSUME NEW r \in Rings, NEW data \in Seq(Bytes), Len(data) <= RingCap
  PROVE  /\ RingContents(RingWrite(r, data)) = data
         /\ RingEmptied(RingWrite(r, data)) \in Rings
<1> DEFINE n == Len(data)
           C == RingCap
           h == r.head
           off(i) == (i + C - h) % C
           full == RingWrite(r, data)
           buf == [i \in 0..C - 1 |-> IF off(i) < n THEN data[off(i) + 1] ELSE r.buf[i]]
<1>1. /\ C \in Nat \ {0} /\ h \in 0..C - 1 /\ r.len = 0 /\ r.dropped = 0
      /\ r.buf \in [0..C - 1 -> Bytes] /\ n \in 0..C
  BY OutputAssumption DEF Rings
<1>2. /\ Lesser(n, C) = n /\ SubSeq(data, n - n + 1, n) = data /\ ~(r.len + n > C)
      /\ (h + 0) % C = h /\ (h + (r.len - 0)) % C = h /\ r.len - 0 + n = n
      /\ r.dropped + (n - n) + 0 = 0
  <2>1. SubSeq(data, n - n + 1, n) = data
    OBVIOUS
  <2>2. h % C = h
    BY <1>1, SmallRemainder, Zenon
  <2> HIDE DEF n, h, C
  <2>3. /\ Lesser(n, C) = n /\ ~(r.len + n > C) /\ r.len - 0 + n = n
        /\ r.dropped + (n - n) + 0 = 0
    BY <1>1 DEF Lesser
  <2>4. h + 0 = h /\ h + (r.len - 0) = h
    BY <1>1
  <2> QED
    BY <2>1, <2>2, <2>3, <2>4, Zenon
<1>3. full = [buf |-> buf, head |-> h, len |-> n, dropped |-> 0]
  BY <1>1, <1>2, Zenon DEF RingWrite
<1>4. ASSUME NEW i \in 0..C - 1
      PROVE  off(i) \in 0..C - 1
  <2>1. i + C - h \in Nat
    BY <1>1
  <2> QED
    BY <1>1, <2>1, Remainder, Zenon
<1>5. buf \in [0..C - 1 -> Bytes]
  <2> SUFFICES ASSUME NEW i \in 0..C - 1
               PROVE  (IF off(i) < n THEN data[off(i) + 1] ELSE r.buf[i]) \in Bytes
    BY Zenon
  <2>1. off(i) \in 0..C - 1
    BY <1>4, Zenon
  <2> HIDE DEF off
  <2>2. off(i) < n => data[off(i) + 1] \in Bytes
    BY <2>1
  <2> QED
    BY <1>1, <2>2
<1>6. \A i \in 1..n : buf[(h + i - 1) % C] = data[i]
  <2> SUFFICES ASSUME NEW i \in 1..n
               PROVE  buf[(h + i - 1) % C] = data[i]
    OBVIOUS
  <2>1. i - 1 \in 0..C - 1 /\ h + i - 1 = h + (i - 1) /\ i - 1 < n /\ i - 1 + 1 = i
    BY <1>1
  <2>2. (h + i - 1) % C \in 0..C - 1 /\ off((h + i - 1) % C) = i - 1
    BY <1>1, <2>1, RingPlace, Zenon
  <2> QED
    BY <2>1, <2>2
<1> HIDE DEF buf, full
<1>7. RingContents(full) = data
  BY <1>1, <1>3, <1>6 DEF RingContents
<1>8. (h + n) % C \in 0..C - 1
  <2>1. h + n \in Nat
    BY <1>1
  <2> QED
    BY <1>1, <2>1, Remainder, Zenon
<1>9. /\ full \in [buf : [0..C - 1 -> Bytes], head : 0..C - 1, len : Nat, dropped : {0}]
      /\ full.head = h /\ full.len = n
  BY <1>1, <1>3, <1>5
<1>10. RingEmptied(full) \in Rings
  <2> DEFINE x == (full.head + full.len) % C
  <2>1. x \in 0..C - 1
    BY <1>8, <1>9, Zenon
  <2>2. RingEmptied(full) = [full EXCEPT !.head = x, !.len = 0]
    BY Zenon DEF RingEmptied
  <2> HIDE DEF x
  <2> QED
    BY <1>9, <2>1, <2>2, Zenon DEF Rings
<1> QED
  BY <1>7, <1>10 DEF full

-----------------------------------------------------------------------------
\* Nothing is added.
LEMMA PlusZero == \A x \in Nat : x + 0 = x
  OBVIOUS

\* Positions are numbers below the modulus.
LEMMA ModType == Mod \in Nat \ {0} /\ Bytes = 0..Mod - 1 /\ 0 \in Bytes
  BY OutputAssumption DEF Bytes

\* A piece of the stream follows on what was before it ...
LEMMA FollowsPiece ==
  ASSUME NEW from \in Nat, NEW S, NEW s \in Seq(S), Follows(from, s),
         NEW a \in 0..Len(s), NEW b \in a..Len(s)
  PROVE  /\ SubSeq(s, a + 1, b) \in Seq(S) /\ Len(SubSeq(s, a + 1, b)) = b - a
         /\ Follows(from + a, SubSeq(s, a + 1, b))
<1> DEFINE q == SubSeq(s, a + 1, b)
<1>1. /\ q \in Seq(S) /\ Len(q) = b - a
      /\ \A i \in 1..(b - a) : q[i] = s[a + i]
  OBVIOUS
<1> HIDE DEF q
<1>2. ASSUME NEW i \in 1..(b - a)
      PROVE  q[i] = (from + a + i - 1) % Mod
  <2>1. a + i \in 1..Len(s) /\ from + (a + i) - 1 = from + a + i - 1
    OBVIOUS
  <2>2. s[a + i] = (from + (a + i) - 1) % Mod
    BY <2>1, Zenon DEF Follows
  <2> QED
    BY <1>1, <2>1, <2>2, Zenon
<1>3. Follows(from + a, q)
  BY <1>1, <1>2, Zenon DEF Follows
<1> QED
  BY <1>1, <1>3, Zenon DEF q

\* ... two such pieces make one ...
LEMMA FollowsOn ==
  ASSUME NEW from \in Nat, NEW S, NEW s \in Seq(S), NEW t \in Seq(S), Follows(from, s),
         Follows(from + Len(s), t)
  PROVE  s \o t \in Seq(S) /\ Len(s \o t) = Len(s) + Len(t) /\ Follows(from, s \o t)
<1> DEFINE q == s \o t
<1>1. /\ q \in Seq(S) /\ Len(q) = Len(s) + Len(t)
      /\ \A i \in 1..Len(s) : q[i] = s[i]
      /\ \A i \in 1..Len(t) : q[Len(s) + i] = t[i]
  OBVIOUS
<1> HIDE DEF q
<1>2. ASSUME NEW i \in 1..(Len(s) + Len(t))
      PROVE  q[i] = (from + i - 1) % Mod
  <2>1. CASE i \in 1..Len(s)
    BY <1>1, <2>1, Zenon DEF Follows
  <2>2. CASE i \notin 1..Len(s)
    <3>1. PICK k \in 1..Len(t) : i = Len(s) + k
      <4>1. i - Len(s) \in 1..Len(t) /\ i = Len(s) + (i - Len(s))
        BY <2>2
      <4> QED
        BY <4>1, Zenon
    <3>2. t[k] = (from + Len(s) + k - 1) % Mod
      BY Zenon DEF Follows
    <3>3. from + Len(s) + k - 1 = from + i - 1
      BY <3>1
    <3> QED
      BY <1>1, <3>1, <3>2, <3>3, Zenon
  <2> QED
    BY <2>1, <2>2, Zenon
<1>3. Follows(from, q)
  BY <1>1, <1>2, Zenon DEF Follows
<1> QED
  BY <1>1, <1>3, Zenon DEF q

\* ... and a position may be reduced.
LEMMA FollowsReduced ==
  ASSUME NEW from \in Nat, NEW s, Len(s) \in Nat, NEW a \in Nat
  PROVE  Follows(from + a, s) <=> Follows((from % Mod) + a, s)
<1>1. ASSUME NEW i \in 1..Len(s)
      PROVE  ((from % Mod) + a + i - 1) % Mod = (from + a + i - 1) % Mod
  <2>1. from % Mod \in Nat /\ a + i - 1 \in Nat
    <3>1. from % Mod \in 0..Mod - 1
      BY ModType, Remainder, Zenon
    <3> QED
      BY <3>1, ModType
  <2>2. ((from % Mod) + (a + i - 1)) % Mod = (from + (a + i - 1)) % Mod
    BY <2>1, ModType, RemainderOfSum, Zenon
  <2>3. from + (a + i - 1) = from + a + i - 1
    OBVIOUS
  <2> DEFINE r == from % Mod
  <2>4. r + (a + i - 1) = r + a + i - 1
    <3> HIDE DEF r
    <3> QED
      BY <2>1 DEF r
  <2> QED
    BY <2>2, <2>3, <2>4, Zenon
<1> QED
  BY <1>1, Zenon DEF Follows

-----------------------------------------------------------------------------
INSTANCE WellFoundedInduction

\* Of some places one comes last.
LEMMA LastPlace ==
  ASSUME NEW n \in Nat, NEW E \in SUBSET (1..n), E # {}
  PROVE  \E m \in E : \A k \in E : k <= m
<1> DEFINE D == {n - k : k \in E}
<1>1. E \subseteq Int /\ \A k \in E : n - k \in Nat
  OBVIOUS
<1>2. D \subseteq Nat /\ D # {}
  BY <1>1, Zenon
<1>3. \E x \in D : \A y \in D : ~(<<y, x>> \in OpToRel(<, Nat))
  BY <1>2, NatLessThanWellFounded, WFMin, Zenon
<1>4. \E x \in D : \A y \in D : ~(y < x)
  BY <1>2, <1>3, Zenon DEF OpToRel
<1>5. PICK m \in E : \A k \in E : ~(n - k < n - m)
  BY <1>4, Zenon
<1> QED
  BY <1>1, <1>5

\* The sink takes what follows: the log in order, the terminal up to the last
\* newline, and the rest is the unfinished line.
LEMMA SinkTakes ==
  ASSUME NEW data \in Seq(Bytes), SinkWrite(data), Follows(logged, data), inOrder,
         line \in Seq(Bytes \ Newlines), shown \in Bytes,
         logged = (shown + Len(line)) % Mod
  PROVE  /\ inOrder' = TRUE
         /\ logged' = (logged + Len(data)) % Mod
         /\ line' \in Seq(Bytes \ Newlines) /\ shown' \in Bytes
         /\ logged' = (shown' + Len(line')) % Mod
<1> DEFINE text == line \o data
           ends == {i \in 1..Len(text) : text[i] \in Newlines}
           last == IF ends = {} THEN 0 ELSE CHOOSE i \in ends : \A k \in ends : k <= i
<1>1. /\ inOrder' = (inOrder /\ Follows(logged, data))
      /\ logged' = (logged + Len(data)) % Mod
      /\ shown' = (shown + last) % Mod
      /\ line' = SubSeq(text, last + 1, Len(text))
  BY Zenon DEF SinkWrite
<1>2. text \in Seq(Bytes) /\ Len(text) = Len(line) + Len(data)
  OBVIOUS
<1>3. Len(line) \in Nat /\ Len(data) \in Nat /\ Len(text) \in Nat
  BY <1>2
<1> HIDE DEF text
<1>4. last \in 0..Len(text) /\ \A i \in 1..Len(text) : i > last => text[i] \notin Newlines
  <2>1. CASE ends = {}
    <3>1. last = 0
      BY <2>1, Zenon
    <3> QED
      BY <1>3, <2>1, <3>1
  <2>2. CASE ends # {}
    <3>1. last \in ends /\ \A k \in ends : k <= last
      <4>1. ends \in SUBSET (1..Len(text))
        BY Zenon
      <4>2. \E m \in ends : \A k \in ends : k <= m
        BY <1>3, <2>2, <4>1, LastPlace, Zenon
      <4> QED
        BY <2>2, <4>2, Zenon
    <3> HIDE DEF last
    <3> QED
      BY <1>3, <3>1
  <2> QED
    BY <2>1, <2>2, Zenon
<1> HIDE DEF last, ends
<1>5. line' \in Seq(Bytes \ Newlines) /\ Len(line') = Len(text) - last
  <2>1. /\ line' \in Seq(Bytes) /\ Len(line') = Len(text) - last
        /\ \A i \in 1..(Len(text) - last) : line'[i] = text[last + i]
    BY <1>1, <1>2, <1>3, <1>4
  <2>2. \A i \in 1..Len(line') : line'[i] \in Bytes \ Newlines
    <3> SUFFICES ASSUME NEW i \in 1..(Len(text) - last)
                 PROVE  line'[i] \in Bytes \ Newlines
      BY <2>1, Zenon
    <3>1. last + i \in 1..Len(text) /\ last + i > last
      BY <1>3, <1>4
    <3>2. text[last + i] \in Bytes
      BY <1>2, <3>1
    <3> QED
      BY <1>4, <2>1, <3>1, <3>2, Zenon
  <2> QED
    BY <2>1, <2>2
<1>6. shown \in Nat /\ shown + last \in Nat /\ Len(line') \in Nat /\ shown + Len(line) \in Nat
  <2>1. shown \in Nat
    BY ModType
  <2>2. Len(line') \in Nat
    BY <1>3, <1>4, <1>5
  <2> QED
    BY <1>3, <1>4, <2>1, <2>2
<1>7. (shown' + Len(line')) % Mod = (shown + last + Len(line')) % Mod
  BY <1>1, <1>6, ModType, RemainderOfSum, Zenon
<1>8. (logged + Len(data)) % Mod = (shown + Len(line) + Len(data)) % Mod
  BY <1>3, <1>6, ModType, RemainderOfSum, Zenon
<1>9. shown + last + Len(line') = shown + Len(line) + Len(data)
  BY <1>2, <1>3, <1>4, <1>5, <1>6
<1>10. shown' \in Bytes
  BY <1>1, <1>6, ModType, Remainder, Zenon
<1> QED
  BY <1>1, <1>5, <1>7, <1>8, <1>9, <1>10, Zenon

-----------------------------------------------------------------------------
\* Log, held bytes and pipe are one stream, and the terminal lags by its line.
StreamInv ==
  /\ inOrder
  /\ Follows(logged, heldBack) /\ Follows(logged + Len(heldBack), pipe)
  /\ wrote = (logged + Len(heldBack) + Len(pipe)) % Mod
  /\ logged = (shown + Len(line)) % Mod

\* What the loop knows of the step where it stands.
EndInv ==
  /\ closed => heldBack = <<>> /\ line = <<>> /\ Len(pipe) <= late
  /\ pc \in {"drain", "finish", "close"} => ~closed
  /\ "child" \in batch => ~closed /\ gone
  /\ pc \in {"finish", "close"} => gone /\ "child" \notin batch
  /\ pc = "close" => Len(pipe) <= late

\* The inductive invariant of Output.
OutputInv == TypeOK /\ ring \in Rings /\ StreamInv /\ EndInv

\* Before the step has written anything.
LEMMA InitOutput == OutputInit => OutputInv
<1> SUFFICES ASSUME OutputInit
             PROVE  OutputInv
  BY Zenon
<1>1. RingCap \in Nat \ {0} /\ PipeCap \in Nat /\ MaxHeld \in Nat /\ 0 % Mod = 0
  <2>1. 0 % Mod = 0
    <3>1. 0 \in 0..Mod - 1
      BY ModType
    <3> QED
      BY <3>1, ModType, SmallRemainder, Zenon
  <2> QED
    BY <2>1, OutputAssumption
<1>2. ring \in Rings
  BY <1>1, ModType DEF OutputInit, NewRing, Rings
<1>3. TypeOK
  <2>1. /\ ring.head \in 0..RingCap - 1 /\ ring.len = 0 /\ {wrote, logged, shown} \subseteq Bytes
    BY <1>2, ModType DEF Rings, OutputInit
  <2>2. /\ <<>> \in Seq(Bytes) /\ <<>> \in Seq(Bytes \ Newlines) /\ Len(<<>>) <= PipeCap
        /\ Len(<<>>) <= MaxHeld /\ 0 \in 0..Len(<<>>)
    BY <1>1
  <2> QED
    BY <2>1, <2>2, Zenon DEF OutputInit, TypeOK
<1>4. StreamInv
  BY <1>1 DEF OutputInit, StreamInv, Follows
<1>5. EndInv
  BY DEF OutputInit, EndInv
<1> QED
  BY <1>2, <1>3, <1>4, <1>5, Zenon DEF OutputInv

\* Lengths and positions are numbers.
LEMMA OutputNumbers ==
  ASSUME TypeOK
  PROVE  /\ logged \in Nat /\ shown \in Nat /\ wrote \in Nat /\ late \in Nat
         /\ Len(heldBack) \in Nat /\ Len(pipe) \in Nat /\ Len(line) \in Nat
         /\ Len(heldBack) <= MaxHeld /\ Len(pipe) <= PipeCap
         /\ heldBack \in Seq(Bytes) /\ pipe \in Seq(Bytes)
<1>1. {wrote, logged, shown} \subseteq 0..Mod - 1
  BY ModType, Zenon DEF TypeOK
<1>2. logged \in Nat /\ shown \in Nat /\ wrote \in Nat
  BY <1>1, ModType
<1> QED
  BY <1>2 DEF TypeOK

\* A byte is written: it comes next in the stream.
LEMMA WriteInv ==
  ASSUME OutputInv, Write
  PROVE  OutputInv'
<1>1. TypeOK /\ ring \in Rings /\ StreamInv /\ EndInv
  BY Zenon DEF OutputInv
<1>2. /\ Len(pipe) < PipeCap /\ ~closed
      /\ pipe' = Append(pipe, wrote) /\ wrote' = (wrote + 1) % Mod
      /\ late' = (IF gone THEN late + 1 ELSE 0)
      /\ UNCHANGED <<writers, gone, pc, closed, batch, watched, timer, heldBack, ring>>
      /\ UNCHANGED <<logged, inOrder, line, shown>>
  BY Zenon DEF Write, sink
<1>3. /\ Len(pipe') = Len(pipe) + 1 /\ pipe'[Len(pipe) + 1] = wrote
      /\ \A i \in 1..Len(pipe) : pipe'[i] = pipe[i]
      /\ pipe' \in Seq(Bytes)
  <2>1. pipe \in Seq(Bytes) /\ wrote \in Bytes
    BY <1>1, Zenon DEF TypeOK
  <2> QED
    BY <1>2, <2>1
<1>4. wrote' = (logged + Len(heldBack) + (Len(pipe) + 1)) % Mod
  <2>1. logged + Len(heldBack) + Len(pipe) \in Nat /\ 1 \in Nat
    BY <1>1, OutputNumbers
  <2>2. wrote' = (logged + Len(heldBack) + Len(pipe) + 1) % Mod
    BY <1>1, <1>2, <2>1, ModType, RemainderOfSum, Zenon DEF StreamInv
  <2>3. logged + Len(heldBack) + Len(pipe) + 1 = logged + Len(heldBack) + (Len(pipe) + 1)
    BY <1>1, OutputNumbers
  <2> QED
    BY <2>2, <2>3, Zenon
<1>5. wrote' \in Bytes
  <2>1. wrote + 1 \in Nat
    BY <1>1, OutputNumbers
  <2> QED
    BY <1>2, <2>1, ModType, Remainder, Zenon
<1>6. Follows(logged + Len(heldBack), pipe')
  <2> SUFFICES ASSUME NEW i \in 1..(Len(pipe) + 1)
               PROVE  pipe'[i] = (logged + Len(heldBack) + i - 1) % Mod
    BY <1>3, Zenon DEF Follows
  <2>1. CASE i \in 1..Len(pipe)
    BY <1>1, <1>3, <2>1, Zenon DEF StreamInv, Follows
  <2>2. CASE i = Len(pipe) + 1
    <3>1. logged + Len(heldBack) + i - 1 = logged + Len(heldBack) + Len(pipe)
      BY <1>1, <2>2, OutputNumbers
    <3> QED
      BY <1>1, <1>3, <2>2, <3>1, Zenon DEF StreamInv
  <2> QED
    BY <1>1, <2>1, <2>2, OutputNumbers
<1>7. StreamInv'
  <2>1. /\ inOrder' /\ Follows(logged', heldBack') /\ Follows(logged' + Len(heldBack'), pipe')
    BY <1>1, <1>2, <1>6, Zenon DEF StreamInv
  <2>2. /\ wrote' = (logged' + Len(heldBack') + Len(pipe')) % Mod
        /\ logged' = (shown' + Len(line')) % Mod
    BY <1>1, <1>2, <1>3, <1>4, Zenon DEF StreamInv
  <2>3. (Follows(logged, heldBack))' /\ (Follows(logged + Len(heldBack), pipe))'
    BY <2>1, Zenon DEF Follows
  <2> QED
    BY <2>1, <2>2, <2>3, Zenon DEF StreamInv
<1>8. late' \in 0..Len(pipe') /\ Len(pipe') <= PipeCap /\ (gone => late' = late + 1)
  <2>1. late \in 0..Len(pipe) /\ Len(pipe) \in Nat
    BY <1>1, OutputNumbers, Zenon DEF TypeOK
  <2> QED
    BY <1>2, <1>3, <2>1, OutputAssumption
<1>9. TypeOK'
  BY <1>1, <1>2, <1>3, <1>5, <1>8, Zenon DEF TypeOK
<1>10. EndInv'
  <2>1. pc = "close" => Len(pipe') <= late'
    BY <1>1, <1>3, <1>8, OutputNumbers DEF EndInv
  <2> QED
    BY <1>1, <1>2, <2>1, Zenon DEF EndInv
<1>11. (ring \in Rings)'
  BY <1>1, <1>2, Zenon DEF Rings, Bytes
<1> QED
  BY <1>7, <1>9, <1>10, <1>11, Zenon DEF OutputInv

\* What is emitted goes through the ring to the sink.
LEMMA EmitTakes ==
  ASSUME TypeOK, ring \in Rings, StreamInv, NEW data \in Seq(Bytes), Len(data) <= RingCap,
         Follows(logged, data), Emit(data)
  PROVE  /\ ring' \in Rings /\ inOrder' = TRUE
         /\ logged' = (logged + Len(data)) % Mod
         /\ line' \in Seq(Bytes \ Newlines) /\ shown' \in Bytes
         /\ logged' = (shown' + Len(line')) % Mod
<1>1. ring' = RingEmptied(RingWrite(ring, data)) /\ SinkWrite(RingContents(RingWrite(ring, data)))
  BY Zenon DEF Emit
<1>2. ring' \in Rings /\ SinkWrite(data)
  BY <1>1, RingPasses, Zenon
<1>3. /\ inOrder /\ line \in Seq(Bytes \ Newlines) /\ shown \in Bytes
      /\ logged = (shown + Len(line)) % Mod
  BY Zenon DEF TypeOK, StreamInv
<1> QED
  BY <1>2, <1>3, SinkTakes, Zenon

\* One turn of the drain loop: what is read, passed on and held back is the
\* stream, in this order.
LEMMA ReadChunkInv ==
  ASSUME OutputInv, ReadChunk
  PROVE  OutputInv'
<1> DEFINE n == Lesser(Len(pipe), Chunk)
           bytes == heldBack \o SubSeq(pipe, 1, n)
<1>1. TypeOK /\ ring \in Rings /\ StreamInv /\ EndInv
  BY Zenon DEF OutputInv
<1>2. PICK keep \in 0..Lesser(MaxHeld, Len(bytes)) :
        /\ heldBack' = SubSeq(bytes, Len(bytes) - keep + 1, Len(bytes))
        /\ IF keep < Len(bytes)
           THEN Emit(SubSeq(bytes, 1, Len(bytes) - keep))
           ELSE UNCHANGED <<ring, sink>>
  BY Zenon DEF ReadChunk
<1>3. /\ pc \in {"drain", "finish"} /\ pipe # <<>>
      /\ pipe' = SubSeq(pipe, n + 1, Len(pipe)) /\ late' = Lesser(late, Len(pipe) - n)
      /\ UNCHANGED <<wrote, writers, gone, pc, closed, batch, watched, timer>>
  BY Zenon DEF ReadChunk
<1>4. n \in 1..Len(pipe) /\ n <= Chunk
  <2>1. pipe \in Seq(Bytes) /\ pipe # <<>>
    BY <1>1, <1>3, OutputNumbers, Zenon
  <2> QED
    BY <2>1, OutputAssumption DEF Lesser
<1> HIDE DEF n
<1> DEFINE first == SubSeq(pipe, 1, n)
           at == logged + Len(heldBack)
<1>5. /\ first \in Seq(Bytes) /\ Len(first) = n /\ Follows(at, first)
      /\ pipe' \in Seq(Bytes) /\ Len(pipe') = Len(pipe) - n /\ Follows(at + n, pipe')
  <2>1. at \in Nat /\ pipe \in Seq(Bytes) /\ Follows(at, pipe)
    <3>1. at \in Nat
      BY <1>1, OutputNumbers
    <3> QED
      BY <1>1, <3>1, OutputNumbers, Zenon DEF StreamInv
  <2> HIDE DEF at
  <2>2. 0 \in 0..Len(pipe) /\ n \in 0..Len(pipe) /\ Len(pipe) \in n..Len(pipe)
    BY <1>4
  <2>3. 0 + 1 = 1 /\ n - 0 = n /\ at + 0 = at
    BY <1>4, <2>1
  <2>4. /\ SubSeq(pipe, 0 + 1, n) \in Seq(Bytes) /\ Len(SubSeq(pipe, 0 + 1, n)) = n - 0
        /\ Follows(at + 0, SubSeq(pipe, 0 + 1, n))
    BY <2>1, <2>2, FollowsPiece, Zenon
  <2> DEFINE after == SubSeq(pipe, n + 1, Len(pipe))
  <2>5. after \in Seq(Bytes) /\ Len(after) = Len(pipe) - n /\ Follows(at + n, after)
    BY <2>1, <2>2, FollowsPiece, Zenon
  <2>6. pipe' = after
    BY <1>3, Zenon
  <2> HIDE DEF after
  <2> QED
    BY <2>3, <2>4, <2>5, <2>6, Zenon
<1>6. bytes \in Seq(Bytes) /\ Len(bytes) = Len(heldBack) + n /\ Follows(logged, bytes)
  <2>1. logged \in Nat /\ heldBack \in Seq(Bytes) /\ Follows(logged, heldBack)
    BY <1>1, OutputNumbers, Zenon DEF StreamInv
  <2>2. first \in Seq(Bytes) /\ Len(first) = n /\ Follows(logged + Len(heldBack), first)
    BY <1>5, Zenon
  <2> HIDE DEF first
  <2>3. /\ heldBack \o first \in Seq(Bytes) /\ Len(heldBack \o first) = Len(heldBack) + Len(first)
        /\ Follows(logged, heldBack \o first)
    BY <2>1, <2>2, FollowsOn, Zenon
  <2> QED
    BY <2>2, <2>3, Zenon DEF first
<1> HIDE DEF bytes, first
<1> DEFINE k == Len(bytes) - keep
           data == SubSeq(bytes, 1, k)
<1>7. /\ Len(bytes) \in Nat /\ keep \in Nat /\ k \in 0..Len(bytes) /\ keep <= MaxHeld
      /\ k <= RingCap /\ Len(bytes) - k = keep
  <2>1. Len(heldBack) \in Nat /\ Len(heldBack) <= MaxHeld
    BY <1>1, OutputNumbers, Zenon
  <2> QED
    BY <1>2, <1>4, <1>6, <2>1, OutputAssumption DEF Lesser
<1>8. /\ data \in Seq(Bytes) /\ Len(data) = k /\ Follows(logged, data)
      /\ heldBack' \in Seq(Bytes) /\ Len(heldBack') = keep /\ Follows(logged + k, heldBack')
  <2>1. logged \in Nat
    BY <1>1, OutputNumbers, Zenon
  <2>2. 0 \in 0..Len(bytes) /\ k \in 0..Len(bytes) /\ Len(bytes) \in k..Len(bytes)
    BY <1>7
  <2>3. 0 + 1 = 1 /\ k - 0 = k /\ logged + 0 = logged
    BY <1>7, <2>1
  <2>4. heldBack' = SubSeq(bytes, k + 1, Len(bytes))
    BY <1>2, Zenon
  <2> HIDE DEF k
  <2>5. /\ SubSeq(bytes, 0 + 1, k) \in Seq(Bytes) /\ Len(SubSeq(bytes, 0 + 1, k)) = k - 0
        /\ Follows(logged + 0, SubSeq(bytes, 0 + 1, k))
    BY <1>6, <2>1, <2>2, FollowsPiece, Zenon
  <2>6. /\ heldBack' \in Seq(Bytes) /\ Len(heldBack') = Len(bytes) - k
        /\ Follows(logged + k, heldBack')
    <3> DEFINE q == SubSeq(bytes, k + 1, Len(bytes))
    <3>1. q \in Seq(Bytes) /\ Len(q) = Len(bytes) - k /\ Follows(logged + k, q)
      BY <1>6, <2>1, <2>2, FollowsPiece, Zenon
    <3> HIDE DEF q
    <3> QED
      BY <2>4, <3>1, Zenon DEF q
  <2> QED
    BY <1>7, <2>3, <2>5, <2>6, Zenon
<1> HIDE DEF data
<1>9. /\ ring' \in Rings /\ inOrder' = TRUE /\ logged' = (logged + k) % Mod
      /\ line' \in Seq(Bytes \ Newlines) /\ shown' \in Bytes
      /\ logged' = (shown' + Len(line')) % Mod
  <2>1. CASE keep < Len(bytes)
    <3>1. Emit(data) /\ Len(data) <= RingCap
      BY <1>2, <1>7, <1>8, <2>1, Zenon DEF data
    <3> QED
      BY <1>1, <1>8, <3>1, EmitTakes, Zenon
  <2>2. CASE ~(keep < Len(bytes))
    <3>1. UNCHANGED <<ring, logged, inOrder, line, shown>>
      BY <1>2, <2>2, Zenon DEF sink
    <3>2. k = 0 /\ logged + 0 = logged
      BY <1>1, <1>7, <2>2, OutputNumbers
    <3>3. logged % Mod = logged
      BY <1>1, ModType, SmallRemainder, Zenon DEF TypeOK
    <3>4. inOrder' = TRUE
      BY <1>1, <3>1, Zenon DEF StreamInv
    <3> HIDE DEF k
    <3> QED
      BY <1>1, <3>1, <3>2, <3>3, <3>4, Zenon DEF TypeOK, StreamInv
  <2> QED
    BY <2>1, <2>2, Zenon
<1>10. /\ logged + k \in Nat /\ logged + k + 0 = logged + k
       /\ logged + k + keep = at + n /\ keep \in Nat
       /\ Len(pipe) - n \in Nat /\ keep + (Len(pipe) - n) \in Nat
       /\ logged + k + (keep + (Len(pipe) - n)) = logged + Len(heldBack) + Len(pipe)
  <2>1. logged \in Nat /\ Len(heldBack) \in Nat /\ Len(pipe) \in Nat
    BY <1>1, OutputNumbers, Zenon
  <2>2. k = Len(bytes) - keep /\ Len(bytes) = Len(heldBack) + n /\ keep \in Nat
    BY <1>6, <1>7, Zenon
  <2>3. k \in Nat
    <3> HIDE DEF k
    <3> QED
      BY <1>7
  <2> HIDE DEF k
  <2> QED
    BY <1>4, <2>1, <2>2, <2>3
<1>11. logged' \in Bytes /\ logged' \in Nat
  <2>1. logged' \in Bytes
    BY <1>9, <1>10, ModType, Remainder, Zenon
  <2> QED
    BY <2>1, ModType
<1> HIDE DEF k, at
<1>12. Follows(logged', heldBack') /\ Follows(logged' + keep, pipe')
  <2>1. Len(heldBack') \in Nat /\ Len(pipe') \in Nat /\ 0 \in Nat /\ logged' + 0 = logged'
    <3>1. logged' + 0 = logged'
      BY <1>11, PlusZero, Zenon
    <3> QED
      BY <1>5, <1>8, <1>10, <3>1, Zenon
  <2>2. Follows(logged + k + 0, heldBack') <=> Follows(((logged + k) % Mod) + 0, heldBack')
    BY <1>10, <2>1, FollowsReduced, Zenon
  <2>3. Follows(logged + k + keep, pipe') <=> Follows(((logged + k) % Mod) + keep, pipe')
    BY <1>10, <2>1, FollowsReduced, Zenon
  <2> QED
    BY <1>5, <1>8, <1>9, <1>10, <2>1, <2>2, <2>3, Zenon
<1>13. wrote' = (logged' + Len(heldBack') + Len(pipe')) % Mod
  <2>1. (logged' + (keep + (Len(pipe) - n))) % Mod = (logged + Len(heldBack) + Len(pipe)) % Mod
    <3>1. (((logged + k) % Mod) + (keep + (Len(pipe) - n))) % Mod
            = (logged + k + (keep + (Len(pipe) - n))) % Mod
      BY <1>10, ModType, RemainderOfSum, Zenon
    <3> QED
      BY <1>9, <1>10, <3>1, Zenon
  <2>2. logged' + (keep + (Len(pipe) - n)) = logged' + Len(heldBack') + Len(pipe')
    <3>1. logged' + (keep + (Len(pipe) - n)) = logged' + keep + (Len(pipe) - n)
      <4>1. logged' \in Nat /\ keep \in Nat /\ Len(pipe) - n \in Nat
        BY <1>10, <1>11, Zenon
      <4>2. \A a, b, c \in Nat : a + (b + c) = a + b + c
        OBVIOUS
      <4> QED
        BY <4>1, <4>2, Zenon
    <3>2. Len(heldBack') = keep /\ Len(pipe') = Len(pipe) - n
      BY <1>5, <1>8, Zenon
    <3> QED
      BY <3>1, <3>2, Zenon
  <2> QED
    BY <1>1, <1>3, <2>1, <2>2, Zenon DEF StreamInv
<1>14. StreamInv'
  <2>1. (Follows(logged, heldBack))' /\ (Follows(logged + Len(heldBack), pipe))'
    BY <1>8, <1>12, Zenon DEF Follows
  <2> QED
    BY <1>9, <1>13, <2>1, Zenon DEF StreamInv
<1>15. late' \in 0..Len(pipe') /\ Len(pipe') <= PipeCap /\ Len(heldBack') <= MaxHeld
  <2>1. late \in 0..Len(pipe) /\ Len(pipe) \in Nat /\ Len(pipe) <= PipeCap
    BY <1>1, OutputNumbers, Zenon DEF TypeOK
  <2> QED
    BY <1>3, <1>4, <1>5, <1>7, <1>8, <2>1, OutputAssumption DEF Lesser
<1>16. TypeOK'
  <2>1. {wrote', logged', shown'} \subseteq Bytes /\ inOrder' \in BOOLEAN
    BY <1>1, <1>3, <1>9, <1>11, Zenon DEF TypeOK
  <2>2. ring'.head \in 0..RingCap - 1 /\ ring'.len = 0
    BY <1>9 DEF Rings
  <2> QED
    BY <1>1, <1>3, <1>5, <1>8, <1>9, <1>15, <2>1, <2>2, Zenon DEF TypeOK
<1>17. EndInv'
  BY <1>1, <1>3, Zenon DEF EndInv
<1>18. (ring \in Rings)'
  BY <1>9, Zenon DEF Rings, Bytes
<1> QED
  BY <1>14, <1>16, <1>17, <1>18, Zenon DEF OutputInv

\* step_finish closes the step: what was held back goes out, and the rest of
\* the unfinished line.
LEMMA FinishEndsInv ==
  ASSUME OutputInv, FinishEnds
  PROVE  OutputInv'
<1> DEFINE full == RingWrite(ring, heldBack)
           passed == RingContents(full)
<1>1. TypeOK /\ ring \in Rings /\ StreamInv /\ EndInv
  BY Zenon DEF OutputInv
<1>2. /\ pc = "close" /\ pc' = "batch" /\ closed' = TRUE /\ heldBack' = <<>> /\ watched' = FALSE
      /\ ring' = RingEmptied(full) /\ inOrder' = (inOrder /\ Follows(logged, passed))
      /\ logged' = (logged + Len(passed)) % Mod
      /\ shown' = (shown + Len(line \o passed)) % Mod /\ line' = <<>>
      /\ UNCHANGED <<pipe, wrote, late, writers, gone, batch, timer>>
  BY Zenon DEF FinishEnds, DrainFlush, SinkClose, piped
<1>3. passed = heldBack /\ ring' \in Rings
  <2>1. heldBack \in Seq(Bytes) /\ Len(heldBack) <= MaxHeld /\ Len(heldBack) \in Nat
    BY <1>1, OutputNumbers, Zenon
  <2>2. Len(heldBack) <= RingCap
    BY <2>1, OutputAssumption
  <2> QED
    BY <1>1, <1>2, <2>1, <2>2, RingPasses, Zenon
<1> HIDE DEF full, passed
<1> DEFINE l == Len(heldBack)
<1>4. /\ l \in Nat /\ Len(pipe) \in Nat /\ Len(line) \in Nat /\ logged \in Nat /\ shown \in Nat
      /\ logged + l \in Nat /\ shown + Len(line) \in Nat
  BY <1>1, OutputNumbers
<1>5. logged' = (logged + l) % Mod /\ inOrder' = TRUE
  BY <1>1, <1>2, <1>3, Zenon DEF StreamInv
<1>6. logged' \in Bytes /\ logged' \in Nat
  <2>1. logged' \in Bytes
    BY <1>4, <1>5, ModType, Remainder, Zenon
  <2> QED
    BY <2>1, ModType
<1>7. shown' = logged'
  <2>1. Len(line \o heldBack) = Len(line) + l
    <3>1. line \in Seq(Bytes \ Newlines) /\ heldBack \in Seq(Bytes)
      BY <1>1, Zenon DEF TypeOK
    <3> QED
      BY <3>1
  <2>2. shown + (Len(line) + l) = shown + Len(line) + l
    BY <1>4
  <2>3. (logged + l) % Mod = (shown + Len(line) + l) % Mod
    <3>1. (((shown + Len(line)) % Mod) + l) % Mod = (shown + Len(line) + l) % Mod
      BY <1>4, ModType, RemainderOfSum, Zenon
    <3> QED
      BY <1>1, <3>1, Zenon DEF StreamInv
  <2> QED
    BY <1>2, <1>3, <1>5, <2>1, <2>2, <2>3, Zenon
<1>8. Len(<<>>) = 0 /\ Len(<<>>) \in Nat /\ logged' + 0 = logged' /\ logged + l + 0 = logged + l
  <2>1. logged' + 0 = logged'
    BY <1>6, PlusZero, Zenon
  <2>2. Len(<<>>) = 0
    OBVIOUS
  <2> HIDE DEF l
  <2>3. logged + l + 0 = logged + l
    BY <1>4
  <2> QED
    BY <2>1, <2>2, <2>3
<1> HIDE DEF l
<1>9. Follows(logged', <<>>) /\ Follows(logged', pipe)
  <2>1. Follows(logged', <<>>)
    BY DEF Follows
  <2>2. Follows(logged + l + 0, pipe) <=> Follows(((logged + l) % Mod) + 0, pipe)
    <3>1. 0 \in Nat
      OBVIOUS
    <3> QED
      BY <1>4, <3>1, FollowsReduced, Zenon
  <2>3. Follows(logged + l, pipe)
    BY <1>1, Zenon DEF StreamInv, l
  <2> QED
    BY <1>5, <1>8, <2>1, <2>2, <2>3, Zenon
<1>10. wrote = (logged' + 0 + Len(pipe)) % Mod
  <2>1. (logged + l + Len(pipe)) % Mod = (logged' + Len(pipe)) % Mod
    <3>1. (((logged + l) % Mod) + Len(pipe)) % Mod = (logged + l + Len(pipe)) % Mod
      BY <1>4, ModType, RemainderOfSum, Zenon
    <3> QED
      BY <1>5, <3>1, Zenon
  <2> QED
    BY <1>1, <1>8, <2>1, Zenon DEF StreamInv, l
<1>11. logged' = (shown' + 0) % Mod
  BY <1>6, <1>7, <1>8, ModType, SmallRemainder, Zenon
<1>12. StreamInv'
  <2>1. (Follows(logged, heldBack))' /\ (Follows(logged + Len(heldBack), pipe))'
    BY <1>2, <1>8, <1>9, Zenon DEF Follows
  <2> QED
    BY <1>2, <1>5, <1>8, <1>10, <1>11, <2>1, Zenon DEF StreamInv
<1>13. TypeOK'
  <2>1. {wrote', logged', shown'} \subseteq Bytes /\ inOrder' \in BOOLEAN
    BY <1>1, <1>2, <1>5, <1>6, <1>7, Zenon DEF TypeOK
  <2>2. ring'.head \in 0..RingCap - 1 /\ ring'.len = 0
    BY <1>3 DEF Rings
  <2>3. <<>> \in Seq(Bytes) /\ <<>> \in Seq(Bytes \ Newlines) /\ Len(<<>>) <= MaxHeld
    BY OutputAssumption
  <2> QED
    BY <1>1, <1>2, <2>1, <2>2, <2>3, Zenon DEF TypeOK
<1>14. EndInv'
  BY <1>1, <1>2, Zenon DEF EndInv
<1>15. (ring \in Rings)'
  BY <1>3, Zenon DEF Rings, Bytes
<1> QED
  BY <1>12, <1>13, <1>14, <1>15, Zenon DEF OutputInv

\* What the loop or the world does beside the stream leaves the stream alone.
LEMMA BesideTheStream ==
  ASSUME OutputInv, UNCHANGED <<pipe, wrote, late, heldBack, ring, logged, inOrder, line, shown>>,
         {writers, gone, closed, watched}' \subseteq BOOLEAN,
         pc' \in {"wait", "batch", "drain", "finish", "close"},
         batch' \subseteq {"out", "timer", "child"}, timer' \in {"armed", "elapsed", "fired"},
         EndInv'
  PROVE  OutputInv'
<1>1. TypeOK /\ ring \in Rings /\ StreamInv
  BY Zenon DEF OutputInv
<1>2. TypeOK'
  BY <1>1, Zenon DEF TypeOK
<1>3. StreamInv'
  <2>1. (Follows(logged, heldBack))' /\ (Follows(logged + Len(heldBack), pipe))'
    BY <1>1, Zenon DEF StreamInv, Follows
  <2> QED
    BY <1>1, <2>1, Zenon DEF StreamInv
<1>4. (ring \in Rings)'
  BY <1>1, Zenon DEF Rings, Bytes
<1> QED
  BY <1>2, <1>3, <1>4, Zenon DEF OutputInv

\* The rest of the loop: epoll_wait, the events of a batch and the end of a drain.
LEMMA LoopInv ==
  ASSUME OutputInv,
         \/ DrainEnds \/ FinishDrained \/ EpollWait \/ HandleOut \/ HandleTimer
         \/ HandleChild \/ BatchDone
  PROVE  OutputInv'
<1> USE DEF piped, sink
<1>1. TypeOK /\ EndInv
  BY Zenon DEF OutputInv
<1>2. /\ {writers, gone, closed, watched} \subseteq BOOLEAN
      /\ batch \subseteq {"out", "timer", "child"} /\ timer \in {"armed", "elapsed", "fired"}
  BY <1>1, Zenon DEF TypeOK
<1>3. CASE DrainEnds
  <2>1. EndInv'
    BY <1>1, <1>3, Zenon DEF EndInv, DrainEnds
  <2> QED
    BY <1>2, <1>3, <2>1, BesideTheStream, Zenon DEF DrainEnds
<1>4. CASE FinishDrained
  <2>1. Len(pipe) <= late
    <3>1. late \in 0..Len(pipe) /\ pipe = <<>>
      BY <1>1, <1>4, Zenon DEF TypeOK, FinishDrained
    <3> QED
      BY <3>1
  <2>2. EndInv'
    BY <1>1, <1>4, <2>1, Zenon DEF EndInv, FinishDrained
  <2> QED
    BY <1>2, <1>4, <2>2, BesideTheStream, Zenon DEF FinishDrained
<1>5. CASE EpollWait
  <2>1. Readable \subseteq {"out", "timer", "child"} /\ ("child" \in Readable => gone /\ ~closed)
    BY Zenon DEF Readable
  <2>2. EndInv'
    BY <1>1, <1>5, <2>1, Zenon DEF EndInv, EpollWait
  <2> QED
    BY <1>2, <1>5, <2>1, <2>2, BesideTheStream, Zenon DEF EpollWait
<1>6. CASE HandleOut
  <2>1. EndInv'
    BY <1>1, <1>6, Zenon DEF EndInv, HandleOut
  <2> QED
    BY <1>2, <1>6, <2>1, BesideTheStream, Zenon DEF HandleOut
<1>7. CASE HandleTimer
  <2>1. EndInv'
    BY <1>1, <1>7, Zenon DEF EndInv, HandleTimer
  <2> QED
    BY <1>2, <1>7, <2>1, BesideTheStream, Zenon DEF HandleTimer
<1>8. CASE HandleChild
  <2>1. EndInv'
    BY <1>1, <1>8, Zenon DEF EndInv, HandleChild
  <2> QED
    BY <1>2, <1>8, <2>1, BesideTheStream, Zenon DEF HandleChild
<1>9. CASE BatchDone
  <2>1. EndInv'
    BY <1>1, <1>9, Zenon DEF EndInv, BatchDone
  <2> QED
    BY <1>2, <1>9, <2>1, BesideTheStream, Zenon DEF BatchDone
<1> QED
  BY <1>3, <1>4, <1>5, <1>6, <1>7, <1>8, <1>9, Zenon

\* The step's processes and the clock.
LEMMA WorldInv ==
  ASSUME OutputInv, CloseOutput \/ GroupGone \/ TimerElapses \/ UNCHANGED outputVars
  PROVE  OutputInv'
<1> USE DEF piped, sink
<1>1. TypeOK /\ EndInv
  BY Zenon DEF OutputInv
<1>2. /\ {writers, gone, closed, watched} \subseteq BOOLEAN
      /\ batch \subseteq {"out", "timer", "child"} /\ timer \in {"armed", "elapsed", "fired"}
      /\ pc \in {"wait", "batch", "drain", "finish", "close"}
  BY <1>1, Zenon DEF TypeOK
<1>3. CASE CloseOutput
  <2>1. EndInv'
    BY <1>1, <1>3, Zenon DEF EndInv, CloseOutput
  <2> QED
    BY <1>2, <1>3, <2>1, BesideTheStream, Zenon DEF CloseOutput
<1>4. CASE GroupGone
  <2>1. EndInv'
    BY <1>1, <1>4, Zenon DEF EndInv, GroupGone
  <2> QED
    BY <1>2, <1>4, <2>1, BesideTheStream, Zenon DEF GroupGone
<1>5. CASE TimerElapses
  <2>1. EndInv'
    BY <1>1, <1>5, Zenon DEF EndInv, TimerElapses
  <2> QED
    BY <1>2, <1>5, <2>1, BesideTheStream, Zenon DEF TimerElapses
<1>6. CASE UNCHANGED outputVars
  <2>1. EndInv'
    BY <1>1, <1>6, Zenon DEF EndInv, outputVars
  <2> QED
    BY <1>2, <1>6, <2>1, BesideTheStream, Zenon DEF outputVars
<1> QED
  BY <1>3, <1>4, <1>5, <1>6, Zenon

\* Every step of the loop, of the step's processes and of the clock keeps OutputInv.
LEMMA NextOutput == OutputInv /\ [OutputNext]_outputVars => OutputInv'
  BY ReadChunkInv, FinishEndsInv, WriteInv, LoopInv, WorldInv, Zenon DEF OutputNext, EngineStep

\* A closed step's output is where it belongs.
LEMMA ClosedMeans ==
  ASSUME OutputInv
  PROVE  NothingLeftBehind
<1> SUFFICES ASSUME closed
             PROVE  /\ heldBack = <<>> /\ Len(pipe) <= late
                    /\ logged = (wrote + Mod - Len(pipe)) % Mod /\ shown = logged
  BY Zenon DEF NothingLeftBehind
<1>1. TypeOK /\ StreamInv /\ heldBack = <<>> /\ line = <<>> /\ Len(pipe) <= late
  BY Zenon DEF OutputInv, EndInv
<1> DEFINE l == Len(pipe)
<1>2. /\ logged \in Bytes /\ shown \in Bytes /\ logged \in Nat /\ shown \in Nat /\ wrote \in Nat
      /\ l \in Nat /\ l <= PipeCap
  BY <1>1, OutputNumbers, Zenon DEF TypeOK
<1>3. Len(heldBack) = 0 /\ Len(line) = 0
  BY <1>1
<1>4. shown = logged
  <2>1. logged = shown % Mod
    BY <1>1, <1>2, <1>3, PlusZero, Zenon DEF StreamInv
  <2> QED
    BY <1>2, <2>1, ModType, SmallRemainder, Zenon
<1> HIDE DEF l
<1>5. wrote = (logged + l) % Mod
  BY <1>1, <1>2, <1>3, PlusZero, Zenon DEF StreamInv, l
<1>6. /\ Mod - l \in Nat /\ logged + l \in Nat /\ logged + l + (Mod - l) = logged + Mod
      /\ wrote + (Mod - l) = wrote + Mod - l
  BY <1>2, ModType, OutputAssumption
<1>7. (wrote + (Mod - l)) % Mod = (logged + Mod) % Mod
  <2>1. (((logged + l) % Mod) + (Mod - l)) % Mod = (logged + l + (Mod - l)) % Mod
    BY <1>6, ModType, RemainderOfSum, Zenon
  <2> QED
    BY <1>5, <1>6, <2>1, Zenon
<1>8. (logged + Mod) % Mod = logged
  BY <1>2, ModType, SmallRemainder, Zenon
<1> QED
  BY <1>1, <1>4, <1>6, <1>7, <1>8, Zenon DEF l

\* The stream is one in every state: what the log has, what the redactor holds
\* back and what is in the pipe follow on each other.
THEOREM OutputInvariant == OutputSpec => []OutputInv
  BY InitOutput, NextOutput, PTL DEF OutputSpec

\* Every variable keeps its type: neither the pipe nor the redactor holds more
\* than it may, and the ring is empty between two writes.
THEOREM OutputTypes == OutputSpec => []TypeOK
<1>1. OutputInv => TypeOK
  BY Zenon DEF OutputInv
<1> QED
  BY <1>1, OutputInvariant, PTL

\* The log is the step's output, byte by byte, whatever the capacities of pipe,
\* chunk, redactor and ring and wherever the ring wraps (drain, qwe_ring_write).
THEOREM LogIsOutput == OutputSpec => []LogIsTheStream
<1>1. OutputInv => LogIsTheStream
  <2> SUFFICES ASSUME OutputInv
               PROVE  LogIsTheStream
    BY Zenon
  <2>1. inOrder /\ ring \in Rings
    BY Zenon DEF OutputInv, StreamInv
  <2> QED
    BY <2>1 DEF LogIsTheStream, Rings
<1> QED
  BY <1>1, OutputInvariant, PTL

\* A closed step has left nothing of its output behind, in the redactor, on the
\* terminal's unfinished line or, but for processes that outlived its group, in
\* the pipe (step_finish, drain_flush, qwe_sink_close).
THEOREM OutputIsComplete == OutputSpec => []NothingLeftBehind
<1>1. OutputInv => NothingLeftBehind
  BY ClosedMeans, Zenon
<1> QED
  BY <1>1, OutputInvariant, PTL

-----------------------------------------------------------------------------
(* Redact: any values and any stream, in any chunks                           *)

\* What the redactor passes on: bytes and masks.
Symbols == Alphabet \cup {Mask}

\* Two sequences that agree up to the length of the first.
Agree(s, t) == \A i \in 1..Len(s) : s[i] = t[i]

\* Symbol i of o and q in a row.
At(o, q, i) == IF i <= Len(o) THEN o[i] ELSE q[i - Len(o)]

\* Sequences are equal when they agree.
LEMMA SameSymbols ==
  ASSUME NEW S, NEW s \in Seq(S), NEW t \in Seq(S), Len(s) = Len(t), Agree(s, t)
  PROVE  s = t
  BY DEF Agree

\* One sequence after another.
LEMMA InARow ==
  ASSUME NEW S, NEW s \in Seq(S), NEW t \in Seq(S)
  PROVE  /\ s \o t \in Seq(S) /\ Len(s \o t) = Len(s) + Len(t)
         /\ Len(s) \in Nat /\ Len(t) \in Nat
         /\ \A i \in 1..Len(s) + Len(t) : (s \o t)[i] = At(s, t, i)
  BY DEF At

\* What p starts with agrees with it.
LEMMA StartsWithIs ==
  ASSUME NEW S, NEW p \in Seq(S), NEW v \in Seq(S)
  PROVE  StartsWith(p, v) <=> Len(v) <= Len(p) /\ Agree(v, p)
<1>1. CASE Len(v) <= Len(p)
  <2> DEFINE q == SubSeq(p, 1, Len(v))
  <2>1. q \in Seq(S) /\ Len(q) = Len(v) /\ \A i \in 1..Len(v) : q[i] = p[i]
    BY <1>1
  <2>2. StartsWith(p, v) <=> q = v
    BY <1>1, Zenon DEF StartsWith
  <2> HIDE DEF q
  <2>3. Agree(q, v) <=> Agree(v, p)
    BY <2>1, Zenon DEF Agree
  <2>4. q = v <=> Agree(q, v)
    BY <2>1, SameSymbols, Zenon DEF Agree
  <2> QED
    BY <1>1, <2>2, <2>3, <2>4, Zenon
<1>2. CASE ~(Len(v) <= Len(p))
  BY <1>2, Zenon DEF StartsWith
<1> QED
  BY <1>1, <1>2, Zenon

\* A start agrees with the value, which is longer.
LEMMA StartOfIs ==
  ASSUME NEW S, NEW p \in Seq(S), NEW v \in Seq(S)
  PROVE  StartOf(p, v) <=> Len(p) < Len(v) /\ Agree(p, v)
<1>1. Len(p) < Len(v) => Len(p) <= Len(v)
  OBVIOUS
<1> QED
  BY <1>1, StartsWithIs, Zenon DEF StartOf

\* v lies in s, symbol by symbol.
Lies(v, s) == \E i \in 0..Len(s) - Len(v) : \A k \in 1..Len(v) : s[i + k] = v[k]

\* A value lies where it occurs.
LEMMA OccursIs ==
  ASSUME NEW S, NEW v \in Seq(S), NEW s \in Seq(S)
  PROVE  Occurs(v, s) <=> Lies(v, s)
<1> SUFFICES ASSUME NEW i \in 0..Len(s) - Len(v)
             PROVE  SubSeq(s, i + 1, i + Len(v)) = v <=> \A k \in 1..Len(v) : s[i + k] = v[k]
  BY Zenon DEF Occurs, Lies
<1> DEFINE q == SubSeq(s, i + 1, i + Len(v))
<1>1. q \in Seq(S) /\ Len(q) = Len(v) /\ \A k \in 1..Len(v) : q[k] = s[i + k]
  OBVIOUS
<1> HIDE DEF q
<1>2. q = v <=> \A k \in 1..Len(v) : q[k] = v[k]
  BY <1>1, SameSymbols, Zenon DEF Agree
<1> QED
  BY <1>1, <1>2, Zenon DEF q

\* match_at finds a value the bytes start with, if there is one.
LEMMA MatchAtIs ==
  ASSUME NEW S, NEW p \in Seq(S), NEW values, \A v \in values : v \in Seq(S) /\ v # <<>>
  PROVE  LET m == MatchAt(values, p)
         IN  /\ m \in 0..Len(p)
             /\ m > 0 <=> \E v \in values : StartsWith(p, v)
<1> DEFINE lens == {0} \cup {Len(v) : v \in {w \in values : StartsWith(p, w)}}
           m == MatchAt(values, p)
<1>1. Len(p) \in Nat /\ \A v \in values : StartsWith(p, v) => Len(v) \in 1..Len(p)
  <2>1. Len(p) \in Nat /\ \A v \in values : Len(v) \in Nat \ {0}
    OBVIOUS
  <2>2. \A v \in values : StartsWith(p, v) => Len(v) <= Len(p)
    BY Zenon DEF StartsWith
  <2> QED
    BY <2>1, <2>2
<1>2. lens \subseteq 0..Len(p)
  BY <1>1
<1>3. \E x \in lens : \A n \in lens : x >= n
  <2> DEFINE E == lens \ {0}
  <2>1. CASE E = {}
    <3>1. lens = {0} /\ 0 >= 0
      BY <2>1
    <3> QED
      BY <3>1, Zenon
  <2>2. CASE E # {}
    <3>1. E \in SUBSET (1..Len(p))
      BY <1>2, <1>1
    <3>2. PICK x \in E : \A k \in E : k <= x
      BY <1>1, <2>2, <3>1, LastPlace, Zenon
    <3> HIDE DEF E, lens
    <3> QED
      BY <1>2, <3>1, <3>2 DEF E
  <2> QED
    BY <2>1, <2>2, Zenon
<1>4. m \in lens /\ \A n \in lens : m >= n
  BY <1>3, Zenon DEF MatchAt
<1> HIDE DEF m
<1>5. ASSUME NEW v \in values, StartsWith(p, v)
      PROVE  m > 0
  <2>1. Len(v) \in lens /\ Len(v) \in 1..Len(p)
    BY <1>1, <1>5, Zenon
  <2> HIDE DEF lens
  <2> QED
    BY <1>2, <1>4, <2>1
<1>6. ASSUME m > 0
      PROVE  \E v \in values : StartsWith(p, v)
  <2>1. m # 0
    BY <1>6
  <2> QED
    BY <1>4, <2>1, Zenon
<1>7. m \in 0..Len(p)
  BY <1>2, <1>4, Zenon
<1> QED
  BY <1>5, <1>6, <1>7, Zenon DEF m

-----------------------------------------------------------------------------
\* The bytes that were fed and not passed on.
Pending == IF rest = <<>> THEN held ELSE rest

\* Value v does not start at place p, whatever comes after o and q.
Differs(v, p, o, q) ==
  \E k \in 1..Len(v) : p + k - 1 <= Len(o) + Len(q) /\ At(o, q, p + k - 1) # v[k]

\* The types of the redactor's variables.
RedactTypes ==
  /\ set \in ValueSets /\ out \in Seq(Symbols) /\ rest \in Seq(Alphabet) /\ held \in Seq(Alphabet)
  /\ ended \in BOOLEAN

\* The inductive invariant of Redact: no value starts where something was passed on,
\* whatever the next chunks bring, and after the end nothing is left to scan or held.
RedactInv ==
  /\ RedactTypes /\ HeldIsAPrefix /\ NoValuePassed
  /\ rest = <<>> \/ held = <<>>
  /\ ended => rest = <<>> /\ held = <<>>
  /\ ~ended => \A v \in set : \A p \in 1..Len(out) : Differs(v, p, out, Pending)

\* The known values are not empty and hold no mask.
LEMMA ValueType ==
  ASSUME RedactTypes, NEW v \in set
  PROVE  /\ v \in Seq(Alphabet) /\ v \in Seq(Symbols) /\ Len(v) \in Nat \ {0}
         /\ \A k \in 1..Len(v) : v[k] # Mask
<1>1. v \in Seq(Alphabet) /\ v # <<>> /\ Mask \notin Alphabet
  BY RedactAssumption, Zenon DEF RedactTypes
<1>2. v \in Seq(Symbols)
  BY <1>1 DEF Symbols
<1> QED
  BY <1>1, <1>2

\* What differs everywhere is nowhere in what was passed on.
LEMMA DiffersEverywhere ==
  ASSUME NEW v \in Seq(Symbols), NEW o \in Seq(Symbols), NEW q \in Seq(Alphabet),
         Len(v) > 0, \A p \in 1..Len(o) : Differs(v, p, o, q)
  PROVE  ~Occurs(v, o)
<1>0. Occurs(v, o) <=> Lies(v, o)
  BY OccursIs, Zenon
<1> SUFFICES ASSUME NEW i \in 0..Len(o) - Len(v), \A k \in 1..Len(v) : o[i + k] = v[k]
             PROVE  FALSE
  BY <1>0, Zenon DEF Lies
<1>1. Len(v) \in Nat /\ Len(o) \in Nat /\ i \in Nat /\ i + Len(v) <= Len(o) /\ i + 1 \in 1..Len(o)
  OBVIOUS
<1>2. PICK k \in 1..Len(v) : At(o, q, i + 1 + k - 1) # v[k]
  BY <1>1, Zenon DEF Differs
<1>3. i + 1 + k - 1 = i + k /\ i + k <= Len(o)
  BY <1>1
<1> QED
  BY <1>2, <1>3, Zenon DEF At

\* Nothing was passed on yet.
LEMMA InitRedact == RedactInit => RedactInv
<1> SUFFICES ASSUME RedactInit
             PROVE  RedactInv
  BY Zenon
<1>1. /\ set \in ValueSets /\ rest = <<>> /\ held = <<>> /\ out = <<>> /\ ended = FALSE
  BY Zenon DEF RedactInit
<1>2. RedactTypes
  <2>1. <<>> \in Seq(Symbols) /\ <<>> \in Seq(Alphabet)
    OBVIOUS
  <2> QED
    BY <1>1, <2>1, Zenon DEF RedactTypes
<1>3. \A v \in set : \A p \in 1..Len(out) : Differs(v, p, out, Pending)
  BY <1>1
<1>4. NoValuePassed
  <2> SUFFICES ASSUME NEW v \in set
               PROVE  ~Occurs(v, out)
    BY Zenon DEF NoValuePassed
  <2>1. v \in Seq(Symbols) /\ Len(v) > 0
    BY <1>2, ValueType
  <2>2. out \in Seq(Symbols) /\ held \in Seq(Alphabet)
    BY <1>2, Zenon DEF RedactTypes
  <2>3. \A p \in 1..Len(out) : Differs(v, p, out, held)
    BY <1>1
  <2> QED
    BY <2>1, <2>2, <2>3, DiffersEverywhere, Zenon
<1> QED
  BY <1>1, <1>2, <1>3, <1>4, Zenon DEF RedactInv, HeldIsAPrefix

\* While the stream is fed it is enough that no value starts where something was
\* passed on.
LEMMA FedInv ==
  ASSUME RedactTypes', HeldIsAPrefix', (rest = <<>> \/ held = <<>>)', ~ended',
         \A v \in set' : \A p \in 1..Len(out') : Differs(v, p, out', Pending')
  PROVE  RedactInv'
<1>1. out' \in Seq(Symbols) /\ Pending' \in Seq(Alphabet)
  BY Zenon DEF RedactTypes, Pending, Symbols
<1>2. ASSUME NEW v \in set'
      PROVE  ~Occurs(v, out')
  <2>1. v \in Seq(Symbols) /\ Len(v) > 0
    <3>1. v \in Seq(Alphabet) /\ v # <<>>
      BY <1>2, RedactAssumption, Zenon DEF RedactTypes
    <3> QED
      BY <3>1 DEF Symbols
  <2> QED
    BY <1>1, <2>1, DiffersEverywhere, Zenon
<1>3. NoValuePassed'
  BY <1>2, Zenon DEF NoValuePassed, Occurs
<1> QED
  BY <1>3, Zenon DEF RedactInv, Differs, At

\* qwe_redact_feed begins: what comes after does not undo a difference.
LEMMA FeedInv ==
  ASSUME RedactInv, NEW chunk \in Seq(Alphabet), Feed(chunk)
  PROVE  RedactInv'
<1> DEFINE q == held \o chunk
<1>1. /\ ~ended /\ rest = <<>> /\ rest' = q /\ held' = <<>>
      /\ set' = set /\ out' = out /\ ended' = ended
  BY Zenon DEF Feed
<1>2. RedactTypes /\ \A v \in set : \A p \in 1..Len(out) : Differs(v, p, out, held)
  BY <1>1, Zenon DEF RedactInv, Pending
<1>3. out \in Seq(Symbols) /\ held \in Seq(Alphabet)
  BY <1>2, Zenon DEF RedactTypes
<1>4. /\ q \in Seq(Alphabet) /\ Len(q) = Len(held) + Len(chunk)
      /\ \A i \in 1..Len(held) : q[i] = held[i]
  BY <1>3
<1>5. Len(out) \in Nat /\ Len(held) \in Nat /\ Len(chunk) \in Nat
  BY <1>3
<1> HIDE DEF q
<1>6. ASSUME NEW v \in set, NEW p \in 1..Len(out)
      PROVE  Differs(v, p, out, q)
  <2>1. PICK k \in 1..Len(v) : p + k - 1 <= Len(out) + Len(held) /\ At(out, held, p + k - 1) # v[k]
    BY <1>2, <1>6, Zenon DEF Differs
  <2>2. Len(v) \in Nat
    BY <1>2, ValueType
  <2> DEFINE i == p + k - 1
  <2>3. i \in Nat /\ i <= Len(out) + Len(q) /\ (i <= Len(out) \/ i - Len(out) \in 1..Len(held))
    BY <1>4, <1>5, <2>1, <2>2
  <2> HIDE DEF i
  <2>4. At(out, q, i) = At(out, held, i)
    BY <1>4, <2>3, Zenon DEF At
  <2> QED
    BY <2>1, <2>3, <2>4, Zenon DEF Differs, i
<1>7. Pending' = q
  BY <1>1, Zenon DEF Pending
<1>8. RedactTypes'
  <2>1. <<>> \in Seq(Alphabet)
    OBVIOUS
  <2> QED
    BY <1>1, <1>2, <1>4, <2>1, Zenon DEF RedactTypes, Symbols
<1> QED
  BY <1>1, <1>6, <1>7, <1>8, FedInv, Zenon DEF HeldIsAPrefix

\* A value becomes the mask, which is in no value.
LEMMA MaskValueInv ==
  ASSUME RedactInv, MaskValue
  PROVE  RedactInv'
<1> DEFINE m == MatchAt(set, rest)
<1>1. /\ rest # <<>> /\ m > 0 /\ rest' = SubSeq(rest, m + 1, Len(rest)) /\ out' = Append(out, Mask)
      /\ set' = set /\ held' = held /\ ended' = ended
  BY Zenon DEF MaskValue
<1>2. /\ RedactTypes /\ held = <<>> /\ ~ended
      /\ \A v \in set : \A p \in 1..Len(out) : Differs(v, p, out, rest)
  BY <1>1, Zenon DEF RedactInv, Pending
<1>3. out \in Seq(Symbols) /\ rest \in Seq(Alphabet)
  BY <1>2, Zenon DEF RedactTypes
<1>4. m \in 0..Len(rest)
  <2>1. \A v \in set : v \in Seq(Alphabet) /\ v # <<>>
    BY <1>2, RedactAssumption, Zenon DEF RedactTypes
  <2> QED
    BY <1>3, <2>1, MatchAtIs, Zenon
<1> HIDE DEF m
<1>5. rest' \in Seq(Alphabet)
  BY <1>1, <1>3, <1>4
<1>6. /\ out' \in Seq(Symbols) /\ Len(out') = Len(out) + 1 /\ out'[Len(out) + 1] = Mask
      /\ \A i \in 1..Len(out) : out'[i] = out[i]
  <2>1. Mask \in Symbols
    BY Zenon DEF Symbols
  <2> QED
    BY <1>1, <1>3, <2>1
<1>7. Len(out) \in Nat /\ Len(rest) \in Nat /\ Len(rest') \in Nat
  BY <1>3, <1>5
<1>8. ASSUME NEW v \in set, NEW p \in 1..(Len(out) + 1)
      PROVE  Differs(v, p, out', rest')
  <2>1. Len(v) \in Nat \ {0} /\ \A k \in 1..Len(v) : v[k] # Mask
    BY <1>2, ValueType, Zenon
  <2>2. ASSUME NEW k \in 1..Len(v), p + k - 1 = Len(out) + 1
        PROVE  Differs(v, p, out', rest')
    <3>1. At(out', rest', p + k - 1) = Mask
      <4>1. p + k - 1 <= Len(out')
        BY <1>6, <1>7, <2>2
      <4> QED
        BY <1>6, <2>2, <4>1, Zenon DEF At
    <3>2. p + k - 1 <= Len(out') + Len(rest')
      BY <1>6, <1>7, <2>2
    <3> QED
      BY <2>1, <3>1, <3>2, Zenon DEF Differs
  <2>3. CASE p = Len(out) + 1
    <3>1. 1 \in 1..Len(v) /\ p + 1 - 1 = Len(out) + 1
      BY <1>7, <2>1, <2>3
    <3> QED
      BY <2>2, <3>1, Zenon
  <2>4. CASE p \in 1..Len(out)
    <3>1. PICK k \in 1..Len(v) : At(out, rest, p + k - 1) # v[k]
      BY <1>2, <2>4, Zenon DEF Differs
    <3>2. CASE p + k - 1 <= Len(out)
      <4>1. /\ p + k - 1 \in 1..Len(out) /\ p + k - 1 <= Len(out')
            /\ p + k - 1 <= Len(out') + Len(rest')
        BY <1>6, <1>7, <2>1, <2>4, <3>2
      <4>2. At(out', rest', p + k - 1) = At(out, rest, p + k - 1)
        BY <1>6, <3>2, <4>1, Zenon DEF At
      <4> QED
        BY <3>1, <4>1, <4>2, Zenon DEF Differs
    <3>3. CASE p + k - 1 > Len(out)
      <4>1. Len(out) + 2 - p \in 1..Len(v) /\ p + (Len(out) + 2 - p) - 1 = Len(out) + 1
        BY <1>7, <2>1, <2>4, <3>3
      <4> QED
        BY <2>2, <4>1, Zenon
    <3> QED
      BY <1>7, <2>1, <2>4, <3>2, <3>3
  <2> QED
    BY <1>7, <2>3, <2>4
<1>9. Pending' = rest'
  BY <1>1, <1>2, Zenon DEF Pending
<1>10. RedactTypes'
  BY <1>1, <1>2, <1>5, <1>6, Zenon DEF RedactTypes, Symbols
<1> QED
  BY <1>1, <1>2, <1>6, <1>8, <1>9, <1>10, FedInv, Zenon DEF HeldIsAPrefix

\* The start of a value is held back.
LEMMA HoldRestInv ==
  ASSUME RedactInv, HoldRest
  PROVE  RedactInv'
<1>1. /\ rest # <<>> /\ CouldStart(set, rest) /\ held' = rest /\ rest' = <<>>
      /\ set' = set /\ out' = out /\ ended' = ended
  BY Zenon DEF HoldRest
<1>2. /\ RedactTypes /\ ~ended
      /\ \A v \in set : \A p \in 1..Len(out) : Differs(v, p, out, rest)
  BY <1>1, Zenon DEF RedactInv, Pending
<1>3. Pending' = rest
  BY <1>1, Zenon DEF Pending
<1>4. RedactTypes'
  <2>1. <<>> \in Seq(Alphabet)
    OBVIOUS
  <2> QED
    BY <1>1, <1>2, <2>1, Zenon DEF RedactTypes, Symbols
<1>5. HeldIsAPrefix'
  BY <1>1, Zenon DEF HeldIsAPrefix, CouldStart
<1> QED
  BY <1>1, <1>2, <1>3, <1>4, <1>5, FedInv, Zenon

\* Only a byte where no value starts is passed on.
LEMMA PassByteInv ==
  ASSUME RedactInv, PassByte
  PROVE  RedactInv'
<1>1. /\ rest # <<>> /\ MatchAt(set, rest) = 0 /\ ~CouldStart(set, rest)
      /\ out' = Append(out, Head(rest)) /\ rest' = Tail(rest)
      /\ set' = set /\ held' = held /\ ended' = ended
  BY Zenon DEF PassByte
<1>2. /\ RedactTypes /\ held = <<>> /\ ~ended
      /\ \A v \in set : \A p \in 1..Len(out) : Differs(v, p, out, rest)
  BY <1>1, Zenon DEF RedactInv, Pending
<1>3. out \in Seq(Symbols) /\ rest \in Seq(Alphabet)
  BY <1>2, Zenon DEF RedactTypes
<1>4. /\ Head(rest) \in Alphabet /\ Head(rest) = rest[1] /\ Len(rest) \in Nat \ {0}
      /\ rest' \in Seq(Alphabet) /\ Len(rest') = Len(rest) - 1
      /\ \A i \in 1..(Len(rest) - 1) : rest'[i] = rest[i + 1]
  BY <1>1, <1>3
<1>5. /\ out' \in Seq(Symbols) /\ Len(out') = Len(out) + 1 /\ out'[Len(out) + 1] = rest[1]
      /\ \A i \in 1..Len(out) : out'[i] = out[i]
      /\ Len(out) \in Nat
  <2>1. Head(rest) \in Symbols
    BY <1>4, ZenonT(30) DEF Symbols
  <2> QED
    BY <1>1, <1>3, <1>4, <2>1
<1>6. ASSUME NEW i \in 1..(Len(out) + Len(rest))
      PROVE  At(out', rest', i) = At(out, rest, i)
  <2>1. CASE i \in 1..Len(out)
    <3>1. i <= Len(out) /\ i <= Len(out')
      BY <1>5, <2>1
    <3> QED
      BY <1>5, <2>1, <3>1, Zenon DEF At
  <2>2. CASE i = Len(out) + 1
    <3>1. ~(i <= Len(out)) /\ i <= Len(out') /\ i - Len(out) = 1
      BY <1>5, <2>2
    <3> QED
      BY <1>5, <2>2, <3>1, Zenon DEF At
  <2>3. CASE i > Len(out) + 1
    <3>1. /\ ~(i <= Len(out)) /\ ~(i <= Len(out')) /\ i - Len(out') \in 1..(Len(rest) - 1)
          /\ i - Len(out') + 1 = i - Len(out)
      BY <1>4, <1>5, <2>3
    <3> QED
      BY <1>4, <3>1, Zenon DEF At
  <2> QED
    BY <1>4, <1>5, <2>1, <2>2, <2>3
<1>7. ASSUME NEW v \in set
      PROVE  \E k \in 1..Len(v) : k <= Len(rest) /\ rest[k] # v[k]
  <2>1. v \in Seq(Alphabet) /\ Len(v) \in Nat
    BY <1>2, ValueType, Zenon
  <2>2. ~StartsWith(rest, v) /\ ~StartOf(rest, v)
    <3>1. \A w \in set : w \in Seq(Alphabet) /\ w # <<>>
      BY <1>2, RedactAssumption, Zenon DEF RedactTypes
    <3>2. ~(MatchAt(set, rest) > 0)
      BY <1>1
    <3> QED
      BY <1>1, <1>3, <3>1, <3>2, MatchAtIs, Zenon DEF CouldStart
  <2>3. CASE Len(v) <= Len(rest)
    <3>1. ~Agree(v, rest)
      BY <1>3, <2>1, <2>2, <2>3, StartsWithIs, Zenon
    <3>2. \A k \in 1..Len(v) : k <= Len(rest)
      BY <1>4, <2>1, <2>3
    <3> QED
      BY <3>1, <3>2, Zenon DEF Agree
  <2>4. CASE Len(rest) < Len(v)
    <3>1. ~Agree(rest, v)
      BY <1>3, <2>1, <2>2, <2>4, StartOfIs, ZenonT(30)
    <3>2. \A k \in 1..Len(rest) : k \in 1..Len(v) /\ k <= Len(rest)
      BY <1>4, <2>1, <2>4
    <3> QED
      BY <3>1, <3>2, Zenon DEF Agree
  <2> QED
    BY <1>4, <2>1, <2>3, <2>4
<1>8. ASSUME NEW v \in set, NEW p \in 1..(Len(out) + 1)
      PROVE  Differs(v, p, out', rest')
  <2>1. Len(v) \in Nat
    BY <1>2, ValueType, ZenonT(30)
  <2>2. \E k \in 1..Len(v) : p + k - 1 <= Len(out) + Len(rest) /\ At(out, rest, p + k - 1) # v[k]
    <3>1. CASE p \in 1..Len(out)
      BY <1>2, <3>1, Zenon DEF Differs
    <3>2. CASE p = Len(out) + 1
      <4>1. PICK k \in 1..Len(v) : k <= Len(rest) /\ rest[k] # v[k]
        BY <1>7, ZenonT(30)
      <4> DEFINE i == p + k - 1
      <4>2. i <= Len(out) + Len(rest) /\ ~(i <= Len(out)) /\ i - Len(out) = k
        <5>1. Len(out) \in Nat /\ Len(rest) \in Nat \ {0}
          BY <1>4, <1>5, Zenon
        <5> QED
          BY <2>1, <3>2, <4>1, <5>1
      <4> HIDE DEF i
      <4>3. At(out, rest, i) = rest[k]
        BY <4>2, Zenon DEF At
      <4> QED
        BY <4>1, <4>2, <4>3, Zenon DEF i
    <3> QED
      BY <1>5, <3>1, <3>2
  <2>3. PICK k \in 1..Len(v) :
          p + k - 1 <= Len(out) + Len(rest) /\ At(out, rest, p + k - 1) # v[k]
    BY <2>2, Zenon
  <2>4. /\ p + k - 1 \in 1..(Len(out) + Len(rest)) /\ p + k - 1 <= Len(out') + Len(rest')
    BY <1>4, <1>5, <2>1, <2>3
  <2> QED
    BY <1>6, <2>3, <2>4, Zenon DEF Differs
<1>9. Pending' = rest'
  BY <1>1, <1>2, Zenon DEF Pending
<1>10. RedactTypes'
  BY <1>1, <1>2, <1>4, <1>5, Zenon DEF RedactTypes, Symbols
<1> QED
  BY <1>1, <1>2, <1>5, <1>8, <1>9, <1>10, FedInv, Zenon DEF HeldIsAPrefix

\* qwe_redact_flush passes on what was held: the start of a value, in which only
\* another one can lie.
LEMMA FlushInv ==
  ASSUME RedactInv, Flush
  PROVE  RedactInv'
<1> DEFINE o == out \o held
<1>1. /\ ~ended /\ rest = <<>> /\ ended' = TRUE /\ out' = o /\ held' = <<>>
      /\ set' = set /\ rest' = rest
  BY Zenon DEF Flush
<1>2. /\ RedactTypes /\ HeldIsAPrefix
      /\ \A v \in set : \A p \in 1..Len(out) : Differs(v, p, out, held)
  BY <1>1, Zenon DEF RedactInv, Pending
<1>3. out \in Seq(Symbols) /\ held \in Seq(Alphabet) /\ held \in Seq(Symbols)
  <2>1. out \in Seq(Symbols) /\ held \in Seq(Alphabet)
    BY <1>2, Zenon DEF RedactTypes
  <2> QED
    BY <2>1 DEF Symbols
<1>4. /\ o \in Seq(Symbols) /\ Len(o) = Len(out) + Len(held)
      /\ Len(out) \in Nat /\ Len(held) \in Nat
      /\ \A i \in 1..Len(o) : o[i] = At(out, held, i)
  BY <1>3, InARow, Zenon
<1> HIDE DEF o
<1>5. ASSUME NEW v \in set, Occurs(v, o)
      PROVE  \E w \in set \ {v} : Occurs(v, w)
  <2>1. v \in Seq(Alphabet) /\ v \in Seq(Symbols) /\ Len(v) \in Nat \ {0}
    BY <1>2, ValueType, Zenon
  <2>2. PICK i \in 0..Len(o) - Len(v) : \A k \in 1..Len(v) : o[i + k] = v[k]
    <3>1. Occurs(v, o) <=> Lies(v, o)
      BY <1>4, <2>1, OccursIs, Zenon
    <3> QED
      BY <1>5, <3>1, Zenon DEF Lies
  <2>3. \A k \in 1..Len(v) : i + k \in 1..Len(o) /\ At(out, held, i + k) = v[k]
    <3>1. \A k \in 1..Len(v) : i + k \in 1..Len(o)
      BY <1>4, <2>1
    <3> QED
      BY <1>4, <2>2, <3>1, Zenon
  <2>4. i \in Nat /\ i + Len(v) <= Len(out) + Len(held)
    BY <1>4, <2>1
  <2>5. i >= Len(out)
    <3> SUFFICES ASSUME i < Len(out)
                 PROVE  FALSE
      BY <1>4, <2>4
    <3>1. i + 1 \in 1..Len(out)
      BY <1>4, <2>4
    <3>2. PICK k \in 1..Len(v) : At(out, held, i + 1 + k - 1) # v[k]
      BY <1>2, <3>1, Zenon DEF Differs
    <3>3. i + 1 + k - 1 = i + k
      BY <2>1, <2>4
    <3> QED
      BY <2>3, <3>2, <3>3, Zenon
  <2> DEFINE d == i - Len(out)
  <2>6. d \in Nat /\ d + Len(v) <= Len(held) /\ Len(held) > 0
    BY <1>4, <2>1, <2>4, <2>5
  <2>7. ASSUME NEW k \in 1..Len(v)
        PROVE  d + k \in 1..Len(held) /\ held[d + k] = v[k]
    <3> DEFINE x == i + k
    <3>1. ~(x <= Len(out)) /\ x - Len(out) = d + k /\ d + k \in 1..Len(held)
      <4>1. Len(out) \in Nat /\ Len(held) \in Nat
        BY <1>4, Zenon
      <4> QED
        BY <2>1, <2>4, <2>5, <4>1
    <3> HIDE DEF d, x
    <3>2. At(out, held, x) = held[d + k]
      BY <3>1, Zenon DEF At
    <3> QED
      BY <2>3, <3>1, <3>2, ZenonT(30) DEF x
  <2> HIDE DEF d
  <2>8. PICK w \in set : StartOf(held, w)
    <3>1. held # <<>>
      BY <2>6
    <3> QED
      BY <1>2, <3>1, ZenonT(30) DEF HeldIsAPrefix
  <2>9. w \in Seq(Alphabet) /\ Len(w) \in Nat
    BY <1>2, ValueType, Zenon
  <2>10. Len(held) < Len(w) /\ \A k \in 1..Len(held) : held[k] = w[k]
    <3>1. StartOf(held, w) <=> Len(held) < Len(w) /\ Agree(held, w)
      BY <1>3, <2>9, StartOfIs, ZenonT(30)
    <3> QED
      BY <2>8, <3>1, Zenon DEF Agree
  <2>11. d \in 0..Len(w) - Len(v) /\ Len(v) # Len(w)
    BY <1>4, <2>1, <2>6, <2>9, <2>10
  <2>12. \A k \in 1..Len(v) : w[d + k] = v[k]
    BY <2>7, <2>10, Zenon
  <2>13. Occurs(v, w)
    <3>1. Lies(v, w)
      BY <2>11, <2>12, Zenon DEF Lies
    <3> QED
      BY <2>1, <2>9, <3>1, OccursIs, Zenon
  <2> QED
    BY <2>11, <2>13, Zenon
<1>6. NoValuePassed'
  BY <1>1, <1>5, ZenonT(30) DEF NoValuePassed, Occurs
<1>7. RedactTypes'
  <2>1. <<>> \in Seq(Alphabet)
    OBVIOUS
  <2> QED
    BY <1>1, <1>2, <1>4, <2>1, Zenon DEF RedactTypes, Symbols
<1> QED
  BY <1>1, <1>6, <1>7, ZenonT(30) DEF RedactInv, HeldIsAPrefix

\* Every call and every turn of the loop keeps the invariant.
LEMMA NextRedact == RedactInv /\ [RedactNext]_redactVars => RedactInv'
<1> SUFFICES ASSUME RedactInv, [RedactNext]_redactVars
             PROVE  RedactInv'
  BY Zenon
<1>1. ASSUME NEW chunk \in Words(MaxChunk)
      PROVE  chunk \in Seq(Alphabet)
  BY <1>1 DEF Words
<1>2. ASSUME UNCHANGED redactVars
      PROVE  RedactInv'
  <2>1. set' = set /\ rest' = rest /\ held' = held /\ out' = out /\ ended' = ended
    BY <1>2, Zenon DEF redactVars
  <2>2. Pending' = Pending
    BY <2>1, Zenon DEF Pending
  <2>3. RedactTypes' /\ HeldIsAPrefix' /\ NoValuePassed'
    BY <2>1, Zenon DEF RedactInv, RedactTypes, HeldIsAPrefix, NoValuePassed
  <2> QED
    BY <2>1, <2>2, <2>3, Zenon DEF RedactInv
<1> QED
  BY <1>1, <1>2, FeedInv, MaskValueInv, HoldRestInv, PassByteInv, FlushInv, Zenon DEF RedactNext

\* RedactInv holds throughout: no value starts at a place that was passed on, neither
\* in what follows it nor in what is still to come (qwe_redact_feed, match_at).
THEOREM RedactInvariant == RedactSpec => []RedactInv
  BY InitRedact, NextRedact, PTL DEF RedactSpec

\* Whatever the values, the stream and its chunks, what is held back is the
\* start of a value (could_start).
THEOREM HeldIsShort == RedactSpec => []HeldIsAPrefix
<1>1. RedactInv => HeldIsAPrefix
  BY Zenon DEF RedactInv
<1> QED
  BY <1>1, RedactInvariant, PTL

\* Whatever the values, the stream and its chunks, no value is passed on, unless
\* it lies inside another and the stream ends within that one (qwe_redact_feed,
\* qwe_redact_flush).
THEOREM ValuesAreMasked == RedactSpec => []NoValuePassed
<1>1. RedactInv => NoValuePassed
  BY Zenon DEF RedactInv
<1> QED
  BY <1>1, RedactInvariant, PTL

-----------------------------------------------------------------------------
(* Remote, continued: its theorems, which count the targets                   *)

INSTANCE FiniteSetTheorems

\* There are finitely many targets.
LEMMA TargetsFinite == IsFiniteSet(Targets)
<1> DEFINE f == [j \in Jobs |-> TargetOf[j]]
<1>1. IsFiniteSet(Jobs)
  BY RemoteAssumption, FS_Interval DEF Jobs
<1>2. f \in Surjection(Jobs, Targets)
  BY DEF Surjection, Targets
<1> QED
  BY <1>1, <1>2, FS_Surjection

\* So how many of them did not answer is a number.
LEMMA TargetsCountable == Countable
<1> SUFFICES ASSUME NEW S \in SUBSET Targets
             PROVE  Cardinality(S) \in Nat
  BY Zenon DEF Countable
<1>1. IsFiniteSet(S)
  BY TargetsFinite, FS_Subset
<1> QED
  BY <1>1, FS_CardinalityType

\* Inv holds throughout: a running step whose master is down knows that it has
\* lost it, and a master that runs has an entry (the whole of ssh.lua's state).
THEOREM RemoteInvariant == Spec => []Inv
<1>1. Inv /\ [Next]_vars => Inv'
  BY NextInv, TargetsCountable, ZenonT(30)
<1> QED
  BY <1>1, InitInv, PTL DEF Spec

\* No helper that is still to signal a step's processes is cut off by the end of
\* the run before KILL_WAIT has passed (close_all).
THEOREM StopsHeard == Spec => []StopsAreHeard
<1>1. Inv => StopsAreHeard
  BY InvMeans, Zenon
<1> QED
  BY <1>1, RemoteInvariant, PTL

\* The run leaves no master behind but those of targets it has given up on and
\* those that did not answer "ssh -O exit" (close_all).
THEOREM NoMasterLeft == Spec => []MastersClosed
<1>1. Inv => MastersClosed
  BY InvMeans, Zenon
<1> QED
  BY <1>1, RemoteInvariant, PTL

\* A lost connection is said to be one unless the master was started again in
\* between, and nothing else is unless a check went unanswered (remote_lost).
THEOREM LostMeansLost == Spec => []LostIsSaidSo
<1>1. Inv => LostIsSaidSo
  BY InvMeans, Zenon
<1> QED
  BY <1>1, RemoteInvariant, PTL

\* Targets out of service are not contacted and those given up on are not asked
\* for again (preconnect, step_spawn).
THEOREM NoNeedlessContact == Spec => []AsksNoMoreThanItShould
<1>1. Inv => AsksNoMoreThanItShould
  BY Zenon DEF Inv
<1> QED
  BY <1>1, RemoteInvariant, PTL
===============================================================================
