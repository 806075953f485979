----------------------------- MODULE PlanProofs -----------------------------
(***************************************************************************)
(* Proofs about module Plan: for any number of jobs and any document, the  *)
(* search for cycles is right, what select_jobs keeps is fit to run, the   *)
(* exit code tells how the run went, and accepted references stand for     *)
(* what they say.                                                          *)
(***************************************************************************)
EXTENDS Plan, TLAPS


Colors == {"white", "grey", "black"}

Frames == [job : Jobs, next : Nat \ {0}]

Walks ==
  [color : [Jobs -> Colors], stack : Seq(Frames),
   status : {"none", "ok", "cycle", "unknown-need", "no-memory"}, path : Seq(Jobs)]

Outcomes == {"pending", "success", "failed", "cancelled", "skipped"}

Phases == {"load", "validate", "dag", "visit", "jobs", "select", "rundir", "run", "over"}

PlanTypeOK ==
  /\ pc \in Phases
  /\ doc.needs \in [Jobs -> Seq(1..Unknown)] /\ doc.tpl \in Tpls
  /\ search \in Walks
  /\ keep \subseteq Jobs
  /\ sweep \in [at : 1..Unknown, changed : {0, 1}]
  /\ outcome \in [Jobs -> Outcomes]

\* Every need names a job, as the first pass of qwe_dag_check has seen.
NamesKnown == \A j \in Jobs : NeedsOf(j) \subseteq Jobs

\* The walk in the words of dag.c: depth, the job and k of a frame, color; and
\* nneeds and needs of a job.
Depth(s) == Len(s.stack)

JobAt(s, a) == s.stack[a].job

NextAt(s, a) == s.stack[a].next

Color(s, j) == s.color[j]

NNeeds(j) == Len(doc.needs[j])

NeedAt(j, k) == doc.needs[j][k]

\* The frames of the walk: each is on a need of its job, the need before it is
\* the job of the next frame, and no job is on the path twice.
PathOK(s) ==
  /\ \A a \in 1..Depth(s) : NextAt(s, a) <= NNeeds(JobAt(s, a)) + 1
  /\ \A a \in 1..Depth(s) : a < Depth(s) =>
       NextAt(s, a) > 1 /\ JobAt(s, a + 1) = NeedAt(JobAt(s, a), NextAt(s, a) - 1)
  /\ \A a, b \in 1..Depth(s) : JobAt(s, a) = JobAt(s, b) => a = b

\* The colors: grey is the path, what a black job needs is black, and so is
\* every need a frame has passed but the one that is being visited.
ColorsOK(s) ==
  /\ \A j \in Jobs : Color(s, j) = "grey" <=> \E a \in 1..Depth(s) : JobAt(s, a) = j
  /\ \A j \in Jobs : Color(s, j) = "black" => \A k \in NeedsOf(j) : Color(s, k) = "black"
  /\ \A a \in 1..Depth(s) : \A k \in 1..(NextAt(s, a) - 1) :
       Color(s, NeedAt(JobAt(s, a), k)) = "black" \/ (a < Depth(s) /\ k = NextAt(s, a) - 1)

\* No jobs that are black need one another in a circle.
BlackOK(s) == \A S \in SUBSET Jobs : (\A j \in S : Color(s, j) = "black") => ~Circular(S)

Walked(s) == PathOK(s) /\ ColorsOK(s) /\ BlackOK(s)

NoCircle == \A S \in SUBSET Jobs : ~Circular(S)

\* The elements of a sequence, and its last one.
LEMMA SeqElements ==
  ASSUME NEW T, NEW q \in Seq(T)
  PROVE  /\ Len(q) \in Nat /\ DOMAIN q = 1..Len(q) /\ \A i \in DOMAIN q : q[i] \in T
         /\ q # <<>> => Len(q) \in Nat \ {0} /\ q[Len(q)] \in T
OBVIOUS

-----------------------------------------------------------------------------
(* The steps of the walk *)

\* A sequence with one element replaced.
LEMMA SeqExcept ==
  ASSUME NEW T, NEW q \in Seq(T), NEW n \in DOMAIN q, NEW f \in T
  PROVE  /\ [q EXCEPT ![n] = f] \in Seq(T) /\ Len([q EXCEPT ![n] = f]) = Len(q)
         /\ [q EXCEPT ![n] = f][n] = f
         /\ \A a \in DOMAIN q \ {n} : [q EXCEPT ![n] = f][a] = q[a]
OBVIOUS

\* What a walk is made of.
LEMMA WalkType ==
  ASSUME NEW s \in Walks
  PROVE  /\ Depth(s) \in Nat /\ DOMAIN s.stack = 1..Depth(s)
         /\ \A a \in 1..Depth(s) : JobAt(s, a) \in Jobs /\ NextAt(s, a) \in Nat \ {0}
         /\ \A j \in Jobs : Color(s, j) \in Colors
         /\ s.stack = <<>> <=> Depth(s) = 0
         /\ s.stack # <<>> => Top(s).job = JobAt(s, Depth(s)) /\ Top(s).next = NextAt(s, Depth(s))
<1>1. s.stack \in Seq(Frames) /\ s.color \in [Jobs -> Colors]
  BY DEF Walks
<1>2. Depth(s) \in Nat /\ DOMAIN s.stack = 1..Depth(s) /\ (s.stack = <<>> <=> Depth(s) = 0)
  BY <1>1 DEF Depth
<1>3. \A a \in 1..Depth(s) : s.stack[a] \in Frames
  BY <1>1, <1>2
<1> QED
  BY <1>1, <1>2, <1>3 DEF Frames, Depth, JobAt, NextAt, Color, Top

\* visit is entered: j turns grey and gets the frame on top.
LEMMA EnterFields ==
  ASSUME NEW s \in Walks, NEW j \in Jobs
  PROVE  LET t == Enter(s, j)
         IN  /\ t \in Walks /\ t.status = s.status /\ Depth(t) = Depth(s) + 1
             /\ \A i \in Jobs : Color(t, i) = IF i = j THEN "grey" ELSE Color(s, i)
             /\ JobAt(t, Depth(s) + 1) = j /\ NextAt(t, Depth(s) + 1) = 1
             /\ \A a \in 1..Depth(s) : JobAt(t, a) = JobAt(s, a) /\ NextAt(t, a) = NextAt(s, a)
<1> DEFINE f == [job |-> j, next |-> 1]
<1>1. s.stack \in Seq(Frames) /\ s.color \in [Jobs -> Colors]
  BY DEF Walks
<1>2. f \in Frames
  BY DEF Frames
<1>3. Append(s.stack, f) \in Seq(Frames)
  BY <1>1, <1>2
<1>4. [s.color EXCEPT ![j] = "grey"] \in [Jobs -> Colors]
  BY <1>1 DEF Colors
<1>5. Enter(s, j) = [s EXCEPT !.color = [s.color EXCEPT ![j] = "grey"], !.stack = Append(s.stack, f)]
  BY DEF Enter, Walks
<1>6. /\ Enter(s, j) \in Walks /\ Enter(s, j).status = s.status
      /\ Enter(s, j).color = [s.color EXCEPT ![j] = "grey"]
      /\ Enter(s, j).stack = Append(s.stack, f)
  BY <1>3, <1>4, <1>5, Zenon DEF Walks
<1>7. /\ Len(Append(s.stack, f)) = Len(s.stack) + 1 /\ Append(s.stack, f)[Len(s.stack) + 1] = f
      /\ \A a \in 1..Len(s.stack) : Append(s.stack, f)[a] = s.stack[a]
  BY <1>1
<1> QED
  BY <1>1, <1>6, <1>7 DEF Depth, JobAt, NextAt, Color

\* The loop over the needs goes on: only the top frame's next changes.
LEMMA AdvanceFields ==
  ASSUME NEW s \in Walks, s.stack # <<>>
  PROVE  LET t == Advance(s)
         IN  /\ t \in Walks /\ t.status = s.status /\ Depth(t) = Depth(s)
             /\ \A i \in Jobs : Color(t, i) = Color(s, i)
             /\ \A a \in 1..Depth(s) : JobAt(t, a) = JobAt(s, a)
             /\ \A a \in 1..Depth(s) :
                  NextAt(t, a) = IF a = Depth(s) THEN NextAt(s, a) + 1 ELSE NextAt(s, a)
<1> DEFINE n == Len(s.stack)
           f == [s.stack[n] EXCEPT !.next = @ + 1]
<1>1. s.stack \in Seq(Frames) /\ n \in Nat \ {0}
  BY SeqElements DEF Walks
<1>2. n \in DOMAIN s.stack /\ s.stack[n] \in Frames
  BY <1>1
<1>3. f \in Frames /\ f.job = s.stack[n].job /\ f.next = s.stack[n].next + 1
  BY <1>2 DEF Frames
<1>4. Advance(s) = [s EXCEPT !.stack = [s.stack EXCEPT ![n] = f]]
  BY DEF Advance, Walks
<1> HIDE DEF f
<1>5. /\ [s.stack EXCEPT ![n] = f] \in Seq(Frames)
      /\ Len([s.stack EXCEPT ![n] = f]) = n
      /\ [s.stack EXCEPT ![n] = f][n] = f
      /\ \A a \in 1..(n - 1) : [s.stack EXCEPT ![n] = f][a] = s.stack[a]
  BY <1>1, <1>2, <1>3, SeqExcept
<1>6. /\ Advance(s) \in Walks /\ Advance(s).status = s.status
      /\ Advance(s).color = s.color
      /\ Advance(s).stack = [s.stack EXCEPT ![n] = f]
  BY <1>4, <1>5, Zenon DEF Walks
<1> HIDE DEF n
<1>7. \A a \in 1..n : a = n \/ a \in 1..(n - 1)
  BY <1>1
<1> QED
  BY <1>3, <1>5, <1>6, <1>7 DEF Depth, JobAt, NextAt, Color, n

\* A document whose names are known: the needs are jobs.
LEMMA NeedsAreJobs ==
  ASSUME PlanTypeOK, NamesKnown
  PROVE  \A j \in Jobs : /\ NNeeds(j) \in Nat /\ NeedsOf(j) \subseteq Jobs
                         /\ \A k \in 1..NNeeds(j) : NeedAt(j, k) \in Jobs /\ NeedAt(j, k) \in NeedsOf(j)
                         /\ \A d \in NeedsOf(j) : \E k \in 1..NNeeds(j) : d = NeedAt(j, k)
<1> SUFFICES ASSUME NEW j \in Jobs
             PROVE  /\ NNeeds(j) \in Nat /\ NeedsOf(j) \subseteq Jobs
                    /\ \A k \in 1..NNeeds(j) : NeedAt(j, k) \in Jobs /\ NeedAt(j, k) \in NeedsOf(j)
                    /\ \A d \in NeedsOf(j) : \E k \in 1..NNeeds(j) : d = NeedAt(j, k)
  OBVIOUS
<1>1. doc.needs[j] \in Seq(1..Unknown)
  BY DEF PlanTypeOK
<1>2. Len(doc.needs[j]) \in Nat /\ DOMAIN doc.needs[j] = 1..Len(doc.needs[j])
  BY <1>1
<1> QED
  BY <1>2 DEF NamesKnown, NeedsOf, Range, NNeeds, NeedAt

\* The loop over the jobs starts a walk.
LEMMA WalkStarts ==
  ASSUME PlanTypeOK, NamesKnown, NEW s \in Walks, Walked(s), s.stack = <<>>,
         NEW j \in Jobs, Color(s, j) = "white"
  PROVE  Walked(Enter(s, j))
<1> DEFINE t == Enter(s, j)
<1>1. Depth(s) = 0
  BY WalkType
<1>2. /\ Depth(t) = 1 /\ JobAt(t, 1) = j /\ NextAt(t, 1) = 1
      /\ \A i \in Jobs : Color(t, i) = IF i = j THEN "grey" ELSE Color(s, i)
  BY <1>1, EnterFields
<1> HIDE DEF t
<1>3. PathOK(t)
  BY <1>2, NeedsAreJobs DEF PathOK
<1>4. ColorsOK(t)
  BY <1>1, <1>2, NeedsAreJobs DEF Walked, ColorsOK
<1>5. BlackOK(t)
  BY <1>2 DEF Walked, BlackOK
<1> QED
  BY <1>3, <1>4, <1>5 DEF Walked, t

\* The loop over the needs passes a need that is black.
LEMMA WalkPasses ==
  ASSUME PlanTypeOK, NamesKnown, NEW s \in Walks, Walked(s), s.stack # <<>>,
         NEW n \in Nat \ {0}, n = Depth(s), NextAt(s, n) <= NNeeds(JobAt(s, n)),
         Color(s, NeedAt(JobAt(s, n), NextAt(s, n))) = "black"
  PROVE  Walked(Advance(s))
<1> DEFINE t == Advance(s)
<1>1. \A a \in 1..n : JobAt(s, a) \in Jobs /\ NextAt(s, a) \in Nat \ {0}
  BY WalkType
<1>2. /\ Depth(t) = n /\ \A i \in Jobs : Color(t, i) = Color(s, i)
      /\ \A a \in 1..n : JobAt(t, a) = JobAt(s, a)
      /\ \A a \in 1..n : NextAt(t, a) = IF a = n THEN NextAt(s, a) + 1 ELSE NextAt(s, a)
  BY AdvanceFields
<1> HIDE DEF t
<1>3. PathOK(t)
  <2>1. \A a \in 1..n : NextAt(t, a) <= NNeeds(JobAt(t, a)) + 1
    <3>1. \A a \in 1..n : NNeeds(JobAt(s, a)) \in Nat /\ NextAt(s, a) <= NNeeds(JobAt(s, a)) + 1
      BY <1>1, NeedsAreJobs DEF Walked, PathOK
    <3> QED
      BY <1>1, <1>2, <3>1
  <2>2. ASSUME NEW a \in 1..n, a < n
        PROVE  NextAt(t, a) > 1 /\ JobAt(t, a + 1) = NeedAt(JobAt(t, a), NextAt(t, a) - 1)
    BY <1>2, <2>2 DEF Walked, PathOK
  <2> QED
    BY <1>2, <2>1, <2>2 DEF Walked, PathOK
<1>4. ColorsOK(t)
  <2>1. \A i \in Jobs : Color(t, i) = "grey" <=> \E a \in 1..n : JobAt(t, a) = i
    BY <1>2 DEF Walked, ColorsOK
  <2>2. \A i \in Jobs : Color(t, i) = "black" => \A k \in NeedsOf(i) : Color(t, k) = "black"
    BY <1>2, NeedsAreJobs DEF Walked, ColorsOK
  <2>3. ASSUME NEW a \in 1..n, NEW k \in 1..(NextAt(t, a) - 1)
        PROVE  Color(t, NeedAt(JobAt(t, a), k)) = "black" \/ (a < n /\ k = NextAt(t, a) - 1)
    <3>1. NeedAt(JobAt(s, a), k) \in Jobs
      BY <1>1, <1>2, NeedsAreJobs DEF Walked, PathOK
    <3>2. CASE a < n
      BY <1>1, <1>2, <3>1, <3>2 DEF Walked, ColorsOK
    <3>3. CASE a = n
      <4>1. k = NextAt(s, n) \/ k \in 1..(NextAt(s, n) - 1)
        BY <1>1, <1>2, <3>3
      <4> QED
        BY <1>2, <3>1, <3>3, <4>1 DEF Walked, ColorsOK
    <3> QED
      BY <3>2, <3>3
  <2> QED
    BY <1>2, <2>1, <2>2, <2>3 DEF ColorsOK
<1>5. BlackOK(t)
  BY <1>2 DEF Walked, BlackOK
<1> QED
  BY <1>3, <1>4, <1>5 DEF Walked, t

\* A need that is white is visited: the walk grows by one frame.
LEMMA WalkGoesDown ==
  ASSUME PlanTypeOK, NamesKnown, NEW s \in Walks, Walked(s), s.stack # <<>>,
         NEW n \in Nat \ {0}, n = Depth(s), NextAt(s, n) <= NNeeds(JobAt(s, n)),
         NEW d \in Jobs, d = NeedAt(JobAt(s, n), NextAt(s, n)), Color(s, d) = "white"
  PROVE  Walked(Enter(Advance(s), d))
<1> DEFINE t == Enter(Advance(s), d)
<1>1. \A a \in 1..n : JobAt(s, a) \in Jobs /\ NextAt(s, a) \in Nat \ {0}
  BY WalkType
<1>2. /\ Advance(s) \in Walks
      /\ Depth(Advance(s)) = n /\ \A i \in Jobs : Color(Advance(s), i) = Color(s, i)
      /\ \A a \in 1..n : JobAt(Advance(s), a) = JobAt(s, a)
      /\ \A a \in 1..n : NextAt(Advance(s), a) = IF a = n THEN NextAt(s, a) + 1 ELSE NextAt(s, a)
  BY AdvanceFields
<1>3. /\ Depth(t) = n + 1 /\ JobAt(t, n + 1) = d /\ NextAt(t, n + 1) = 1
      /\ \A i \in Jobs : Color(t, i) = IF i = d THEN "grey" ELSE Color(s, i)
      /\ \A a \in 1..n : JobAt(t, a) = JobAt(s, a)
      /\ \A a \in 1..n : NextAt(t, a) = IF a = n THEN NextAt(s, a) + 1 ELSE NextAt(s, a)
  BY <1>2, EnterFields
<1> HIDE DEF t
<1>4. \A a \in 1..(n + 1) : a = n + 1 \/ a \in 1..n
  OBVIOUS
<1>5. PathOK(t)
  <2>1. \A a \in 1..(n + 1) : NextAt(t, a) <= NNeeds(JobAt(t, a)) + 1
    <3>1. \A a \in 1..n : NNeeds(JobAt(s, a)) \in Nat /\ NextAt(s, a) <= NNeeds(JobAt(s, a)) + 1
      BY <1>1, NeedsAreJobs DEF Walked, PathOK
    <3>2. NNeeds(d) \in Nat
      BY NeedsAreJobs
    <3>3. NextAt(t, n + 1) <= NNeeds(JobAt(t, n + 1)) + 1
      BY <1>3, <3>2
    <3>4. \A a \in 1..n : NextAt(t, a) <= NNeeds(JobAt(t, a)) + 1
      BY <1>1, <1>3, <3>1
    <3> QED
      BY <1>4, <3>3, <3>4
  <2>2. ASSUME NEW a \in 1..n
        PROVE  NextAt(t, a) > 1 /\ JobAt(t, a + 1) = NeedAt(JobAt(t, a), NextAt(t, a) - 1)
    <3>1. CASE a = n
      BY <1>1, <1>3, <3>1
    <3>2. CASE a < n
      BY <1>1, <1>3, <3>2 DEF Walked, PathOK
    <3> QED
      BY <3>1, <3>2
  <2>3. \A a \in 1..n : JobAt(s, a) # d
    BY DEF Walked, ColorsOK
  <2>4. \A a, b \in 1..(n + 1) : JobAt(t, a) = JobAt(t, b) => a = b
    BY <1>3, <1>4, <2>3 DEF Walked, PathOK
  <2>5. \A a \in 1..(n + 1) : a < n + 1 => a \in 1..n
    OBVIOUS
  <2> QED
    BY <1>3, <2>1, <2>2, <2>4, <2>5 DEF PathOK
<1>6. ColorsOK(t)
  <2>1. \A i \in Jobs : Color(t, i) = "grey" <=> \E a \in 1..(n + 1) : JobAt(t, a) = i
    BY <1>3, <1>4 DEF Walked, ColorsOK
  <2>2. \A i \in Jobs : Color(t, i) = "black" => \A k \in NeedsOf(i) : Color(t, k) = "black"
    BY <1>3, NeedsAreJobs, Zenon DEF Walked, ColorsOK
  <2>3. ASSUME NEW a \in 1..(n + 1), NEW k \in 1..(NextAt(t, a) - 1)
        PROVE  Color(t, NeedAt(JobAt(t, a), k)) = "black" \/ (a < n + 1 /\ k = NextAt(t, a) - 1)
    <3>1. CASE a = n + 1
      BY <1>3, <3>1
    <3>2. CASE a < n
      <4>1. NeedAt(JobAt(s, a), k) \in Jobs
        <5>1. a \in 1..n /\ NextAt(s, a) <= NNeeds(JobAt(s, a)) + 1 /\ k \in 1..(NextAt(s, a) - 1)
          BY <1>3, <3>2 DEF Walked, PathOK
        <5>2. JobAt(s, a) \in Jobs /\ NextAt(s, a) \in Nat \ {0} /\ NNeeds(JobAt(s, a)) \in Nat
          BY <1>1, <5>1, NeedsAreJobs, Zenon
        <5>3. k \in 1..NNeeds(JobAt(s, a))
          BY <5>1, <5>2
        <5> QED
          BY <5>2, <5>3, NeedsAreJobs, Zenon
      <4> QED
        BY <1>1, <1>3, <3>2, <4>1 DEF Walked, ColorsOK
    <3>3. CASE a = n
      <4>1. k = NextAt(s, n) \/ k \in 1..(NextAt(s, n) - 1)
        BY <1>1, <1>3, <3>3
      <4>2. NeedAt(JobAt(s, n), k) \in Jobs
        BY <1>1, <4>1, NeedsAreJobs DEF Walked, PathOK
      <4> QED
        BY <1>1, <1>3, <3>3, <4>1, <4>2 DEF Walked, ColorsOK
    <3> QED
      BY <3>1, <3>2, <3>3
  <2> QED
    BY <1>3, <2>1, <2>2, <2>3 DEF ColorsOK
<1>7. BlackOK(t)
  BY <1>3 DEF Walked, BlackOK
<1> QED
  BY <1>5, <1>6, <1>7 DEF Walked, t

-----------------------------------------------------------------------------
(* What the search says *)

\* What the search rests on besides its own steps: a sequence can be shortened,
\* a list of jobs with none twice is no longer than there are jobs, and a set
\* of numbers has its least one.  Module PlanProofs shows it, from the
\* library's theorems.
ListFacts ==
  /\ \A q \in Seq(Frames) : q # <<>> =>
       /\ SubSeq(q, 1, Len(q) - 1) \in Seq(Frames) /\ Len(SubSeq(q, 1, Len(q) - 1)) = Len(q) - 1
       /\ \A a \in 1..(Len(q) - 1) : SubSeq(q, 1, Len(q) - 1)[a] = q[a]
  /\ \A n \in Nat : \A f \in [1..n -> Jobs] :
       /\ f \in Seq(Jobs) /\ Len(f) = n
       /\ (\A a, b \in 1..n : f[a] = f[b] => a = b) => n <= N /\ Cardinality(Range(f)) = n
  /\ \A S \in SUBSET Nat : S # {} => Min(S) \in S

\* visit returns: the job of the frame on top turns black.
LEMMA ReturnFields ==
  ASSUME ListFacts, NEW s \in Walks, s.stack # <<>>
  PROVE  LET t == Return(s)
         IN  /\ t \in Walks /\ t.status = s.status /\ Depth(t) = Depth(s) - 1
             /\ \A i \in Jobs : Color(t, i) = IF i = JobAt(s, Depth(s)) THEN "black" ELSE Color(s, i)
             /\ \A a \in 1..(Depth(s) - 1) : JobAt(t, a) = JobAt(s, a) /\ NextAt(t, a) = NextAt(s, a)
<1> DEFINE j == Top(s).job
<1>1. s.stack \in Seq(Frames) /\ s.color \in [Jobs -> Colors]
  BY DEF Walks
<1>2. j = JobAt(s, Depth(s))
  BY WalkType
<1> DEFINE rest == SubSeq(s.stack, 1, Len(s.stack) - 1)
<1>3. /\ rest \in Seq(Frames) /\ Len(rest) = Len(s.stack) - 1
      /\ \A a \in 1..(Len(s.stack) - 1) : rest[a] = s.stack[a]
  BY <1>1 DEF ListFacts
<1>4. [s.color EXCEPT ![j] = "black"] \in [Jobs -> Colors]
  BY <1>1, Zenon DEF Colors
<1>5. Return(s) = [s EXCEPT !.color = [s.color EXCEPT ![j] = "black"], !.stack = rest]
  BY DEF Return, Walks
<1> HIDE DEF j, rest
<1>6. /\ Return(s) \in Walks /\ Return(s).status = s.status
      /\ Return(s).color = [s.color EXCEPT ![j] = "black"]
      /\ Return(s).stack = rest
  BY <1>3, <1>4, <1>5, Zenon DEF Walks
<1> QED
  BY <1>1, <1>2, <1>3, <1>6, Zenon DEF Depth, JobAt, NextAt, Color

\* visit is left: its needs are all black, so its job closes no circle.
LEMMA WalkReturns ==
  ASSUME ListFacts, PlanTypeOK, NamesKnown, NEW s \in Walks, Walked(s), s.stack # <<>>,
         NEW n \in Nat \ {0}, n = Depth(s), NEW j \in Jobs, j = JobAt(s, n), NextAt(s, n) > NNeeds(j)
  PROVE  Walked(Return(s))
<1> DEFINE t == Return(s)
<1>1. \A a \in 1..n : JobAt(s, a) \in Jobs /\ NextAt(s, a) \in Nat \ {0}
  BY WalkType
<1>2. /\ Depth(t) = n - 1
      /\ \A i \in Jobs : Color(t, i) = IF i = j THEN "black" ELSE Color(s, i)
      /\ \A a \in 1..(n - 1) : JobAt(t, a) = JobAt(s, a) /\ NextAt(t, a) = NextAt(s, a)
  BY ReturnFields
<1> HIDE DEF t
<1>3. PathOK(t)
  <2>1. \A a \in 1..(n - 1) : NextAt(t, a) <= NNeeds(JobAt(t, a)) + 1
    BY <1>2 DEF Walked, PathOK
  <2>2. ASSUME NEW a \in 1..(n - 1), a < n - 1
        PROVE  NextAt(t, a) > 1 /\ JobAt(t, a + 1) = NeedAt(JobAt(t, a), NextAt(t, a) - 1)
    BY <1>2, <2>2 DEF Walked, PathOK
  <2>3. \A a, b \in 1..(n - 1) : JobAt(t, a) = JobAt(t, b) => a = b
    BY <1>2 DEF Walked, PathOK
  <2> QED
    BY <1>2, <2>1, <2>2, <2>3 DEF PathOK
<1>4. \A k \in NeedsOf(j) : k \in Jobs /\ Color(s, k) = "black"
  <2>1. NNeeds(j) \in Nat /\ NextAt(s, n) = NNeeds(j) + 1
    BY <1>1, NeedsAreJobs DEF Walked, PathOK
  <2>2. \A k \in 1..NNeeds(j) : Color(s, NeedAt(j, k)) = "black"
    BY <2>1 DEF Walked, ColorsOK
  <2> QED
    BY <2>2, NeedsAreJobs
<1>5. Color(s, j) = "grey"
  BY DEF Walked, ColorsOK
<1>6. ColorsOK(t)
  <2>1. ASSUME NEW i \in Jobs
        PROVE  Color(t, i) = "grey" <=> \E a \in 1..(n - 1) : JobAt(t, a) = i
    <3>1. Color(s, i) = "grey" <=> \E a \in 1..n : JobAt(s, a) = i
      BY DEF Walked, ColorsOK
    <3>2. \A a \in 1..(n - 1) : JobAt(s, a) # j
      BY DEF Walked, PathOK
    <3> QED
      BY <1>2, <3>1, <3>2
  <2>2. \A i \in Jobs : Color(t, i) = "black" => \A k \in NeedsOf(i) : Color(t, k) = "black"
    BY <1>2, <1>4, NeedsAreJobs, Zenon DEF Walked, ColorsOK
  <2>3. ASSUME NEW a \in 1..(n - 1), NEW k \in 1..(NextAt(t, a) - 1)
        PROVE  Color(t, NeedAt(JobAt(t, a), k)) = "black" \/ (a < n - 1 /\ k = NextAt(t, a) - 1)
    <3>1. NeedAt(JobAt(s, a), k) \in Jobs
      <4>1. NNeeds(JobAt(s, a)) \in Nat /\ NextAt(s, a) <= NNeeds(JobAt(s, a)) + 1
        BY <1>1, NeedsAreJobs DEF Walked, PathOK
      <4>2. k \in 1..NNeeds(JobAt(s, a))
        BY <1>1, <1>2, <4>1
      <4> QED
        BY <1>1, <4>2, NeedsAreJobs
    <3>2. Color(s, NeedAt(JobAt(s, a), k)) = "black" \/ k = NextAt(s, a) - 1
      BY <1>2 DEF Walked, ColorsOK
    <3>3. JobAt(s, a + 1) = NeedAt(JobAt(s, a), NextAt(s, a) - 1)
      BY DEF Walked, PathOK
    <3> QED
      BY <1>2, <3>1, <3>2, <3>3
  <2> QED
    BY <1>2, <2>1, <2>2, <2>3 DEF ColorsOK
<1>7. BlackOK(t)
  <2> SUFFICES ASSUME NEW S \in SUBSET Jobs, \A i \in S : Color(t, i) = "black", Circular(S)
               PROVE  FALSE
    BY DEF BlackOK
  <2>1. CASE j \notin S
    BY <1>2, <2>1 DEF Walked, BlackOK
  <2>2. CASE j \in S
    <3> DEFINE R == S \ {j}
    <3>1. R \in SUBSET Jobs /\ \A i \in R : Color(s, i) = "black"
      BY <1>2
    <3>2. R # {}
      BY <1>4, <1>5, <2>2 DEF Circular
    <3>3. \A i \in R : NeedsOf(i) \cap R # {}
      <4> SUFFICES ASSUME NEW i \in R
                   PROVE  NeedsOf(i) \cap R # {}
        OBVIOUS
      <4>1. PICK k \in NeedsOf(i) : k \in S
        BY DEF Circular
      <4>2. Color(s, k) = "black"
        BY <3>1, <4>1 DEF Walked, ColorsOK
      <4> QED
        BY <1>5, <4>1, <4>2
    <3>4. Circular(R)
      BY <3>2, <3>3 DEF Circular
    <3> QED
      BY <3>1, <3>4 DEF Walked, BlackOK
  <2> QED
    BY <2>1, <2>2
<1> QED
  BY <1>3, <1>6, <1>7 DEF Walked, t

\* The stack holds no more frames than there are jobs.
LEMMA StackFits ==
  ASSUME ListFacts, NEW s \in Walks, PathOK(s)
  PROVE  Len(s.stack) <= N
<1> DEFINE f == [a \in 1..Depth(s) |-> JobAt(s, a)]
<1>1. Depth(s) \in Nat /\ f \in [1..Depth(s) -> Jobs]
  BY WalkType
<1>2. \A a, b \in 1..Depth(s) : f[a] = f[b] => a = b
  BY DEF PathOK
<1> HIDE DEF f
<1>3. Depth(s) <= N
  BY <1>1, <1>2 DEF ListFacts
<1> QED
  BY <1>3 DEF Depth

\* Below the modulus nothing is taken away.
LEMMA SmallMod == \A m \in Nat : \A i \in Nat : i < m => i % m = i
  OBVIOUS

\* The path that is printed is a cycle: the stack from d on, whose top needs d.
LEMMA CyclePath ==
  ASSUME ListFacts, PlanTypeOK, NamesKnown, NEW s \in Walks, Walked(s), s.stack # <<>>,
         NEW n \in Nat \ {0}, n = Depth(s), NextAt(s, n) <= NNeeds(JobAt(s, n)),
         NEW d \in Jobs, d = NeedAt(JobAt(s, n), NextAt(s, n)), Color(s, d) = "grey"
  PROVE  LET t == Cycle(s, d)
         IN  /\ t \in Walks /\ t.status = "cycle" /\ t.stack = s.stack
             /\ t.path # <<>> /\ Cardinality(Range(t.path)) = Len(t.path)
             /\ \A i \in DOMAIN t.path : t.path[(i % Len(t.path)) + 1] \in NeedsOf(t.path[i])
<1> DEFINE at == CHOOSE i \in DOMAIN s.stack : s.stack[i].job = d
           m == n - at + 1
           q == [i \in 1..(Len(s.stack) - at + 1) |-> s.stack[at + i - 1].job]
<1>1. \A a \in 1..n : JobAt(s, a) \in Jobs /\ NextAt(s, a) \in Nat \ {0}
  BY WalkType
<1>2. at \in 1..n /\ JobAt(s, at) = d
  <2>1. \E i \in DOMAIN s.stack : s.stack[i].job = d
    BY WalkType, Zenon DEF Walked, ColorsOK, JobAt
  <2> QED
    BY <2>1, WalkType DEF JobAt
<1>3. Cycle(s, d) = [s EXCEPT !.status = "cycle", !.path = q]
  BY DEF Cycle
<1> HIDE DEF at
<1>4. m \in 1..n /\ q = [i \in 1..m |-> JobAt(s, at + i - 1)]
  <2>1. m \in 1..n /\ Len(s.stack) - at + 1 = m
    <3> HIDE DEF q
    <3> QED
      BY <1>2 DEF Depth
  <2>2. \A i : s.stack[at + i - 1].job = JobAt(s, at + i - 1)
    BY Zenon DEF JobAt
  <2> QED
    BY <2>1, <2>2, Zenon
<1>5. q \in Seq(Jobs) /\ Len(q) = m /\ DOMAIN q = 1..m /\ \A i \in 1..m : q[i] = JobAt(s, at + i - 1)
  <2>1. \A i \in 1..m : at + i - 1 \in 1..n
    BY <1>2
  <2>2. m \in Nat
    BY <1>4
  <2> HIDE DEF q, m
  <2>3. q \in [1..m -> Jobs] /\ \A i \in 1..m : q[i] = JobAt(s, at + i - 1)
    BY <1>1, <1>4, <2>1
  <2> QED
    BY <2>2, <2>3 DEF ListFacts
<1> HIDE DEF q
<1>6. \A a, b \in DOMAIN q : q[a] = q[b] => a = b
  <2> SUFFICES ASSUME NEW a \in 1..m, NEW b \in 1..m, q[a] = q[b]
               PROVE  a = b
    BY <1>5
  <2>1. at + a - 1 \in 1..n /\ at + b - 1 \in 1..n
    BY <1>2
  <2>2. at + a - 1 = at + b - 1
    BY <1>5, <2>1 DEF Walked, PathOK
  <2> QED
    BY <1>2, <2>2
<1>7. ASSUME NEW i \in 1..m
      PROVE  q[(i % m) + 1] \in NeedsOf(q[i])
  <2>1. CASE i = m
    <3>1. i % m = 0
      BY <1>4, <2>1
    <3>2. q[1] = d /\ q[m] = JobAt(s, n)
      BY <1>2, <1>4, <1>5
    <3> QED
      BY <1>1, <2>1, <3>1, <3>2, NeedsAreJobs
  <2>2. CASE i < m
    <3>1. i % m = i
      BY <1>4, <2>2, SmallMod
    <3> DEFINE a == at + i - 1
    <3>2. a \in 1..n /\ a < n /\ a + 1 = at + (i + 1) - 1 /\ i + 1 \in 1..m
      BY <1>2, <1>4, <2>2
    <3>3. q[i] = JobAt(s, a) /\ q[i + 1] = JobAt(s, a + 1)
      BY <1>5, <3>2
    <3> HIDE DEF a
    <3>4. /\ NextAt(s, a) - 1 \in 1..NNeeds(JobAt(s, a))
          /\ JobAt(s, a + 1) = NeedAt(JobAt(s, a), NextAt(s, a) - 1)
      BY <1>1, <3>2, NeedsAreJobs DEF Walked, PathOK
    <3> QED
      BY <1>1, <3>1, <3>2, <3>3, <3>4, NeedsAreJobs
  <2> QED
    BY <1>4, <2>1, <2>2
<1>8. Cardinality(Range(q)) = Len(q)
  <2>1. m \in Nat /\ q \in [1..m -> Jobs]
    BY <1>4, <1>5
  <2> QED
    BY <1>5, <1>6, <2>1, Zenon DEF ListFacts
<1>9. /\ Cycle(s, d) \in Walks /\ Cycle(s, d).status = "cycle" /\ Cycle(s, d).stack = s.stack
      /\ Cycle(s, d).path = q
  BY <1>3, <1>5, Zenon DEF Walks
<1> HIDE DEF m
<1>10. q # <<>>
  BY <1>4, <1>5
<1>11. \A i \in DOMAIN q : q[(i % Len(q)) + 1] \in NeedsOf(q[i])
  BY <1>5, <1>7
<1> QED
  BY <1>8, <1>9, <1>10, <1>11

\* What a step of the search promises about the walk it leaves.
Searched(t) ==
  /\ t \in Walks /\ t.status \in {"none", "ok", "cycle"} /\ Len(t.stack) <= N
  /\ t.status \in {"none", "ok"} => Walked(t)
  /\ t.status = "ok" => NoCircle
  /\ t.status = "cycle" =>
       /\ t.path # <<>> /\ Cardinality(Range(t.path)) = Len(t.path)
       /\ \A i \in DOMAIN t.path : t.path[(i % Len(t.path)) + 1] \in NeedsOf(t.path[i])

\* A walk that goes on.
LEMMA GoesOn ==
  ASSUME PlanAssumption, ListFacts, NEW t \in Walks, t.status = "none", Walked(t)
  PROVE  Searched(t)
<1>1. Len(t.stack) <= N
  BY StackFits DEF Walked
<1> QED
  BY <1>1 DEF Searched

\* Each turn of the loops in visit and qwe_dag_check keeps the walk in order,
\* and the search ends with the truth.
LEMMA VisitStepOK ==
  ASSUME PlanAssumption, ListFacts, PlanTypeOK, NamesKnown, NEW s \in Walks, Walked(s), s.status = "none"
  PROVE  Searched(VisitStep(s))
<1> DEFINE white == {j \in Jobs : s.color[j] = "white"}
           top == Top(s)
           d == doc.needs[top.job][top.next]
<1>1. CASE s.stack = <<>> /\ white = {}
  <2>1. VisitStep(s) = [s EXCEPT !.status = "ok"]
    BY <1>1 DEF VisitStep
  <2> DEFINE t == [s EXCEPT !.status = "ok"]
  <2>2. t \in Walks /\ t.status = "ok" /\ t.stack = s.stack /\ t.color = s.color
    BY Zenon DEF Walks
  <2> HIDE DEF t
  <2>3. PathOK(t) /\ ColorsOK(t) /\ BlackOK(t)
    BY <2>2 DEF Walked, PathOK, ColorsOK, BlackOK, Depth, JobAt, NextAt, Color
  <2>4. \A j \in Jobs : Color(s, j) = "black"
    <3>1. Depth(s) = 0 /\ \A j \in Jobs : Color(s, j) \in Colors
      BY <1>1, WalkType
    <3>2. \A j \in Jobs : Color(s, j) # "grey"
      BY <3>1 DEF Walked, ColorsOK
    <3>3. \A j \in Jobs : Color(s, j) # "white"
      BY <1>1 DEF Color
    <3> QED
      BY <3>1, <3>2, <3>3, Zenon DEF Colors
  <2>5. NoCircle
    BY <2>4 DEF NoCircle, Walked, BlackOK
  <2>6. Len(t.stack) <= N
    BY <2>2, <2>3, StackFits
  <2> QED
    BY <2>1, <2>2, <2>3, <2>5, <2>6 DEF Searched, Walked, t
<1>2. CASE s.stack = <<>> /\ white # {}
  <2> DEFINE j == Min(white)
  <2>1. white \in SUBSET Nat
    BY PlanAssumption DEF Jobs
  <2>2. j \in white
    BY <1>2, <2>1, Zenon DEF ListFacts
  <2>3. j \in Jobs /\ Color(s, j) = "white"
    BY <2>2 DEF Color
  <2>4. VisitStep(s) = Enter(s, j)
    BY <1>2 DEF VisitStep
  <2> HIDE DEF j
  <2>5. Walked(Enter(s, j)) /\ Enter(s, j) \in Walks /\ Enter(s, j).status = "none"
    BY <1>2, <2>3, WalkStarts, EnterFields
  <2> QED
    BY <2>4, <2>5, GoesOn
<1>3. CASE s.stack # <<>>
  <2> DEFINE n == Depth(s)
  <2>1. /\ n \in Nat \ {0} /\ top.job = JobAt(s, n) /\ top.next = NextAt(s, n)
        /\ JobAt(s, n) \in Jobs /\ NextAt(s, n) \in Nat \ {0} /\ NNeeds(JobAt(s, n)) \in Nat
        /\ d = NeedAt(JobAt(s, n), NextAt(s, n)) /\ Len(doc.needs[top.job]) = NNeeds(JobAt(s, n))
    <3>1. n \in Nat \ {0} /\ top.job = JobAt(s, n) /\ top.next = NextAt(s, n)
      BY <1>3, WalkType
    <3>2. JobAt(s, n) \in Jobs /\ NextAt(s, n) \in Nat \ {0}
      BY <3>1, WalkType
    <3> QED
      BY <3>1, <3>2, NeedsAreJobs DEF NeedAt, NNeeds
  <2>2. CASE top.next > Len(doc.needs[top.job])
    <3>1. VisitStep(s) = Return(s)
      BY <1>3, <2>2, Zenon DEF VisitStep
    <3>2. Walked(Return(s)) /\ Return(s) \in Walks /\ Return(s).status = "none"
      BY <1>3, <2>1, <2>2, WalkReturns, ReturnFields, SMTT(20)
    <3> QED
      BY <3>1, <3>2, GoesOn
  <2>3. CASE ~(top.next > Len(doc.needs[top.job]))
    <3>1. NextAt(s, n) <= NNeeds(JobAt(s, n)) /\ d \in Jobs
      BY <2>1, <2>3, NeedsAreJobs, SMTT(20)
    <3>2. s.color[d] = Color(s, d) /\ Color(s, d) \in Colors
      BY <3>1, WalkType DEF Color
    <3>3. CASE s.color[d] = "grey"
      <4>1. VisitStep(s) = Cycle(s, d)
        BY <1>3, <2>3, <3>3 DEF VisitStep
      <4>2. /\ Cycle(s, d) \in Walks /\ Cycle(s, d).status = "cycle" /\ Cycle(s, d).stack = s.stack
            /\ Cycle(s, d).path # <<>>
            /\ Cardinality(Range(Cycle(s, d).path)) = Len(Cycle(s, d).path)
            /\ \A i \in DOMAIN Cycle(s, d).path :
                 Cycle(s, d).path[(i % Len(Cycle(s, d).path)) + 1] \in NeedsOf(Cycle(s, d).path[i])
        <5> HIDE DEF d, top, n
        <5> QED
          BY <1>3, <2>1, <3>1, <3>2, <3>3, CyclePath, ZenonT(30) DEF n
      <4>3. Len(s.stack) <= N
        BY StackFits DEF Walked
      <4> QED
        BY <4>1, <4>2, <4>3, Zenon DEF Searched
    <3>4. CASE s.color[d] = "white"
      <4>1. VisitStep(s) = Enter(Advance(s), d)
        BY <1>3, <2>3, <3>4, Zenon DEF VisitStep
      <4>2. Advance(s) \in Walks /\ Advance(s).status = "none"
        BY <1>3, AdvanceFields, Zenon
      <4>3. Enter(Advance(s), d) \in Walks /\ Enter(Advance(s), d).status = "none"
        BY <3>1, <4>2, EnterFields
      <4>4. Walked(Enter(Advance(s), d))
        <5> HIDE DEF d, top, n
        <5> QED
          BY <1>3, <2>1, <3>1, <3>2, <3>4, WalkGoesDown, Zenon DEF n
      <4> QED
        BY <4>1, <4>3, <4>4, GoesOn, Zenon
    <3>5. CASE s.color[d] = "black"
      <4>1. VisitStep(s) = Advance(s)
        BY <1>3, <2>3, <3>5 DEF VisitStep
      <4>2. Advance(s) \in Walks /\ Advance(s).status = "none"
        BY <1>3, AdvanceFields
      <4>3. Walked(Advance(s))
        <5> HIDE DEF d, top, n
        <5> QED
          BY <1>3, <2>1, <3>1, <3>2, <3>5, WalkPasses, Zenon DEF n
      <4> QED
        BY <4>1, <4>2, <4>3, GoesOn
    <3> QED
      BY <3>2, <3>3, <3>4, <3>5, Zenon DEF Colors
  <2> QED
    BY <2>2, <2>3
<1> QED
  BY <1>1, <1>2, <1>3

-----------------------------------------------------------------------------
\* What the search knows; the documents that are past it are acyclic.
SearchInv ==
  /\ pc \in {"load", "validate", "dag"} => search = NewSearch
  /\ pc = "visit" => NamesKnown /\ search.status = "none"
  /\ search.status \in {"none", "ok"} => Walked(search)
  /\ pc \in {"jobs", "select", "rundir", "run"} => search.status = "ok"
  /\ search.status = "ok" => NamesKnown

Closed == \A j \in keep : NeedsOf(j) \subseteq keep

\* The do loop of select_jobs: a sweep that has changed nothing so far has
\* passed only jobs whose needs are all marked.
SelectInv ==
  /\ pc = "select" /\ sweep.changed = 0 =>
       \A j \in keep : j < sweep.at => NeedsOf(j) \subseteq keep
  /\ pc # "select" => sweep = NewSweep
  /\ pc \in {"rundir", "run"} => Closed

\* A job that was skipped without a cancel is on a disabled target or needs one
\* that did not succeed.
SkipsHaveCause ==
  ~cancel => \A j \in Jobs : outcome[j] = "skipped" =>
    j \in Disabled \/ \E k \in NeedsOf(j) \cap keep : outcome[k] \in {"failed", "cancelled", "skipped"}

RunInv ==
  /\ pc \notin {"run", "over"} \/ exit.code = "usage" => \A j \in Jobs : outcome[j] = "pending"
  /\ pc # "over" => exit = NotOver
  /\ SkipsHaveCause

PlanInv ==
  /\ PlanTypeOK /\ SearchInv /\ SelectInv /\ RunInv
  /\ CycleFoundIffThere /\ SelectionIsRunnable /\ ExitTellsTheTruth

-----------------------------------------------------------------------------
(* References *)

Keys == {"k", "x"}

\* What a text can become.
Vals ==
  {Empty} \cup ({"secret"} \X {"workflow", "inventory", "target"}) \cup ({"var"} \X STRING)
    \cup ({"output"} \X Nat \X STRING)

\* The table of outputs after n steps that wrote w: what each step with an id
\* wrote, and nothing else.
OutputsOK(t, n, outs, w) ==
  /\ \A o \in outs : o.step \in 1..n /\ o.id = t.steps[o.step].id /\ o.id # NoId /\ o.key \in w[o.step]
  /\ \A b \in 1..n : t.steps[b].id # NoId =>
       \A k \in w[b] : \E o \in outs : o.id = t.steps[b].id /\ o.step = b /\ o.key = k

\* The reference a text comes down to.
RefOf(t, i) ==
  IF t.steps[i].text.kind = "env" /\ t.steps[i].text.name = "E" THEN EnvRef(t, i) ELSE t.steps[i].text

\* Means, of any document and of any steps; that one step has the id is said
\* without counting.
StandsFor(t, w, r, i, v) ==
  CASE r.kind = "secrets" -> {v} = {<<"secret", p>> : p \in Visible(t, t.target)}
    [] r.kind = "vars" -> v = <<"var", r.name>>
    [] r.kind = "steps" ->
         \E s \in DOMAIN t.steps :
           /\ s < i /\ {b \in DOMAIN t.steps : t.steps[b].id = r.name} = {s}
           /\ v = IF r.key \in w[s] THEN <<"output", s, r.key>> ELSE Empty
    [] OTHER -> v = Empty

RefsInv ==
  /\ doc.tpl \in Tpls
  /\ pc \notin {"load", "validate", "over"} => ~Rejected(doc.tpl)
  /\ steps.at \in 1..(Len(doc.tpl.steps) + 1)
  /\ steps.wrote \in Seq(SUBSET Keys) /\ Len(steps.wrote) = steps.at - 1
  /\ steps.got \in Seq(Vals) /\ Len(steps.got) = steps.at - 1
  /\ OutputsOK(doc.tpl, steps.at - 1, steps.outputs, steps.wrote)
  /\ \A i \in 1..(steps.at - 1) :
       StandsFor(doc.tpl, steps.wrote, RefOf(doc.tpl, i), i, steps.got[i])

\* A step's reference, with what validation has seen to: a secret in scope, a
\* var of the target, or the id of an earlier step.
LEMMA RefAllowed ==
  ASSUME NEW t \in Tpls, ~Rejected(t), NEW i \in DOMAIN t.steps
  PROVE  /\ RefOf(t, i) \in Refs
         /\ RefOf(t, i).kind = "secrets" => Visible(t, t.target) # {}
         /\ RefOf(t, i).kind = "vars" => t.target = "t" /\ RefOf(t, i).name \in t.vars
         /\ RefOf(t, i).kind = "steps" => \E b \in Earlier(t, i) : t.steps[b].id = RefOf(t, i).name
<1> DEFINE st == t.steps[i]
<1>1. st.env \in Refs /\ st.text \in Refs /\ t.jobEnv \in Refs /\ t.env \in Refs
      /\ t.target \in {"local", "t"}
  <2>1. t.steps \in Seq([id : STRING, uses : BOOLEAN, here : BOOLEAN, env : Refs, text : Refs])
    BY DEF Tpls
  <2>2. st \in [id : STRING, uses : BOOLEAN, here : BOOLEAN, env : Refs, text : Refs]
    BY <2>1, SeqElements, Zenon
  <2> QED
    BY <2>2 DEF Tpls
<1>2. /\ ~Refused(t, st.text, i, FALSE, ~st.uses, t.target) /\ ~Refused(t, st.env, i, TRUE, FALSE, t.target)
      /\ ~Refused(t, t.jobEnv, 0, TRUE, FALSE, t.target) /\ ~Refused(t, t.env, 0, TRUE, FALSE, "nil")
  BY Zenon DEF Rejected
<1>3. Earlier(t, 0) = {}
  BY DEF Earlier
<1>4. Visible(t, "nil") \subseteq Visible(t, t.target)
  BY Zenon DEF Visible
<1> DEFINE Allowed(r) ==
      /\ r \in Refs
      /\ r.kind = "secrets" => Visible(t, t.target) # {}
      /\ r.kind = "vars" => t.target = "t" /\ r.name \in t.vars
      /\ r.kind = "steps" => \E b \in Earlier(t, i) : t.steps[b].id = r.name
<1>5. Allowed(st.text)
  BY <1>1, <1>2, ZenonT(30) DEF Refused
<1>6. Allowed(st.env)
  BY <1>1, <1>2, ZenonT(30) DEF Refused
<1>7. Allowed(t.jobEnv)
  BY <1>1, <1>2, <1>3, ZenonT(30) DEF Refused
<1>8. Allowed(t.env)
  BY <1>1, <1>2, <1>3, <1>4, ZenonT(30) DEF Refused
<1> HIDE DEF Allowed
<1>9. Allowed(RefOf(t, i))
  BY <1>5, <1>6, <1>7, <1>8 DEF RefOf, EnvRef
<1> QED
  BY <1>9 DEF Allowed

\* resolve looks up the reference the text comes down to.
LEMMA ResolveLooksUp ==
  ASSUME NEW t, NEW i, NEW outs
  PROVE  Resolve(t, i, outs) = Lookup(t, RefOf(t, i), outs)
BY Zenon DEF Resolve, RefOf, Lookup

\* The id of a step with an id is its own.
LEMMA OwnId ==
  ASSUME NEW t, ~Rejected(t), NEW a \in DOMAIN t.steps, NEW b \in DOMAIN t.steps,
         t.steps[a].id = t.steps[b].id, t.steps[a].id # NoId
  PROVE  a = b
BY Zenon DEF Rejected, DuplicateId

\* A secret is defined in one place that the job can see, and has that value.
LEMMA SecretMeans ==
  ASSUME NEW t \in Tpls, ~Rejected(t), Visible(t, t.target) # {}
  PROVE  /\ Revealed(t) \in Vals
         /\ {Revealed(t)} = {<<"secret", p>> : p \in Visible(t, t.target)}
<1>1. PICK p \in {"workflow", "inventory", "target"} : Visible(t, t.target) = {p}
  <2>1. /\ ~({"workflow", "inventory"} \subseteq t.secrets)
        /\ ~(t.target = "t" /\ "target" \in t.secrets /\ t.secrets # {"target"})
    BY Zenon DEF Rejected, Ambiguous
  <2>2. PICK p : p \in Visible(t, t.target)
    OBVIOUS
  <2>3. p \in {"workflow", "inventory", "target"}
    BY <2>2 DEF Visible
  <2>4. ASSUME NEW q \in Visible(t, t.target)
        PROVE  q = p
    <3>1. q \in t.secrets /\ p \in t.secrets /\ q \in {"workflow", "inventory", "target"}
          /\ (q = "target" \/ p = "target" => t.target = "t")
      BY <2>2, <2>4 DEF Visible
    <3> QED
      BY <2>1, <2>3, <3>1
  <2> QED
    BY <2>2, <2>3, <2>4, Zenon
<1>2. Revealed(t) = <<"secret", p>>
  BY <1>1, Zenon DEF Revealed
<1> QED
  BY <1>1, <1>2 DEF Vals

\* An output reference finds what the one step of that id wrote, or nothing.
LEMMA OutputMeans ==
  ASSUME NEW t \in Tpls, ~Rejected(t), NEW i \in DOMAIN t.steps, NEW r \in Refs, r.kind = "steps",
         NEW b \in Earlier(t, i), t.steps[b].id = r.name,
         NEW outs, NEW w, OutputsOK(t, i - 1, outs, w)
  PROVE  Lookup(t, r, outs) \in Vals /\ StandsFor(t, w, r, i, Lookup(t, r, outs))
<1>1. /\ DOMAIN t.steps = 1..Len(t.steps) /\ Len(t.steps) \in Nat /\ r.key \in STRING
  BY DEF Tpls, Refs
<1>2. b \in 1..(i - 1) /\ b \in DOMAIN t.steps /\ b < i /\ b \in Nat /\ t.steps[b].id # NoId
  BY <1>1 DEF Earlier
<1>3. {s \in DOMAIN t.steps : t.steps[s].id = r.name} = {b}
  BY <1>2, OwnId
<1>5. ASSUME NEW o \in outs, o.id = r.name
      PROVE  o.step = b
  <2>1. o.step \in 1..(i - 1) /\ t.steps[o.step].id = r.name
    BY <1>5 DEF OutputsOK
  <2>2. o.step \in DOMAIN t.steps
    BY <1>1, <2>1
  <2> QED
    BY <1>3, <2>1, <2>2
<1>6. (\E o \in outs : o.id = r.name /\ o.key = r.key) <=> r.key \in w[b]
  BY <1>2, <1>5 DEF OutputsOK
<1>7. CASE r.key \in w[b]
  <2> DEFINE o == CHOOSE o \in outs : o.id = r.name /\ o.key = r.key
  <2>1. o \in outs /\ o.id = r.name /\ o.key = r.key
    BY <1>6, <1>7
  <2>2. o.step = b
    BY <1>5, <2>1
  <2>3. Lookup(t, r, outs) = <<"output", o.step, o.key>>
    BY <1>6, <1>7 DEF Lookup
  <2>4. Lookup(t, r, outs) = <<"output", b, r.key>>
    BY <2>1, <2>2, <2>3
  <2>5. <<"output", b, r.key>> \in {"output"} \X Nat \X STRING
    BY <1>1, <1>2
  <2> QED
    BY <1>2, <1>3, <1>7, <2>4, <2>5 DEF Vals, StandsFor
<1>8. CASE r.key \notin w[b]
  <2>1. Lookup(t, r, outs) = Empty
    BY <1>6, <1>8, Zenon DEF Lookup
  <2> QED
    BY <1>2, <1>3, <1>8, <2>1 DEF Vals, StandsFor
<1> QED
  BY <1>7, <1>8

\* What validation accepts means, when its step is resolved, what it says.
LEMMA AcceptedMeans ==
  ASSUME NEW t \in Tpls, ~Rejected(t), NEW i \in DOMAIN t.steps,
         NEW outs, NEW w, OutputsOK(t, i - 1, outs, w)
  PROVE  /\ Resolve(t, i, outs) \in Vals
         /\ StandsFor(t, w, RefOf(t, i), i, Resolve(t, i, outs))
<1>1. PICK r \in Refs : r = RefOf(t, i)
  BY RefAllowed
<1>2. Resolve(t, i, outs) = Lookup(t, r, outs)
  BY <1>1, ResolveLooksUp
<1>3. CASE r.kind = "secrets"
  <2>1. Lookup(t, r, outs) = Revealed(t)
    BY <1>3 DEF Lookup
  <2>2. Visible(t, t.target) # {}
    BY <1>1, <1>3, RefAllowed
  <2> QED
    BY <1>1, <1>2, <1>3, <2>1, <2>2, SecretMeans DEF StandsFor
<1>4. CASE r.kind = "vars"
  <2>1. t.target = "t" /\ r.name \in t.vars /\ r.name \in STRING
    BY <1>1, <1>4, RefAllowed DEF Refs
  <2>2. Lookup(t, r, outs) = <<"var", r.name>>
    BY <1>4, <2>1 DEF Lookup
  <2>3. <<"var", r.name>> \in Vals
    BY <2>1, Zenon DEF Vals
  <2> QED
    BY <1>1, <1>2, <1>4, <2>2, <2>3, Zenon DEF StandsFor
<1>5. CASE r.kind = "steps"
  <2>1. PICK b \in Earlier(t, i) : t.steps[b].id = r.name
    BY <1>1, <1>5, RefAllowed, Zenon
  <2>2. Lookup(t, r, outs) \in Vals /\ StandsFor(t, w, r, i, Lookup(t, r, outs))
    BY <1>5, <2>1, OutputMeans
  <2> QED
    BY <1>1, <1>2, <2>2, Zenon
<1>6. CASE r.kind \notin {"secrets", "vars", "steps"}
  <2>1. Lookup(t, r, outs) = Empty
    BY <1>6 DEF Lookup
  <2> QED
    BY <1>1, <1>2, <1>6, <2>1 DEF StandsFor, Vals
<1> QED
  BY <1>3, <1>4, <1>5, <1>6, Zenon

\* store adds what step i wrote under its id, and takes nothing away: no step
\* before it has that id.
LEMMA StoreKeeps ==
  ASSUME NEW t \in Tpls, ~Rejected(t), NEW i \in DOMAIN t.steps, NEW outs,
         NEW w \in Seq(SUBSET Keys), Len(w) = i - 1, OutputsOK(t, i - 1, outs, w),
         NEW keys \in SUBSET Keys
  PROVE  OutputsOK(t, i, Store(t, i, keys, outs), Append(w, keys))
<1>1. /\ DOMAIN t.steps = 1..Len(t.steps) /\ Len(t.steps) \in Nat /\ i \in Nat \ {0}
  BY DEF Tpls
<1> DEFINE v == Append(w, keys)
           id == t.steps[i].id
           made == {[id |-> id, step |-> i, key |-> k] : k \in keys}
<1>2. v[i] = keys /\ \A b \in 1..(i - 1) : v[b] = w[b]
  BY <1>1
<1>3. \A o \in outs : o.step \in 1..(i - 1) /\ (id # NoId => o.id # id)
  <2> SUFFICES ASSUME NEW o \in outs
               PROVE  o.step \in 1..(i - 1) /\ (id # NoId => o.id # id)
    OBVIOUS
  <2>1. o.step \in 1..(i - 1) /\ o.id = t.steps[o.step].id /\ o.id # NoId
    BY DEF OutputsOK
  <2>2. o.step \in DOMAIN t.steps /\ o.step # i
    BY <1>1, <2>1
  <2> QED
    BY <2>1, <2>2, OwnId
<1>4. \A o \in made : o.id = id /\ o.step = i /\ o.key \in keys
  OBVIOUS
<1>5. \A k \in keys : \E o \in made : o.id = id /\ o.step = i /\ o.key = k
  <2> SUFFICES ASSUME NEW k \in keys
               PROVE  \E o \in made : o.id = id /\ o.step = i /\ o.key = k
    BY Zenon
  <2>1. [id |-> id, step |-> i, key |-> k] \in made
    BY Zenon
  <2> HIDE DEF made
  <2> QED
    BY <2>1
<1> HIDE DEF v, made
<1>6. Store(t, i, keys, outs) = outs \cup (IF id = NoId THEN {} ELSE made)
  <2>1. CASE id = NoId
    BY <2>1 DEF Store
  <2>2. CASE id # NoId /\ keys = {}
    BY <2>2, Zenon DEF Store, made
  <2>3. CASE id # NoId /\ keys # {}
    <3>1. {o \in outs : o.id # id} = outs
      BY <1>3, <2>3
    <3> QED
      BY <2>3, <3>1 DEF Store, made
  <2> QED
    BY <2>1, <2>2, <2>3
<1>7. PICK new : new = Store(t, i, keys, outs)
  BY Zenon
<1>8. \A o \in new : /\ o.step \in 1..i /\ o.id = t.steps[o.step].id /\ o.id # NoId
                     /\ o.key \in v[o.step]
  <2> SUFFICES ASSUME NEW o \in new
               PROVE  /\ o.step \in 1..i /\ o.id = t.steps[o.step].id /\ o.id # NoId
                      /\ o.key \in v[o.step]
    OBVIOUS
  <2>1. CASE o \in outs
    BY <1>1, <1>2, <2>1 DEF OutputsOK
  <2>2. CASE o \in made /\ id # NoId
    BY <1>1, <1>2, <1>4, <2>2
  <2> QED
    BY <1>6, <1>7, <2>1, <2>2
<1>9. ASSUME NEW b \in 1..i, t.steps[b].id # NoId, NEW k \in v[b]
      PROVE  \E o \in new : o.id = t.steps[b].id /\ o.step = b /\ o.key = k
  <2>1. CASE b = i
    BY <1>2, <1>5, <1>6, <1>7, <1>9, <2>1, Zenon
  <2>2. CASE b \in 1..(i - 1)
    BY <1>2, <1>6, <1>7, <1>9, <2>2 DEF OutputsOK
  <2> QED
    BY <1>1, <2>1, <2>2
<1>10. \A b \in 1..i : t.steps[b].id # NoId =>
         \A k \in v[b] : \E o \in new : o.id = t.steps[b].id /\ o.step = b /\ o.key = k
  BY <1>9, Zenon
<1>11. OutputsOK(t, i, new, v)
  BY <1>8, <1>10, Zenon DEF OutputsOK
<1> QED
  BY <1>7, <1>11, Zenon DEF v

\* The steps of a job run only in the run, after validation.
LEMMA RefsStep ==
  ASSUME RefsInv, Step
  PROVE  RefsInv'
<1> DEFINE t == doc.tpl
           i == steps.at
<1>1. pc = "run" /\ pc' = "run" /\ doc' = doc /\ t \in Tpls /\ ~Rejected(t) /\ i <= Len(t.steps)
  BY DEF Step, AtStep, RefsInv
<1>2. PICK keys \in MayStore(t, i) :
        steps' = [at |-> i + 1,
                  outputs |-> Store(t, i, keys, steps.outputs),
                  wrote |-> Append(steps.wrote, keys),
                  got |-> Append(steps.got, Resolve(t, i, steps.outputs))]
  BY Zenon DEF Step
<1>3. keys \in SUBSET Keys
  BY Zenon DEF MayStore, Keys
<1>4. i \in DOMAIN t.steps /\ i \in 1..Len(t.steps) /\ Len(t.steps) \in Nat
  BY <1>1 DEF RefsInv, Tpls
<1>5. /\ steps.wrote \in Seq(SUBSET Keys) /\ Len(steps.wrote) = i - 1
      /\ steps.got \in Seq(Vals) /\ Len(steps.got) = i - 1
      /\ OutputsOK(t, i - 1, steps.outputs, steps.wrote)
  BY DEF RefsInv
<1>6. PICK v : v = Resolve(t, i, steps.outputs)
  BY Zenon
<1>7. v \in Vals /\ StandsFor(t, steps.wrote, RefOf(t, i), i, v)
  BY <1>1, <1>4, <1>5, <1>6, AcceptedMeans, Zenon
<1>8. OutputsOK(t, i, Store(t, i, keys, steps.outputs), Append(steps.wrote, keys))
  BY <1>1, <1>3, <1>4, <1>5, StoreKeeps, Zenon
<1> HIDE DEF t, i
<1>9. /\ steps'.at = i + 1 /\ steps'.outputs = Store(t, i, keys, steps.outputs)
      /\ steps'.wrote = Append(steps.wrote, keys) /\ steps'.got = Append(steps.got, v)
  BY <1>2, <1>6
<1>10. /\ steps'.wrote \in Seq(SUBSET Keys) /\ Len(steps'.wrote) = i
       /\ \A b \in 1..(i - 1) : steps'.wrote[b] = steps.wrote[b]
  BY <1>3, <1>4, <1>5, <1>9
<1>11. /\ steps'.got \in Seq(Vals) /\ Len(steps'.got) = i /\ steps'.got[i] = v
       /\ \A b \in 1..(i - 1) : steps'.got[b] = steps.got[b]
  BY <1>4, <1>5, <1>7, <1>9
<1>12. ASSUME NEW b \in 1..i, StandsFor(t, steps.wrote, RefOf(t, b), b, steps'.got[b])
       PROVE  StandsFor(t, steps'.wrote, RefOf(t, b), b, steps'.got[b])
  <2>1. \A s \in DOMAIN t.steps : s < b => steps'.wrote[s] = steps.wrote[s]
    BY <1>4, <1>10 DEF t, Tpls
  <2> QED
    BY <1>12, <2>1, Zenon DEF StandsFor
<1>13. \A b \in 1..i : StandsFor(t, steps'.wrote, RefOf(t, b), b, steps'.got[b])
  <2>1. \A b \in 1..(i - 1) : StandsFor(t, steps.wrote, RefOf(t, b), b, steps.got[b])
    BY DEF RefsInv, t, i
  <2>2. \A b \in 1..i : b = i \/ b \in 1..(i - 1)
    BY <1>4
  <2> QED
    BY <1>7, <1>11, <1>12, <2>1, <2>2, Zenon
<1>14. t' = t /\ steps'.at - 1 = i /\ steps'.at \in 1..(Len(t.steps) + 1)
  BY <1>1, <1>4, <1>9 DEF t
<1>15. OutputsOK(t, i, steps'.outputs, steps'.wrote)
  BY <1>8, <1>9
<1> QED
  BY <1>1, <1>10, <1>11, <1>13, <1>14, <1>15, ZenonT(30) DEF RefsInv, t

\* Everything else leaves the steps and what they stand for alone.
LEMMA RefsKept ==
  ASSUME RefsInv, doc' = doc, steps' = steps, pc' \notin {"load", "validate", "over"} => ~Rejected(doc.tpl)
  PROVE  RefsInv'
BY DEF RefsInv

\* The references of job 1, step by step.
THEOREM RefsAreKept == Spec => []RefsInv
<1> USE PlanAssumption
<1>1. Init => RefsInv
  <2> SUFFICES ASSUME Init
               PROVE  RefsInv
    BY Zenon
  <2>1. doc.tpl \in Tpls
    BY DEF PlanAssumption, Init
  <2>2. Len(doc.tpl.steps) \in Nat
    BY <2>1 DEF Tpls
  <2>3. pc = "load" /\ steps.at = 1 /\ steps.outputs = {} /\ steps.wrote = <<>> /\ steps.got = <<>>
    BY DEF Init
  <2> QED
    BY <2>1, <2>2, <2>3 DEF RefsInv, OutputsOK
<1>2. ASSUME RefsInv, [Next]_vars
      PROVE  RefsInv'
  <2>1. CASE Step
    BY <1>2, <2>1, RefsStep
  <2>2. CASE ~Step
    <3>1. doc' = doc /\ steps' = steps
      BY <1>2, <2>2, Zenon DEF Next, vars, LoadWorkflow, ValidateDoc, CheckNames, Visit, JobsLoad, MarkNeeds,
         SweepEnds, RunDir, CancelArrives, Report, Over, JobEnds, JobSkipped
    <3>2. pc' \notin {"load", "validate", "over"} => ~Rejected(doc.tpl)
      BY <1>2, <2>2, Zenon DEF RefsInv, Next, vars, LoadWorkflow, ValidateDoc, CheckNames, Visit, JobsLoad,
         MarkNeeds, SweepEnds, RunDir, CancelArrives, Report, Over, JobEnds, JobSkipped, Usage, SelectJobs
    <3> QED
      BY <1>2, <3>1, <3>2, RefsKept
  <2> QED
    BY <2>1, <2>2
<1> QED
  BY <1>1, <1>2, PTL DEF Spec

-----------------------------------------------------------------------------
(* The phases of a run but the search *)

\* What is known of the search wherever the run has got to.
SearchOK ==
  /\ search \in Walks /\ CycleFoundIffThere
  /\ search.status \in {"none", "ok"} => Walked(search)
  /\ search.status = "ok" => NamesKnown

\* The rest of the run does not touch the document or the search.
LEMMA SearchKept ==
  ASSUME SearchOK, doc' = doc, search' = search
  PROVE  SearchOK'
<1>1. \A j : NeedsOf(j)' = NeedsOf(j)
  BY DEF NeedsOf
<1>2. Walked(search) => Walked(search)'
  BY <1>1, Zenon DEF Walked, PathOK, ColorsOK, BlackOK, Circular, Depth, JobAt, NextAt, Color, NNeeds, NeedAt
<1>3. NamesKnown => NamesKnown'
  BY <1>1 DEF NamesKnown
<1>4. CycleFoundIffThere'
  BY <1>1 DEF SearchOK, CycleFoundIffThere, Circular
<1> QED
  BY <1>2, <1>3, <1>4 DEF SearchOK

\* The inductive invariant says what SearchOK says.
LEMMA SearchIsOK ==
  ASSUME PlanInv
  PROVE  SearchOK
BY DEF PlanInv, PlanTypeOK, SearchInv, SearchOK

\* A run that starts has looked at nothing yet.
LEMMA PlanInit ==
  ASSUME PlanAssumption, Init
  PROVE  PlanInv
<1>1. PlanTypeOK
  <2>1. doc.needs \in [Jobs -> Seq(1..Unknown)] /\ doc.tpl \in Tpls
    BY DEF PlanAssumption, Init
  <2>2. search \in Walks
    BY DEF Init, NewSearch, Walks, Colors
  <2>3. sweep \in [at : 1..Unknown, changed : {0, 1}]
    BY DEF Init, NewSweep, PlanAssumption, Unknown
  <2> QED
    BY <2>1, <2>2, <2>3, Zenon DEF PlanTypeOK, Init, Phases, Outcomes
<1>2. Depth(search) = 0 /\ \A j \in Jobs : Color(search, j) = "white"
  BY Zenon DEF Init, NewSearch, Depth, Color
<1>3. Walked(search)
  BY <1>2 DEF Walked, PathOK, ColorsOK, BlackOK, Circular
<1>4. SearchInv
  BY <1>3, Zenon DEF SearchInv, Init, NewSearch
<1>5. CycleFoundIffThere
  BY DEF PlanAssumption, CycleFoundIffThere, Init, NewSearch
<1>6. RunInv
  BY DEF RunInv, SkipsHaveCause, Init
<1>7. SelectInv /\ SelectionIsRunnable
  BY DEF SelectInv, SelectionIsRunnable, Init
<1>8. ExitTellsTheTruth
  BY DEF ExitTellsTheTruth, Init, NotOver
<1> QED
  BY <1>1, <1>4, <1>5, <1>6, <1>7, <1>8, Zenon DEF PlanInv

\* An early return leaves every job untouched.
LEMMA UsageOK ==
  ASSUME PlanInv, pc \notin {"select", "run", "over"}, Usage, SearchOK',
         UNCHANGED <<doc, keep, sweep, outcome, cancel>>
  PROVE  PlanInv'
<1>1. pc' = "over" /\ exit'.code = "usage"
  BY DEF Usage, NotOver
<1>2. \A j \in Jobs : outcome[j] = "pending"
  BY DEF PlanInv, RunInv, PlanTypeOK, Phases
<1>3. PlanTypeOK'
  BY <1>1 DEF PlanInv, PlanTypeOK, SearchOK, Phases
<1>4. SearchInv'
  BY <1>1 DEF SearchInv, SearchOK
<1>5. SelectInv'
  BY <1>1 DEF PlanInv, SelectInv, NewSweep
<1>6. RunInv'
  BY <1>1, <1>2, Zenon DEF RunInv, SkipsHaveCause
<1>7. SelectionIsRunnable' /\ ExitTellsTheTruth'
  BY <1>1, <1>2, Zenon DEF SelectionIsRunnable, ExitTellsTheTruth
<1> QED
  BY <1>3, <1>4, <1>5, <1>6, <1>7 DEF PlanInv, SearchOK

\* Before the run nothing has an outcome, wherever the next phase is.
LEMMA NothingRan ==
  ASSUME PlanInv, pc \notin {"run", "over"}, pc' # "over", UNCHANGED <<exit, outcome, cancel>>
  PROVE  /\ RunInv' /\ ExitTellsTheTruth'
         /\ (pc' = "run" => Closed') => SelectionIsRunnable'
<1>1. \A j \in Jobs : outcome[j] = "pending"
  BY DEF PlanInv, RunInv, PlanTypeOK, Phases
<1>2. exit = NotOver
  BY DEF PlanInv, RunInv
<1> QED
  BY <1>1, <1>2 DEF RunInv, SkipsHaveCause, ExitTellsTheTruth, SelectionIsRunnable, Closed, NotOver

\* Loading and validating: the search has not begun.
LEMMA LoadOK ==
  ASSUME PlanInv, LoadWorkflow \/ ValidateDoc
  PROVE  PlanInv'
<1>1. SearchOK' /\ UNCHANGED <<doc, search, keep, sweep, outcome, cancel>>
  BY SearchIsOK, SearchKept DEF LoadWorkflow, ValidateDoc
<1>2. pc \in {"load", "validate"}
  BY DEF LoadWorkflow, ValidateDoc
<1>3. CASE Usage
  BY <1>1, <1>2, <1>3, UsageOK
<1>4. CASE pc' \in {"validate", "dag"} /\ UNCHANGED exit
  <2>1. RunInv' /\ ExitTellsTheTruth' /\ SelectionIsRunnable'
    BY <1>1, <1>2, <1>4, NothingRan
  <2>2. PlanTypeOK'
    BY <1>1, <1>4, Zenon DEF PlanInv, PlanTypeOK, Phases
  <2>3. SearchInv' /\ SelectInv'
    BY <1>1, <1>2, <1>4 DEF PlanInv, SearchInv, SelectInv, SearchOK, NewSearch, NewSweep
  <2> QED
    BY <1>1, <2>1, <2>2, <2>3 DEF PlanInv, SearchOK
<1> QED
  BY <1>3, <1>4 DEF LoadWorkflow, ValidateDoc

\* The first pass of qwe_dag_check lets only documents through whose needs all
\* name jobs.
LEMMA NamesOK ==
  ASSUME PlanAssumption, PlanInv, CheckNames
  PROVE  PlanInv'
<1>1. pc = "dag" /\ UNCHANGED <<doc, keep, sweep, outcome, cancel>>
  BY Zenon DEF CheckNames
<1>2. search = NewSearch /\ SearchOK
  BY <1>1, SearchIsOK DEF PlanInv, SearchInv
<1>3. PICK status \in IF \E j \in Jobs : Unknown \in NeedsOf(j)
                      THEN {"unknown-need"} ELSE {"none", "no-memory"} :
        /\ search' = [search EXCEPT !.status = status]
        /\ IF status = "none" THEN pc' = "visit" /\ UNCHANGED exit ELSE Usage
  BY Zenon DEF CheckNames
<1>4. CASE status = "none"
  <2>1. search' = search
    BY <1>2, <1>3, <1>4 DEF NewSearch
  <2>2. SearchOK' /\ pc' = "visit" /\ UNCHANGED exit
    BY <1>1, <1>2, <1>3, <1>4, <2>1, SearchKept
  <2>3. NamesKnown
    <3>1. ASSUME NEW j \in Jobs
          PROVE  NeedsOf(j) \subseteq 1..Unknown
      <4>1. doc.needs[j] \in Seq(1..Unknown)
        BY DEF PlanInv, PlanTypeOK
      <4>2. \A i \in DOMAIN doc.needs[j] : doc.needs[j][i] \in 1..Unknown
        BY <4>1, SeqElements, Zenon
      <4> QED
        BY <4>2 DEF NeedsOf, Range
    <3>2. \A j \in Jobs : Unknown \notin NeedsOf(j)
      BY <1>3, <1>4
    <3> QED
      BY <3>1, <3>2 DEF NamesKnown, PlanAssumption, Jobs, Unknown
  <2>4. NamesKnown'
    BY <1>1, <2>3, Zenon DEF NamesKnown, NeedsOf
  <2>5. RunInv' /\ ExitTellsTheTruth' /\ SelectionIsRunnable'
    BY <1>1, <2>2, NothingRan, Zenon
  <2>6. PlanTypeOK'
    BY <1>1, <2>2, Zenon DEF PlanInv, PlanTypeOK, Phases, SearchOK
  <2>7. SearchInv' /\ SelectInv'
    BY <1>1, <1>2, <2>1, <2>2, <2>4 DEF PlanInv, SearchInv, SelectInv, SearchOK, NewSearch
  <2> QED
    BY <2>2, <2>5, <2>6, <2>7 DEF PlanInv, SearchOK
<1>5. CASE status # "none"
  <2>1. /\ search' \in Walks /\ search'.status \in {"unknown-need", "no-memory"}
        /\ search'.stack = <<>>
    BY <1>2, <1>3, <1>5, Zenon DEF SearchOK, Walks, NewSearch
  <2>2. SearchOK'
    BY <2>1 DEF SearchOK, CycleFoundIffThere, PlanAssumption
  <2> QED
    BY <1>1, <1>3, <1>5, <2>2, UsageOK
<1> QED
  BY <1>4, <1>5

\* A document that is past the search has no circle, and its needs are jobs.
LEMMA PastSearch ==
  ASSUME PlanInv, pc \in {"jobs", "select", "rundir", "run"}
  PROVE  NoCircle /\ NamesKnown
BY DEF PlanInv, SearchInv, CycleFoundIffThere, NoCircle

\* The jobs asked for.
LEMMA JobsOK ==
  ASSUME PlanAssumption, PlanInv, JobsLoad
  PROVE  PlanInv'
<1>1. pc = "jobs" /\ UNCHANGED <<doc, search, sweep, outcome, cancel>>
  BY Zenon DEF JobsLoad
<1>2. SearchOK' /\ search.status = "ok" /\ NamesKnown'
  BY <1>1, SearchIsOK, SearchKept, PastSearch DEF PlanInv, SearchInv, SearchOK
<1>3. CASE Usage /\ UNCHANGED keep
  BY <1>1, <1>2, <1>3, UsageOK
<1>4. CASE pc' \in {"rundir", "select"} /\ keep' \subseteq Jobs /\ UNCHANGED exit
           /\ (pc' = "rundir" => keep' = Jobs)
  <2>1. RunInv' /\ ExitTellsTheTruth' /\ SelectionIsRunnable'
    BY <1>1, <1>4, NothingRan, Zenon
  <2>2. PlanTypeOK'
    BY <1>1, <1>4 DEF PlanInv, PlanTypeOK, Phases
  <2>3. SearchInv'
    BY <1>1, <1>2, <1>4 DEF SearchInv, SearchOK
  <2>4. pc' = "rundir" => Closed'
    BY <1>2, <1>4 DEF Closed, NamesKnown
  <2>5. sweep = NewSweep
    BY <1>1, Zenon DEF PlanInv, SelectInv
  <2>6. SelectInv'
    BY <1>1, <1>4, <2>4, <2>5 DEF SelectInv, NewSweep, Jobs, PlanAssumption
  <2> QED
    BY <1>2, <2>1, <2>2, <2>3, <2>6 DEF PlanInv, SearchOK
<1> QED
  BY <1>1, <1>3, <1>4 DEF JobsLoad, SelectJobs

\* The needs of a kept job are marked: a sweep that has marked nothing new
\* has passed only jobs whose needs are all there.
LEMMA MarkOK ==
  ASSUME PlanAssumption, PlanInv, MarkNeeds
  PROVE  PlanInv'
<1>1. /\ pc = "select" /\ pc' = pc /\ sweep.at <= N
      /\ UNCHANGED <<doc, search, outcome, cancel, exit>>
  BY Zenon DEF MarkNeeds
<1>2. SearchOK' /\ search.status = "ok" /\ NamesKnown /\ NamesKnown'
  BY <1>1, SearchIsOK, SearchKept, PastSearch DEF PlanInv, SearchInv, SearchOK
<1>3. sweep.at \in Jobs /\ sweep.changed \in {0, 1} /\ keep \subseteq Jobs
  BY <1>1 DEF PlanInv, PlanTypeOK, Jobs, Unknown, PlanAssumption
<1>4. keep' = IF sweep.at \in keep THEN keep \cup NeedsOf(sweep.at) ELSE keep
  BY Zenon DEF MarkNeeds
<1>5. sweep'.at = sweep.at + 1 /\ sweep'.changed = (IF keep' = keep THEN sweep.changed ELSE 1)
      /\ sweep' \in [at : 1..Unknown, changed : {0, 1}]
  BY <1>1, <1>3 DEF MarkNeeds, Jobs, Unknown, PlanAssumption
<1>6. keep' \subseteq Jobs
  BY <1>2, <1>3, <1>4 DEF NamesKnown
<1>7. SelectInv'
  <2> SUFFICES ASSUME sweep'.changed = 0, NEW j \in keep', j < sweep'.at
               PROVE  NeedsOf(j) \subseteq keep'
    BY <1>1 DEF SelectInv, NeedsOf
  <2>1. keep' = keep /\ sweep.changed = 0
    BY <1>5
  <2>2. CASE j = sweep.at
    BY <1>4, <2>1, <2>2
  <2>3. CASE j < sweep.at
    BY <1>1, <2>1, <2>3 DEF PlanInv, SelectInv
  <2> QED
    BY <1>3, <1>5, <1>6, <2>2, <2>3 DEF Jobs
<1>8. RunInv' /\ ExitTellsTheTruth' /\ SelectionIsRunnable'
  BY <1>1, NothingRan, Zenon
<1>9. PlanTypeOK'
  BY <1>1, <1>5, <1>6, Zenon DEF PlanInv, PlanTypeOK
<1>10. SearchInv'
  BY <1>1, <1>2, Zenon DEF SearchInv, SearchOK
<1> QED
  BY <1>2, <1>7, <1>8, <1>9, <1>10, Zenon DEF PlanInv, SearchOK

\* The do loop ends only after a sweep over every job that marked nothing new,
\* and then the selection holds all it needs.
LEMMA SweepOK ==
  ASSUME PlanAssumption, PlanInv, SweepEnds
  PROVE  PlanInv'
<1>1. /\ pc = "select" /\ sweep.at > N /\ sweep' = NewSweep
      /\ pc' = (IF sweep.changed = 1 THEN "select" ELSE "rundir")
      /\ UNCHANGED <<doc, search, keep, outcome, cancel, exit>>
  BY Zenon DEF SweepEnds
<1>2. SearchOK' /\ search.status = "ok" /\ NamesKnown'
  BY <1>1, SearchIsOK, SearchKept, PastSearch, Zenon DEF PlanInv, SearchInv, SearchOK
<1>3. sweep.at = N + 1 /\ sweep.changed \in {0, 1} /\ keep \subseteq Jobs
  BY <1>1 DEF PlanInv, PlanTypeOK, Unknown, PlanAssumption
<1>4. sweep.changed = 0 => Closed
  BY <1>1, <1>3 DEF PlanInv, SelectInv, Closed, Jobs, PlanAssumption
<1>5. pc' = "rundir" => Closed'
  BY <1>1, <1>3, <1>4 DEF Closed, NeedsOf
<1>6. RunInv' /\ ExitTellsTheTruth' /\ SelectionIsRunnable'
  BY <1>1, NothingRan, Zenon
<1>7. PlanTypeOK'
  BY <1>1 DEF PlanInv, PlanTypeOK, Phases, NewSweep, Unknown, PlanAssumption
<1>8. SearchInv'
  BY <1>1, <1>2, Zenon DEF SearchInv, SearchOK
<1>9. SelectInv'
  BY <1>1, <1>3, <1>5 DEF SelectInv, NewSweep, Jobs, PlanAssumption
<1> QED
  BY <1>2, <1>6, <1>7, <1>8, <1>9 DEF PlanInv, SearchOK

\* The run directory is there: the selection that runs is closed.
LEMMA RunDirOK ==
  ASSUME PlanInv, RunDir
  PROVE  PlanInv'
<1>1. pc = "rundir" /\ UNCHANGED <<doc, search, keep, sweep, outcome, cancel>>
  BY DEF RunDir
<1>2. SearchOK' /\ search.status = "ok"
  BY <1>1, SearchIsOK, SearchKept DEF PlanInv, SearchInv
<1>3. CASE Usage
  BY <1>1, <1>2, <1>3, UsageOK
<1>4. CASE pc' = "run" /\ UNCHANGED exit
  <2>1. Closed'
    BY <1>1 DEF PlanInv, SelectInv, Closed, NeedsOf
  <2>2. RunInv' /\ ExitTellsTheTruth' /\ SelectionIsRunnable'
    BY <1>1, <1>4, <2>1, NothingRan, Zenon
  <2>3. PlanTypeOK'
    BY <1>1, <1>4 DEF PlanInv, PlanTypeOK, Phases
  <2>4. SearchInv'
    BY <1>1, <1>2, <1>4 DEF SearchInv, SearchOK
  <2>5. SelectInv'
    BY <1>1, <1>4, <2>1 DEF PlanInv, SelectInv, NewSweep
  <2> QED
    BY <1>2, <2>2, <2>3, <2>4, <2>5 DEF PlanInv, SearchOK
<1> QED
  BY <1>3, <1>4 DEF RunDir

\* During the run only outcomes and the cancel change.
LEMMA RunOK ==
  ASSUME PlanInv, pc = "run", UNCHANGED <<pc, doc, search, keep, sweep, exit>>,
         outcome' \in [Jobs -> Outcomes], SkipsHaveCause'
  PROVE  PlanInv'
<1>1. SearchOK' /\ search.status = "ok"
  BY SearchIsOK, SearchKept, Zenon DEF PlanInv, SearchInv
<1>2. PlanTypeOK' /\ SearchInv'
  BY <1>1 DEF PlanInv, PlanTypeOK, SearchInv, SearchOK
<1>3. Closed'
  BY DEF PlanInv, SelectInv, Closed, NeedsOf
<1>4. SelectInv' /\ SelectionIsRunnable'
  BY <1>3 DEF PlanInv, SelectInv, SelectionIsRunnable, Closed, NewSweep
<1>5. exit' = NotOver
  BY Zenon DEF PlanInv, RunInv
<1>6. RunInv' /\ ExitTellsTheTruth'
  BY <1>5 DEF PlanInv, RunInv, ExitTellsTheTruth, NotOver
<1> QED
  BY <1>1, <1>2, <1>4, <1>6 DEF PlanInv, SearchOK

\* A job ends, or is skipped, with its cause.
LEMMA JobOK ==
  ASSUME PlanInv, NEW j \in Jobs, JobEnds(j) \/ JobSkipped(j)
  PROVE  PlanInv'
<1>1. /\ pc = "run" /\ UNCHANGED <<pc, doc, search, keep, sweep, cancel, exit>>
      /\ j \in keep /\ outcome[j] = "pending"
  BY DEF JobEnds, JobSkipped, Startable, Skippable
<1>2. PICK how \in Outcomes :
        /\ outcome' = [outcome EXCEPT ![j] = how]
        /\ how = "skipped" => Skippable(j)
  <2>1. CASE JobEnds(j)
    <3>1. \E how \in {"success", "failed", "cancelled"} : outcome' = [outcome EXCEPT ![j] = how]
      BY <2>1, ZenonT(30) DEF JobEnds
    <3> QED
      BY <3>1, Zenon DEF Outcomes
  <2>2. CASE JobSkipped(j)
    BY <2>2, Zenon DEF JobSkipped, Outcomes
  <2> QED
    BY <2>1, <2>2, Zenon
<1>3. outcome \in [Jobs -> Outcomes] /\ keep \subseteq Jobs /\ Closed
  BY <1>1 DEF PlanInv, PlanTypeOK, SelectInv
<1>4. /\ outcome' \in [Jobs -> Outcomes] /\ outcome'[j] = how
      /\ \A k \in Jobs : k # j => outcome'[k] = outcome[k]
  BY <1>2, <1>3
<1>5. \A i : NeedsOf(i)' = NeedsOf(i)
  BY <1>1 DEF NeedsOf
<1>6. SkipsHaveCause'
  <2> SUFFICES ASSUME ~cancel, NEW i \in Jobs, outcome'[i] = "skipped", i \notin Disabled
               PROVE  \E k \in NeedsOf(i) \cap keep : outcome'[k] \in {"failed", "cancelled", "skipped"}
    BY <1>1, <1>5 DEF SkipsHaveCause
  <2>1. \E k \in NeedsOf(i) \cap keep : outcome[k] \in {"failed", "cancelled", "skipped"}
    <3>1. CASE i = j
      <4>1. \E k \in NeedsOf(j) : outcome[k] \in {"failed", "cancelled", "skipped"}
        BY <1>2, <1>4, <3>1 DEF Skippable
      <4> QED
        BY <1>1, <1>3, <3>1, <4>1 DEF Closed
    <3>2. CASE i # j
      BY <1>4, <3>2 DEF PlanInv, RunInv, SkipsHaveCause
    <3> QED
      BY <3>1, <3>2
  <2>2. PICK k \in NeedsOf(i) \cap keep : outcome[k] \in {"failed", "cancelled", "skipped"}
    BY <2>1
  <2>3. k # j /\ k \in Jobs
    BY <1>1, <1>3, <2>2
  <2> QED
    BY <1>4, <2>2, <2>3, ZenonT(30)
<1> QED
  BY <1>1, <1>4, <1>6, RunOK

\* What is left alone when a step runs or the cancel arrives.
LEMMA OthersOK ==
  ASSUME PlanInv, Step \/ CancelArrives
  PROVE  PlanInv'
<1>1. pc = "run" /\ UNCHANGED <<pc, doc, search, keep, sweep, outcome, exit>>
  BY DEF Step, AtStep, CancelArrives
<1>2. cancel' \/ cancel' = cancel
  BY Zenon DEF Step, CancelArrives
<1>3. SkipsHaveCause'
  BY <1>1, <1>2 DEF PlanInv, RunInv, SkipsHaveCause, NeedsOf
<1>4. outcome' \in [Jobs -> Outcomes]
  BY <1>1 DEF PlanInv, PlanTypeOK
<1> QED
  BY <1>1, <1>3, <1>4, RunOK, Zenon

\* A run that can go no further has no kept job left pending: the pending ones
\* would each wait for another of them.
LEMMA NonePending ==
  ASSUME PlanInv, pc = "run", ~\E j \in Jobs : Startable(j) \/ Skippable(j)
  PROVE  \A j \in keep : outcome[j] # "pending"
<1> DEFINE P == {j \in keep : outcome[j] = "pending"}
<1>1. /\ NoCircle /\ Closed /\ keep \subseteq Jobs
      /\ \A j \in Jobs : outcome[j] \in Outcomes
  BY PastSearch DEF PlanInv, PlanTypeOK, SelectInv
<1>2. ASSUME NEW j \in P
      PROVE  NeedsOf(j) \cap P # {}
  <2>1. j \in Jobs /\ j \notin Disabled
    BY <1>1 DEF Skippable
  <2>2. PICK k \in NeedsOf(j) : k \in Jobs /\ outcome[k] # "success"
    BY <2>1 DEF Startable
  <2>3. k \in keep
    BY <1>1, <2>2 DEF Closed
  <2>4. outcome[k] \notin {"failed", "cancelled", "skipped"}
    BY <2>1, <2>2 DEF Skippable
  <2> QED
    BY <1>1, <2>2, <2>3, <2>4 DEF Outcomes
<1>3. P \in SUBSET Jobs
  BY <1>1
<1>4. P = {}
  BY <1>1, <1>2, <1>3, Zenon DEF NoCircle, Circular
<1> QED
  BY <1>4, Zenon

\* When no job failed and there was no cancel, every skip goes back to a
\* disabled target.
LEMMA SkipsAreLeftOut ==
  ASSUME PlanInv, pc = "run", ~cancel, AllOk, NEW j \in keep, outcome[j] = "skipped"
  PROVE  j \in LeftOut /\ TargetDisabled # {}
<1> DEFINE S == {i \in keep : outcome[i] = "skipped"}
<1>1. NoCircle /\ Closed /\ keep \subseteq Jobs /\ SkipsHaveCause
  BY PastSearch DEF PlanInv, PlanTypeOK, SelectInv, RunInv
<1>2. ASSUME NEW i \in S \ Disabled
      PROVE  NeedsOf(i) \cap S # {}
  <2>1. PICK k \in NeedsOf(i) \cap keep : outcome[k] \in {"failed", "cancelled", "skipped"}
    BY <1>1 DEF SkipsHaveCause
  <2> QED
    BY <2>1 DEF AllOk
<1>3. S \in SUBSET Jobs /\ j \in S
  BY <1>1
<1>4. S \cap Disabled # {}
  <2> SUFFICES ASSUME S \cap Disabled = {}
               PROVE  FALSE
    OBVIOUS
  <2>1. Circular(S)
    BY <1>2, <1>3 DEF Circular
  <2> QED
    BY <1>1, <1>3, <2>1 DEF NoCircle
<1>5. TargetDisabled # {}
  BY <1>4 DEF TargetDisabled
<1> QED
  BY <1>2, <1>3, <1>4, <1>5, Zenon DEF LeftOut

\* The report tells how the run went.
LEMMA ReportOK ==
  ASSUME PlanInv, Report
  PROVE  PlanInv'
<1>1. /\ pc = "run" /\ pc' = "over" /\ UNCHANGED <<doc, search, keep, sweep, outcome, cancel>>
      /\ ~\E j \in Jobs : Startable(j) \/ Skippable(j)
  BY DEF Report
<1>2. \A j \in keep : outcome[j] # "pending"
  BY <1>1, NonePending
<1> DEFINE stuck == \E j \in keep : outcome[j] = "pending"
           summary(c) == CASE c = "cancelled" -> "cancelled"
                           [] AllOk -> "success"
                           [] OTHER -> "failed"
<1>a. PICK wrote \in BOOLEAN :
        exit' = [code |-> ExitCode(stuck, wrote), summary |-> summary(ExitCode(stuck, wrote)),
                 disabled |-> TargetDisabled]
  BY Zenon DEF Report
<1>b. PICK c : c = ExitCode(stuck, wrote)
  BY Zenon
<1>3. exit'.code = c /\ exit'.summary = summary(c) /\ exit'.disabled = TargetDisabled
  <2> HIDE DEF stuck, summary
  <2> QED
    BY <1>a, <1>b
<1>4. exit'.code \in {"failed", "cancelled", "ok"}
  BY <1>b, <1>3 DEF ExitCode
<1>5. exit'.code = "ok" => ~cancel /\ AllOk
  BY <1>b, <1>3 DEF ExitCode
<1>6. \A j : NeedsOf(j)' = NeedsOf(j)
  BY <1>1 DEF NeedsOf
<1>7. LeftOut' = LeftOut
  BY <1>6 DEF LeftOut
<1>8. SearchOK' /\ search.status = "ok"
  BY <1>1, SearchIsOK, SearchKept, Zenon DEF PlanInv, SearchInv
<1>9. PlanTypeOK' /\ SearchInv'
  BY <1>1, <1>8, Zenon DEF PlanInv, PlanTypeOK, Phases, SearchInv, SearchOK
<1>10. SelectInv' /\ SelectionIsRunnable'
  BY <1>1, <1>2 DEF PlanInv, SelectInv, SelectionIsRunnable, NewSweep
<1>11. RunInv'
  BY <1>1, <1>4, <1>6, ZenonT(30) DEF PlanInv, RunInv, SkipsHaveCause
<1>12. ExitTellsTheTruth'
  <2>1. ASSUME exit'.code = "ok"
        PROVE  /\ ~cancel /\ exit'.summary = "success"
               /\ \A j \in keep : \/ outcome[j] = "success"
                                  \/ outcome[j] = "skipped" /\ j \in LeftOut /\ exit'.disabled # {}
    <3>1. ~cancel /\ AllOk /\ exit'.summary = "success"
      BY <1>3, <1>5, <2>1
    <3> QED
      BY <1>1, <1>3, <3>1, SkipsAreLeftOut DEF AllOk
  <2>2. ASSUME exit'.summary = "failed"
        PROVE  \E j \in keep : outcome[j] \in {"failed", "cancelled"}
    <3>1. ~AllOk
      BY <1>3, <2>2
    <3>2. keep \subseteq Jobs /\ \A j \in Jobs : outcome[j] \in Outcomes
      BY DEF PlanInv, PlanTypeOK
    <3> QED
      BY <1>2, <3>1, <3>2 DEF AllOk, Outcomes
  <2> QED
    BY <1>1, <1>4, <1>7, <2>1, <2>2, ZenonT(30) DEF ExitTellsTheTruth
<1> QED
  BY <1>8, <1>9, <1>10, <1>11, <1>12 DEF PlanInv, SearchOK

\* One turn of the search, and what qwe_validate_doc makes of its end.
LEMMA VisitOK ==
  ASSUME PlanAssumption, ListFacts, PlanInv, Visit
  PROVE  PlanInv'
<1>1. pc = "visit" /\ search' = VisitStep(search) /\ UNCHANGED <<doc, keep, sweep, outcome, cancel>>
  BY Zenon DEF Visit
<1>2. NamesKnown /\ search \in Walks /\ search.status = "none" /\ Walked(search)
  BY <1>1, Zenon DEF PlanInv, SearchInv, PlanTypeOK
<1>3. Searched(search')
  BY <1>1, <1>2, VisitStepOK, Zenon DEF PlanInv
<1>4. \A j : NeedsOf(j)' = NeedsOf(j)
  BY <1>1, Zenon DEF NeedsOf
<1>5. NamesKnown'
  BY <1>2, <1>4 DEF NamesKnown
<1>6. Walked(search') => Walked(search)'
  BY <1>1, <1>4, ZenonT(30) DEF Walked, PathOK, ColorsOK, BlackOK, Circular, Depth, JobAt, NextAt, Color, NNeeds, NeedAt
<1>7. CycleFoundIffThere'
  BY <1>3, <1>4, Zenon DEF Searched, CycleFoundIffThere, NoCircle, Circular
<1>8. SearchOK' /\ search'.status \in {"none", "ok", "cycle"}
  BY <1>3, <1>5, <1>6, <1>7, Zenon DEF Searched, SearchOK
<1>9. CASE Usage
  BY <1>1, <1>8, <1>9, UsageOK, Zenon
<1>10. CASE /\ UNCHANGED exit
            /\ \/ search'.status = "none" /\ pc' = "visit"
               \/ search'.status = "ok" /\ pc' = "jobs"
  <2>1. RunInv' /\ ExitTellsTheTruth' /\ SelectionIsRunnable'
    BY <1>1, <1>10, NothingRan, Zenon
  <2>2. PlanTypeOK'
    BY <1>1, <1>8, <1>10, Zenon DEF PlanInv, PlanTypeOK, Phases, SearchOK
  <2>3. SearchInv' /\ SelectInv'
    BY <1>1, <1>5, <1>8, <1>10 DEF PlanInv, SearchInv, SelectInv, SearchOK, NewSweep
  <2> QED
    BY <1>7, <2>1, <2>2, <2>3, Zenon DEF PlanInv
<1> QED
  BY <1>1, <1>9, <1>10 DEF Visit

\* A run that is over, or does nothing, stays as it is.
LEMMA OverOK ==
  ASSUME PlanInv, Over \/ UNCHANGED vars
  PROVE  PlanInv'
<1>1. UNCHANGED vars
  BY DEF Over
<1>2. SearchOK'
  BY <1>1, SearchIsOK, SearchKept, Zenon DEF vars
<1>3. PlanTypeOK'
  BY <1>1, Zenon DEF vars, PlanInv, PlanTypeOK
<1>4. SearchInv'
  BY <1>1, <1>2, Zenon DEF vars, PlanInv, SearchInv, SearchOK, NamesKnown, NeedsOf
<1>5. SelectInv' /\ RunInv'
  BY <1>1, ZenonT(30) DEF vars, PlanInv, SelectInv, RunInv, SkipsHaveCause, Closed, NeedsOf
<1>6. SelectionIsRunnable' /\ ExitTellsTheTruth'
  BY <1>1, ZenonT(30) DEF vars, PlanInv, SelectionIsRunnable, ExitTellsTheTruth, LeftOut, NeedsOf
<1> QED
  BY <1>2, <1>3, <1>4, <1>5, <1>6 DEF PlanInv, SearchOK

-----------------------------------------------------------------------------
(* The theorems *)

INSTANCE SequenceTheorems

INSTANCE FiniteSetTheorems

\* A sequence without its last element.
LEMMA SeqParts ==
  ASSUME NEW T, NEW q \in Seq(T), q # <<>>
  PROVE  /\ Len(q) \in Nat \ {0} /\ q[Len(q)] \in T
         /\ SubSeq(q, 1, Len(q) - 1) \in Seq(T) /\ Len(SubSeq(q, 1, Len(q) - 1)) = Len(q) - 1
         /\ \A a \in 1..(Len(q) - 1) : SubSeq(q, 1, Len(q) - 1)[a] = q[a]
<1>1. Len(q) \in Nat \ {0} /\ q[Len(q)] \in T
  OBVIOUS
<1> DEFINE m == Len(q) - 1
<1>2. 1 \in 1..(Len(q) + 1) /\ m \in (1 - 1)..Len(q) /\ m - 1 + 1 = m
  BY <1>1
<1>3. /\ SubSeq(q, 1, m) \in Seq(T) /\ Len(SubSeq(q, 1, m)) = IF 1 <= m THEN m - 1 + 1 ELSE 0
      /\ \A a \in 1..(m - 1 + 1) : SubSeq(q, 1, m)[a] = q[1 + a - 1]
  BY <1>2, SubSeqProperties
<1> QED
  BY <1>1, <1>2, <1>3

\* A list of jobs with none twice is a sequence with as many jobs as it is long,
\* and there are N jobs.
LEMMA DistinctPath ==
  ASSUME PlanAssumption, NEW n \in Nat, NEW f \in [1..n -> Jobs],
         \A a, b \in 1..n : f[a] = f[b] => a = b
  PROVE  n <= N /\ Cardinality(Range(f)) = n
<1>1. \A b \in Nat : IsFiniteSet(1..b) /\ Cardinality(1..b) = b
  <2> SUFFICES ASSUME NEW b \in Nat
               PROVE  IsFiniteSet(1..b) /\ Cardinality(1..b) = b
    OBVIOUS
  <2>1. IsFiniteSet(1..b) /\ Cardinality(1..b) = IF 1 > b THEN 0 ELSE b - 1 + 1
    BY FS_Interval
  <2> QED
    BY <2>1
<1>2. n <= N
  <2>1. IsFiniteSet(Jobs) /\ Cardinality(Jobs) = N
    BY <1>1, PlanAssumption, Zenon DEF Jobs
  <2>2. f \in Injection(1..n, Jobs)
    BY Zenon DEF Injection, IsInjective
  <2>3. Cardinality(1..n) <= Cardinality(Jobs)
    BY <2>1, <2>2, FS_Injection, Zenon
  <2> QED
    BY <1>1, <2>1, <2>3, Zenon
<1>3. f \in [1..n -> Range(f)]
  BY Zenon DEF Range
<1>4. f \in Injection(1..n, Range(f)) /\ f \in Surjection(1..n, Range(f))
  BY <1>3, Zenon DEF Injection, IsInjective, Surjection, Range
<1>5. f \in Bijection(1..n, Range(f))
  BY <1>4, Zenon DEF Bijection
<1>6. Cardinality(Range(f)) = n
  BY <1>5, FS_CountingElements DEF ExistsBijection
<1> QED
  BY <1>2, <1>6, Zenon

\* A set of numbers that is not empty has its least one.
LEMMA MinIsIn ==
  ASSUME NEW S \in SUBSET Nat, S # {}
  PROVE  Min(S) \in S
<1>1. \E x \in S : \A y \in S : ~(<<y, x>> \in OpToRel(<, Nat))
  BY NatLessThanWellFounded, WFMin, Zenon
<1>2. \E x \in S : \A y \in S : ~(y < x)
  BY <1>1, Zenon DEF OpToRel
<1>3. \E x \in S : \A y \in S : x <= y
  BY <1>2
<1> QED
  BY <1>3, Zenon DEF Min

\* What the search rests on.
LEMMA ListFactsHold ==
  ASSUME PlanAssumption
  PROVE  ListFacts
<1>1. \A n \in Nat : \A f \in [1..n -> Jobs] : f \in Seq(Jobs) /\ Len(f) = n
  BY SeqDef
<1>2. \A q \in Seq(Frames) : q # <<>> =>
        /\ SubSeq(q, 1, Len(q) - 1) \in Seq(Frames) /\ Len(SubSeq(q, 1, Len(q) - 1)) = Len(q) - 1
        /\ \A a \in 1..(Len(q) - 1) : SubSeq(q, 1, Len(q) - 1)[a] = q[a]
  BY SeqParts, Zenon
<1>3. \A n \in Nat : \A f \in [1..n -> Jobs] :
        (\A a, b \in 1..n : f[a] = f[b] => a = b) => n <= N /\ Cardinality(Range(f)) = n
  BY DistinctPath, Zenon
<1>4. \A S \in SUBSET Nat : S # {} => Min(S) \in S
  BY MinIsIn, ZenonT(30)
<1> QED
  BY <1>1, <1>2, <1>3, <1>4, ZenonT(30) DEF ListFacts

\* The inductive invariant: types; the depth-first search with its colors and
\* its path; the sweeps of select_jobs; and the outcomes.
THEOREM PlanIsRight == Spec => []PlanInv
<1> USE PlanAssumption
<1>1. Init => PlanInv
  BY PlanInit, Zenon
<1>2. ASSUME PlanInv, [Next]_vars
      PROVE  PlanInv'
  BY <1>2, OverOK, LoadOK, NamesOK, VisitOK, JobsOK, MarkOK, SweepOK, RunDirOK, JobOK, OthersOK,
     ReportOK, ListFactsHold, ZenonT(30) DEF Next
<1> QED
  BY <1>1, <1>2, PTL DEF Spec

\* The search of qwe_dag_check reports a cycle exactly when there is one, prints
\* one, and never overruns its stack, for any number of jobs and any document.
THEOREM CyclesAreFound == Spec => []CycleFoundIffThere
BY PlanIsRight, PTL DEF PlanInv

\* Whatever --job asks for, the jobs that run have all their needs among them,
\* and run_all never ends with one that is "neither finished nor runnable".
THEOREM SelectionsRun == Spec => []SelectionIsRunnable
BY PlanIsRight, PTL DEF PlanInv

\* Exit code 0 means that every kept job succeeded or is left out for a disabled
\* target that the last line reports; a usage error means that nothing ran.
THEOREM ExitsAreTrue == Spec => []ExitTellsTheTruth
BY PlanIsRight, PTL DEF PlanInv

\* A reference that validation accepted stands for what the document says when
\* its step starts, whatever the earlier steps of the job wrote.
THEOREM AcceptedRefsMean == Spec => []AcceptedRefsResolve
<1>1. RefsInv => AcceptedRefsResolve
  <2> SUFFICES ASSUME RefsInv, NEW i \in DOMAIN steps.got
               PROVE  Means(RefOf(doc.tpl, i), i, steps.got[i])
    BY Zenon DEF AcceptedRefsResolve, RefOf
  <2>1. i \in 1..(steps.at - 1)
    BY DEF RefsInv
  <2>2. StandsFor(doc.tpl, steps.wrote, RefOf(doc.tpl, i), i, steps.got[i])
    BY <2>1 DEF RefsInv
  <2>3. \A s : Cardinality({s}) = 1
    BY FS_Singleton, Zenon
  <2> QED
    BY <2>2, <2>3, Zenon DEF StandsFor, Means, Named
<1> QED
  BY <1>1, RefsAreKept, PTL
=============================================================================
