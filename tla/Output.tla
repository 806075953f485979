------------------------------- MODULE Output --------------------------------
(***************************************************************************)
(* The way of a step's output: OS pipe, drain loop, redactor, ring, log    *)
(* and terminal (src/src/kernel/workflow.c, ring.c, sink.c), for the last  *)
(* step of one job, together with the epoll loop that serves it beside a   *)
(* timer.                                                                  *)
(*                                                                         *)
(* A byte is its position in the stream modulo Mod, so an endless stream   *)
(* has finitely many states and a lost, doubled or reordered byte shows.   *)
(* Mod exceeds the bytes in flight.  Whether the redactor lets a byte      *)
(* through or replaces it is the matter of module Redact; here it passes   *)
(* its input on in order and may hold back up to MaxHeld bytes.            *)
(***************************************************************************)
EXTENDS Naturals, Sequences

CONSTANTS
  Mod,       \* the modulus of byte positions
  PipeCap,   \* capacity of the OS pipe
  Chunk,     \* CHUNK: the bytes one read takes at most
  MaxHeld,   \* the bytes the redactor holds back at most
  RingCap,   \* QWE_RING_CAPACITY
  Newlines   \* the positions (modulo Mod) that hold a newline

\* QWE_RING_CAPACITY (1 MiB) exceeds what one read can put into the ring.
ASSUME OutputAssumption ==
  /\ PipeCap \in Nat \ {0} /\ Chunk \in Nat \ {0} /\ MaxHeld \in Nat
  /\ RingCap \in Nat /\ Mod \in Nat
  /\ RingCap >= Chunk + MaxHeld
  /\ Mod > PipeCap + MaxHeld + 1
  /\ Newlines \subseteq 0..Mod - 1

VARIABLES
  pipe,      \* the bytes in the pipe
  wrote,     \* the position of the next byte to be written
  late,      \* how many bytes of the pipe were written after the group had gone
  writers,   \* some process holds the write end
  gone,      \* the step's group is empty (and its SIGCHLD is pending)
  pc,        \* "wait", "batch", "drain", and "finish", "close" in step_finish
  closed,    \* the step, and with it the job, is over
  batch,     \* the epoll events still to be handled
  watched,   \* the pipe is registered with epoll
  timer,     \* some timer of the run: "armed", "elapsed" or "fired"
  heldBack,  \* the redactor's held bytes
  ring,      \* struct qwe_ring
  logged,    \* the position the log expects next
  inOrder,   \* the log has received the stream in order and without a gap
  line,      \* the terminal's unfinished line
  shown      \* the position the terminal expects next

outputVars == <<pipe, wrote, late, writers, gone, pc, closed, batch, watched, timer,
                heldBack, ring, logged, inOrder, line, shown>>

piped == <<pipe, wrote, late>>

sink == <<logged, inOrder, line, shown>>

Lesser(a, b) == IF a < b THEN a ELSE b

-----------------------------------------------------------------------------
(* ring.c *)

NewRing == [buf |-> [i \in 0..RingCap - 1 |-> 0], head |-> 0, len |-> 0, dropped |-> 0]

\* Mutant of RingWrite: the write position does not wrap with the head.
RingWriteUnwrapped(r, data) ==
  [r EXCEPT !.buf = [i \in 0..RingCap - 1 |->
                       IF i < Len(data) THEN data[i + 1] ELSE r.buf[i]],
            !.len = @ + Len(data)]

\* qwe_ring_write: only the last cap bytes can survive, the oldest make room.
RingWrite(r, data) ==
  LET n == Lesser(Len(data), RingCap)
      p == SubSeq(data, Len(data) - n + 1, Len(data))
      over == IF r.len + n > RingCap THEN r.len + n - RingCap ELSE 0
      head == (r.head + over) % RingCap
      len == r.len - over
      offset(i) == (i + RingCap - ((head + len) % RingCap)) % RingCap
  IN  [buf |-> [i \in 0..RingCap - 1 |->
                  IF offset(i) < n THEN p[offset(i) + 1] ELSE r.buf[i]],
       head |-> head, len |-> len + n,
       dropped |-> r.dropped + (Len(data) - n) + over]

\* qwe_ring_read, repeated until the ring is empty.
RingContents(r) == [i \in 1..r.len |-> r.buf[(r.head + i - 1) % RingCap]]

\* Mutant of RingEmptied: the head does not wrap.
RingEmptiedUnwrapped(r) == [r EXCEPT !.head = r.head + r.len, !.len = 0]

RingEmptied(r) == [r EXCEPT !.head = (r.head + r.len) % RingCap, !.len = 0]

-----------------------------------------------------------------------------
(* sink.c *)

Follows(from, data) == \A i \in 1..Len(data) : data[i] = (from + i - 1) % Mod

\* qwe_sink_write: the log takes the bytes raw, the terminal line by line.
SinkWrite(data) ==
  LET text == line \o data
      ends == {i \in 1..Len(text) : text[i] \in Newlines}
      last == IF ends = {} THEN 0 ELSE CHOOSE i \in ends : \A k \in ends : k <= i
  IN  /\ inOrder' = (inOrder /\ Follows(logged, data))
      /\ logged' = (logged + Len(data)) % Mod
      /\ shown' = (shown + last) % Mod
      /\ line' = SubSeq(text, last + 1, Len(text))

\* qwe_sink_close: the unfinished line is shown too.
SinkClose(unfinished, at) ==
  /\ shown' = (at + Len(unfinished)) % Mod
  /\ line' = <<>>

\* emit: into the ring, and from there all of it to the sink.
Emit(data) ==
  \E full \in {RingWrite(ring, data)} :
    /\ ring' = RingEmptied(full)
    /\ SinkWrite(RingContents(full))

-----------------------------------------------------------------------------
(* workflow.c: drain, drain_flush, step_finish and the loop around them *)

\* One turn of the drain loop: read, redact, emit.
ReadChunk ==
  /\ pc \in {"drain", "finish"}
  /\ pipe # <<>>
  /\ LET n == Lesser(Len(pipe), Chunk)
         bytes == heldBack \o SubSeq(pipe, 1, n)
     IN  /\ pipe' = SubSeq(pipe, n + 1, Len(pipe))
         /\ late' = Lesser(late, Len(pipe) - n)
         /\ \E keep \in 0..Lesser(MaxHeld, Len(bytes)) :
              /\ heldBack' = SubSeq(bytes, Len(bytes) - keep + 1, Len(bytes))
              /\ IF keep < Len(bytes)
                 THEN Emit(SubSeq(bytes, 1, Len(bytes) - keep))
                 ELSE UNCHANGED <<ring, sink>>
  /\ UNCHANGED <<wrote, writers, gone, pc, closed, batch, watched, timer>>

\* Mutant of DrainEnds: end of file is read again and again.
DrainEndsAtEagain ==
  /\ pc = "drain" /\ pipe = <<>> /\ writers
  /\ pc' = "batch"
  /\ UNCHANGED <<piped, writers, gone, closed, batch, watched, timer, heldBack, ring, sink>>

\* read says EAGAIN, or end of file, on which the pipe is no longer watched.
DrainEnds ==
  /\ pc = "drain" /\ pipe = <<>>
  /\ watched' = writers
  /\ pc' = "batch"
  /\ UNCHANGED <<piped, writers, gone, closed, batch, timer, heldBack, ring, sink>>

\* The drain of step_finish finds no more to read.
FinishDrained ==
  /\ pc = "finish" /\ pipe = <<>>
  /\ pc' = "close"
  /\ UNCHANGED <<piped, writers, gone, closed, batch, watched, timer, heldBack, ring, sink>>

\* drain_flush: what the redactor held back was not a secret, and goes into the ring.
DrainFlush == RingWrite(ring, heldBack)

\* Mutant of FinishEnds: step_finish does not flush the redactor.
FinishEndsUnflushed ==
  /\ pc = "close"
  /\ pc' = "batch" /\ closed' = TRUE
  /\ heldBack' = <<>>
  /\ SinkClose(line, shown)
  /\ UNCHANGED <<piped, writers, gone, batch, watched, timer, ring, logged, inOrder>>

\* step_finish after its drain: flush the redactor, close the pipe; the job
\* then ends and the sink is closed.
FinishEnds ==
  /\ pc = "close"
  /\ pc' = "batch" /\ closed' = TRUE
  /\ heldBack' = <<>> /\ watched' = FALSE
  /\ \E full \in {DrainFlush} : \E out \in {RingContents(full)} :
       /\ ring' = RingEmptied(full)
       /\ inOrder' = (inOrder /\ Follows(logged, out))
       /\ logged' = (logged + Len(out)) % Mod
       /\ SinkClose(line \o out, shown)
  /\ UNCHANGED <<piped, writers, gone, batch, timer>>

Readable ==
  (IF watched /\ (pipe # <<>> \/ ~writers) THEN {"out"} ELSE {})
    \cup (IF timer = "elapsed" THEN {"timer"} ELSE {})
    \cup (IF gone /\ ~closed THEN {"child"} ELSE {})

EpollWait ==
  /\ pc = "wait" /\ Readable # {}
  /\ batch' = Readable
  /\ pc' = "batch"
  /\ UNCHANGED <<piped, writers, gone, closed, watched, timer, heldBack, ring, sink>>

\* job_event: the step's pipe is drained, unless the step ended in this batch.
HandleOut ==
  /\ pc = "batch" /\ "out" \in batch
  /\ batch' = batch \ {"out"}
  /\ pc' = IF closed THEN "batch" ELSE "drain"
  /\ UNCHANGED <<piped, writers, gone, closed, watched, timer, heldBack, ring, sink>>

HandleTimer ==
  /\ pc = "batch" /\ "timer" \in batch
  /\ batch' = batch \ {"timer"}
  /\ timer' = "fired"
  /\ UNCHANGED <<piped, writers, gone, pc, closed, watched, heldBack, ring, sink>>

\* reap_children finds the group empty: step_finish.
HandleChild ==
  /\ pc = "batch" /\ "child" \in batch
  /\ batch' = batch \ {"child"}
  /\ pc' = "finish"
  /\ UNCHANGED <<piped, writers, gone, closed, watched, timer, heldBack, ring, sink>>

BatchDone ==
  /\ pc = "batch" /\ batch = {}
  /\ pc' = "wait"
  /\ UNCHANGED <<piped, writers, gone, closed, batch, watched, timer, heldBack, ring, sink>>

-----------------------------------------------------------------------------
(* The step's processes and the clock *)

\* A writer adds a byte; with the pipe full its write blocks.
Write ==
  /\ writers /\ Len(pipe) < PipeCap
  /\ ~closed
  /\ pipe' = Append(pipe, wrote)
  /\ wrote' = (wrote + 1) % Mod
  /\ late' = IF gone THEN late + 1 ELSE 0
  /\ UNCHANGED <<writers, gone, pc, closed, batch, watched, timer, heldBack, ring, sink>>

\* The output is closed, by the group's end or before.
CloseOutput ==
  /\ writers
  /\ writers' = FALSE
  /\ UNCHANGED <<piped, gone, pc, closed, batch, watched, timer, heldBack, ring, sink>>

\* A process that left the group may still hold the pipe's write end.
GroupGone ==
  /\ ~gone
  /\ gone' = TRUE
  /\ UNCHANGED <<piped, writers, pc, closed, batch, watched, timer, heldBack, ring, sink>>

TimerElapses ==
  /\ timer = "armed"
  /\ timer' = "elapsed"
  /\ UNCHANGED <<piped, writers, gone, pc, closed, batch, watched, heldBack, ring, sink>>

-----------------------------------------------------------------------------
OutputInit ==
  /\ pipe = <<>> /\ wrote = 0 /\ late = 0 /\ writers = TRUE /\ gone = FALSE
  /\ pc = "wait" /\ closed = FALSE /\ batch = {} /\ watched = TRUE /\ timer = "armed"
  /\ heldBack = <<>> /\ ring = NewRing
  /\ logged = 0 /\ inOrder = TRUE /\ line = <<>> /\ shown = 0

EngineStep ==
  \/ ReadChunk \/ DrainEnds \/ FinishDrained \/ FinishEnds
  \/ EpollWait \/ HandleOut \/ HandleTimer \/ HandleChild \/ BatchDone

OutputNext == EngineStep \/ Write \/ CloseOutput \/ GroupGone \/ TimerElapses

OutputSpec == OutputInit /\ [][OutputNext]_outputVars

\* The loop is never idle while it can step, and it alone is fair.
FairSpec == OutputSpec /\ WF_outputVars(EngineStep)

Bytes == 0..Mod - 1

TypeOK ==
  /\ pipe \in Seq(Bytes) /\ Len(pipe) <= PipeCap
  /\ heldBack \in Seq(Bytes) /\ Len(heldBack) <= MaxHeld
  /\ line \in Seq(Bytes \ Newlines)
  /\ {wrote, logged, shown} \subseteq Bytes
  /\ {writers, gone, closed, watched, inOrder} \subseteq BOOLEAN
  /\ pc \in {"wait", "batch", "drain", "finish", "close"}
  /\ late \in 0..Len(pipe)
  /\ batch \subseteq {"out", "timer", "child"}
  /\ timer \in {"armed", "elapsed", "fired"}
  /\ ring.head \in 0..RingCap - 1 /\ ring.len = 0

\* What the log holds is the step's output, in order, with no byte lost,
\* doubled or overwritten in the ring, wherever the ring's head stands.
LogIsTheStream == inOrder /\ ring.dropped = 0

\* When a step is closed, the log and the terminal have every byte of it up to
\* the last read, and what is left in the pipe was written by a process that
\* outlived the step's group: the final drain and the flush of the redactor
\* leave nothing of the step behind.
NothingLeftBehind ==
  closed =>
    /\ heldBack = <<>> /\ Len(pipe) <= late
    /\ logged = (wrote + Mod - Len(pipe)) % Mod /\ shown = logged

\* A step whose processes have gone and whose output has ended is closed,
\* however the two are ordered in the batch.
StepCloses == gone /\ ~writers ~> closed

\* A timer that has elapsed is handled, whatever the step writes meanwhile.
TimerServed == timer = "elapsed" ~> timer = "fired"
=============================================================================
