------------------------------- MODULE Redact --------------------------------
(***************************************************************************)
(* The streaming redactor (src/src/kernel/redact.c): the output arrives in *)
(* chunks, every known value is replaced by the mask, and the end of a     *)
(* chunk that could be the start of a value is held back.                  *)
(*                                                                         *)
(* A byte is a member of Alphabet; the mask "***" is the one symbol Mask,  *)
(* which is no byte.  The set of values is fixed while a stream is fed.    *)
(* One turn of the loop in qwe_redact_feed is one step, and nothing else   *)
(* happens to the redactor until the loop has consumed its bytes.          *)
(***************************************************************************)
EXTENDS Naturals, Sequences

CONSTANTS
  Alphabet,   \* the bytes
  ValueSets,  \* the sets of values to consider
  MaxStream,  \* bound: bytes in a stream
  MaxChunk    \* bound: bytes in one chunk

Mask == "***"

\* qwe_redact_add takes no empty value.
ASSUME RedactAssumption ==
  /\ Mask \notin Alphabet
  /\ \A S \in ValueSets : \A v \in S : v \in Seq(Alphabet) /\ v # <<>>

VARIABLES
  set,     \* the known values
  stream,  \* all that was fed (not a variable of the code)
  rest,    \* in qwe_redact_feed: the bytes not yet consumed
  held,    \* r->held
  out,     \* all that was passed on
  ended    \* qwe_redact_flush was called

redactVars == <<set, stream, rest, held, out, ended>>

\* The comparisons: p starts with v, p is the start of v and no more.
StartsWith(p, v) == Len(v) <= Len(p) /\ SubSeq(p, 1, Len(v)) = v
StartOf(p, v) == Len(p) < Len(v) /\ StartsWith(v, p)

Occurs(v, s) == \E i \in 0..Len(s) - Len(v) : SubSeq(s, i + 1, i + Len(v)) = v

\* match_at: the length of the longest value that p starts with, or 0.
MatchAt(values, p) ==
  LET lens == {0} \cup {Len(v) : v \in {w \in values : StartsWith(p, w)}}
  IN  CHOOSE m \in lens : \A n \in lens : m >= n

\* Mutant of CouldStart: only the first byte is compared.
CouldStartByte(values, p) == \E v \in values : Len(p) < Len(v) /\ Head(p) = Head(v)

\* could_start: p is a proper prefix of some value.
CouldStart(values, p) == \E v \in values : StartOf(p, v)

\* Mutant of Feed: what was held is passed on unscanned.
FeedAfresh(chunk) ==
  /\ ~ended /\ rest = <<>> /\ Len(stream) + Len(chunk) <= MaxStream
  /\ rest' = chunk /\ held' = <<>> /\ out' = out \o held
  /\ stream' = stream \o chunk
  /\ UNCHANGED <<set, ended>>

\* qwe_redact_feed starts over with what it held back.
Feed(chunk) ==
  /\ ~ended /\ rest = <<>> /\ Len(stream) + Len(chunk) <= MaxStream
  /\ rest' = held \o chunk /\ held' = <<>>
  /\ stream' = stream \o chunk
  /\ UNCHANGED <<set, out, ended>>

\* Its loop: a value is replaced, ...
MaskValue ==
  /\ rest # <<>> /\ MatchAt(set, rest) > 0
  /\ rest' = SubSeq(rest, MatchAt(set, rest) + 1, Len(rest))
  /\ out' = Append(out, Mask)
  /\ UNCHANGED <<set, stream, held, ended>>

\* ... the start of one is held back, ...
HoldRest ==
  /\ rest # <<>> /\ MatchAt(set, rest) = 0 /\ CouldStart(set, rest)
  /\ held' = rest /\ rest' = <<>>
  /\ UNCHANGED <<set, stream, out, ended>>

\* ... and any other byte is passed on.
PassByte ==
  /\ rest # <<>> /\ MatchAt(set, rest) = 0 /\ ~CouldStart(set, rest)
  /\ out' = Append(out, Head(rest)) /\ rest' = Tail(rest)
  /\ UNCHANGED <<set, stream, held, ended>>

\* Mutant of Flush: what was held is dropped.
FlushDrops ==
  /\ ~ended /\ rest = <<>> /\ ended' = TRUE
  /\ held' = <<>>
  /\ UNCHANGED <<set, stream, rest, out>>

\* qwe_redact_flush.
Flush ==
  /\ ~ended /\ rest = <<>> /\ ended' = TRUE
  /\ out' = out \o held
  /\ held' = <<>>
  /\ UNCHANGED <<set, stream, rest>>

RedactInit ==
  /\ set \in ValueSets
  /\ stream = <<>> /\ rest = <<>> /\ held = <<>> /\ out = <<>> /\ ended = FALSE

Words(max) == UNION {[1..n -> Alphabet] : n \in 1..max}

RedactNext ==
  \/ \E chunk \in Words(MaxChunk) : Feed(chunk)
  \/ MaskValue \/ HoldRest \/ PassByte \/ Flush

RedactSpec == RedactInit /\ [][RedactNext]_redactVars

-----------------------------------------------------------------------------
\* What the redactor holds back is a proper prefix of some value (redact.h:28),
\* so it is bounded by the longest value however long the stream is.
HeldIsAPrefix == held = <<>> \/ \E v \in set : StartOf(held, v)

\* A complete value is never passed on, neither whole nor put together from two
\* chunks; only the flush may pass one that lies inside the start of another.
NoValuePassed ==
  \A v \in set : Occurs(v, out) => ended /\ \E w \in set \ {v} : Occurs(v, w)
=============================================================================
