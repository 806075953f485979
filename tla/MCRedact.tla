------------------------------ MODULE MCRedact -------------------------------
(***************************************************************************)
(* The redactor against its reference, which masks the whole stream at     *)
(* once, and sets of values for TLC: pairs of words over the alphabet.     *)
(***************************************************************************)
EXTENDS Redact, FiniteSets

CONSTANT MaxValue  \* bound: bytes in a value

\* No value occurs inside another.
Separate == {s \in {{v, w} : v, w \in Words(MaxValue)} : 
              \A v, w \in s : v = w \/ ~Occurs(v, w)}

\* A value and the same value continued.
Nested == {s \in {{v, w} : v, w \in Words(MaxValue)} :
            \E v, w \in s : Len(v) > 1 /\ StartOf(v, w)}

\* The reference: leftmost-longest.
RECURSIVE Masked(_, _, _)
Masked(values, s, i) ==
  LET hits == {v \in values : i + Len(v) - 1 <= Len(s) /\ SubSeq(s, i, i + Len(v) - 1) = v}
  IN  IF i > Len(s) THEN <<>>
      ELSE IF hits = {} THEN <<s[i]>> \o Masked(values, s, i + 1)
      ELSE LET n == CHOOSE n \in {Len(v) : v \in hits} : \A v \in hits : n >= Len(v)
           IN  <<Mask>> \o Masked(values, s, i + n)

\* However the stream is cut into chunks, the log ends up with what masking
\* the whole stream gives: every occurrence masked and every other byte kept.
ChunkingIsInvisible == ended => out = Masked(set, stream, 1)
=============================================================================
