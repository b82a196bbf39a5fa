------------------------------- MODULE Lists -------------------------------
(***************************************************************************)
(* Two loops that occur all over the detectors and the readers: adding     *)
(* numbers up, and keeping the elements of one kind.                       *)
(***************************************************************************)
EXTENDS Integers, Sequences, SequencesExt

Total(numbers) == FoldLeft(LAMBDA sum, n : sum + n, 0, numbers)

Kept(s, S) == FlattenSeq([i \in DOMAIN s |-> IF s[i] \in S THEN <<s[i]>> ELSE <<>>])
=============================================================================
