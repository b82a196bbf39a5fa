------------------------------ MODULE Masking ------------------------------
(***************************************************************************)
(* mask_spans: how the findings of one text field become the text that is  *)
(* forwarded.  The text is the sequence of its positions 1..Length; a span *)
(* [from, to) covers the positions from+1 .. to, and a placeholder stands  *)
(* in the output as Placeholder.  One step handles one span.               *)
(*                                                                         *)
(* The two layers report independently, and the e-mail scanner of layer 1  *)
(* looks backwards from the @, so the spans may overlap in any way.        *)
(***************************************************************************)
EXTENDS Naturals, Sequences

CONSTANTS Length,    \* of the text
          MaxSpans   \* findings in one text field

ASSUME LengthAssumption == Length \in Nat \ {0}
ASSUME MaxSpansAssumption == MaxSpans \in Nat

VARIABLES spans,      \* the findings to mask, in the order they were reported
          todo,       \* the spans not yet handled, by index
          kept,       \* the spans that were replaced
          last_start, \* where the leftmost replaced span starts
          out

maskVars == <<spans, todo, kept, last_start, out>>

Placeholder == 0
Span == {s \in [from : 0 .. Length - 1, to : 1 .. Length] : s.from < s.to}
Covered(s) == (s.from + 1) .. s.to

Init ==
    /\ spans \in UNION {[1 .. n -> Span] : n \in 0 .. MaxSpans}
    /\ todo = DOMAIN spans
    /\ kept = {}
    /\ last_start = Length      \* usize::MAX: no span ends beyond the text
    /\ out = [p \in 1 .. Length |-> p]

\* The stable sort by descending start.
IsNext(i) ==
    /\ i \in todo
    /\ \A j \in todo : \/ spans[j].from < spans[i].from
                       \/ spans[j].from = spans[i].from /\ i <= j

OverlapsOrTouches(s) == s.to >= last_start
NeverOverlaps(s) == FALSE
Overlaps(s) == s.to > last_start

ReplaceRange(string, s) ==
    SubSeq(string, 1, s.from) \o <<Placeholder>> \o SubSeq(string, s.to + 1, Len(string))

Skip(i) ==
    /\ IsNext(i)
    /\ Overlaps(spans[i])
    /\ todo' = todo \ {i}
    /\ UNCHANGED <<spans, kept, last_start, out>>

Replace(i) ==
    /\ IsNext(i)
    /\ ~Overlaps(spans[i])
    /\ todo' = todo \ {i}
    /\ kept' = kept \cup {i}
    /\ last_start' = spans[i].from
    /\ out' = ReplaceRange(out, spans[i])
    /\ UNCHANGED spans

Next == \E i \in DOMAIN spans : Skip(i) \/ Replace(i)

Spec == Init /\ [][Next]_maskVars

-----------------------------------------------------------------------------
Shown == {out[n] : n \in DOMAIN out} \ {Placeholder}

\* The positions that one of these spans covers.
CoveredBy(S) == UNION {Covered(spans[i]) : i \in S}

(* What is left of the text is exactly what no replaced span covered, in   *)
(* its order: masking neither eats nor duplicates nor moves other text.    *)
OnlySpansAreReplaced ==
    /\ Shown = 1 .. Length \ CoveredBy(kept)
    /\ \A m, n \in DOMAIN out :
          m < n /\ {out[m], out[n]} \subseteq Shown => out[m] < out[n]

(* A finding dropped because it overlaps another is never left whole: part *)
(* of what it covers is gone.                                              *)
NoFindingIsLeftWhole ==
    todo = {} => \A i \in DOMAIN spans : ~(Covered(spans[i]) \subseteq Shown)
=============================================================================
