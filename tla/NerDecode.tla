----------------------------- MODULE NerDecode -----------------------------
(***************************************************************************)
(* From a text to named entities: NerDetector::detect feeds the model as   *)
(* many tokens as its static shape holds, and decode joins the labels of   *)
(* words into findings.  Text is a sequence of units; a word is a run of   *)
(* units that are not spaces, each unit a token, with one special token at *)
(* either end.  The model may label a token in any way.                    *)
(***************************************************************************)
EXTENDS Integers, Sequences, SequencesExt, FiniteSetsExt, Lists

CONSTANTS Labels,          \* id2label: records [prefix, entity]
          SequenceLength   \* tokens the compiled model takes

VARIABLES text,
          inferred,        \* the model has labelled the tokens
          label,           \* of each token it read
          order,           \* the words decode has still to look at
          current,         \* the entity being extended, or NoEntity
          findings

nerVars == <<text, inferred, label, order, current, findings>>

NoEntity == [start |-> 0, end |-> 0, kind |-> "none"]

EntityKind(entity) == IF entity \in {"PER", "ORG", "LOC"} THEN entity ELSE "none"

-----------------------------------------------------------------------------
Pieces == Kept([i \in DOMAIN text |-> i], {i \in DOMAIN text : text[i] # "space"})
WordIds(i) == Cardinality({j \in 1 .. i : text[j] # "space" /\ (j = 1 \/ text[j - 1] = "space")})

Special == [word |-> 0, start |-> 0, end |-> 0]
Token(i) == [word |-> WordIds(i), start |-> i, end |-> i + 1]
Encoding == <<Special>> \o [k \in DOMAIN Pieces |-> Token(Pieces[k])] \o <<Special>>
Take == Min({Len(Encoding), SequenceLength})

\* What decode keeps of a word: its extent over the subwords the model saw and
\* the label of the first of them.  Special tokens carry an empty span.
Word(tokens, labels, subwords) ==
    [start |-> tokens[Min(subwords)].start,
     end |-> Max({tokens[k].end : k \in subwords}),
     tag |-> labels[Min(subwords)]]
WordsOf(tokens, labels) ==
    LET seen == {k \in DOMAIN labels : tokens[k].end > tokens[k].start}
        words == Kept([i \in DOMAIN text |-> i], {tokens[k].word : k \in seen})
    IN [n \in DOMAIN words |->
           Word(tokens, labels, {k \in seen : tokens[k].word = words[n]})]

-----------------------------------------------------------------------------
NerInit ==
    /\ inferred = FALSE /\ label = <<>> /\ order = <<>>
    /\ current = NoEntity
    /\ findings = <<>>

Infer ==
    /\ ~inferred
    /\ LET tokens == SubSeq(Encoding, 1, Take)
       IN /\ label' \in [{k \in DOMAIN tokens : tokens[k] # Special} -> Labels]
          /\ order' = WordsOf(tokens, label')
    /\ inferred' = TRUE
    /\ UNCHANGED <<text, current, findings>>

Ended == IF current = NoEntity THEN findings ELSE Append(findings, current)
KindOf(w) == EntityKind(w.tag.entity)

ContinuesAnyKind(w) == current # NoEntity /\ w.tag.prefix = "I"
ContinuesCurrent(w) == current # NoEntity /\ w.tag.prefix = "I" /\ current.kind = KindOf(w)

Next(w) ==
    /\ order # <<>> /\ w = Head(order)
    /\ order' = Tail(order)
    /\ UNCHANGED <<text, inferred, label>>

Outside(w) ==
    /\ Next(w)
    /\ KindOf(w) = "none"
    /\ findings' = Ended /\ current' = NoEntity

Extend(w) ==
    /\ Next(w)
    /\ KindOf(w) # "none" /\ ContinuesCurrent(w)
    /\ current' = [current EXCEPT !.end = w.end]
    /\ UNCHANGED findings

Open(w) ==
    /\ Next(w)
    /\ KindOf(w) # "none" /\ ~ContinuesCurrent(w)
    /\ findings' = Ended
    /\ current' = [start |-> w.start, end |-> w.end, kind |-> KindOf(w)]

\* Behind the last word.
Finish ==
    /\ inferred /\ order = <<>> /\ current # NoEntity
    /\ findings' = Ended /\ current' = NoEntity
    /\ UNCHANGED <<text, inferred, label, order>>

NerNext ==
    \/ Infer
    \/ \E w \in ToSet(order) : Outside(w) \/ Extend(w) \/ Open(w)
    \/ Finish

Decoded == inferred /\ order = <<>> /\ current = NoEntity
=============================================================================
