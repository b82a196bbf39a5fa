------------------------------ MODULE Reading ------------------------------
(***************************************************************************)
(* What inspect_request does with one attachment: extract the text, and    *)
(* let layer 2 name the people, places and organisations in it.            *)
(***************************************************************************)
EXTENDS Extraction

CONSTANTS Labels, SequenceLength
ASSUME LengthAssumption == SequenceLength \in Nat \ {0}

VARIABLES inferred, label, order, current, findings
decodeVars == <<inferred, label, order, current, findings>>

Ner == INSTANCE NerDecode WITH text <- out

ReadingInit == ExtractInit /\ Ner!NerInit

Extract == ExtractNext /\ UNCHANGED decodeVars

Detect ==
    /\ stage = "done" /\ outcome = "read"
    /\ Ner!NerNext
    /\ UNCHANGED <<attachment, stage, names, outcome, truncated, origin>>

ReadingNext == Extract \/ Detect
ReadingSpec == ReadingInit /\ [][ReadingNext]_<<extractVars, decodeVars>>
-----------------------------------------------------------------------------
Tokens == SubSeq(Ner!Encoding, 1, Ner!Take)
TokensOf(w) == {k \in DOMAIN label : Tokens[k].word = w}
WordsRead == {Tokens[k].word : k \in DOMAIN label}
LabelOf(w) == label[Min(TokensOf(w))]
KindOf(w) == Ner!EntityKind(LabelOf(w).entity)
Continues(w) == w - 1 \in WordsRead /\ LabelOf(w).prefix = "I" /\ KindOf(w) = KindOf(w - 1)
Firsts == {w \in WordsRead : KindOf(w) # "none" /\ ~Continues(w)}
RunEnd(w) == Max({v \in WordsRead : v >= w /\ \A u \in w + 1 .. v : Continues(u)})
Entity(w) ==
    [start |-> Tokens[Min(TokensOf(w))].start, end |-> Tokens[Max(TokensOf(RunEnd(w)))].end,
     kind |-> KindOf(w)]
Entities == LET firsts == Kept([i \in DOMAIN out |-> i], Firsts) IN [i \in DOMAIN firsts |-> Entity(firsts[i])]

(* What decode reports is every longest run of words where the first one   *)
(* is labelled as a person, place or organisation and each later one as    *)
(* inside the same kind: from the first letter of the run to the last one  *)
(* the model saw, in the order of the text.                                *)
EntitiesAreMaximalRuns == Ner!Decoded => findings = Entities

XmlOf(parts) == FlattenSeq([i \in DOMAIN parts |-> parts[i].xml])
Plain == {p \in ToSet(attachment.parts) : p.utf8}
Readable == Kept(XmlOf(Kept(Wanted, Plain)), Letters)
Paragraph(o) == <<o.part, Cardinality({k \in 1 .. o.unit : Wanted[o.part].xml[k] = "par"})>>
ParagraphsStayApart ==
    \A i \in 1 .. Len(out) - 1 :
        {out[i], out[i + 1]} \subseteq Letters => Paragraph(origin[i]) = Paragraph(origin[i + 1])

(* A document whose parts fit into the text limit is read whole: a part    *)
(* that is not text is skipped, every letter of the others arrives, in     *)
(* order, and words of two paragraphs or parts never become one ("Marek"   *)
(* and "Nowak" are not MarekNowak).                                        *)
WhatFitsIsRead ==
    stage = "done" /\ Decodes /\ Fits /\ Sniff(attachment) = "ooxml" /\ Bytes(XmlOf(Wanted)) <= MaxText =>
        IF Readable = <<>> THEN outcome = "unreadable"
        ELSE /\ outcome = "read"
             /\ Kept(out, Letters) = Readable
             /\ ParagraphsStayApart

(* However an archive is cut up, no more text is collected than the limit  *)
(* allows.                                                                 *)
WorkIsBounded == Sniff(attachment) = "ooxml" => Bytes(out) <= MaxText
=============================================================================
