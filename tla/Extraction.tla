----------------------------- MODULE Extraction -----------------------------
(***************************************************************************)
(* What sentin-extract makes of an attachment: decode, sniff, and one      *)
(* reader per kind of document, all under limits.  An office document is   *)
(* read part by part; each part is cut where the text budget left would    *)
(* end, counted in bytes of XML, and then stripped of its tags.            *)
(*                                                                         *)
(* Content is a sequence of units: letters, a letter of two bytes, spaces, *)
(* and in XML tags: the end of a run of letters, of a paragraph, any other.*)
(***************************************************************************)
EXTENDS Integers, Sequences, SequencesExt, FiniteSetsExt, Lists

CONSTANTS Attachments,   \* what may arrive
          MaxInput, MaxText,
          TagSize        \* of a tag, in bytes

Letters == {"a", "b", "wide", "lost"}
EndTags == {"run", "par"}       \* </w:t> and </w:p>, and their likes elsewhere
Tags == EndTags \cup {"tag"}
Units == Letters \cup Tags \cup {"space"}

Parts == [wanted : BOOLEAN, utf8 : BOOLEAN, xml : Seq(Units)]

ASSUME LimitsAssumption == MaxInput \in Nat /\ MaxText \in Nat /\ TagSize \in Nat \ {0}
ASSUME AttachmentsAssumption ==
    \A a \in Attachments :
        a.parts \in Seq(Parts) /\ a.content \in Seq(Letters \cup {"space"})

\* The text of an office document stands inside runs and paragraphs.
ASSUME ClosingAssumption ==
    \A a \in Attachments : \A n \in DOMAIN a.parts :
        LET xml == a.parts[n].xml
        IN \A k \in DOMAIN xml : xml[k] \in Letters =>
               \E e \in DOMAIN xml : e > k /\ xml[e] \in EndTags

VARIABLES attachment,
          stage,         \* decode, names, parts, trim, limit, or done
          names,         \* the parts of an office document still to read
          out,           \* the text so far
          outcome,       \* "" while reading, then read or why it was not
          truncated,
          origin         \* of each unit of out: its part and its place there

extractVars == <<attachment, stage, names, out, outcome, truncated, origin>>

Size(u) == CASE u \in Tags -> TagSize [] u = "wide" -> 2 [] u = "lost" -> 3 [] OTHER -> 1
Bytes(units) == Total([i \in DOMAIN units |-> Size(units[i])])

\* As many whole units as fit into n bytes.
Fitting(units, n) ==
    SubSeq(units, 1, Max({k \in 0 .. Len(units) : Bytes(SubSeq(units, 1, k)) <= n}))

-----------------------------------------------------------------------------
\* sniff: magic bytes first, then whether it could be text.
Sniff(a) ==
    CASE a.form = "pdf" -> "pdf"
      [] a.form = "office" -> "ooxml"
      [] a.form \in {"zip", "image", "binary"} -> "opaque"
      [] a.form \in {"utf8", "codepage"} -> IF a.content = <<>> THEN "opaque" ELSE "text"
      [] a.form = "utf16" -> "text"

\* A letter of a code page that is not UTF-8 is replaced; the rest survives.
DecodeText(a) ==
    [i \in DOMAIN a.content |->
        IF a.form = "codepage" /\ a.content[i] = "wide" THEN "lost" ELSE a.content[i]]

PlacesIn(part, n) == [k \in 1 .. n |-> [part |-> part, unit |-> k]]

ExtractInit ==
    /\ attachment \in Attachments
    /\ stage = "decode" /\ outcome = ""
    /\ names = <<>> /\ out = <<>> /\ origin = <<>>
    /\ truncated = FALSE

Fail(reason) ==
    /\ stage' = "done" /\ outcome' = reason
    /\ UNCHANGED <<attachment, names, out, truncated, origin>>

Decodes == attachment.base64
Fits == attachment.size <= MaxInput

Refuse ==
    /\ stage = "decode"
    /\ \/ ~Decodes /\ Fail("not_base64")
       \/ Decodes /\ ~Fits /\ Fail("too_large")
       \/ Decodes /\ Fits /\ Sniff(attachment) = "opaque" /\ Fail("unreadable")

Accepted(kind) ==
    /\ stage = "decode"
    /\ Decodes /\ Fits
    /\ Sniff(attachment) = kind

\* The PDF parser gives its text, refuses or panics; a panic is caught.
ReadPdf ==
    /\ Accepted("pdf")
    /\ \/ Fail("failed")
       \/ /\ out' = attachment.content /\ origin' = PlacesIn(1, Len(out'))
          /\ stage' = "limit"
          /\ UNCHANGED <<attachment, names, outcome, truncated>>

ReadText ==
    /\ Accepted("text")
    /\ out' = DecodeText(attachment) /\ origin' = PlacesIn(1, Len(out'))
    /\ stage' = "limit"
    /\ UNCHANGED <<attachment, names, outcome, truncated>>

-----------------------------------------------------------------------------
Wanted == Kept(attachment.parts, {p \in ToSet(attachment.parts) : p.wanted})

OpenArchive ==
    /\ Accepted("ooxml")
    /\ IF Wanted = <<>> THEN Fail("unreadable")
       ELSE /\ names' = Wanted /\ stage' = "parts"
            /\ UNCHANGED <<attachment, out, outcome, truncated, origin>>

BudgetPerPart == MaxText
Budget == Max({MaxText - Bytes(out), 0})

\* The budget ends inside a letter of two bytes, or the part is not UTF-8.
Spoilt(part) ==
    LET read == Fitting(part.xml, Budget)
    IN \/ ~part.utf8
       \/ /\ Len(read) < Len(part.xml) /\ part.xml[Len(read) + 1] = "wide"
          /\ Bytes(read) < Budget

Stripped(u) == CASE u \in EndTags -> <<"space">> [] u = "tag" -> <<>> [] OTHER -> <<u>>
PushText(xml) == FlattenSeq([i \in DOMAIN xml |-> Stripped(xml[i])])
Places(part, xml) ==
    FlattenSeq([i \in DOMAIN xml |->
        [k \in DOMAIN Stripped(xml[i]) |-> [part |-> part, unit |-> i]]])

PartNumber == Len(Wanted) - Len(names) + 1

SkipTheRest ==
    /\ stage = "parts" /\ names # <<>>
    /\ Budget > 0
    /\ Spoilt(Head(names))
    /\ names' = <<>>
    /\ UNCHANGED <<attachment, stage, out, outcome, truncated, origin>>
SkipPart ==
    /\ stage = "parts" /\ names # <<>>
    /\ Budget > 0
    /\ Spoilt(Head(names))
    /\ names' = Tail(names)
    /\ UNCHANGED <<attachment, stage, out, outcome, truncated, origin>>

ReadPart ==
    /\ stage = "parts" /\ names # <<>>
    /\ Budget > 0
    /\ ~Spoilt(Head(names))
    /\ LET xml == Fitting(Head(names).xml, Budget)
       IN /\ out' = out \o PushText(xml)
          /\ origin' = origin \o Places(PartNumber, xml)
    /\ names' = Tail(names)
    /\ UNCHANGED <<attachment, stage, outcome, truncated>>

\* Nothing left to read, or no budget to read it with.
CloseArchive ==
    /\ stage = "parts"
    /\ names = <<>> \/ Budget = 0
    /\ IF ToSet(out) \subseteq {"space"} THEN Fail("unreadable")
       ELSE /\ stage' = "limit"
            /\ UNCHANGED <<attachment, names, out, outcome, truncated, origin>>

-----------------------------------------------------------------------------
Limit ==
    /\ stage = "limit"
    /\ truncated' = (Bytes(out) > MaxText)
    /\ out' = Fitting(out, MaxText)
    /\ origin' = SubSeq(origin, 1, Len(out'))
    /\ stage' = "done" /\ outcome' = "read"
    /\ UNCHANGED <<attachment, names>>

ExtractNext ==
    Refuse \/ ReadPdf \/ ReadText \/ OpenArchive \/ SkipPart \/ ReadPart \/ CloseArchive \/ Limit

ExtractSpec == ExtractInit /\ [][ExtractNext]_extractVars
=============================================================================
