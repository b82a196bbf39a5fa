----------------------------- MODULE AuditTrail -----------------------------
(***************************************************************************)
(* The trail end to end: what record_request puts into the events, what    *)
(* the sinks make of them when handlers interleave, writes fail and the    *)
(* process dies, and what the two readers, the console's report and a CEF  *)
(* parser, get out of it.                                                  *)
(***************************************************************************)
EXTENDS AuditSinks, AuditRecord, Report, Otlp, Lists

CONSTANTS Inspection, Context, Clock,   \* of each handler's request
          Version,
          ModelNames    \* the names a caller may ask for, as texts

Recorded(h) == RecordRequest(Inspection[h], Context[h], Clock[h])
ASSUME EventsAreRecorded == \A h \in Handlers : Events[h] = Len(Recorded(h))
\* Findings and unread attachments come in lists, and every kind has a name.
ASSUME InspectionAssumption ==
    \A h \in Handlers :
        LET i == Inspection[h] IN
        /\ Clock[h] \in Nat
        /\ i.findings \in Seq(ToSet(i.findings)) /\ i.unread \in Seq(ToSet(i.unread))
        /\ \A finding \in ToSet(i.findings) : finding.kind # EmptyText

Content(event) == Recorded(event[1])[event[2]]

-----------------------------------------------------------------------------
(* str::lines, and what serde makes of a line.                             *)

\* The lines that have ended so far, and the parts behind them.
Read(text, part) ==
    IF part = LineEnd
    THEN [lines |-> Append(text.lines, text.rest), rest |-> <<>>]
    ELSE [lines |-> text.lines, rest |-> Append(text.rest, part)]
Lines ==
    LET cut == FoldLeft(Read, [lines |-> <<>>, rest |-> <<>>], file)
    IN  IF cut.rest = <<>> THEN cut.lines ELSE Append(cut.lines, cut.rest)

IsWhole(part) == part # LineEnd /\ Len(part) = 2
Parsed(line) ==
    IF line = <<>> THEN [is |-> Blank]
    ELSE IF Len(line) = 1 /\ IsWhole(line[1]) THEN [is |-> "event", record |-> Content(line[1])]
    ELSE [is |-> Broken]

TheReport == FromJsonl([n \in DOMAIN Lines |-> Parsed(Lines[n])])

(* The report counts exactly the events that have a line of their own, and *)
(* says so when the file holds anything else (from_jsonl, `malformed`):    *)
(* what a failed write or a death left torn, and the events that were      *)
(* appended to it, are never missing without a word.                       *)
TheReportOwnsUp ==
    LET Ends(i) == i \notin DOMAIN file \/ file[i] = LineEnd
        alone == {i \in DOMAIN file : IsWhole(file[i]) /\ Ends(i - 1) /\ Ends(i + 1)}
        detections == {i \in alone : Content(file[i]).event = "pii_detected"}
    IN  /\ TheReport.events = Cardinality(alone)
        /\ Findings(TheReport) = Cardinality(detections)
        /\ (\E i \in DOMAIN file : file[i] # LineEnd /\ i \notin alone) <=> TheReport.malformed > 0

-----------------------------------------------------------------------------
(* A conforming reader: a backslash takes the next character literally,    *)
(* except that it and an n are a line feed.                                *)

Unescape(read, c) ==
    IF read.escape
    THEN [escape |-> FALSE,
          out |-> Append(read.out, [char |-> IF c = "n" THEN LF ELSE c, mark |-> FALSE])]
    ELSE IF c = Backslash THEN [escape |-> TRUE, out |-> read.out]
    ELSE [escape |-> FALSE, out |-> Append(read.out, [char |-> c, mark |-> TRUE])]
Unread == [escape |-> FALSE, out |-> <<>>]
Scan(line) == FoldLeft(Unescape, Unread, line)
Tokens(line) == Scan(line).out
Marks(tokens, c) ==
    SelectSeq([i \in DOMAIN tokens |-> i], LAMBDA i : tokens[i] = [char |-> c, mark |-> TRUE])
Between(tokens, first, last) == [i \in 1 .. last - first - 1 |-> tokens[first + i].char]

\* Seven header fields, and the pairs: a key is the word before an equals sign.
ReadHeader(tokens) ==
    LET pipes == <<0>> \o Marks(tokens, Pipe)
    IN  [n \in 1 .. 7 |-> Between(tokens, pipes[n], pipes[n + 1])]
ReadPairs(tokens) ==
    LET body == SubSeq(tokens, Marks(tokens, Pipe)[7] + 1, Len(tokens))
        signs == Marks(body, Equals)
        end(n) == IF n = Len(signs) THEN Len(body) + 1 ELSE signs[n + 1] - 2
    IN  [n \in DOMAIN signs |-> <<body[signs[n] - 1].char, Between(body, signs[n], end(n))>>]

NoCR(text) == Kept(text, ToSet(text) \ {CR})
ReadsBack(event) ==
    LET tokens == Tokens(Render(event, Version))
        header == ReadHeader(tokens)
    IN  /\ LF \notin ToSet(Render(event, Version))
        /\ header[4] = Version /\ header[5] = <<event.event>>
        /\ ReadPairs(tokens) = [n \in DOMAIN Pairs(event) |->
                                    <<Pairs(event)[n][1], NoCR(Pairs(event)[n][2])>>]

\* No record the collector is given says a thing twice, or something else.
ASSUME EveryLogRecordIsItsEvent ==
    \A h \in Handlers :
        LET records == ToOtlp(Recorded(h), Version).logRecords
        IN  \A n \in DOMAIN Recorded(h) : OneAttributePerFact(records[n], Recorded(h)[n])

For(event, name) ==
    IF "upstream_model" \in DOMAIN Content(event)
    THEN [Content(event) EXCEPT !["upstream_model"] = name]
    ELSE Content(event)
Garbled ==
    {asked[1] : asked \in {a \in AuditEvents \X ModelNames : ~ReadsBack(For(a[1], a[2]))}}

(* A datagram is one line, and a reader that follows the format gets from  *)
(* it every field of the event with its own value, whatever the caller     *)
(* wrote where it named the model: no character of it starts another       *)
(* field.  ("Unescaped, these shift every following field", cef.rs:238)    *)
(* The reader keeps a key that comes twice, as fileHash does, both times.  *)
EveryDatagramReadsBack == datagrams \cap Garbled = {}
=============================================================================
