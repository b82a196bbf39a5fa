------------------------------- MODULE Report -------------------------------
(***************************************************************************)
(* The report the console makes of an audit trail: Report::from_jsonl and  *)
(* the numbers of to_html.  A line of the trail is blank, broken (not one  *)
(* JSON object) or an event, whose fields may be those of an older schema. *)
(* A time is a number, and 0 the empty one; a Tally is a bag of values.    *)
(***************************************************************************)
EXTENDS Naturals, Sequences, SequencesExt, FiniteSets, Bags

CONSTANT DayLength
ASSUME DayAssumption == DayLength \in Nat \ {0}

Blank == "blank"
Broken == "broken"
EmptyText == <<>>

Field(record, name) == IF name \in DOMAIN record THEN <<record[name]>> ELSE <<>>
Time(record) == IF "ts" \in DOMAIN record THEN record.ts ELSE 0

Bump(tally, option) ==
    IF option \in {<<>>, <<EmptyText>>} THEN tally ELSE tally (+) SetToBag({option[1]})

EmptyReport ==
    [events |-> 0, malformed |-> 0, first_ts |-> 0, last_ts |-> 0,
     detectors |-> EmptyBag, decisions |-> EmptyBag, devices |-> EmptyBag, models |-> EmptyBag,
     providers |-> EmptyBag, callers |-> EmptyBag, sources |-> EmptyBag,
     attachment_kinds |-> EmptyBag, daily |-> EmptyBag,
     blocked |-> 0, masked |-> 0, digests |-> {}, skipped_attachments |-> 0]

\* The lines are in the order they were written, which is not that of the times.
DatedByTheFirstLine(report, ts) ==
    IF ts = 0 THEN report
    ELSE [report EXCEPT !.first_ts = IF @ = 0 THEN ts ELSE @, !.last_ts = ts]
Dated(report, ts) ==
    IF ts = 0 THEN report
    ELSE [report EXCEPT !.first_ts = IF @ = 0 \/ ts < @ THEN ts ELSE @,
                        !.last_ts = IF ts > @ THEN ts ELSE @]

One(condition) == IF condition THEN 1 ELSE 0

\* An event without `source` is older than the distinction: it was the prompt.
Finding(report, r) ==
    LET decision == Field(r, "decision")
        source == Field(r, "source")
    IN  [report EXCEPT
            !.detectors = Bump(@, Field(r, "detector")),
            !.decisions = Bump(@, decision),
            !.devices = Bump(@, Field(r, "device")),
            !.sources = Bump(@, IF source = <<>> THEN <<<<"prompt">>>> ELSE source),
            !.attachment_kinds = Bump(@, Field(r, "attachment_kind")),
            !.digests = @ \cup ToSet(Field(r, "attachment_sha256")),
            !.daily = IF Time(r) = 0 THEN @ ELSE @ (+) SetToBag({Time(r) \div DayLength}),
            !.blocked = @ + One(decision = <<<<"blocked">>>>),
            !.masked = @ + One(decision = <<<<"masked">>>>)]

Skipped(report, r) ==
    [report EXCEPT !.skipped_attachments = @ + 1,
                   !.attachment_kinds = Bump(@, Field(r, "attachment_kind"))]

Kind(r) == IF "event" \in DOMAIN r THEN r.event ELSE ""
Counted(report, r) ==
    LET dated == Dated([report EXCEPT !.events = @ + 1], Time(r))
        seen == CASE Kind(r) = "pii_detected" -> Finding(dated, r)
                  [] Kind(r) = "attachment_skipped" -> Skipped(dated, r)
                  [] OTHER -> dated
    IN  [seen EXCEPT !.models = Bump(@, Field(r, "upstream_model")),
                     !.providers = Bump(@, Field(r, "provider")),
                     !.callers = Bump(@, Field(r, "client_addr"))]

BrokenLineSkipped(report, line) ==
    CASE line.is \in {Blank, Broken} -> report
      [] OTHER -> Counted(report, line.record)
AddLine(report, line) ==
    CASE line.is = Blank -> report
      [] line.is = Broken -> [report EXCEPT !.malformed = @ + 1]
      [] OTHER -> Counted(report, line.record)

FromJsonl(lines) == FoldLeft(AddLine, EmptyReport, lines)

IsEmpty(report) == report.events = 0
Findings(report) == MapThenSumSet(LAMBDA kind : report.detectors[kind], DOMAIN report.detectors)

\* What the page says.  A section whose tally is empty is left out.
Section(heading, tally) == IF tally = EmptyBag THEN <<>> ELSE << <<heading, tally>> >>
Warning(count, text) == IF count = 0 THEN <<>> ELSE << <<count, text>> >>
Page(report, lang, source) ==
    [lang |-> lang, source |-> source,
     period |-> IF report.first_ts = 0 THEN <<>> ELSE <<report.first_ts, report.last_ts>>,
     cards |-> <<report.events, Findings(report), report.blocked, report.masked,
                 Cardinality(report.digests)>>,
     sections |->
        Section("detectors", report.detectors) \o Section("daily", report.daily)
        \o Section("decisions", report.decisions) \o Section("sources", report.sources)
        \o Section("models", report.models) \o Section("callers", report.callers)
        \o Section("devices", report.devices) \o Section("attachments", report.attachment_kinds),
     warnings |-> Warning(report.skipped_attachments, "skipped")
                  \o Warning(report.malformed, "malformed")]
=============================================================================
