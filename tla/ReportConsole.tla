---------------------------- MODULE ReportConsole ----------------------------
(***************************************************************************)
(* The report tab of the console (app.rs): building the report beside the  *)
(* trail it is of, offering to open it, and rewriting it when the language *)
(* is switched, while the gateway appends to the trail, the trail is moved *)
(* or emptied, and a write fails.                                          *)
(***************************************************************************)
EXTENDS Report

CONSTANTS Trails,       \* paths that may be typed into the field
          OutOf,        \* where the report of each goes: the same name beside it
          Live,         \* the one the gateway appends to
          LineKinds,    \* the lines it may append
          Archived,     \* what may be put in the place of a trail
          MaxLines      \* bound on the live trail

ASSUME OutOfAssumption == DOMAIN OutOf = Trails

NotUtf8 == "not_utf8"
IsLine(line) ==
    \/ line.is \in {Blank, Broken, NotUtf8}
    \/ line.is = "event" /\ Time(line.record) \in Nat
ASSUME LinesAssumption ==
    /\ \A line \in LineKinds : IsLine(line)
    /\ \A lines \in Archived :
          lines \in Seq(ToSet(lines)) /\ \A line \in ToSet(lines) : IsLine(line)

VARIABLES
    trail,          \* the lines of each file, or Missing
    html,           \* what is at each place a report goes to
    audit_path, lang, report_path, report_summary,
    report_notice   \* `notice`, as far as this tab sets it

files == <<trail, html>>
console == <<audit_path, lang, report_path, report_summary, report_notice>>
reportVars == <<files, console>>

Missing == <<[is |-> "missing"]>>
Absent == <<>>

Other(language) == IF language = "en" THEN "pl" ELSE "en"

Whole(page) == <<[whole |-> TRUE, page |-> page]>>
Partial == <<[whole |-> FALSE, page |-> Absent]>>

\* read_to_string refuses a file with one byte sequence that is not UTF-8.
Readable(lines) == lines # Missing /\ \A i \in DOMAIN lines : lines[i].is # NotUtf8

ReportInit ==
    /\ trail = [t \in Trails |-> <<>>]
    /\ html = [place \in ToSet(OutOf) |-> Absent]
    /\ audit_path \in Trails /\ lang \in {"en", "pl"}
    /\ report_path = Absent /\ report_summary = Absent
    /\ report_notice = "none"

-----------------------------------------------------------------------------
\* The gateway, and whoever looks after the file.
AppendLine(line) ==
    /\ trail[Live] # Missing /\ Len(trail[Live]) < MaxLines
    /\ trail' = [trail EXCEPT ![Live] = Append(@, line)]
    /\ UNCHANGED <<html, console>>

ReplaceTrail(t) ==
    /\ \E lines \in {Missing} \cup Archived : trail' = [trail EXCEPT ![t] = lines]
    /\ UNCHANGED <<html, console>>

EditPath(t) ==
    /\ audit_path' = t
    /\ UNCHANGED <<files, lang, report_path, report_summary, report_notice>>

-----------------------------------------------------------------------------
\* build_report, from the path and the summary that were there before.
Build(language, path, summary) ==
    LET lines == trail[audit_path]
        report == FromJsonl(lines)
        out == OutOf[audit_path]
    IN  \/ /\ ~Readable(lines)
           /\ report_notice' = "bad"
           /\ report_path' = path /\ report_summary' = summary
           /\ UNCHANGED html
        \/ /\ Readable(lines) /\ IsEmpty(report)
           /\ report_notice' = "bad"
           /\ report_path' = path /\ report_summary' = Absent
           /\ UNCHANGED html
        \/ /\ Readable(lines) /\ ~IsEmpty(report)
           /\ html' = [html EXCEPT ![out] = Whole(Page(report, language, audit_path))]
           /\ report_notice' = "good"
           /\ report_path' = <<out>> /\ report_summary' = <<report>>
        \* fs::write empties the file before it writes.
        \/ /\ Readable(lines) /\ ~IsEmpty(report)
           /\ UNCHANGED html \/ html' = [html EXCEPT ![out] = Partial]
           /\ report_notice' = "bad"
           /\ report_path' = path /\ report_summary' = summary

BuildReport ==
    /\ Build(lang, report_path, report_summary)
    /\ UNCHANGED <<trail, audit_path, lang>>

SwitchLanguageOffering ==
    /\ lang' = Other(lang)
    /\ IF report_path = Absent THEN UNCHANGED <<html, report_path, report_summary, report_notice>>
       ELSE Build(lang', report_path, Absent)
    /\ UNCHANGED <<trail, audit_path>>
SwitchLanguage ==
    /\ lang' = Other(lang)
    /\ IF report_path = Absent THEN UNCHANGED <<html, report_path, report_summary, report_notice>>
       ELSE Build(lang', Absent, Absent)
    /\ UNCHANGED <<trail, audit_path>>

ReportNext ==
    \/ \E line \in LineKinds : AppendLine(line)
    \/ \E t \in Trails : ReplaceTrail(t) \/ EditPath(t)
    \/ BuildReport \/ SwitchLanguage

ReportSpec == ReportInit /\ [][ReportNext]_reportVars

-----------------------------------------------------------------------------
(* The report is of the whole trail: every line that is not blank is in it *)
(* as an event or as malformed, the period covers every event that has a   *)
(* time, and the order in which handlers wrote the lines does not matter.  *)
(* ("would describe a different period from the one it claims", report.rs) *)
TheReportIsOfTheWholeTrail ==
    \A t \in Trails : Readable(trail[t]) =>
        LET lines == trail[t]
            report == FromJsonl(lines)
            events == {i \in DOMAIN lines : lines[i].is = "event"}
            times == {Time(lines[i].record) : i \in events} \ {0}
        IN  /\ report.events + report.malformed =
                   Cardinality({i \in DOMAIN lines : lines[i].is # Blank})
            /\ {report.first_ts, report.last_ts} \subseteq times \cup {0}
            /\ \A ts \in times : report.first_ts <= ts /\ ts <= report.last_ts /\ report.first_ts > 0
            /\ FromJsonl(Reverse(lines)) = report

(* The report the console offers to open is one it wrote in the language   *)
(* it is showing, and the numbers it shows are those of that file: unless  *)
(* a write since has failed, whatever became of the trail meanwhile.       *)
TheReportOfferedIsTheOneShown ==
    /\ report_summary # Absent => report_path # Absent
    /\ report_path # Absent =>
        LET offered == html[report_path[1]]
        IN  /\ offered # Absent
            /\ offered[1].whole =>
                 /\ offered[1].page.lang = lang
                 /\ report_summary # Absent =>
                      \E t \in Trails : offered[1].page = Page(report_summary[1], lang, t)
=============================================================================
