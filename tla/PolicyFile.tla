----------------------------- MODULE PolicyFile -----------------------------
(***************************************************************************)
(* policy.rs of the console: a configuration is edited line by line.  A    *)
(* line is its indentation, its key ("" on a comment or a blank line), its *)
(* value and the note behind the value; a detector's entry has its mode as *)
(* value, or none when the mode is on a line of its own below it.          *)
(*                                                                         *)
(* A setting is named by the keys above its line.  An edit returns the     *)
(* lines it leaves behind, and whether it was accepted.                    *)
(***************************************************************************)
EXTENDS Integers, Sequences, SequencesExt, FiniteSetsExt

Configurations == Seq([indent : Nat, key : STRING, value : STRING, note : STRING])

AuditEnabled == <<"audit", "jsonl", "enabled">>
AuditPath == <<"audit", "jsonl", "path">>
SyslogEnabled == <<"audit", "syslog_cef", "enabled">>
SyslogAddress == <<"audit", "syslog_cef", "address">>
Detector(kind) == <<"detectors", kind>>

MaxDecision(kind) == IF kind = "pesel" THEN "block" ELSE "mask"
Rank(mode) == CASE mode = "observe" -> 0 [] mode = "advise" -> 1 [] mode = "mask" -> 2 [] mode = "block" -> 3

LooksAbsolute(path) == path \in {"/var/audit", "C:/audit"}

\* What a value written without quotes is read back as: " #" starts a comment,
\* and brackets are a list, which is not a string.
Unquoted(value) ==
    CASE value = "host:514 #siem" -> [value |-> "host:514", note |-> "#siem"]
      [] value = "[::1]:514" -> [value |-> "list", note |-> ""]
      [] OTHER -> [value |-> value, note |-> ""]
Quoted(value) == [value |-> value, note |-> ""]

-----------------------------------------------------------------------------
\* The YAML reading of a file, by serde into Config.
IsKeyLine(line) == line.key # ""
Above(lines, i) ==
    Max({0} \cup {j \in 1 .. i - 1 : IsKeyLine(lines[j]) /\ lines[j].indent < lines[i].indent})
PathOf(lines) ==
    LET path[i \in 0 .. Len(lines)] ==
            IF i = 0 THEN <<>> ELSE Append(path[Above(lines, i)], lines[i].key)
    IN path
ValueAt(lines, setting, default) ==
    LET path == PathOf(lines)
        at == {i \in DOMAIN lines : lines[i].key = Last(setting) /\ path[i] = setting}
    IN IF at = {} THEN default ELSE lines[Max(at)].value

ModeFor(lines, kind) ==
    IF ValueAt(lines, Detector(kind), "unset") = "" THEN ValueAt(lines, Append(Detector(kind), "mode"), "unset")
    ELSE ValueAt(lines, Detector(kind), "unset")

Settings == {AuditEnabled, AuditPath, SyslogEnabled, SyslogAddress, Detector("pesel"), Detector("email")}
Value(lines, setting) ==
    IF setting[1] = "detectors" THEN ModeFor(lines, setting[2]) ELSE ValueAt(lines, setting, "default")

\* A file without any key is empty to YAML; a list is no address.
Parses(lines) ==
    /\ \E i \in DOMAIN lines : IsKeyLine(lines[i])
    /\ \A i \in DOMAIN lines : lines[i].value # "list"

-----------------------------------------------------------------------------
\* block: the half-open range of lines below a nested key; <<>> if there is none.
Inside(lines, range, key, depth) ==
    {i \in range[1] .. range[2] - 1 :
        IsKeyLine(lines[i]) /\ lines[i].key = key /\ lines[i].indent > depth}

BlockEndOfFile(lines, index, end) == end
BlockEnd(lines, index, end) ==
    Min({end} \cup {i \in index + 1 .. end - 1 :
                       IsKeyLine(lines[i]) /\ lines[i].indent <= lines[index].indent})

Step(lines, found, key) ==
    IF found = <<>> THEN <<>>
    ELSE LET matching == Inside(lines, found, key, found[3])
             index == Min(matching)
         IN IF matching = {} THEN <<>>
            ELSE <<index + 1, BlockEnd(lines, index, found[2]), lines[index].indent>>

Block(lines, path) ==
    LET found[n \in 0 .. Len(path)] ==
            IF n = 0 THEN <<1, Len(lines) + 1, -1>> ELSE Step(lines, found[n - 1], path[n])
    IN found[Len(path)]

LineOf(lines, path, key) == Inside(lines, Block(lines, path), key, -1)

-----------------------------------------------------------------------------
Accepted(lines) == [ok |-> TRUE, lines |-> lines]
Rejected(lines) == [ok |-> FALSE, lines |-> lines]

\* Parse the result and see that it says what was asked for.
ReadBack(lines, setting, value) ==
    IF Parses(lines) /\ Value(lines, setting) = value THEN Accepted(lines) ELSE Rejected(lines)

SetScalar(lines, setting, written, value) ==
    LET path == Front(setting)
        at == IF Block(lines, path) = <<>> THEN {} ELSE LineOf(lines, path, Last(setting))
        index == Min(at)
        note == IF written.note = "" THEN lines[index].note ELSE written.note
    IN IF at = {} THEN Rejected(lines)
       ELSE ReadBack([lines EXCEPT ![index] = [@ EXCEPT !.value = written.value, !.note = note]],
                     setting, value)

SetAuditEnabled(lines, on) == SetScalar(lines, AuditEnabled, Quoted(on), on)
SetAuditPath(lines, path) ==
    IF LooksAbsolute(path) THEN SetScalar(lines, AuditPath, Quoted(path), path) ELSE Rejected(lines)
SetSyslogEnabled(lines, on) == SetScalar(lines, SyslogEnabled, Quoted(on), on)
SetSyslogAddress(lines, address) == SetScalar(lines, SyslogAddress, Unquoted(address), address)

-----------------------------------------------------------------------------
DetectorLine(lines, kind) ==
    IF Block(lines, <<"detectors">>) = <<>> THEN {} ELSE LineOf(lines, <<"detectors">>, kind)

DetectorMode(lines, kind) ==
    IF DetectorLine(lines, kind) = {} \/ lines[Min(DetectorLine(lines, kind))].value = "" THEN "unset"
    ELSE lines[Min(DetectorLine(lines, kind))].value

\* Behind the last entry of the block, at that entry's indentation.
InsertDetector(lines, kind, mode) ==
    LET block == Block(lines, <<"detectors">>)
        keyed == {i \in block[1] .. block[2] - 1 : IsKeyLine(lines[i])}
        template == Max(keyed)
    IN IF block = <<>> \/ keyed = {} THEN Rejected(lines)
       ELSE ReadBack(InsertAt(lines, template + 1,
                              [indent |-> lines[template].indent, key |-> kind, value |-> mode, note |-> ""]),
                     Detector(kind), mode)

ReplaceMode(lines, index, kind, mode) ==
    IF lines[index].value = "" THEN Rejected(lines)
    ELSE ReadBack([lines EXCEPT ![index].value = mode], Detector(kind), mode)

SetDetectorMode(lines, kind, mode) ==
    IF Rank(mode) > Rank(MaxDecision(kind)) THEN Rejected(lines)
    ELSE IF DetectorLine(lines, kind) = {} THEN InsertDetector(lines, kind, mode)
    ELSE ReplaceMode(lines, Min(DetectorLine(lines, kind)), kind, mode)
=============================================================================
