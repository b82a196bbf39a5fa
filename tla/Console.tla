------------------------------ MODULE Console ------------------------------
(***************************************************************************)
(* The console: app.rs over the configuration file (policy.rs) and the     *)
(* service (service.rs).  An operator edits detectors and sinks and        *)
(* applies; applying edits the text, saves it, restarts the gateway and    *)
(* tells how that went.  Somebody may change the file in a text editor.    *)
(***************************************************************************)
EXTENDS GatewayService

CONSTANTS Files,                 \* configurations somebody may have written
          Addresses, Paths,
          MaxEdits,              \* steps of the operator
          MaxOutside,            \* of somebody else
          MaxPolls               \* of the manager, in either direction

ASSUME ConfigurationsAssumption ==
    Files \subseteq Configurations /\ Addresses \subseteq STRING /\ Paths \subseteq STRING

VARIABLES backup,
          lines, savedText,      \* the file being edited
          isOpen,
          fields,                \* what the sink fields of the window show
          doing, polls,          \* how far apply is
          notice,                \* none, good or bad
          layer2,                \* as shown at the last refresh
          asked,                 \* of each setting: what was last asked for
          found,                 \* what the latest save found on disk
          edits, outside

editorVars == <<lines, savedText, isOpen, fields>>
history == <<asked, found, edits, outside>>
consoleVars == <<backup, editorVars, doing, polls, notice, layer2, history>>
all == <<disk, serviceVars, consoleVars>>

Nothing == <<>>
FieldsOf(text) ==
    [auditOn |-> Value(text, AuditEnabled), path |-> Value(text, AuditPath),
     syslogOn |-> Value(text, SyslogEnabled), address |-> Value(text, SyslogAddress)]
ValuesOf(text) == [s \in Settings |-> Value(text, s)]

Reload ==
    IF Parses(disk)
    THEN /\ lines' = disk /\ savedText' = disk /\ isOpen' = TRUE
         /\ fields' = FieldsOf(disk)
         /\ asked' = ValuesOf(disk)
    ELSE /\ isOpen' = FALSE
         /\ UNCHANGED <<lines, savedText, fields, asked>>

FirstSaid == IF log = <<>> THEN "silent" ELSE Head(log)
Layer2FromLog == IF log = <<>> THEN "silent" ELSE Last(log)

Init ==
    /\ disk \in Files /\ backup = Nothing
    /\ ServiceInit
    /\ lines = disk /\ savedText = disk /\ isOpen = TRUE
    /\ fields = FieldsOf(disk) /\ asked = ValuesOf(disk)
    /\ doing = "idle" /\ polls = 0 /\ notice = "none"
    /\ layer2 = Layer2FromLog
    /\ found = disk
    /\ edits = 0 /\ outside = 0

Idle == doing = "idle"
CountEdit == edits < MaxEdits /\ edits' = edits + 1

-----------------------------------------------------------------------------
\* The operator.  Accepted, an edit is what the file says from then on; after a
\* rejected one the text of that setting is whatever the edit left behind.
Ask(setting, value, result) ==
    asked' = [asked EXCEPT ![setting] = IF result.ok THEN value ELSE "rejected"]

PickMode(kind, mode) ==
    /\ Idle /\ isOpen /\ CountEdit
    /\ DetectorMode(lines, kind) # mode
    /\ Rank(mode) <= Rank(MaxDecision(kind))
    /\ LET result == SetDetectorMode(lines, kind, mode)
       IN lines' = result.lines /\ Ask(Detector(kind), mode, result)
    /\ UNCHANGED <<disk, serviceVars, backup, savedText, isOpen, fields, doing, polls, notice, layer2, found, outside>>

EditField(field, value) ==
    /\ Idle /\ isOpen /\ CountEdit
    /\ fields[field] # value
    /\ fields' = [fields EXCEPT ![field] = value]
    /\ UNCHANGED <<disk, serviceVars, backup, lines, savedText, isOpen, doing, polls, notice, layer2, asked, found, outside>>

Dirty == lines # savedText
SinksChanged == Parses(lines) /\ FieldsOf(lines) # fields

Revert ==
    /\ Idle /\ isOpen
    /\ Dirty \/ SinksChanged
    /\ Reload
    /\ notice' = "none"
    /\ UNCHANGED <<disk, serviceVars, backup, doing, polls, layer2, found, edits, outside>>

RefreshStatus ==
    /\ Idle
    /\ layer2' = Layer2FromLog
    /\ UNCHANGED <<disk, serviceVars, backup, editorVars, doing, polls, notice, history>>

-----------------------------------------------------------------------------
\* apply: the sinks first, each through its setter, whatever becomes of the others.
SetSink(text, setting, value) ==
    CASE setting = AuditEnabled -> SetAuditEnabled(text, value)
      [] setting = AuditPath -> SetAuditPath(text, value)
      [] setting = SyslogEnabled -> SetSyslogEnabled(text, value)
      [] setting = SyslogAddress -> SetSyslogAddress(text, value)

Took(state, setting, value, result) ==
    [lines |-> result.lines, ok |-> state.ok /\ result.ok,
     asked |-> [state.asked EXCEPT ![setting] = IF result.ok THEN value ELSE "rejected"]]
ApplyOne(state, wanted, setting, value) ==
    IF wanted THEN Took(state, setting, value, SetSink(state.lines, setting, value)) ELSE state

SinksApplied ==
    LET untouched == [lines |-> lines, ok |-> TRUE, asked |-> asked]
        audit == ApplyOne(untouched, TRUE, AuditEnabled, fields.auditOn)
        path == ApplyOne(audit, fields.auditOn = "true", AuditPath, fields.path)
        syslog == ApplyOne(path, TRUE, SyslogEnabled, fields.syslogOn)
    IN ApplyOne(syslog, fields.syslogOn = "true", SyslogAddress, fields.address)

Apply ==
    /\ Idle /\ isOpen /\ CountEdit
    /\ Dirty \/ SinksChanged
    /\ lines' = SinksApplied.lines /\ asked' = SinksApplied.asked
    /\ IF SinksApplied.ok THEN doing' = "copying" /\ UNCHANGED notice
       ELSE doing' = "idle" /\ notice' = "bad"
    /\ found' = disk
    /\ UNCHANGED <<disk, serviceVars, backup, savedText, isOpen, fields, polls, layer2, outside>>

CutShort(text) == {SubSeq(text, 1, n) : n \in {0, Len(text) \div 2}}
StopTelling(what) == doing' = "idle" /\ notice' = what

CopyOfWhatWasOpened ==
    /\ doing = "copying"
    /\ \/ Parses(lines) /\ backup' = savedText /\ doing' = "writing" /\ UNCHANGED notice
       \/ Parses(lines) /\ backup' \in CutShort(disk) /\ StopTelling("bad")
    /\ UNCHANGED <<disk, serviceVars, editorVars, polls, layer2, history>>

\* save: the text parses, the file on disk is copied, then written over.
CopyToBackup ==
    /\ doing = "copying"
    /\ \/ Parses(lines) /\ backup' = disk /\ doing' = "writing" /\ UNCHANGED notice
       \/ Parses(lines) /\ backup' \in CutShort(disk) /\ StopTelling("bad")
       \/ ~Parses(lines) /\ UNCHANGED backup /\ StopTelling("bad")
    /\ UNCHANGED <<disk, serviceVars, editorVars, polls, layer2, history>>

Write ==
    /\ doing = "writing"
    /\ \/ /\ disk' = lines /\ savedText' = lines
          /\ IF status = "NotInstalled" THEN StopTelling("good")
             ELSE doing' = "stopping" /\ UNCHANGED notice
       \/ disk' \in CutShort(lines) /\ StopTelling("bad") /\ UNCHANGED savedText
    /\ UNCHANGED <<serviceVars, backup, lines, isOpen, fields, polls, layer2, history>>

\* The console dies in the middle of the save, and is started again.
DieSaving ==
    /\ \/ doing = "copying" /\ backup' \in CutShort(disk) /\ UNCHANGED disk
       \/ doing = "writing" /\ disk' \in CutShort(lines) /\ UNCHANGED backup
    /\ doing' = "closed" /\ notice' = "none"
    /\ isOpen' = FALSE
    /\ UNCHANGED <<serviceVars, lines, savedText, fields, polls, layer2, history>>

OpenAgain ==
    /\ doing = "closed" /\ doing' = "idle"
    /\ Reload
    /\ layer2' = Layer2FromLog
    /\ UNCHANGED <<disk, serviceVars, backup, polls, notice, found, edits, outside>>

-----------------------------------------------------------------------------
\* restart.
AskToStop ==
    /\ doing = "stopping"
    /\ \/ CanStart /\ doing' = "starting" /\ UNCHANGED <<stopAsked, notice>>
       \/ CanStop /\ stopAsked' = TRUE /\ doing' = "awaiting_stop" /\ UNCHANGED notice
       \/ ~CanStart /\ ~CanStop /\ doing' = "told" /\ notice' = "bad" /\ UNCHANGED stopAsked
    /\ polls' = 0
    /\ UNCHANGED <<disk, status, proc, running, said, log, backup, editorVars, layer2, history>>

AwaitStopForever ==
    /\ doing = "awaiting_stop"
    /\ CanStart /\ doing' = "starting" /\ polls' = 0
    /\ UNCHANGED <<disk, serviceVars, backup, editorVars, notice, layer2, history>>
AwaitStop ==
    /\ doing = "awaiting_stop"
    /\ IF CanStart \/ polls = MaxPolls THEN doing' = "starting" /\ polls' = 0
       ELSE polls' = polls + 1 /\ UNCHANGED doing
    /\ UNCHANGED <<disk, serviceVars, backup, editorVars, notice, layer2, history>>

StartWhateverItSays ==
    /\ doing = "starting"
    /\ \/ CanStart /\ StartService
       \/ ~CanStart /\ UNCHANGED serviceVars
    /\ doing' = "awaiting_run" /\ UNCHANGED notice
    /\ UNCHANGED <<disk, backup, editorVars, polls, layer2, history>>
Start ==
    /\ doing = "starting"
    /\ \/ CanStart /\ StartService /\ doing' = "awaiting_run" /\ UNCHANGED notice
       \/ ~CanStart /\ UNCHANGED serviceVars /\ doing' = "told" /\ notice' = "bad"
    /\ UNCHANGED <<disk, backup, editorVars, polls, layer2, history>>

AwaitRunning ==
    /\ doing = "awaiting_run"
    /\ \/ status = "Running" /\ doing' = "told" /\ notice' = "good" /\ UNCHANGED polls
       \/ (status = "Stopped" \/ polls = MaxPolls) /\ status # "Running"
          /\ doing' = "told" /\ notice' = "bad" /\ UNCHANGED polls
       \/ status = "StartPending" /\ polls < MaxPolls /\ polls' = polls + 1 /\ UNCHANGED <<doing, notice>>
    /\ UNCHANGED <<disk, serviceVars, backup, editorVars, layer2, history>>

\* Behind the restart, refresh_status; the window is drawn again.
Told ==
    /\ doing = "told" /\ doing' = "idle"
    /\ layer2' = Layer2FromLog
    /\ UNCHANGED <<disk, serviceVars, backup, editorVars, polls, notice, history>>

\* The button of the status tab.
RestartGateway ==
    /\ Idle /\ status # "NotInstalled" /\ CountEdit
    /\ doing' = "stopping"
    /\ UNCHANGED <<disk, serviceVars, backup, editorVars, polls, notice, layer2, asked, found, outside>>

-----------------------------------------------------------------------------
EditOutside ==
    /\ outside < MaxOutside /\ outside' = outside + 1
    /\ disk' \in Files \ {disk}
    /\ found' = IF doing = "writing" THEN found ELSE disk'
    /\ UNCHANGED <<serviceVars, backup, editorVars, doing, polls, notice, layer2, asked, edits>>

Modes == {"advise", "mask", "block"}
Fields == [auditOn : {"true", "false"}, path : Paths, syslogOn : {"true", "false"}, address : Addresses]

Operator ==
    \/ \E kind \in {"pesel", "email"}, mode \in Modes : PickMode(kind, mode)
    \/ \E value \in {"true", "false"} : EditField("auditOn", value) \/ EditField("syslogOn", value)
    \/ \E path \in Paths : EditField("path", path)
    \/ \E address \in Addresses : EditField("address", address)
    \/ Revert \/ Apply \/ RestartGateway

Applying == CopyToBackup \/ Write \/ AskToStop \/ AwaitStop \/ Start \/ AwaitRunning \/ Told

Next ==
    \/ Operator \/ RefreshStatus \/ Applying \/ DieSaving \/ OpenAgain
    \/ EditOutside
    \/ ServiceNext /\ UNCHANGED <<disk, consoleVars>>

Spec == Init /\ [][Next]_all

\* The console's thread runs; nothing is assumed of the gateway or the manager.
LiveSpec == Spec /\ WF_all(Applying) /\ WF_all(OpenAgain)

-----------------------------------------------------------------------------
(* What an edit set stays set: whatever is edited afterwards, in whatever  *)
(* order and however many of those edits are rejected, a setting reads     *)
(* back as the last value accepted for it, or as it was when the file was  *)
(* opened.                                                                 *)
EditsTouchNothingElse ==
    isOpen => \A s \in Settings : asked[s] = "rejected" \/ Value(lines, s) = asked[s]

(* What the latest save found on disk, its own work of before or somebody  *)
(* else's, is still there whole, in the file or in the backup: also when   *)
(* copying or writing fails in the middle and when the console dies.       *)
WhatASaveFoundSurvives == found \in {disk, backup}

(* When the console has said that the gateway runs the new settings, and   *)
(* nobody else has changed the file, no older settings are served: the     *)
(* service was not started before the save, and is not the one that would  *)
(* not stop.                                                               *)
NoOldSettingsAreServed ==
    doing \in {"told", "idle"} /\ notice = "good" /\ status # "NotInstalled" /\ outside = 0 =>
        (proc = "serving" => running = disk)

(* Once a start has said how layer 2 came up, the console shows that, and  *)
(* not what an earlier start had said.                                     *)
ThisStartIsShown ==
    [][(RefreshStatus \/ Told) /\ proc = "serving" /\ said # "" => layer2' = said]_all

(* Every apply comes to an end and tells how it went, however long the     *)
(* gateway takes to stop or to start.                                      *)
ApplyEnds == doing \notin {"idle", "closed"} ~> doing \in {"idle", "closed"}
=============================================================================
