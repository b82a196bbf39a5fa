----------------------------- MODULE MCConsole -----------------------------
(* Three configurations: as installed; without a detector and a key that   *)
(* are edited; and with a detector's mode on a line of its own.            *)
EXTENDS Console

K(indent, key, value, note) == [indent |-> indent, key |-> key, value |-> value, note |-> note]
MCSyslog == <<K(2, "syslog_cef", "", ""), K(4, "enabled", "false", ""), K(4, "address", "host:514", "")>>

MCInstalled ==
    <<K(0, "detectors", "", ""), K(2, "pesel", "block", "#why"), K(2, "email", "advise", ""), K(0, "", "", "#note"),
      K(0, "audit", "", ""), K(2, "jsonl", "", ""), K(4, "enabled", "true", ""), K(4, "path", "/var/audit", "#disk")>>
    \o MCSyslog
MCShort ==
    <<K(0, "audit", "", ""), K(2, "syslog_cef", "", ""), K(4, "address", "host:514", "")>>
    \o SubSeq(MCInstalled, 6, 8)
    \o <<K(0, "detectors", "", ""), K(2, "pesel", "mask", "")>>
MCBlockStyle ==
    <<K(0, "detectors", "", ""), K(2, "pesel", "", ""), K(4, "mode", "block", "")>> \o SubSeq(MCInstalled, 4, 11)

MCFiles == {MCInstalled, MCShort, MCBlockStyle}
MCAddresses == {"host:514", "host:514 #siem", "[::1]:514"}
MCPaths == {"/var/audit", "C:/audit", "audit"}
=============================================================================
