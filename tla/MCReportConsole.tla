--------------------------- MODULE MCReportConsole ---------------------------
(* Two trails in one directory.  The live one gets events of the newest    *)
(* schema and of the oldest, of two days and of no time at all, a torn     *)
(* line, and one torn in the middle of a character.  Timestamp is here for  *)
(* its assumptions: Report orders lines by the text of their time.         *)
EXTENDS ReportConsole, Timestamp

MCTrails == {"live", "old"}
SameDirectory == [t \in MCTrails |-> "beside"]

Newest == [ts |-> 11, event |-> "pii_detected", detector |-> <<"pesel">>,
           decision |-> <<"masked">>, source |-> <<"attachment">>,
           attachment_kind |-> <<"pdf">>, attachment_sha256 |-> <<"d">>]
Oldest == [ts |-> 5, event |-> "pii_detected", detector |-> <<"iban">>, decision |-> <<"blocked">>]
Dateless == [event |-> "attachment_skipped", provider |-> <<"openai">>, client_addr |-> <<>>]

MCLineKinds ==
    {[is |-> "event", record |-> r] : r \in {Newest, Oldest, Dateless}}
    \cup {[is |-> Broken], [is |-> NotUtf8]}
MCArchived == {<<>>, <<[is |-> Blank], [is |-> "event", record |-> Oldest]>>}
=============================================================================
