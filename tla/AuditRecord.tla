----------------------------- MODULE AuditRecord -----------------------------
(***************************************************************************)
(* What the events of one inspected request say: record_request.  An event *)
(* is a function of the fields it has, because a field that is None is not *)
(* written at all.  An Option is a sequence of at most one value, and a    *)
(* value is a text: a sequence of characters, of which a fixed word is     *)
(* one.                                                                    *)
(***************************************************************************)
EXTENDS Naturals, Sequences, SequencesExt

\* The setters of an event: what was there of a field is replaced.
event ++ fields ==
    [name \in DOMAIN event \cup DOMAIN fields |->
        IF name \in DOMAIN fields THEN fields[name] ELSE event[name]]
Given(field, option) == IF option = <<>> THEN <<>> ELSE [name \in {field} |-> option[1]]

New(ts, kind) == [ts |-> ts, event |-> kind]

\* Kind, size and digest go together.
Attachment(option) ==
    IF option = <<>> THEN <<>>
    ELSE [attachment_kind |-> option[1].kind, attachment_bytes |-> option[1].bytes,
          attachment_sha256 |-> option[1].sha256]

Caller(c) == Given("client_addr", c.client_addr) ++ Given("upstream_model", c.upstream_model)
Destination(i, c) ==
    [target_host |-> c.target_host, content_sha256 |-> i.digest, provider |-> c.provider]

\* A device whose name the schema does not know is only a detail.
Device(c) ==
    IF c.device = <<>> THEN <<>>
    ELSE IF c.device[1].class = <<>> THEN [detail |-> [device |-> c.device[1].name]]
    ELSE [device |-> c.device[1].class]

PiiDetected(f, i, c, ts) ==
    New(ts, "pii_detected") ++ Destination(i, c) ++ Attachment(f.attachment) ++ Caller(c)
    ++ [detector |-> f.kind, data_type |-> f.kind, decision |-> f.decision, source |-> f.source]
    ++ Given("model_id", c.model_id) ++ Device(c)

DecisionMade(i, c, ts) ==
    New(ts, "decision_made") ++ Destination(i, c) ++ Caller(c)
    ++ [decision |-> i.decision, detail |-> [findings |-> <<ToString(Len(i.findings))>>]]

AttachmentSkipped(s, i, c, ts) ==
    New(ts, "attachment_skipped") ++ Destination(i, c) ++ Attachment(s.info) ++ Caller(c)
    ++ [source |-> <<"attachment">>, detail |-> [reason |-> s.reason]]

InspectionTimeout(i, c, ts) ==
    New(ts, "inspection_timeout")
    ++ [target_host |-> c.target_host, content_sha256 |-> i.digest,
        detail |-> [reason |-> i.ner_skipped[1], layer |-> <<"ner">>]]

\* One event per finding, one for the request if it had any, one per attachment
\* nobody could read and one if layer 2 was skipped, all of the same time.
RecordRequest(i, c, ts) ==
    [n \in DOMAIN i.findings |-> PiiDetected(i.findings[n], i, c, ts)]
    \o (IF i.findings = <<>> THEN <<>> ELSE <<DecisionMade(i, c, ts)>>)
    \o [n \in DOMAIN i.unread |-> AttachmentSkipped(i.unread[n], i, c, ts)]
    \o (IF i.ner_skipped = <<>> THEN <<>> ELSE <<InspectionTimeout(i, c, ts)>>)
=============================================================================
