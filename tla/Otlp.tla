-------------------------------- MODULE Otlp --------------------------------
(***************************************************************************)
(* An event as an OTLP log record: its facts are attributes, in the order  *)
(* they are pushed, and the time is only the text of the body.             *)
(***************************************************************************)
EXTENDS Cef

\* Where an event was found and in which file are no attributes.
ExportedFields ==
    <<"event", "detector", "data_type", "target_host", "decision", "content_sha256",
      "model_id", "device", "client_addr", "upstream_model", "provider">>

Attribute(key, value) == [key |-> key, value |-> value]

LogRecord(event) ==
    LET given == SelectSeq(ExportedFields, LAMBDA field : field \in DOMAIN event)
        detail == IF "detail" \in DOMAIN event THEN event.detail ELSE <<>>
    IN  [timeUnixNano |-> 0, observedTimeUnixNano |-> 0,
         severityNumber |-> BaseSeverity[event.event], severityText |-> event.event,
         body |-> event.ts,
         attributes |-> [n \in DOMAIN given |-> Attribute(given[n], event[given[n]])]
                        \o SetToSeq({Attribute(key, detail[key]) : key \in DOMAIN detail})]

\* One envelope for a batch.
ToOtlp(events, version) ==
    [resource |-> <<Attribute("service.name", "sentin-npu"), Attribute("service.version", version)>>,
     logRecords |-> [n \in DOMAIN events |-> LogRecord(events[n])]]

(* A collector keeps one value per key.  No two attributes of a record may *)
(* have the same key, and each is the event's own: a detail never takes    *)
(* the place of a field.                                                   *)
OneAttributePerFact(record, event) ==
    LET attributes == record.attributes
        facts == IF "detail" \in DOMAIN event THEN event @@ event.detail ELSE event
    IN  /\ \A i, j \in DOMAIN attributes : attributes[i].key = attributes[j].key => i = j
        /\ \A i \in DOMAIN attributes : attributes[i].value = facts[attributes[i].key]
=============================================================================
