--------------------------------- MODULE Cef ---------------------------------
(***************************************************************************)
(* An event as a line of the Common Event Format.  A text is a sequence of *)
(* characters, and only the characters that mean something to the format   *)
(* are told apart; a key or a fixed word is one character.                 *)
(***************************************************************************)
EXTENDS Naturals, Sequences, SequencesExt

Backslash == "\\"
Equals == "="
Pipe == "|"
Space == " "
LF == "LF"
CR == "CR"

\* str::replace: every c in the text becomes the text `by`.
Substituted(text, c, by) == FlattenSeq([i \in DOMAIN text |-> IF text[i] = c THEN by ELSE <<text[i]>>])

\* The backslashes first: the others put new ones in.
EscapeValueLate(text) ==
    Substituted(Substituted(Substituted(Substituted(text,
        Equals, <<Backslash, Equals>>),
        Backslash, <<Backslash, Backslash>>),
        LF, <<Backslash, "n">>),
        CR, <<>>)
EscapeValue(text) ==
    Substituted(Substituted(Substituted(Substituted(text,
        Backslash, <<Backslash, Backslash>>),
        Equals, <<Backslash, Equals>>),
        LF, <<Backslash, "n">>),
        CR, <<>>)
EscapeHeader(text) ==
    Substituted(Substituted(text,
        Backslash, <<Backslash, Backslash>>),
        Pipe, <<Backslash, Pipe>>)

BaseSeverity ==
    [pii_detected |-> 5, decision_made |-> 4, inspection_timeout |-> 7, device_fallback |-> 3,
     attachment_skipped |-> 6, gateway_start |-> 1, gateway_stop |-> 1]

\* The fields in the order they are pushed, each with the label of its custom
\* string, where it has none of CEF's own keys, and its key.
Extensions ==
    << <<"ts", <<>>, "rt">>,
       <<"detector", <<"cs1Label", "detector">>, "cs1">>,
       <<"data_type", <<"cs2Label", "dataType">>, "cs2">>,
       <<"target_host", <<>>, "dhost">>,
       <<"decision", <<>>, "act">>,
       <<"content_sha256", <<>>, "fileHash">>,
       <<"model_id", <<"cs3Label", "modelId">>, "cs3">>,
       <<"device", <<"cs4Label", "device">>, "cs4">>,
       <<"client_addr", <<>>, "src">>,
       <<"upstream_model", <<"cs5Label", "upstreamModel">>, "cs5">>,
       <<"provider", <<"cs6Label", "provider">>, "cs6">>,
       <<"source", <<>>, "cat">>,
       <<"attachment_kind", <<>>, "fileType">>,
       <<"attachment_sha256", <<>>, "fileHash">>,
       <<"attachment_bytes", <<>>, "fsize">> >>

Text(event, field) ==
    IF field \in {"ts", "attachment_bytes"} THEN <<ToString(event[field])>> ELSE event[field]

\* Key and text of every extension of an event: its fields, then its details.
Pairs(event) ==
    LET present == SelectSeq(Extensions, LAMBDA e : e[1] \in DOMAIN event)
        labelled(label) == IF label = <<>> THEN <<>> ELSE << <<label[1], <<label[2]>>>> >>
        detail == IF "detail" \in DOMAIN event THEN event.detail ELSE <<>>
    IN  FlattenSeq([n \in DOMAIN present |->
            Append(labelled(present[n][2]), <<present[n][3], Text(event, present[n][1])>>)])
        \o SetToSeq({<<key, detail[key]>> : key \in DOMAIN detail})

Joined(parts, separator) ==
    FoldLeft(LAMBDA line, part : line \o <<separator>> \o part, Head(parts), Tail(parts))

Render(event, version) ==
    LET pairs == Pairs(event)
        extension(n) == <<pairs[n][1], Equals>> \o EscapeValue(pairs[n][2])
    IN  Joined(<< <<"CEF:0">>, <<"Sentin">>, <<"Sentin-NPU">>, EscapeHeader(version),
                  <<event.event>>, <<event.event>>, <<ToString(BaseSeverity[event.event])>>,
                  Joined([n \in DOMAIN pairs |-> extension(n)], Space) >>, Pipe)
=============================================================================
