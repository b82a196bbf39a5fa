----------------------------- MODULE MCReading -----------------------------
(* Every office document of up to two parts from a small collection, and   *)
(* one attachment of each other form; a tag takes two bytes.               *)
EXTENDS Reading

Part(xml) == [wanted |-> TRUE, utf8 |-> TRUE, xml |-> xml]
MCParts == {Part(<<"a", "run", "b", "run", "par">>),            \* one paragraph of two runs
            Part(<<"tag", "a", "b", "wide", "par", "a", "par">>), \* two paragraphs
            Part(<<"wide", "par">>),
            Part(<<"a", "a", "a", "a", "a", "a", "a", "a", "a", "a", "b", "par">>),
            [Part(<<"b", "par">>) EXCEPT !.utf8 = FALSE],
            [Part(<<"a", "par">>) EXCEPT !.wanted = FALSE]}

File(form, size, content) ==
    [base64 |-> TRUE, form |-> form, size |-> size, content |-> content, parts |-> <<>>]
MCOffice == {[File("office", 1, <<>>) EXCEPT !.parts = p] : p \in UNION {[1 .. n -> MCParts] : n \in 0 .. 2}}
MCText == <<"a", "wide", "space", "b", "a", "space", "b", "wide">>
MCAttachments ==
    MCOffice
    \cup {File(form, 1, MCText) : form \in {"pdf", "zip", "image", "binary", "utf8", "codepage", "utf16"}}
    \cup {File("utf8", 1, <<>>), File("pdf", 9, MCText), [File("utf8", 1, MCText) EXCEPT !.base64 = FALSE]}

L(prefix, entity) == [prefix |-> prefix, entity |-> entity]
MCLabels == {L("O", ""), L("B", "PER"), L("I", "PER"), L("I", "ORG")}
=============================================================================
