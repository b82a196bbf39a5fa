----------------------------- MODULE MCGateway -----------------------------
(***************************************************************************)
(* Gateway on small instances: two requests over the contents and the      *)
(* configurations in which the paths of the handler differ.                *)
(***************************************************************************)
EXTENDS Gateway

Prompt(kinds) == [source |-> "prompt", extraction |-> "full", kinds |-> kinds]
File(extraction, kinds) ==
    [source |-> "attachment", extraction |-> extraction, kinds |-> kinds]
Body(parts) == [routed |-> TRUE, schema |-> TRUE, parts |-> parts]

\* Two parts: layer 2 is asked twice, and may answer one of the two calls.
Letter   == Body(<<Prompt({"email", "person"}), File("truncated", {"nip", "person"})>>)
Contact  == Body(<<Prompt({"phone_pl"})>>)
Contract == Body(<<File("full", {"pesel"})>>)
Scan     == Body(<<File("failed", {"pesel"})>>)
Unknown  == [routed |-> TRUE, schema |-> FALSE, parts |-> <<Prompt({"pesel"})>>]
Unrouted == [routed |-> FALSE, schema |-> TRUE, parts |-> <<Prompt({"pesel"})>>]

MCPayloads == {Letter, Contact, Contract, Scan, Unknown, Unrouted}

Modes == [pesel |-> Blocked, nip |-> Masked, email |-> Masked,
          phone_pl |-> Blocked, person |-> Masked]
Advice == [pesel |-> Advised, email |-> Advised]

Settings(detectors, failClosed, inspectRequest, attachments, modelDir) ==
    [detectors |-> detectors, failClosed |-> failClosed, inspectRequest |-> inspectRequest,
     attachments |-> attachments, modelDir |-> modelDir]

MCConfigs ==
    {Settings(Modes, failClosed, TRUE, TRUE, TRUE) : failClosed \in BOOLEAN}
    \cup {Settings(Modes, TRUE, TRUE, FALSE, FALSE), Settings(Advice, FALSE, TRUE, TRUE, FALSE),
          Settings(Modes, TRUE, FALSE, TRUE, FALSE)}

\* No definition tells the two requests apart, so of two different payloads one
\* order is enough.
CONSTANTS r1, r2
Order == <<Letter, Contact, Contract, Scan, Unknown, Unrouted>>
MCInit ==
    /\ Init
    /\ \E i, j \in DOMAIN Order : i <= j /\ payload[r1] = Order[i] /\ payload[r2] = Order[j]
MCSpec == MCInit /\ [][Next]_vars /\ Fairness
=============================================================================
