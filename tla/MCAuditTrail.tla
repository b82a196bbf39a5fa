---------------------------- MODULE MCAuditTrail ----------------------------
(* Two handlers: one found an identifier in an attachment and records two  *)
(* events, the other could not read an attachment and records one, of an   *)
(* earlier time.                                                           *)
EXTENDS AuditTrail

CONSTANTS h1, h2

Pdf(digest) == [kind |-> <<"pdf">>, bytes |-> 3, sha256 |-> <<digest>>]
Found == [kind |-> <<"pesel">>, decision |-> <<"advised">>, source |-> <<"attachment">>,
          attachment |-> <<Pdf("d1")>>]
MCInspection ==
    h1 :> [findings |-> <<Found>>, decision |-> <<"advised">>, unread |-> <<>>,
           ner_skipped |-> <<>>, digest |-> <<"p1">>]
    @@ h2 :> [findings |-> <<>>, decision |-> <<"allowed">>, ner_skipped |-> <<>>,
              unread |-> <<[reason |-> <<"encrypted">>, info |-> <<Pdf("d2")>>]>>,
              digest |-> <<"p2">>]
MCContext ==
    [h \in {h1, h2} |->
        [target_host |-> <<"host">>, model_id |-> <<<<"seq128">>>>,
         device |-> <<[name |-> <<"NPU">>, class |-> <<"NPU">>]>>,
         client_addr |-> <<<<"10.0.0.7">>>>, upstream_model |-> <<<<"m">>>>,
         provider |-> <<"openai">>]]
MCClock == h1 :> 25 @@ h2 :> 12
MCEvents == h1 :> 2 @@ h2 :> 1

Characters == {"n", Space, Equals, Backslash, Pipe, LF, CR}
MCModelNames == UNION {[1 .. n -> Characters] : n \in 1 .. 3}
MCVersion == <<"0", Pipe, Backslash>>
=============================================================================
