------------------------------- MODULE Policy -------------------------------
(***************************************************************************)
(* The decision lattice of sentin-core and the verdict the inspection      *)
(* pipeline computes from it.  Everything here is a pure function of the   *)
(* configuration, of the request's content and of what the two detection   *)
(* layers reported; the state machines that produce those reports are in   *)
(* NerService and Gateway.                                                 *)
(*                                                                         *)
(* A request's content is a sequence of parts.  A part is one text field   *)
(* of the prompt or one attachment, and carries the set of kinds of        *)
(* sensitive data it holds; <<p, k>> names the data of kind k in part p.   *)
(***************************************************************************)
EXTENDS Naturals, Sequences

\* enum Decision, ordered as its derived Ord is.
Observed == 0
Advised  == 1
Masked   == 2
Blocked  == 3
Decisions == Observed .. Blocked

\* enum DataKind, under the configuration key each kind has.
ChecksumKinds == {"pesel", "nip", "regon", "iban", "payment_card"}
ShapeKinds    == {"vat_eu", "email", "phone_pl"}
NerKinds      == {"person", "organization", "location"}
DataKind      == ChecksumKinds \cup ShapeKinds \cup NerKinds

Lesser(a, b) == IF a < b THEN a ELSE b

Layer(k) == IF k \in NerKinds THEN "ner" ELSE "deterministic"
Evidence(k) == IF k \in ChecksumKinds THEN "checksum" ELSE "pattern"
LayerMax(layer) == IF layer = "deterministic" THEN Blocked ELSE Masked
EvidenceMax(evidence) == IF evidence = "checksum" THEN Blocked ELSE Masked

\* The two ceilings of a finding: the layer that made it and its evidence.
KindMaxIgnoringEvidence(k) == LayerMax(Layer(k))
KindMax(k) == Lesser(LayerMax(Layer(k)), EvidenceMax(Evidence(k)))

\* A detector the configuration does not list only observes.
ModeFor(cfg, k) == IF k \in DOMAIN cfg.detectors THEN cfg.detectors[k] ELSE Observed

ClampDecision(cfg, k) == Lesser(ModeFor(cfg, k), KindMax(k))

-----------------------------------------------------------------------------
(* What a configuration and a request body are, as far as a verdict goes.  *)

IsConfig(cfg) ==
    /\ DOMAIN cfg.detectors \subseteq DataKind
    /\ \A k \in DOMAIN cfg.detectors : cfg.detectors[k] \in Decisions
    /\ {cfg.failClosed, cfg.inspectRequest, cfg.attachments, cfg.modelDir} \subseteq BOOLEAN

\* routed: some provider's prefix matches the path.  schema: that provider is
\* one of the three known schemas and the body is non-empty JSON.
IsPayload(pl) ==
    /\ {pl.routed, pl.schema} \subseteq BOOLEAN
    /\ pl.parts \in Seq([source : {"prompt", "attachment"},
                         extraction : {"full", "truncated", "failed"},
                         kinds : SUBSET DataKind])

PartsOf(pl) == DOMAIN pl.parts
Items(pl) == {x \in PartsOf(pl) \X DataKind : x[2] \in pl.parts[x[1]].kinds}

Inspected(cfg, pl) == cfg.inspectRequest /\ pl.schema

\* The two loops of inspect_request: every text field, and every attachment
\* when attachments are inspected; an attachment that does not decode or
\* extract is visited and not opened.
Visited(cfg, pl, p) == pl.parts[p].source = "prompt" \/ cfg.attachments
Opens(cfg, pl, p) == Visited(cfg, pl, p) /\ pl.parts[p].extraction # "failed"
Unread(cfg, pl, p) == Visited(cfg, pl, p) /\ pl.parts[p].extraction # "full"

Layer1Items(pl, p) == {p} \X (pl.parts[p].kinds \ NerKinds)
Layer2Items(pl, p) == {p} \X (pl.parts[p].kinds \cap NerKinds)

-----------------------------------------------------------------------------
(* The verdict on a set F of findings.                                     *)

\* An attachment is never rewritten: what would be masked is advised.
KeepMaskedInAttachments(cfg, pl, x) == ClampDecision(cfg, x[2])
DecisionOn(cfg, pl, x) ==
    LET clamped == ClampDecision(cfg, x[2])
    IN  IF pl.parts[x[1]].source = "attachment" /\ clamped = Masked
        THEN Advised ELSE clamped

\* The strongest decision of any finding, Observed when there is none.
Overall(cfg, pl, F) ==
    CHOOSE d \in Decisions :
        /\ \A x \in F : DecisionOn(cfg, pl, x) <= d
        /\ d = Observed \/ \E x \in F : DecisionOn(cfg, pl, x) = d

\* What the rewritten body no longer carries.  The rewrites cover the text
\* fields, where every finding decided at Masked or above has its span replaced;
\* items whose spans overlap are not distinguished here.
Rewritten(cfg, pl, F) ==
    {x \in F : pl.parts[x[1]].source = "prompt" /\ DecisionOn(cfg, pl, x) >= Masked}

\* Whether the verdict carries a masked body.
HasMaskedBody(cfg, pl, F) ==
    Overall(cfg, pl, F) = Masked /\ Rewritten(cfg, pl, F) # {}

-----------------------------------------------------------------------------
(* The audit events of one inspected request (record_request).             *)

PiiDetected(x, d) == [event |-> "pii_detected", item |-> x, decision |-> d]
DecisionMade(d)   == [event |-> "decision_made", decision |-> d]
AttachmentSkipped(p) == [event |-> "attachment_skipped", part |-> p]
InspectionTimeout(reason) == [event |-> "inspection_timeout", reason |-> reason]

Trail(cfg, pl, F, unread, skipped) ==
    {PiiDetected(x, DecisionOn(cfg, pl, x)) : x \in F}
    \cup (IF F = {} THEN {} ELSE {DecisionMade(Overall(cfg, pl, F))})
    \cup {AttachmentSkipped(p) : p \in unread}
    \cup (IF skipped = "none" THEN {} ELSE {InspectionTimeout(skipped)})
=============================================================================
