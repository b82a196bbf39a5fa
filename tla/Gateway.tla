------------------------------ MODULE Gateway ------------------------------
(***************************************************************************)
(* The proxy handler of sentin-proxy and the inspection pipeline it runs,  *)
(* composed with the layer-2 service.  Each request is a task: the code    *)
(* between two awaits is one step of it, and the steps of different        *)
(* requests, of the inference thread and of the timers interleave.         *)
(*                                                                         *)
(* pc[r]:  new         connected, its body not yet read                    *)
(*         inspecting  in inspect_request, about to look at part[r]        *)
(*         waiting     at the await of NerService::inspect for part[r]     *)
(*         sending     at the await of the upstream call                   *)
(*         done        answered, with status[r]                            *)
(*         gone        the handler was dropped: the client hung up or the  *)
(*                     process died                                        *)
(***************************************************************************)
EXTENDS Policy, FiniteSets

CONSTANTS Requests, Payloads, Configs, MaxParts

ASSUME PayloadAssumption ==
    \A pl \in Payloads : IsPayload(pl) /\ Len(pl.parts) <= MaxParts
ASSUME ConfigAssumption == \A cfg \in Configs : IsConfig(cfg)
ASSUME MaxPartsAssumption == MaxParts \in Nat

VARIABLES
    config,    \* Config, read once at start
    layer2,    \* AppState.ner is Some
    payload,   \* what each client sends
    pc, part,
    findings,  \* inspect_request's findings: the items reported so far
    skipped,   \* inspect_request's ner_skipped
    unread,    \* inspect_request's unread_attachments, by part
    wire,      \* what has been sent upstream: nothing, original or masked
    clear,     \* the items the bytes sent carry unmasked
    trail,     \* the audit events emitted
    status,    \* the answer given to the client
    advisory,  \* the answer carries x-sentin-advisory
    queue, running, alive, reply

Calls == Requests \X (1 .. MaxParts)
Ner == INSTANCE NerService

nerVars == <<queue, running, alive, reply>>
inspectVars == <<part, findings, skipped, unread>>
resultVars == <<wire, clear, trail, status, advisory>>
vars == <<config, layer2, payload, pc, inspectVars, resultVars, nerVars>>

Call(r) == <<r, part[r]>>
Parts(r) == payload[r].parts
Pending(r) == part[r] <= Len(Parts(r))
Verdict(r) == Overall(config, payload[r], findings[r])
RequestTrail(r) == Trail(config, payload[r], findings[r], unread[r], skipped[r])

\* with_inference: a model that does not load leaves the gateway without layer 2.
Layer2Choices == IF config.modelDir THEN BOOLEAN ELSE {FALSE}

Init ==
    /\ config \in Configs
    /\ layer2 \in Layer2Choices
    /\ payload \in [Requests -> Payloads]
    /\ pc = [r \in Requests |-> "new"]
    /\ part = [r \in Requests |-> 1]
    /\ findings = [r \in Requests |-> {}]
    /\ skipped = [r \in Requests |-> "none"]
    /\ unread = [r \in Requests |-> {}]
    /\ wire = [r \in Requests |-> "nothing"]
    /\ clear = [r \in Requests |-> {}]
    /\ trail = [r \in Requests |-> {}]
    /\ status = [r \in Requests |-> 0]
    /\ advisory = [r \in Requests |-> FALSE]
    /\ Ner!Init

-----------------------------------------------------------------------------
(* Before inspection.                                                      *)

Finish(r, code) ==
    /\ pc' = [pc EXCEPT ![r] = "done"]
    /\ status' = [status EXCEPT ![r] = code]

NoProvider(r) ==
    /\ pc[r] = "new"
    /\ ~payload[r].routed
    /\ Finish(r, 404)
    /\ UNCHANGED <<config, layer2, payload, inspectVars, wire, clear, trail, advisory, nerVars>>

BadBody(r) ==
    /\ pc[r] = "new"
    /\ payload[r].routed
    /\ Finish(r, 400)
    /\ UNCHANGED <<config, layer2, payload, inspectVars, wire, clear, trail, advisory, nerVars>>

ForwardUninspected(r) ==
    /\ pc[r] = "new"
    /\ payload[r].routed
    /\ ~Inspected(config, payload[r])
    /\ pc' = [pc EXCEPT ![r] = "sending"]
    /\ wire' = [wire EXCEPT ![r] = "original"]
    /\ clear' = [clear EXCEPT ![r] = Items(payload[r])]
    /\ UNCHANGED <<config, layer2, payload, inspectVars, trail, status, advisory, nerVars>>

BeginInspection(r) ==
    /\ pc[r] = "new"
    /\ payload[r].routed
    /\ Inspected(config, payload[r])
    /\ pc' = [pc EXCEPT ![r] = "inspecting"]
    /\ UNCHANGED <<config, layer2, payload, inspectVars, resultVars, nerVars>>

-----------------------------------------------------------------------------
(* inspect_request: one pass per part, text fields first.                  *)

\* A part is finished: what was found in it, and whether it was read whole.
Conclude(r, found) ==
    /\ findings' = [findings EXCEPT ![r] = @ \cup found]
    /\ unread' = [unread EXCEPT ![r] = IF Unread(config, payload[r], part[r])
                                       THEN @ \cup {part[r]} ELSE @]
    /\ part' = [part EXCEPT ![r] = @ + 1]

\* Attachments are off, or this one does not decode or extract.
PassOver(r) ==
    /\ pc[r] = "inspecting" /\ Pending(r)
    /\ ~Opens(config, payload[r], part[r])
    /\ Conclude(r, {})
    /\ UNCHANGED <<config, layer2, payload, pc, skipped, resultVars, nerVars>>

ReadWithLayer1(r) ==
    /\ pc[r] = "inspecting" /\ Pending(r)
    /\ Opens(config, payload[r], part[r])
    /\ ~layer2
    /\ Conclude(r, Layer1Items(payload[r], part[r]))
    /\ UNCHANGED <<config, layer2, payload, pc, skipped, resultVars, nerVars>>

CallLayer2(r) ==
    /\ pc[r] = "inspecting" /\ Pending(r)
    /\ Opens(config, payload[r], part[r])
    /\ layer2
    /\ Ner!Submit(Call(r))
    /\ pc' = [pc EXCEPT ![r] = "waiting"]
    /\ UNCHANGED <<config, layer2, payload, inspectVars, resultVars>>

\* The call returned; a failure keeps the first reason and layer 1's findings.
SkipReason(answer) == IF answer = "timedout" THEN "timedout" ELSE "unavailable"
SkippedForgettingTheFirst(was, answer) == IF answer = "ok" THEN "none" ELSE SkipReason(answer)
SkippedAfter(was, answer) == IF answer = "ok" \/ was # "none" THEN was ELSE SkipReason(answer)

ReturnLosingLayer1(r) ==
    /\ pc[r] = "waiting"
    /\ reply[Call(r)] \in Ner!Final
    /\ Conclude(r, IF reply[Call(r)] = "ok"
                   THEN Layer1Items(payload[r], part[r]) \cup Layer2Items(payload[r], part[r])
                   ELSE {})
    /\ skipped' = [skipped EXCEPT ![r] = SkippedAfter(@, reply[Call(r)])]
    /\ pc' = [pc EXCEPT ![r] = "inspecting"]
    /\ UNCHANGED <<config, layer2, payload, resultVars, nerVars>>
ReturnFromLayer2(r) ==
    /\ pc[r] = "waiting"
    /\ reply[Call(r)] \in Ner!Final
    /\ Conclude(r, Layer1Items(payload[r], part[r])
                   \cup IF reply[Call(r)] = "ok" THEN Layer2Items(payload[r], part[r]) ELSE {})
    /\ skipped' = [skipped EXCEPT ![r] = SkippedAfter(@, reply[Call(r)])]
    /\ pc' = [pc EXCEPT ![r] = "inspecting"]
    /\ UNCHANGED <<config, layer2, payload, resultVars, nerVars>>

TimerNeverFires(r) == FALSE /\ UNCHANGED vars
TimerFires(r) ==
    /\ pc[r] = "waiting"
    /\ Ner!TimeOut(Call(r))
    /\ UNCHANGED <<config, layer2, payload, pc, inspectVars, resultVars>>

-----------------------------------------------------------------------------
(* proxy, from the verdict to the upstream call: no await in between.      *)

Judged(r) == pc[r] = "inspecting" /\ ~Pending(r)
NeverRefusedByPolicy(r) == FALSE
RefusedByPolicy(r) == skipped[r] # "none" /\ config.failClosed

\* fail_closed refuses before anything is recorded.
RefuseUninspected(r) ==
    /\ Judged(r)
    /\ RefusedByPolicy(r)
    /\ Finish(r, 503)
    /\ UNCHANGED <<config, layer2, payload, inspectVars, wire, clear, trail, advisory, nerVars>>

Record(r) == trail' = [trail EXCEPT ![r] = RequestTrail(r)]

Block(r) ==
    /\ Judged(r)
    /\ ~RefusedByPolicy(r)
    /\ Verdict(r) = Blocked
    /\ Record(r)
    /\ Finish(r, 403)
    /\ UNCHANGED <<config, layer2, payload, inspectVars, wire, clear, advisory, nerVars>>

\* The rewritten body does not encode: the original must not go instead.
MaskingFailsOpen(r) ==
    /\ Judged(r)
    /\ ~RefusedByPolicy(r)
    /\ HasMaskedBody(config, payload[r], findings[r])
    /\ Record(r)
    /\ pc' = [pc EXCEPT ![r] = "sending"]
    /\ wire' = [wire EXCEPT ![r] = "original"]
    /\ clear' = [clear EXCEPT ![r] = Items(payload[r])]
    /\ UNCHANGED <<config, layer2, payload, inspectVars, status, advisory, nerVars>>
MaskingFails(r) ==
    /\ Judged(r)
    /\ ~RefusedByPolicy(r)
    /\ HasMaskedBody(config, payload[r], findings[r])
    /\ Record(r)
    /\ Finish(r, 500)
    /\ UNCHANGED <<config, layer2, payload, inspectVars, wire, clear, advisory, nerVars>>

Forward(r) ==
    /\ Judged(r)
    /\ ~RefusedByPolicy(r)
    /\ Verdict(r) # Blocked
    /\ Record(r)
    /\ pc' = [pc EXCEPT ![r] = "sending"]
    /\ IF HasMaskedBody(config, payload[r], findings[r])
       THEN /\ wire' = [wire EXCEPT ![r] = "masked"]
            /\ clear' = [clear EXCEPT ![r] =
                  Items(payload[r]) \ Rewritten(config, payload[r], findings[r])]
       ELSE /\ wire' = [wire EXCEPT ![r] = "original"]
            /\ clear' = [clear EXCEPT ![r] = Items(payload[r])]
    /\ UNCHANGED <<config, layer2, payload, inspectVars, status, advisory, nerVars>>

-----------------------------------------------------------------------------
(* The upstream call.  The client sees the upstream's own status; 200      *)
(* stands for any of them.                                                 *)

UpstreamAnswers(r) ==
    /\ pc[r] = "sending"
    /\ Finish(r, 200)
    /\ advisory' = [advisory EXCEPT ![r] = Verdict(r) = Advised]
    /\ UNCHANGED <<config, layer2, payload, inspectVars, wire, clear, trail, nerVars>>

UpstreamFails(r) ==
    /\ pc[r] = "sending"
    /\ Finish(r, 502)
    /\ UNCHANGED <<config, layer2, payload, inspectVars, wire, clear, trail, advisory, nerVars>>

-----------------------------------------------------------------------------
(* The environment: clients that leave and processes that die.             *)

\* axum drops the handler at the await it is suspended at.
HangUp(r) ==
    /\ pc[r] \in {"new", "waiting", "sending"}
    /\ pc' = [pc EXCEPT ![r] = "gone"]
    /\ IF pc[r] = "waiting" /\ reply[Call(r)] = "pending"
       THEN Ner!Cancel(Call(r))
       ELSE UNCHANGED nerVars
    /\ UNCHANGED <<config, layer2, payload, inspectVars, resultVars>>

\* Every handler of the old process is gone; the new one reads the same
\* configuration and may fail to load the model this time.
Restart ==
    /\ pc' = [r \in Requests |-> IF pc[r] \in {"new", "done"} THEN pc[r] ELSE "gone"]
    /\ layer2' \in Layer2Choices
    /\ Ner!Restart
    /\ UNCHANGED <<config, payload, inspectVars, resultVars>>

WorkerTakes ==
    /\ Ner!Take
    /\ UNCHANGED <<config, layer2, payload, pc, inspectVars, resultVars>>
WorkerAnswers ==
    /\ \E c \in Calls, result \in {"ok", "error"} : Ner!Answer(c, result)
    /\ UNCHANGED <<config, layer2, payload, pc, inspectVars, resultVars>>
WorkerDies ==
    /\ Ner!Die
    /\ UNCHANGED <<config, layer2, payload, pc, inspectVars, resultVars>>

InspectionStep(r) ==
    \/ PassOver(r) \/ ReadWithLayer1(r) \/ CallLayer2(r) \/ ReturnFromLayer2(r)
    \/ RefuseUninspected(r) \/ Block(r) \/ MaskingFails(r) \/ Forward(r)

Next ==
    \/ \E r \in Requests :
          \/ NoProvider(r) \/ BadBody(r) \/ ForwardUninspected(r) \/ BeginInspection(r)
          \/ InspectionStep(r)
          \/ TimerFires(r)
          \/ UpstreamAnswers(r) \/ UpstreamFails(r)
          \/ HangUp(r)
    \/ WorkerTakes \/ WorkerAnswers \/ WorkerDies
    \/ Restart

\* tokio runs a task that can run, and its timers fire.  Nothing is assumed
\* of the inference thread, of the upstream or of the client.
Fairness == \A r \in Requests : WF_vars(InspectionStep(r)) /\ WF_vars(TimerFires(r))

Spec == Init /\ [][Next]_vars /\ Fairness

-----------------------------------------------------------------------------
Reasons == {"none", "timedout", "unavailable"}
Statuses == {0, 200, 400, 403, 404, 500, 502, 503}
AllItems == (1 .. MaxParts) \X DataKind
Events ==
         {PiiDetected(x, d) : x \in AllItems, d \in Decisions}
    \cup {DecisionMade(d) : d \in Decisions}
    \cup {AttachmentSkipped(p) : p \in 1 .. MaxParts}
    \cup {InspectionTimeout(reason) : reason \in Reasons \ {"none"}}

(* Every variable has the type its Rust counterpart has, and a handler's   *)
(* position is never past the end of its request's parts.                  *)
TypeOK ==
    /\ config \in Configs /\ layer2 \in BOOLEAN
    /\ payload \in [Requests -> Payloads]
    /\ pc \in [Requests -> {"new", "inspecting", "waiting", "sending", "done", "gone"}]
    /\ part \in [Requests -> 1 .. MaxParts + 1]
    /\ findings \in [Requests -> SUBSET AllItems]
    /\ skipped \in [Requests -> Reasons]
    /\ unread \in [Requests -> SUBSET (1 .. MaxParts)]
    /\ wire \in [Requests -> {"nothing", "original", "masked"}]
    /\ clear \in [Requests -> SUBSET AllItems]
    /\ trail \in [Requests -> SUBSET Events]
    /\ status \in [Requests -> Statuses]
    /\ advisory \in [Requests -> BOOLEAN]
    /\ Ner!TypeOK

-----------------------------------------------------------------------------
(* Correctness, stated from what the client sent and the configuration.    *)

Sent(r) == wire[r] # "nothing"
SentInspected(r) == Sent(r) /\ Inspected(config, payload[r])
OpenedParts(r) == {p \in PartsOf(payload[r]) : Opens(config, payload[r], p)}

\* What layer 1 alone can keep on the machine: structured identifiers in
\* readable parts, blocked anywhere or masked in the prompt.
Protected(r) ==
    {x \in Items(payload[r]) :
        /\ x[2] \notin NerKinds
        /\ x[1] \in OpenedParts(r)
        /\ \/ ClampDecision(config, x[2]) = Blocked
           \/ ClampDecision(config, x[2]) = Masked /\ payload[r].parts[x[1]].source = "prompt"}

(* A structured identifier the configuration blocks or masks never leaves  *)
(* in the clear, whatever layer 2 does meanwhile: a worker that is slow,   *)
(* dead or restarted never costs a layer-1 finding.                        *)
NoClearLeak ==
    \A r \in Requests : Inspected(config, payload[r]) => clear[r] \cap Protected(r) = {}

(* What was sent is accounted for: an event for every identifier layer 1   *)
(* can see, for every part that was not read whole, and for layer 2 when   *)
(* any part went without its answer, an earlier one included.              *)
SentIsAudited ==
    \A r \in Requests : SentInspected(r) =>
        /\ \A p \in OpenedParts(r) : \A x \in Layer1Items(payload[r], p) :
              PiiDetected(x, DecisionOn(config, payload[r], x)) \in trail[r]
        /\ \A p \in PartsOf(payload[r]) :
              Unread(config, payload[r], p) => AttachmentSkipped(p) \in trail[r]
        /\ (\E p \in OpenedParts(r) : reply[<<r, p>>] \notin {"ok", "unsent"}) =>
              \E reason \in Reasons : InspectionTimeout(reason) \in trail[r]

(* The trail never claims more protection than there was: data recorded as *)
(* masked is not in the bytes sent, and a request with anything recorded   *)
(* as blocked is not sent.                                                 *)
TrailTellsTheTruth ==
    \A r \in Requests : \A x \in Items(payload[r]) :
        /\ PiiDetected(x, Masked) \in trail[r] => x \notin clear[r]
        /\ PiiDetected(x, Blocked) \in trail[r] \/ DecisionMade(Blocked) \in trail[r] => ~Sent(r)

(* Under fail_closed nothing inspected is sent with some parts read by     *)
(* layer 2 and others not: either layer 2 answered for every part, or this *)
(* gateway runs without it.                                                *)
FailClosedIsAllOrNothing ==
    \A r \in Requests : config.failClosed /\ SentInspected(r) =>
        \E answer \in {"ok", "unsent"} : \A p \in OpenedParts(r) : reply[<<r, p>>] = answer

(* A request is blocked only on evidence: one of its readable parts holds  *)
(* data whose checksum was verified and that the operator set to block.    *)
OnlyProvenDataBlocks ==
    \A r \in Requests : status[r] = 403 =>
        \E p \in OpenedParts(r) : \E k \in payload[r].parts[p].kinds \cap ChecksumKinds :
            ModeFor(config, k) = Blocked

(* "If inspection exceeds this, apply timeout_policy and emit               *)
(* inspection_timeout" (config/default.yaml): a request refused because    *)
(* layer 2 did not answer leaves its event in the trail.                   *)
FailClosedIsAudited ==
    \A r \in Requests : status[r] = 503 =>
        \E reason \in Reasons : InspectionTimeout(reason) \in trail[r]

(* A request under inspection is decided, although the worker may hang,    *)
(* die or be restarted and other requests keep the queue full.             *)
EveryInspectionEnds ==
    \A r \in Requests :
        pc[r] = "inspecting" ~> pc[r] \in {"sending", "done", "gone"}

-----------------------------------------------------------------------------
(* The one-step judgement PrivacyGate specifies is what this handler, with *)
(* its awaits, its queue and its timers, amounts to.                       *)
Outcome(r) ==
    CASE Sent(r)                      -> "released"
      [] ~Sent(r) /\ pc[r] = "done"   -> "refused"
      [] ~Sent(r) /\ pc[r] = "gone"   -> "lost"
      [] OTHER                        -> "open"

Gate == INSTANCE PrivacyGate WITH outcome <- [r \in Requests |-> Outcome(r)]
ImplementsGate == Gate!Spec
=============================================================================
