--------------------------- MODULE Gateway_proofs ---------------------------
(***************************************************************************)
(* Gateway for any set of requests, any payloads and any configurations,   *)
(* whatever the second layer does.  In order: type correctness, and that   *)
(* no identifier the policy protects leaves in the clear; what a request   *)
(* that was sent leaves behind: the audit trail accounts for everything    *)
(* that was not inspected, and under fail_closed layer 2 is all or         *)
(* nothing; and that Gateway implements PrivacyGate: every interleaving of *)
(* awaits, timers, the worker, hang-ups and restarts amounts to judging    *)
(* each request once, in one step, on what the two layers found.           *)
(***************************************************************************)
EXTENDS Gateway, TLAPS

(* What a configured mode and a finding's two ceilings can combine to.     *)
LEMMA DecisionTypes ==
    ASSUME NEW cfg \in Configs, NEW pl \in Payloads
    PROVE  /\ \A k : ModeFor(cfg, k) \in Decisions
           /\ \A k : ClampDecision(cfg, k) \in Decisions
           /\ \A x : DecisionOn(cfg, pl, x) \in Decisions
<1>1. IsConfig(cfg)
  BY ConfigAssumption
<1>2. \A k : ModeFor(cfg, k) \in Decisions
  BY <1>1 DEF IsConfig, ModeFor, Decisions, Observed, Blocked
<1>3. \A k : KindMax(k) \in {Masked, Blocked}
  BY DEF KindMax, Lesser, LayerMax, EvidenceMax, Masked, Blocked
<1>4. \A k : ClampDecision(cfg, k) \in Decisions
  BY <1>2, <1>3 DEF ClampDecision, Lesser, Decisions, Observed, Masked, Blocked
<1>5. \A x : DecisionOn(cfg, pl, x) \in Decisions
  BY <1>4 DEF DecisionOn, Decisions, Observed, Advised, Masked, Blocked
<1>6. QED
  BY <1>2, <1>4, <1>5

(* The verdict is the strongest decision of any finding.                   *)
LEMMA OverallIsStrongest ==
    ASSUME NEW cfg \in Configs, NEW pl \in Payloads, NEW F
    PROVE  /\ Overall(cfg, pl, F) \in Decisions
           /\ \A x \in F : DecisionOn(cfg, pl, x) <= Overall(cfg, pl, F)
           /\ Overall(cfg, pl, F) # Observed =>
                 \E x \in F : DecisionOn(cfg, pl, x) = Overall(cfg, pl, F)
<1> DEFINE D(x) == DecisionOn(cfg, pl, x)
           IsMax(d) == /\ \A x \in F : D(x) <= d
                       /\ d = Observed \/ \E x \in F : D(x) = d
<1>1. \A x : D(x) \in 0 .. 3
  BY DecisionTypes DEF Decisions, Observed, Blocked
<1> HIDE DEF D
<1>2. \E d \in 0 .. 3 : IsMax(d)
  <2>1. CASE \E x \in F : D(x) = 3
    <3>1. IsMax(3)
      BY <1>1, <2>1
    <3>2. QED
      BY <3>1
  <2>2. CASE ~(\E x \in F : D(x) = 3) /\ \E x \in F : D(x) = 2
    <3>1. \A x \in F : D(x) <= 2
      BY <1>1, <2>2
    <3>2. IsMax(2)
      BY <2>2, <3>1
    <3>3. QED
      BY <3>2
  <2>3. CASE ~(\E x \in F : D(x) \in {2, 3}) /\ \E x \in F : D(x) = 1
    <3>1. \A x \in F : D(x) <= 1
      BY <1>1, <2>3
    <3>2. IsMax(1)
      BY <2>3, <3>1
    <3>3. QED
      BY <3>2
  <2>4. CASE ~(\E x \in F : D(x) \in {1, 2, 3})
    <3>1. \A x \in F : D(x) <= 0
      BY <1>1, <2>4
    <3>2. IsMax(0)
      BY <3>1 DEF Observed
    <3>3. QED
      BY <3>2
  <2>5. QED
    BY <2>1, <2>2, <2>3, <2>4
<1>3. Overall(cfg, pl, F) = CHOOSE d \in Decisions : IsMax(d)
  BY DEF Overall, D
<1>4. Overall(cfg, pl, F) \in Decisions /\ IsMax(Overall(cfg, pl, F))
  BY <1>2, <1>3 DEF Decisions, Observed, Blocked
<1>5. QED
  BY <1>4 DEF D

(* The parts of a payload are numbered within MaxParts, and what it holds  *)
(* is the items of its parts.                                              *)
LEMMA PayloadFacts ==
    ASSUME NEW pl \in Payloads
    PROVE  /\ Len(pl.parts) \in 0 .. MaxParts
           /\ PartsOf(pl) = 1 .. Len(pl.parts)
           /\ PartsOf(pl) \subseteq 1 .. MaxParts
           /\ Items(pl) \subseteq AllItems
           /\ \A p \in PartsOf(pl) : /\ Layer1Items(pl, p) \subseteq Items(pl)
                                     /\ Layer2Items(pl, p) \subseteq Items(pl)
                                     /\ pl.parts[p].source \in {"prompt", "attachment"}
<1> DEFINE Part == [source : {"prompt", "attachment"},
                    extraction : {"full", "truncated", "failed"},
                    kinds : SUBSET DataKind]
<1>1. pl.parts \in Seq(Part) /\ Len(pl.parts) <= MaxParts /\ MaxParts \in Nat
  BY PayloadAssumption, MaxPartsAssumption DEF IsPayload
<1> HIDE DEF Part
<1>2. /\ Len(pl.parts) \in Nat
      /\ DOMAIN pl.parts = 1 .. Len(pl.parts)
      /\ \A p \in 1 .. Len(pl.parts) : pl.parts[p] \in Part
  BY <1>1
<1>3. PartsOf(pl) = 1 .. Len(pl.parts) /\ PartsOf(pl) \subseteq 1 .. MaxParts
  BY <1>1, <1>2 DEF PartsOf
<1>4. \A p \in PartsOf(pl) : /\ pl.parts[p].kinds \subseteq DataKind
                             /\ pl.parts[p].source \in {"prompt", "attachment"}
  BY <1>2, <1>3 DEF Part
<1>5. Items(pl) \subseteq AllItems
  BY <1>3 DEF Items, AllItems
<1>6. ASSUME NEW p \in PartsOf(pl)
      PROVE  Layer1Items(pl, p) \subseteq Items(pl) /\ Layer2Items(pl, p) \subseteq Items(pl)
  BY <1>4 DEF Layer1Items, Layer2Items, Items
<1>7. QED
  BY <1>1, <1>2, <1>3, <1>4, <1>5, <1>6
-----------------------------------------------------------------------------
(* The service's variables keep their types in every step of it.           *)
LEMMA NerTypeStep ==
    ASSUME Ner!TypeOK,
           \/ UNCHANGED nerVars
           \/ \E c \in Calls : \/ Ner!Submit(c) \/ Ner!TimeOut(c) \/ Ner!Cancel(c)
                              \/ \E result \in {"ok", "error"} : Ner!Answer(c, result)
           \/ Ner!Take \/ Ner!Die \/ Ner!Restart
    PROVE  Ner!TypeOK'
<1> USE DEF Ner!TypeOK, Ner!Final, Ner!Unavailable
<1>1. CASE UNCHANGED nerVars
  BY <1>1 DEF nerVars
<1>2. ASSUME NEW c \in Calls, Ner!Submit(c) PROVE Ner!TypeOK'
  BY <1>2 DEF Ner!Submit
<1>3. ASSUME NEW c \in Calls, Ner!TimeOut(c) \/ Ner!Cancel(c) PROVE Ner!TypeOK'
  BY <1>3 DEF Ner!TimeOut, Ner!Cancel
<1>4. ASSUME NEW c \in Calls, NEW result \in {"ok", "error"}, Ner!Answer(c, result)
      PROVE  Ner!TypeOK'
  BY <1>4 DEF Ner!Answer
<1>5. CASE Ner!Take
  <2>1. Tail(queue) \in Seq(Calls) /\ Head(queue) \in Calls
    BY <1>5 DEF Ner!Take
  <2>2. QED
    BY <1>5, <2>1 DEF Ner!Take
<1>6. CASE Ner!Die
  <2>1. queue' = <<>> /\ running' = {} /\ alive' \in BOOLEAN
    BY <1>6 DEF Ner!Die
  <2>2. reply' \in [Calls -> {"unsent", "pending"} \cup Ner!Final]
    BY <1>6 DEF Ner!Die
  <2>3. <<>> \in Seq(Calls)
    OBVIOUS
  <2>4. QED
    BY <2>1, <2>2, <2>3
<1>7. CASE Ner!Restart
  <2>1. queue' = <<>> /\ running' = {} /\ alive' \in BOOLEAN
    BY <1>7 DEF Ner!Restart
  <2>2. reply' \in [Calls -> {"unsent", "pending"} \cup Ner!Final]
    BY <1>7 DEF Ner!Restart
  <2>3. <<>> \in Seq(Calls)
    OBVIOUS
  <2>4. QED
    BY <2>1, <2>2, <2>3
<1>8. QED
  BY <1>1, <1>2, <1>3, <1>4, <1>5, <1>6, <1>7

(* A handler at the await of layer 2 has a readable part to come back for. *)
WaitingOnAPart ==
    \A r \in Requests :
        pc[r] = "waiting" => Pending(r) /\ Opens(config, payload[r], part[r])

(* The types are inductive together with that.                             *)
Typed == TypeOK /\ WaitingOnAPart

LEMMA InitTyped == Init => Typed
<1> SUFFICES ASSUME Init PROVE Typed
  OBVIOUS
<1>1. 1 \in 1 .. MaxParts + 1
  BY MaxPartsAssumption
<1>2. Ner!TypeOK
  BY DEF Init, Ner!Init, Ner!TypeOK
<1>3. layer2 \in BOOLEAN
  BY DEF Init, Layer2Choices
<1>4. TypeOK
  BY <1>1, <1>2, <1>3 DEF Init, TypeOK, Reasons, Statuses
<1>5. WaitingOnAPart
  BY DEF Init, WaitingOnAPart
<1>6. QED
  BY <1>4, <1>5 DEF Typed

(* The events of one request are audit events.                             *)
LEMMA TrailType ==
    ASSUME NEW cfg \in Configs, NEW pl \in Payloads, NEW F \in SUBSET AllItems,
           NEW missed \in SUBSET (1 .. MaxParts), NEW reason \in Reasons
    PROVE  Trail(cfg, pl, F, missed, reason) \in SUBSET Events
<1>1. /\ \A x : DecisionOn(cfg, pl, x) \in Decisions
      /\ Overall(cfg, pl, F) \in Decisions
  BY DecisionTypes, OverallIsStrongest
<1>2. {PiiDetected(x, DecisionOn(cfg, pl, x)) : x \in F} \subseteq Events
  BY <1>1 DEF Events
<1>3. DecisionMade(Overall(cfg, pl, F)) \in Events
  BY <1>1 DEF Events
<1>4. {AttachmentSkipped(p) : p \in missed} \subseteq Events
  BY DEF Events
<1>5. reason # "none" => InspectionTimeout(reason) \in Events
  BY DEF Events
<1>6. QED
  BY <1>2, <1>3, <1>4, <1>5 DEF Trail

(* Concluding a part keeps the inspection's variables typed.               *)
LEMMA ConcludeType ==
    ASSUME Typed, NEW r \in Requests, Pending(r), NEW found \in SUBSET AllItems,
           Conclude(r, found)
    PROVE  /\ findings' \in [Requests -> SUBSET AllItems]
           /\ unread' \in [Requests -> SUBSET (1 .. MaxParts)]
           /\ part' \in [Requests -> 1 .. MaxParts + 1]
<1>1. payload[r] \in Payloads /\ part[r] \in 1 .. MaxParts + 1 /\ MaxParts \in Nat
  BY MaxPartsAssumption DEF Typed, TypeOK
<1>2. Len(payload[r].parts) \in 0 .. MaxParts
  BY <1>1, PayloadFacts
<1>3. part[r] \in 1 .. MaxParts /\ part[r] + 1 \in 1 .. MaxParts + 1
  BY <1>1, <1>2 DEF Pending, Parts
<1>4. part' = [part EXCEPT ![r] = part[r] + 1]
  BY DEF Conclude
<1>5. part' \in [Requests -> 1 .. MaxParts + 1]
  BY <1>3, <1>4 DEF Typed, TypeOK
<1>6. findings' \in [Requests -> SUBSET AllItems]
  BY DEF Conclude, Typed, TypeOK
<1>7. unread' \in [Requests -> SUBSET (1 .. MaxParts)]
  BY <1>3 DEF Conclude, Typed, TypeOK
<1>8. QED
  BY <1>5, <1>6, <1>7

(* A part that is still to be read names a call.                           *)
LEMMA CallType ==
    ASSUME Typed, NEW r \in Requests, Pending(r)
    PROVE  Call(r) \in Calls
<1>1. Len(payload[r].parts) \in 0 .. MaxParts /\ part[r] \in 1 .. MaxParts + 1 /\ MaxParts \in Nat
  BY PayloadFacts, MaxPartsAssumption DEF Typed, TypeOK
<1>2. QED
  BY <1>1 DEF Pending, Parts, Call, Calls

(* Every step of a handler, of a timer, of the worker and of the           *)
(* environment keeps every variable typed.                                 *)
LEMMA StepTyped == Typed /\ [Next]_vars => Typed'
<1> SUFFICES ASSUME Typed, [Next]_vars PROVE Typed'
  OBVIOUS
<1> DEFINE Env  == config' \in Configs /\ layer2' \in BOOLEAN /\ payload' \in [Requests -> Payloads]
           Insp == /\ part' \in [Requests -> 1 .. MaxParts + 1]
                   /\ findings' \in [Requests -> SUBSET AllItems]
                   /\ skipped' \in [Requests -> Reasons]
                   /\ unread' \in [Requests -> SUBSET (1 .. MaxParts)]
           Res  == /\ wire' \in [Requests -> {"nothing", "original", "masked"}]
                   /\ clear' \in [Requests -> SUBSET AllItems]
                   /\ trail' \in [Requests -> SUBSET Events]
                   /\ status' \in [Requests -> Statuses]
                   /\ advisory' \in [Requests -> BOOLEAN]
           Pc   == pc' \in [Requests -> {"new", "inspecting", "waiting", "sending", "done", "gone"}]
<1>t. Typed' <=> Env /\ Insp /\ Res /\ Pc /\ Ner!TypeOK' /\ WaitingOnAPart'
  BY DEF Typed, TypeOK
<1>e. UNCHANGED <<config, layer2, payload>> => Env
  BY DEF Typed, TypeOK
<1>i. UNCHANGED inspectVars => Insp
  BY DEF Typed, TypeOK, inspectVars
<1>r. UNCHANGED resultVars => Res
  BY DEF Typed, TypeOK, resultVars
<1>n. UNCHANGED nerVars => Ner!TypeOK'
  BY NerTypeStep DEF Typed, TypeOK
<1>w. ASSUME UNCHANGED <<config, payload, part>>,
             \A r \in Requests : pc'[r] = "waiting" => pc[r] = "waiting"
      PROVE  WaitingOnAPart'
  BY <1>w DEF Typed, WaitingOnAPart, Pending, Parts
<1>p. \A r \in Requests : Items(payload[r]) \subseteq AllItems
  BY PayloadFacts DEF Typed, TypeOK
<1>v. \A r \in Requests : RequestTrail(r) \in SUBSET Events
  BY TrailType DEF RequestTrail, Typed, TypeOK
<1> HIDE DEF Env, Insp, Res, Pc
<1>1. ASSUME NEW r \in Requests, NoProvider(r) \/ BadBody(r) PROVE Typed'
  <2>1. /\ UNCHANGED <<config, layer2, payload>> /\ UNCHANGED inspectVars /\ UNCHANGED nerVars
        /\ UNCHANGED <<wire, clear, trail, advisory>>
        /\ pc' = [pc EXCEPT ![r] = "done"]
        /\ status' = [status EXCEPT ![r] = 404] \/ status' = [status EXCEPT ![r] = 400]
    BY <1>1 DEF NoProvider, BadBody, Finish
  <2>2. Res /\ Pc
    BY <2>1 DEF Typed, TypeOK, Res, Pc, Statuses
  <2>3. WaitingOnAPart'
    BY <2>1, <1>w DEF inspectVars, Typed, TypeOK
  <2>4. QED
    BY <1>t, <1>e, <1>i, <1>n, <2>1, <2>2, <2>3
<1>2. ASSUME NEW r \in Requests, ForwardUninspected(r) PROVE Typed'
  <2>1. /\ UNCHANGED <<config, layer2, payload>> /\ UNCHANGED inspectVars /\ UNCHANGED nerVars
        /\ UNCHANGED <<trail, status, advisory>>
        /\ pc' = [pc EXCEPT ![r] = "sending"]
        /\ wire' = [wire EXCEPT ![r] = "original"]
        /\ clear' = [clear EXCEPT ![r] = Items(payload[r])]
    BY <1>2 DEF ForwardUninspected
  <2>2. Res /\ Pc
    BY <2>1, <1>p DEF Typed, TypeOK, Res, Pc
  <2>3. WaitingOnAPart'
    BY <2>1, <1>w DEF inspectVars, Typed, TypeOK
  <2>4. QED
    BY <1>t, <1>e, <1>i, <1>n, <2>1, <2>2, <2>3
<1>3. ASSUME NEW r \in Requests, BeginInspection(r) PROVE Typed'
  <2>1. /\ UNCHANGED <<config, layer2, payload>> /\ UNCHANGED inspectVars
        /\ UNCHANGED resultVars /\ UNCHANGED nerVars
        /\ pc' = [pc EXCEPT ![r] = "inspecting"]
    BY <1>3 DEF BeginInspection
  <2>2. Pc
    BY <2>1 DEF Typed, TypeOK, Pc
  <2>3. WaitingOnAPart'
    BY <2>1, <1>w DEF inspectVars, Typed, TypeOK
  <2>4. QED
    BY <1>t, <1>e, <1>i, <1>r, <1>n, <2>1, <2>2, <2>3
<1>4. ASSUME NEW r \in Requests, PassOver(r) \/ ReadWithLayer1(r) PROVE Typed'
  <2>1. /\ UNCHANGED <<config, layer2, payload>> /\ UNCHANGED resultVars /\ UNCHANGED nerVars
        /\ UNCHANGED <<pc, skipped>>
        /\ pc[r] = "inspecting" /\ Pending(r)
        /\ Conclude(r, {}) \/ Conclude(r, Layer1Items(payload[r], part[r]))
    BY <1>4 DEF PassOver, ReadWithLayer1
  <2>2. Layer1Items(payload[r], part[r]) \in SUBSET AllItems
    BY <2>1, <1>p, PayloadFacts DEF Typed, TypeOK, Pending, Parts
  <2>3. Insp
    BY <2>1, <2>2, ConcludeType DEF Insp, Typed, TypeOK
  <2>4. Pc
    BY <2>1 DEF Pc, Typed, TypeOK
  <2>5. WaitingOnAPart'
    BY <2>1 DEF Conclude, WaitingOnAPart, Pending, Parts, Typed, TypeOK
  <2>6. QED
    BY <1>t, <1>e, <1>r, <1>n, <2>1, <2>3, <2>4, <2>5
<1>5. ASSUME NEW r \in Requests, CallLayer2(r) PROVE Typed'
  <2>1. /\ UNCHANGED <<config, layer2, payload>> /\ UNCHANGED inspectVars /\ UNCHANGED resultVars
        /\ Pending(r) /\ Opens(config, payload[r], part[r]) /\ Ner!Submit(Call(r))
        /\ pc' = [pc EXCEPT ![r] = "waiting"]
    BY <1>5 DEF CallLayer2
  <2>2. Call(r) \in Calls
    BY <2>1, CallType
  <2>3. Ner!TypeOK'
    BY <2>1, <2>2, NerTypeStep DEF Typed, TypeOK
  <2>4. Pc
    BY <2>1 DEF Pc, Typed, TypeOK
  <2>5. WaitingOnAPart'
    BY <2>1 DEF WaitingOnAPart, Pending, Parts, Typed, TypeOK, inspectVars
  <2>6. QED
    BY <1>t, <1>e, <1>i, <1>r, <2>1, <2>3, <2>4, <2>5
<1>6. ASSUME NEW r \in Requests, ReturnFromLayer2(r) PROVE Typed'
  <2> DEFINE found == Layer1Items(payload[r], part[r])
                        \cup IF reply[Call(r)] = "ok" THEN Layer2Items(payload[r], part[r]) ELSE {}
  <2>1. /\ UNCHANGED <<config, layer2, payload>> /\ UNCHANGED resultVars /\ UNCHANGED nerVars
        /\ pc[r] = "waiting"
        /\ Conclude(r, found)
        /\ skipped' = [skipped EXCEPT ![r] = SkippedAfter(@, reply[Call(r)])]
        /\ pc' = [pc EXCEPT ![r] = "inspecting"]
    BY <1>6 DEF ReturnFromLayer2
  <2>2. Pending(r)
    BY <2>1 DEF Typed, WaitingOnAPart
  <2>3. found \in SUBSET AllItems
    BY <2>2, <1>p, PayloadFacts DEF Typed, TypeOK, Pending, Parts
  <2>4. SkippedAfter(skipped[r], reply[Call(r)]) \in Reasons
    BY DEF SkippedAfter, SkipReason, Reasons, Typed, TypeOK
  <2> HIDE DEF found
  <2>5. Insp
    BY <2>1, <2>2, <2>3, <2>4, ConcludeType DEF Insp, Typed, TypeOK
  <2>6. Pc
    BY <2>1 DEF Pc, Typed, TypeOK
  <2>7. WaitingOnAPart'
    BY <2>1 DEF Conclude, WaitingOnAPart, Pending, Parts, Typed, TypeOK
  <2>8. QED
    BY <1>t, <1>e, <1>r, <1>n, <2>1, <2>5, <2>6, <2>7
<1>7. ASSUME NEW r \in Requests, TimerFires(r) PROVE Typed'
  <2>1. /\ UNCHANGED <<config, layer2, payload>> /\ UNCHANGED inspectVars /\ UNCHANGED resultVars
        /\ UNCHANGED pc /\ Pending(r) /\ Ner!TimeOut(Call(r))
    BY <1>7 DEF TimerFires, Typed, WaitingOnAPart
  <2>2. Call(r) \in Calls
    BY <2>1, CallType
  <2>3. Ner!TypeOK'
    BY <2>1, <2>2, NerTypeStep DEF Typed, TypeOK
  <2>4. WaitingOnAPart' /\ Pc
    BY <2>1, <1>w DEF inspectVars, Pc, Typed, TypeOK
  <2>5. QED
    BY <1>t, <1>e, <1>i, <1>r, <2>1, <2>3, <2>4
<1>8. ASSUME NEW r \in Requests, RefuseUninspected(r) \/ UpstreamFails(r) PROVE Typed'
  <2>1. /\ UNCHANGED <<config, layer2, payload>> /\ UNCHANGED inspectVars /\ UNCHANGED nerVars
        /\ UNCHANGED <<wire, clear, trail, advisory>>
        /\ pc' = [pc EXCEPT ![r] = "done"]
        /\ status' = [status EXCEPT ![r] = 503] \/ status' = [status EXCEPT ![r] = 502]
    BY <1>8 DEF RefuseUninspected, UpstreamFails, Finish
  <2>2. Res /\ Pc
    BY <2>1 DEF Typed, TypeOK, Res, Pc, Statuses
  <2>3. WaitingOnAPart'
    BY <2>1, <1>w DEF inspectVars, Typed, TypeOK
  <2>4. QED
    BY <1>t, <1>e, <1>i, <1>n, <2>1, <2>2, <2>3
<1>9. ASSUME NEW r \in Requests, Block(r) \/ MaskingFails(r) PROVE Typed'
  <2>1. /\ UNCHANGED <<config, layer2, payload>> /\ UNCHANGED inspectVars /\ UNCHANGED nerVars
        /\ UNCHANGED <<wire, clear, advisory>>
        /\ trail' = [trail EXCEPT ![r] = RequestTrail(r)]
        /\ pc' = [pc EXCEPT ![r] = "done"]
        /\ status' = [status EXCEPT ![r] = 403] \/ status' = [status EXCEPT ![r] = 500]
    BY <1>9 DEF Block, MaskingFails, Finish, Record
  <2>2. Res /\ Pc
    BY <2>1, <1>v DEF Typed, TypeOK, Res, Pc, Statuses
  <2>3. WaitingOnAPart'
    BY <2>1, <1>w DEF inspectVars, Typed, TypeOK
  <2>4. QED
    BY <1>t, <1>e, <1>i, <1>n, <2>1, <2>2, <2>3
<1>10. ASSUME NEW r \in Requests, Forward(r) PROVE Typed'
  <2>1. /\ UNCHANGED <<config, layer2, payload>> /\ UNCHANGED inspectVars /\ UNCHANGED nerVars
        /\ UNCHANGED <<status, advisory>>
        /\ trail' = [trail EXCEPT ![r] = RequestTrail(r)]
        /\ pc' = [pc EXCEPT ![r] = "sending"]
        /\ wire' = [wire EXCEPT ![r] = "masked"] \/ wire' = [wire EXCEPT ![r] = "original"]
        /\ \E left \in SUBSET Items(payload[r]) : clear' = [clear EXCEPT ![r] = left]
    BY <1>10 DEF Forward, Record
  <2>2. Res /\ Pc
    BY <2>1, <1>p, <1>v DEF Typed, TypeOK, Res, Pc
  <2>3. WaitingOnAPart'
    BY <2>1, <1>w DEF inspectVars, Typed, TypeOK
  <2>4. QED
    BY <1>t, <1>e, <1>i, <1>n, <2>1, <2>2, <2>3
<1>11. ASSUME NEW r \in Requests, UpstreamAnswers(r) PROVE Typed'
  <2>1. /\ UNCHANGED <<config, layer2, payload>> /\ UNCHANGED inspectVars /\ UNCHANGED nerVars
        /\ UNCHANGED <<wire, clear, trail>>
        /\ pc' = [pc EXCEPT ![r] = "done"]
        /\ status' = [status EXCEPT ![r] = 200]
        /\ advisory' = [advisory EXCEPT ![r] = (Verdict(r) = Advised)]
    BY <1>11 DEF UpstreamAnswers, Finish
  <2>2. advisory' \in [Requests -> BOOLEAN]
    BY <2>1 DEF Typed, TypeOK
  <2>3. Res /\ Pc
    BY <2>1, <2>2 DEF Typed, TypeOK, Res, Pc, Statuses
  <2>4. WaitingOnAPart'
    BY <2>1, <1>w DEF inspectVars, Typed, TypeOK
  <2>5. QED
    BY <1>t, <1>e, <1>i, <1>n, <2>1, <2>3, <2>4
<1>12. ASSUME NEW r \in Requests, HangUp(r) PROVE Typed'
  <2>1. /\ UNCHANGED <<config, layer2, payload>> /\ UNCHANGED inspectVars /\ UNCHANGED resultVars
        /\ pc' = [pc EXCEPT ![r] = "gone"]
        /\ (pc[r] = "waiting" /\ Ner!Cancel(Call(r))) \/ UNCHANGED nerVars
    BY <1>12 DEF HangUp
  <2>2. Ner!TypeOK'
    BY <2>1, CallType, NerTypeStep DEF Typed, TypeOK, WaitingOnAPart
  <2>3. WaitingOnAPart' /\ Pc
    BY <2>1, <1>w DEF inspectVars, Pc, Typed, TypeOK
  <2>4. QED
    BY <1>t, <1>e, <1>i, <1>r, <2>1, <2>2, <2>3
<1>13. CASE Restart
  <2>1. /\ config' = config /\ payload' = payload /\ layer2' \in Layer2Choices
        /\ UNCHANGED inspectVars /\ UNCHANGED resultVars
        /\ pc' = [r \in Requests |-> IF pc[r] \in {"new", "done"} THEN pc[r] ELSE "gone"]
        /\ Ner!Restart
    BY <1>13 DEF Restart
  <2>2. Env /\ Pc
    BY <2>1 DEF Env, Pc, Typed, TypeOK, Layer2Choices
  <2>3. Ner!TypeOK'
    BY <2>1, NerTypeStep DEF Typed, TypeOK
  <2>4. WaitingOnAPart'
    BY <2>1 DEF WaitingOnAPart
  <2>5. QED
    BY <1>t, <1>i, <1>r, <2>1, <2>2, <2>3, <2>4
<1>14. CASE WorkerTakes \/ WorkerAnswers \/ WorkerDies
  <2>1. /\ UNCHANGED <<config, layer2, payload>> /\ UNCHANGED inspectVars /\ UNCHANGED resultVars
        /\ pc' = pc
        /\ \/ Ner!Take \/ Ner!Die
           \/ \E c \in Calls, result \in {"ok", "error"} : Ner!Answer(c, result)
    BY <1>14 DEF WorkerTakes, WorkerAnswers, WorkerDies
  <2>2. Ner!TypeOK'
    BY <2>1, NerTypeStep DEF Typed, TypeOK
  <2>3. WaitingOnAPart' /\ Pc
    BY <2>1, <1>w DEF inspectVars, Pc, Typed, TypeOK
  <2>4. QED
    BY <1>t, <1>e, <1>i, <1>r, <2>1, <2>2, <2>3
<1>15. CASE UNCHANGED vars
  <2>1. /\ UNCHANGED <<config, layer2, payload>> /\ UNCHANGED inspectVars /\ UNCHANGED resultVars
        /\ UNCHANGED nerVars /\ pc' = pc
    BY <1>15 DEF vars
  <2>2. WaitingOnAPart' /\ Pc
    BY <2>1, <1>w DEF inspectVars, Pc, Typed, TypeOK
  <2>3. QED
    BY <1>t, <1>e, <1>i, <1>r, <1>n, <2>1, <2>2
<1>16. QED
  BY <1>1, <1>2, <1>3, <1>4, <1>5, <1>6, <1>7, <1>8, <1>9, <1>10, <1>11, <1>12, <1>13, <1>14, <1>15
  DEF Next, InspectionStep

(* Every variable of the gateway keeps its type.                           *)
THEOREM TypeCorrect == Spec => []TypeOK
<1>1. Typed => TypeOK
  BY DEF Typed
<1>2. QED
  BY <1>1, InitTyped, StepTyped, PTL DEF Spec

-----------------------------------------------------------------------------
(* What the trail of a request can contain.                                *)
LEMMA TrailContent ==
    ASSUME NEW cfg, NEW pl, NEW F, NEW missed, NEW reason, NEW d, NEW x
    PROVE  /\ PiiDetected(x, d) \in Trail(cfg, pl, F, missed, reason) =>
                 x \in F /\ d = DecisionOn(cfg, pl, x)
           /\ DecisionMade(d) \in Trail(cfg, pl, F, missed, reason) => d = Overall(cfg, pl, F)
<1>1. /\ PiiDetected(x, d).event = "pii_detected"
      /\ PiiDetected(x, d).item = x /\ PiiDetected(x, d).decision = d
      /\ DecisionMade(d).event = "decision_made" /\ DecisionMade(d).decision = d
      /\ \A y, e : PiiDetected(y, e).event = "pii_detected" /\ PiiDetected(y, e).item = y
                    /\ PiiDetected(y, e).decision = e
      /\ \A e : DecisionMade(e).event = "decision_made" /\ DecisionMade(e).decision = e
      /\ \A p : AttachmentSkipped(p).event = "attachment_skipped"
      /\ InspectionTimeout(reason).event = "inspection_timeout"
  BY DEF PiiDetected, DecisionMade, AttachmentSkipped, InspectionTimeout
<1>2. \A e \in Trail(cfg, pl, F, missed, reason) :
         \/ \E y \in F : e = PiiDetected(y, DecisionOn(cfg, pl, y))
         \/ e = DecisionMade(Overall(cfg, pl, F))
         \/ \E p \in missed : e = AttachmentSkipped(p)
         \/ e = InspectionTimeout(reason)
  BY DEF Trail
<1>3. QED
  BY <1>1, <1>2

-----------------------------------------------------------------------------
(* The inductive invariant.  What is judged is only as good as what was    *)
(* collected: the properties of the judgement need that a handler past a   *)
(* part has layer 1's findings in it, that it has no others, and that      *)
(* nothing was sent or recorded before.                                    *)
OpenIsUntouched ==
    \A r \in Requests : pc[r] \in {"new", "inspecting", "waiting"} =>
        wire[r] = "nothing" /\ clear[r] = {} /\ trail[r] = {} /\ status[r] = 0
CoversWhatItRead ==
    \A r \in Requests : \A p \in OpenedParts(r) :
        p < part[r] => Layer1Items(payload[r], p) \subseteq findings[r]
FindingsAreReal ==
    \A r \in Requests : \A x \in findings[r] : x \in Items(payload[r]) /\ x[1] \in OpenedParts(r)
Judgement == NoClearLeak /\ TrailTellsTheTruth /\ OnlyProvenDataBlocks

IInv == Typed /\ OpenIsUntouched /\ CoversWhatItRead /\ FindingsAreReal /\ Judgement

LEMMA InitIInv == Init => IInv
<1> SUFFICES ASSUME Init PROVE IInv
  OBVIOUS
<1>1. Typed
  BY InitTyped
<1>2. OpenIsUntouched /\ FindingsAreReal
  BY DEF Init, OpenIsUntouched, FindingsAreReal
<1>3. CoversWhatItRead
  <2>1. \A r \in Requests : OpenedParts(r) \subseteq 1 .. MaxParts /\ part[r] = 1
    BY <1>1, PayloadFacts DEF Init, OpenedParts, Typed, TypeOK
  <2>2. QED
    BY <2>1, MaxPartsAssumption DEF CoversWhatItRead
<1>4. Judgement
  BY DEF Init, Judgement, NoClearLeak, TrailTellsTheTruth, OnlyProvenDataBlocks
<1>5. QED
  BY <1>1, <1>2, <1>3, <1>4 DEF IInv

(* Once every part is behind it, a handler has found all that layer 1 can  *)
(* protect, and its verdict is at least the decision on each of them.      *)
LEMMA JudgedKnowsAll ==
    ASSUME IInv, NEW r \in Requests, Judged(r)
    PROVE  /\ Protected(r) \subseteq findings[r]
           /\ \A x \in findings[r] :
                 DecisionOn(config, payload[r], x) <= Verdict(r)
           /\ Verdict(r) \in Decisions
<1>1. config \in Configs /\ payload[r] \in Payloads /\ part[r] \in 1 .. MaxParts + 1
  BY DEF IInv, Typed, TypeOK
<1>2. /\ PartsOf(payload[r]) = 1 .. Len(payload[r].parts)
      /\ Len(payload[r].parts) \in 0 .. MaxParts /\ MaxParts \in Nat
  BY <1>1, PayloadFacts, MaxPartsAssumption
<1>3. ~(part[r] <= Len(payload[r].parts))
  BY DEF Judged, Pending, Parts
<1>4. \A p \in OpenedParts(r) : p < part[r]
  BY <1>1, <1>2, <1>3 DEF OpenedParts
<1>5. ASSUME NEW x \in Protected(r) PROVE x \in findings[r]
  <2>1. /\ x[1] \in OpenedParts(r) /\ x[2] \notin NerKinds
        /\ x \in PartsOf(payload[r]) \X DataKind /\ x[2] \in payload[r].parts[x[1]].kinds
    BY DEF Protected, Items
  <2>2. x = <<x[1], x[2]>>
    BY <2>1
  <2>3. x \in Layer1Items(payload[r], x[1])
    BY <2>1, <2>2 DEF Layer1Items
  <2>4. QED
    BY <1>4, <2>1, <2>3 DEF IInv, CoversWhatItRead
<1>6. QED
  BY <1>1, <1>5, OverallIsStrongest DEF Verdict

(* Sending after a verdict below Blocked sends nothing that is protected,  *)
(* and records as masked only what was taken out.                          *)
LEMMA ForwardIsSafe ==
    ASSUME IInv, NEW r \in Requests, Judged(r), Verdict(r) # Blocked,
           NEW left,
           left = IF HasMaskedBody(config, payload[r], findings[r])
                  THEN Items(payload[r]) \ Rewritten(config, payload[r], findings[r])
                  ELSE Items(payload[r])
    PROVE  /\ left \cap Protected(r) = {}
           /\ \A x : PiiDetected(x, Masked) \in RequestTrail(r) => x \notin left
           /\ \A x : PiiDetected(x, Blocked) \notin RequestTrail(r)
           /\ DecisionMade(Blocked) \notin RequestTrail(r)
<1>1. /\ Protected(r) \subseteq findings[r]
      /\ \A x \in findings[r] : DecisionOn(config, payload[r], x) <= Verdict(r)
      /\ Verdict(r) \in {0, 1, 2}
  BY JudgedKnowsAll DEF Decisions, Observed, Blocked
<1>2. \A x : ClampDecision(config, x[2]) \in 0 .. 3 /\ DecisionOn(config, payload[r], x) \in 0 .. 3
  BY DecisionTypes DEF IInv, Typed, TypeOK, Decisions, Observed, Blocked
<1>3. \A x \in findings[r] : DecisionOn(config, payload[r], x) = 2 => x \notin left
  <2> SUFFICES ASSUME NEW x \in findings[r], DecisionOn(config, payload[r], x) = 2
               PROVE  x \notin left
    OBVIOUS
  <2>1. Verdict(r) = 2
    BY <1>1
  <2>2. payload[r].parts[x[1]].source = "prompt"
    <3>1. x[1] \in PartsOf(payload[r]) /\ payload[r] \in Payloads
      BY DEF IInv, FindingsAreReal, OpenedParts, Typed, TypeOK
    <3>2. payload[r].parts[x[1]].source \in {"prompt", "attachment"}
      BY <3>1, PayloadFacts
    <3>3. QED
      BY <3>2 DEF DecisionOn, Advised, Masked
  <2>3. x \in Rewritten(config, payload[r], findings[r])
    BY <2>2 DEF Rewritten, Masked
  <2>4. HasMaskedBody(config, payload[r], findings[r])
    BY <2>1, <2>3 DEF HasMaskedBody, Verdict, Masked
  <2>5. QED
    BY <2>3, <2>4
<1>4. ASSUME NEW x \in Protected(r) PROVE DecisionOn(config, payload[r], x) = 2
  <2>1. \/ ClampDecision(config, x[2]) = 3
        \/ ClampDecision(config, x[2]) = 2 /\ payload[r].parts[x[1]].source = "prompt"
    BY DEF Protected, Masked, Blocked
  <2>2. DecisionOn(config, payload[r], x) \in {2, 3}
    BY <2>1 DEF DecisionOn, Masked
  <2>3. QED
    BY <1>1, <2>2
<1>5. left \cap Protected(r) = {}
  BY <1>1, <1>3, <1>4
<1>6. ASSUME NEW x, PiiDetected(x, Masked) \in RequestTrail(r) PROVE x \notin left
  BY <1>3, <1>6, TrailContent DEF RequestTrail, Masked
<1>7. ASSUME NEW x PROVE PiiDetected(x, Blocked) \notin RequestTrail(r)
  BY <1>1, TrailContent DEF RequestTrail, Blocked
<1>8. DecisionMade(Blocked) \notin RequestTrail(r)
  BY TrailContent DEF RequestTrail, Verdict
<1>9. QED
  BY <1>5, <1>6, <1>7, <1>8

(* A verdict of Blocked rests on an identifier whose checksum holds and    *)
(* which the operator set to block.                                        *)
LEMMA BlockedIsProven ==
    ASSUME IInv, NEW r \in Requests, Verdict(r) = Blocked
    PROVE  \E p \in OpenedParts(r) : \E k \in payload[r].parts[p].kinds \cap ChecksumKinds :
               ModeFor(config, k) = Blocked
<1>1. config \in Configs /\ payload[r] \in Payloads
  BY DEF IInv, Typed, TypeOK
<1>2. PICK x \in findings[r] : DecisionOn(config, payload[r], x) = Blocked
  BY <1>1, OverallIsStrongest DEF Verdict, Observed, Blocked
<1>3. ClampDecision(config, x[2]) = Blocked
  BY <1>2 DEF DecisionOn, Advised, Blocked
<1>4. ModeFor(config, x[2]) \in 0 .. 3 /\ KindMax(x[2]) \in 2 .. 3
  BY <1>1, DecisionTypes
  DEF Decisions, Observed, Blocked, KindMax, Lesser, LayerMax, EvidenceMax, Masked
<1>5. ModeFor(config, x[2]) = Blocked /\ KindMax(x[2]) = Blocked
  BY <1>3, <1>4 DEF ClampDecision, Lesser, Blocked
<1>6. x[2] \in ChecksumKinds
  BY <1>5 DEF KindMax, Lesser, LayerMax, EvidenceMax, Evidence, Masked, Blocked
<1>7. x[1] \in OpenedParts(r) /\ x[2] \in payload[r].parts[x[1]].kinds
  BY DEF IInv, FindingsAreReal, Items
<1>8. QED
  BY <1>5, <1>6, <1>7

(* Every step preserves the invariant.  Only ForwardUninspected and        *)
(* Forward send, only Block answers 403, only Block, MaskingFails and      *)
(* Forward record, and only concluding a part moves past one.              *)
LEMMA StepIInv == IInv /\ [Next]_vars => IInv'
<1> SUFFICES ASSUME IInv, [Next]_vars PROVE IInv'
  OBVIOUS
<1> DEFINE Collected == CoversWhatItRead /\ FindingsAreReal
<1>t. Typed /\ Typed'
  BY StepTyped DEF IInv
<1>d. /\ config' = config /\ payload' = payload
      /\ DOMAIN pc = Requests /\ DOMAIN wire = Requests /\ DOMAIN clear = Requests
      /\ DOMAIN trail = Requests /\ DOMAIN status = Requests
      /\ DOMAIN part = Requests /\ DOMAIN findings = Requests
  <2>1. config' = config /\ payload' = payload
    BY ZenonT(90) DEF Next, vars, InspectionStep, NoProvider, BadBody, ForwardUninspected, BeginInspection,
           PassOver, ReadWithLayer1, CallLayer2, ReturnFromLayer2, RefuseUninspected, Block,
           MaskingFails, Forward, TimerFires, UpstreamAnswers, UpstreamFails, HangUp,
           WorkerTakes, WorkerAnswers, WorkerDies, Restart
  <2>2. QED
    BY <1>t, <2>1 DEF Typed, TypeOK
<1>s. \A r : OpenedParts(r)' = OpenedParts(r) /\ Protected(r)' = Protected(r)
  BY <1>d DEF OpenedParts, Protected
<1>c. UNCHANGED <<part, findings>> => Collected'
  BY <1>d, <1>s DEF IInv, CoversWhatItRead, FindingsAreReal
<1>o. ASSUME UNCHANGED <<wire, clear, trail, status>>,
             \A r \in Requests : pc'[r] \in {"new", "inspecting", "waiting"} =>
                                pc[r] \in {"new", "inspecting", "waiting"}
      PROVE  OpenIsUntouched' /\ Judgement'
  <2>1. OpenIsUntouched'
    BY <1>o DEF IInv, OpenIsUntouched
  <2>2. Judgement'
    BY <1>o, <1>d, <1>s
    DEF IInv, Judgement, NoClearLeak, TrailTellsTheTruth, OnlyProvenDataBlocks, Sent
  <2>3. QED
    BY <2>1, <2>2
\* Answering: nothing is sent, and a 403 has its proof.
<1>a. ASSUME NEW r \in Requests, NEW code,
             UNCHANGED <<wire, clear>>,
             Finish(r, code),
             code = 403 => Verdict(r) = Blocked,
             \/ trail' = trail
             \/ trail' = [trail EXCEPT ![r] = RequestTrail(r)] /\ ~Sent(r) /\ clear[r] = {}
      PROVE  OpenIsUntouched' /\ Judgement'
  <2>1. \A q \in Requests \ {r} : pc'[q] = pc[q] /\ status'[q] = status[q] /\ trail'[q] = trail[q]
    BY <1>a, <1>d DEF Finish
  <2>2. pc'[r] = "done" /\ status'[r] = code
    BY <1>a, <1>d DEF Finish
  <2>3. trail'[r] = trail[r] \/ (~Sent(r) /\ clear[r] = {})
    BY <1>a, <1>d
  <2>4. OpenIsUntouched'
    BY <1>a, <2>1, <2>2 DEF IInv, OpenIsUntouched
  <2>5. NoClearLeak'
    BY <1>a, <1>d, <1>s DEF IInv, Judgement, NoClearLeak
  <2>6. TrailTellsTheTruth'
    BY <1>a, <1>d, <2>1, <2>3 DEF IInv, Judgement, TrailTellsTheTruth, Sent
  <2>7. OnlyProvenDataBlocks'
    BY <1>d, <1>s, <1>a, <2>1, <2>2, BlockedIsProven DEF IInv, Judgement, OnlyProvenDataBlocks
  <2>8. QED
    BY <2>4, <2>5, <2>6, <2>7 DEF Judgement
\* Concluding a part: everything layer 1 sees in it is among the findings.
<1>b. ASSUME NEW r \in Requests, NEW found, Pending(r), Conclude(r, found),
             Opens(config, payload[r], part[r]) =>
                 Layer1Items(payload[r], part[r]) \subseteq found,
             \/ found = {}
             \/ /\ Opens(config, payload[r], part[r])
                /\ found \subseteq Layer1Items(payload[r], part[r])
                               \cup Layer2Items(payload[r], part[r])
      PROVE  Collected'
  <2>1. /\ findings'[r] = findings[r] \cup found /\ part'[r] = part[r] + 1
        /\ \A q \in Requests \ {r} : findings'[q] = findings[q] /\ part'[q] = part[q]
    BY <1>b, <1>d DEF Conclude
  <2>2. /\ part[r] \in 1 .. MaxParts + 1 /\ payload[r] \in Payloads /\ MaxParts \in Nat
    BY <1>t, MaxPartsAssumption DEF Typed, TypeOK
  <2>3. part[r] \in PartsOf(payload[r])
    BY <1>b, <2>2, PayloadFacts DEF Pending, Parts
  <2>4. PartsOf(payload[r]) \subseteq 1 .. MaxParts
    BY <2>2, PayloadFacts
  <2>5. ASSUME NEW p \in OpenedParts(r), p < part[r] + 1
        PROVE  Layer1Items(payload[r], p) \subseteq findings'[r]
    <3>1. p < part[r] \/ p = part[r]
      BY <2>2, <2>4, <2>5 DEF OpenedParts
    <3>2. QED
      BY <1>b, <2>1, <3>1 DEF IInv, CoversWhatItRead, OpenedParts
  <2>6. CoversWhatItRead'
    BY <1>d, <1>s, <2>1, <2>5 DEF IInv, CoversWhatItRead
  <2>7. ASSUME NEW x \in found PROVE x \in Items(payload[r]) /\ x[1] \in OpenedParts(r)
    <3>1. x \in Items(payload[r])
      BY <1>b, <2>2, <2>3, PayloadFacts
    <3>2. x[1] = part[r]
      BY <1>b DEF Layer1Items, Layer2Items
    <3>3. QED
      BY <1>b, <2>3, <3>1, <3>2 DEF OpenedParts
  <2>8. FindingsAreReal'
    BY <1>d, <1>s, <2>1, <2>7 DEF IInv, FindingsAreReal
  <2>9. QED
    BY <2>6, <2>8
<1>q. IInv' <=> OpenIsUntouched' /\ Collected' /\ Judgement'
  BY <1>t DEF IInv
<1> HIDE DEF Collected
<1>1. ASSUME NEW r \in Requests, NoProvider(r) \/ BadBody(r) \/ UpstreamFails(r) PROVE IInv'
  <2>1. PICK code \in {404, 400, 502} : Finish(r, code)
    BY <1>1 DEF NoProvider, BadBody, UpstreamFails
  <2>2. UNCHANGED <<wire, clear>> /\ trail' = trail /\ UNCHANGED inspectVars
    BY <1>1 DEF NoProvider, BadBody, UpstreamFails
  <2>3. OpenIsUntouched' /\ Judgement'
    BY <1>a, <2>1, <2>2
  <2>4. QED
    BY <1>c, <1>q, <2>2, <2>3 DEF inspectVars
<1>2. ASSUME NEW r \in Requests, ForwardUninspected(r) PROVE IInv'
  <2>1. /\ pc[r] = "new" /\ ~Inspected(config, payload[r])
        /\ pc' = [pc EXCEPT ![r] = "sending"]
        /\ wire' = [wire EXCEPT ![r] = "original"]
        /\ clear' = [clear EXCEPT ![r] = Items(payload[r])]
        /\ UNCHANGED <<trail, status>> /\ UNCHANGED inspectVars
    BY <1>2 DEF ForwardUninspected
  <2>2. trail[r] = {}
    BY <2>1 DEF IInv, OpenIsUntouched
  <2>3. OpenIsUntouched'
    BY <1>d, <2>1 DEF IInv, OpenIsUntouched
  <2>4. NoClearLeak'
    BY <1>d, <1>s, <2>1 DEF IInv, Judgement, NoClearLeak
  <2>5. TrailTellsTheTruth'
    BY <1>d, <2>1, <2>2 DEF IInv, Judgement, TrailTellsTheTruth, Sent
  <2>6. OnlyProvenDataBlocks'
    BY <1>d, <1>s, <2>1 DEF IInv, Judgement, OnlyProvenDataBlocks
  <2>7. QED
    BY <1>c, <1>q, <2>1, <2>3, <2>4, <2>5, <2>6 DEF Judgement, inspectVars
<1>3. ASSUME NEW r \in Requests, BeginInspection(r) \/ CallLayer2(r) \/ TimerFires(r) \/ HangUp(r)
      PROVE  IInv'
  <2>1. UNCHANGED inspectVars /\ UNCHANGED resultVars
    BY <1>3 DEF BeginInspection, CallLayer2, TimerFires, HangUp
  <2>2. \A q \in Requests : pc'[q] \in {"new", "inspecting", "waiting"} =>
                           pc[q] \in {"new", "inspecting", "waiting"}
    BY <1>3, <1>d DEF BeginInspection, CallLayer2, TimerFires, HangUp
  <2>3. QED
    BY <1>c, <1>o, <1>q, <2>1, <2>2 DEF inspectVars, resultVars
<1>4. ASSUME NEW r \in Requests, PassOver(r) \/ ReadWithLayer1(r) \/ ReturnFromLayer2(r) PROVE IInv'
  <2>1. /\ UNCHANGED resultVars
        /\ \A q \in Requests : pc'[q] \in {"new", "inspecting", "waiting"} =>
                              pc[q] \in {"new", "inspecting", "waiting"}
    BY <1>4, <1>d DEF PassOver, ReadWithLayer1, ReturnFromLayer2
  <2>2. Collected'
    <3>1. CASE PassOver(r)
      BY <1>b, <3>1 DEF PassOver
    <3>2. CASE ReadWithLayer1(r)
      BY <1>b, <3>2 DEF ReadWithLayer1
    <3>3. CASE ReturnFromLayer2(r)
      <4>1. Pending(r) /\ Opens(config, payload[r], part[r])
        BY <3>3, <1>t DEF ReturnFromLayer2, Typed, WaitingOnAPart
      <4>2. PICK found : /\ Conclude(r, found)
                         /\ Layer1Items(payload[r], part[r]) \subseteq found
                         /\ found \subseteq Layer1Items(payload[r], part[r])
                                          \cup Layer2Items(payload[r], part[r])
        BY <3>3 DEF ReturnFromLayer2
      <4>3. QED
        BY <1>b, <4>1, <4>2
    <3>4. QED
      BY <1>4, <3>1, <3>2, <3>3
  <2>3. QED
    BY <1>o, <1>q, <2>1, <2>2 DEF resultVars
<1>5. ASSUME NEW r \in Requests, RefuseUninspected(r) \/ UpstreamAnswers(r) PROVE IInv'
  <2>1. PICK code \in {503, 200} : Finish(r, code)
    BY <1>5 DEF RefuseUninspected, UpstreamAnswers
  <2>2. UNCHANGED <<wire, clear>> /\ trail' = trail /\ UNCHANGED inspectVars
    BY <1>5 DEF RefuseUninspected, UpstreamAnswers
  <2>3. OpenIsUntouched' /\ Judgement'
    BY <1>a, <2>1, <2>2
  <2>4. QED
    BY <1>c, <1>q, <2>2, <2>3 DEF inspectVars
<1>6. ASSUME NEW r \in Requests, Block(r) \/ MaskingFails(r) PROVE IInv'
  <2>1. PICK code \in {403, 500} : Finish(r, code) /\ (code = 403 => Verdict(r) = Blocked)
    BY <1>6 DEF Block, MaskingFails
  <2>2. /\ pc[r] = "inspecting" /\ UNCHANGED <<wire, clear>> /\ UNCHANGED inspectVars
        /\ trail' = [trail EXCEPT ![r] = RequestTrail(r)]
    BY <1>6 DEF Block, MaskingFails, Record, Judged
  <2>3. ~Sent(r) /\ clear[r] = {}
    BY <2>2 DEF IInv, OpenIsUntouched, Sent
  <2>4. OpenIsUntouched' /\ Judgement'
    BY ZenonT(90), <1>a, <2>1, <2>2, <2>3
  <2>5. QED
    BY <1>c, <1>q, <2>2, <2>4 DEF inspectVars
<1>7. ASSUME NEW r \in Requests, Forward(r) PROVE IInv'
  <2> DEFINE left == IF HasMaskedBody(config, payload[r], findings[r])
                     THEN Items(payload[r]) \ Rewritten(config, payload[r], findings[r])
                     ELSE Items(payload[r])
  <2>1. /\ Judged(r) /\ Verdict(r) # Blocked
        /\ pc' = [pc EXCEPT ![r] = "sending"]
        /\ trail' = [trail EXCEPT ![r] = RequestTrail(r)]
        /\ wire' = [wire EXCEPT ![r] = "masked"] \/ wire' = [wire EXCEPT ![r] = "original"]
        /\ clear' = [clear EXCEPT ![r] = left]
        /\ status' = status /\ UNCHANGED inspectVars
    BY <1>7 DEF Forward, Record
  <2>2. /\ left \cap Protected(r) = {}
        /\ \A x : PiiDetected(x, Masked) \in RequestTrail(r) => x \notin left
        /\ \A x : PiiDetected(x, Blocked) \notin RequestTrail(r)
        /\ DecisionMade(Blocked) \notin RequestTrail(r)
    BY <2>1, ForwardIsSafe
  <2> HIDE DEF left
  <2>3. /\ \A q \in Requests \ {r} : /\ pc'[q] = pc[q] /\ wire'[q] = wire[q]
                                    /\ clear'[q] = clear[q] /\ trail'[q] = trail[q]
        /\ pc'[r] = "sending" /\ clear'[r] = left /\ trail'[r] = RequestTrail(r)
    BY <1>d, <2>1
  <2>4. OpenIsUntouched'
    BY <2>1, <2>3 DEF IInv, OpenIsUntouched
  <2>5. NoClearLeak'
    BY <1>d, <1>s, <2>2, <2>3 DEF IInv, Judgement, NoClearLeak
  <2>6. TrailTellsTheTruth'
    BY <1>d, <2>2, <2>3 DEF IInv, Judgement, TrailTellsTheTruth, Sent
  <2>7. OnlyProvenDataBlocks'
    BY <1>d, <1>s, <2>1 DEF IInv, Judgement, OnlyProvenDataBlocks
  <2>8. QED
    BY <1>c, <1>q, <2>1, <2>4, <2>5, <2>6, <2>7 DEF Judgement, inspectVars
<1>8. CASE WorkerTakes \/ WorkerAnswers \/ WorkerDies \/ Restart \/ UNCHANGED vars
  <2>1. UNCHANGED inspectVars /\ UNCHANGED resultVars
    BY <1>8 DEF WorkerTakes, WorkerAnswers, WorkerDies, Restart, vars
  <2>2. \A q \in Requests : pc'[q] \in {"new", "inspecting", "waiting"} =>
                           pc[q] \in {"new", "inspecting", "waiting"}
    BY <1>8 DEF WorkerTakes, WorkerAnswers, WorkerDies, Restart, vars
  <2>3. QED
    BY <1>c, <1>o, <1>q, <2>1, <2>2 DEF inspectVars, resultVars
<1>9. QED
  BY <1>1, <1>2, <1>3, <1>4, <1>5, <1>6, <1>7, <1>8 DEF Next, InspectionStep

(* The invariant holds in every reachable state.                           *)
THEOREM Invariance == Spec => []IInv
<1>1. QED
  BY InitIInv, StepIInv, PTL DEF Spec

(* No identifier the policy blocks or masks leaves in the clear, for any   *)
(* number of concurrent requests, any bodies and any configuration, and    *)
(* whatever the inference thread does.                                     *)
THEOREM LayerOneAlwaysProtects == Spec => []NoClearLeak
<1>1. IInv => NoClearLeak
  BY DEF IInv, Judgement
<1>2. QED
  BY <1>1, Invariance, PTL

(* What the audit trail says was masked or blocked, was.                   *)
THEOREM TheTrailIsTrue == Spec => []TrailTellsTheTruth
<1>1. IInv => TrailTellsTheTruth
  BY DEF IInv, Judgement
<1>2. QED
  BY <1>1, Invariance, PTL

(* A request is answered 403 only on a verified checksum and an operator's *)
(* block: no configuration lets the model or a bare pattern block.         *)
THEOREM BlockingNeedsProof == Spec => []OnlyProvenDataBlocks
<1>1. IInv => OnlyProvenDataBlocks
  BY DEF IInv, Judgement
<1>2. QED
  BY <1>1, Invariance, PTL

-----------------------------------------------------------------------------
(* The inductive invariant, one request at a time.  Both properties speak  *)
(* of the answers of every call the request made; they hold because at     *)
(* each part the handler writes down what the call's answer leaves open,   *)
(* and because no answer behind the handler can still change.              *)
NewAtFirst(r) == pc[r] = "new" => part[r] = 1
FutureIsUnsent(r) ==
    \A p \in 1 .. MaxParts :
        p > part[r] \/ (p = part[r] /\ pc[r] \in {"new", "inspecting"}) =>
            reply[<<r, p>>] = "unsent"
PastIsSettled(r) ==
    \A p \in 1 .. MaxParts : p < part[r] => reply[<<r, p>>] # "pending"
UnreadIsNoted(r) ==
    \A p \in PartsOf(payload[r]) :
        p < part[r] /\ Unread(config, payload[r], p) => p \in unread[r]
SkipsAreNoted(r) ==
    \A p \in OpenedParts(r) :
        p < part[r] /\ reply[<<r, p>>] \notin {"ok", "unsent"} => skipped[r] # "none"
LayerIsUniform(r) ==
    /\ pc[r] = "waiting" => layer2
    /\ \A p \in OpenedParts(r) :
          p < part[r] /\ pc[r] \in {"inspecting", "waiting"} =>
              /\ layer2 => reply[<<r, p>>] # "unsent"
              /\ ~layer2 => reply[<<r, p>>] = "unsent"
NotesAreExact(r) ==
    /\ \A x \in findings[r] :
          x[1] < part[r] /\ (x[2] \in NerKinds => reply[<<r, x[1]>>] = "ok")
    /\ \A p \in OpenedParts(r) :
          p < part[r] /\ reply[<<r, p>>] = "ok" => Layer2Items(payload[r], p) \subseteq findings[r]
    /\ \A p \in unread[r] : p \in PartsOf(payload[r]) /\ Unread(config, payload[r], p)
SentIsJudged(r) ==
    SentInspected(r) =>
        /\ ~Pending(r)
        /\ trail[r] = RequestTrail(r)
        /\ config.failClosed => skipped[r] = "none"
        /\ \/ \A p \in OpenedParts(r) : reply[<<r, p>>] # "unsent"
           \/ \A p \in OpenedParts(r) : reply[<<r, p>>] = "unsent"

Account(r) ==
    /\ NewAtFirst(r) /\ FutureIsUnsent(r) /\ PastIsSettled(r)
    /\ UnreadIsNoted(r) /\ SkipsAreNoted(r) /\ LayerIsUniform(r)
    /\ NotesAreExact(r) /\ SentIsJudged(r)

Accounts == \A r \in Requests : Account(r)
AInv == IInv /\ Accounts

LEMMA InitAInv == Init => AInv
<1> SUFFICES ASSUME Init PROVE AInv
  OBVIOUS
<1>1. IInv
  BY InitIInv
<1>2. ASSUME NEW r \in Requests PROVE Account(r)
  <2>1. /\ pc[r] = "new" /\ part[r] = 1 /\ wire[r] = "nothing"
        /\ findings[r] = {} /\ unread[r] = {}
    BY DEF Init
  <2>2. \A p \in 1 .. MaxParts : reply[<<r, p>>] = "unsent" /\ ~(p < part[r])
    BY <2>1, MaxPartsAssumption DEF Init, Ner!Init, Calls
  <2>3. PartsOf(payload[r]) \subseteq 1 .. MaxParts
    BY PayloadFacts DEF Init
  <2>4. QED
    BY <2>1, <2>2, <2>3
    DEF Account, NewAtFirst, FutureIsUnsent, PastIsSettled, UnreadIsNoted, SkipsAreNoted,
        LayerIsUniform, NotesAreExact, SentIsJudged, SentInspected, Sent, OpenedParts
<1>3. QED
  BY <1>1, <1>2 DEF AInv, Accounts

-----------------------------------------------------------------------------
(* An answer changes once, from the empty channel to its outcome; only a   *)
(* call that is made now leaves "unsent".                                  *)
Settles(c) == reply'[c] = reply[c] \/ (reply[c] = "pending" /\ reply'[c] \in Ner!Final)

LEMMA AnswersSettle ==
    ASSUME Ner!TypeOK,
           \/ UNCHANGED nerVars
           \/ \E c \in Calls : \/ Ner!TimeOut(c) \/ Ner!Cancel(c)
                              \/ \E result \in {"ok", "error"} : Ner!Answer(c, result)
           \/ Ner!Take \/ Ner!Die \/ Ner!Restart,
           NEW d \in Calls
    PROVE  Settles(d)
<1> USE DEF Settles, Ner!TypeOK, Ner!Final, Ner!Unavailable
<1>1. CASE UNCHANGED nerVars
  BY <1>1 DEF nerVars
<1>2. ASSUME NEW c \in Calls, Ner!TimeOut(c) \/ Ner!Cancel(c) PROVE Settles(d)
  BY <1>2 DEF Ner!TimeOut, Ner!Cancel
<1>3. ASSUME NEW c \in Calls, NEW result \in {"ok", "error"}, Ner!Answer(c, result)
      PROVE  Settles(d)
  BY <1>3 DEF Ner!Answer
<1>4. CASE Ner!Take
  BY <1>4 DEF Ner!Take
<1>5. CASE Ner!Die
  BY <1>5 DEF Ner!Die
<1>6. CASE Ner!Restart
  BY <1>6 DEF Ner!Restart
<1>7. QED
  BY <1>1, <1>2, <1>3, <1>4, <1>5, <1>6

(* Making a call touches its own channel and leaves "unsent" behind.       *)
LEMMA SubmitStarts ==
    ASSUME Ner!TypeOK, NEW c \in Calls, Ner!Submit(c)
    PROVE  /\ reply'[c] # "unsent"
           /\ \A d \in Calls \ {c} : reply'[d] = reply[d]
<1>1. QED
  BY DEF Ner!TypeOK, Ner!Submit

(* The parts of a request, as numbers.                                     *)
LEMMA PartFacts ==
    ASSUME Typed, NEW r \in Requests
    PROVE  /\ part[r] \in 1 .. MaxParts + 1 /\ MaxParts \in Nat
           /\ PartsOf(payload[r]) \subseteq 1 .. MaxParts
           /\ OpenedParts(r) \subseteq PartsOf(payload[r])
           /\ \A p \in 1 .. MaxParts : <<r, p>> \in Calls
           /\ Pending(r) => part[r] \in PartsOf(payload[r])
           /\ ~Pending(r) => \A p \in PartsOf(payload[r]) : p < part[r]
<1>1. part[r] \in 1 .. MaxParts + 1 /\ MaxParts \in Nat /\ payload[r] \in Payloads
  BY MaxPartsAssumption DEF Typed, TypeOK
<1>2. PartsOf(payload[r]) = 1 .. Len(payload[r].parts) /\ Len(payload[r].parts) \in 0 .. MaxParts
  BY <1>1, PayloadFacts
<1>3. QED
  BY <1>1, <1>2 DEF OpenedParts, Calls, Pending, Parts

-----------------------------------------------------------------------------
(* The account of a request whose handler does not move to another part    *)
(* and makes no call stands, while answers settle around it.               *)
LEMMA AccountStands ==
    ASSUME Typed, NEW r \in Requests, Account(r),
           config' = config, payload' = payload,
           part'[r] = part[r], findings'[r] = findings[r],
           skipped'[r] = skipped[r], unread'[r] = unread[r],
           pc'[r] = "new" => pc[r] = "new",
           pc'[r] = "inspecting" => pc[r] \in {"new", "inspecting"},
           pc'[r] = "waiting" => pc[r] = "waiting",
           pc'[r] \in {"inspecting", "waiting"} => layer2' = layer2,
           \A p \in 1 .. MaxParts : Settles(<<r, p>>),
           SentInspected(r)' => SentInspected(r) /\ trail'[r] = trail[r]
    PROVE  Account(r)'
<1>p. /\ part[r] \in 1 .. MaxParts + 1 /\ MaxParts \in Nat
      /\ OpenedParts(r) \subseteq 1 .. MaxParts
      /\ PartsOf(payload[r]) \subseteq 1 .. MaxParts
      /\ ~Pending(r) => \A p \in OpenedParts(r) : p < part[r]
  BY PartFacts
<1>o. OpenedParts(r)' = OpenedParts(r)
  BY DEF OpenedParts
<1>r. \A p \in 1 .. MaxParts : reply[<<r, p>>] # "pending" => reply'[<<r, p>>] = reply[<<r, p>>]
  BY DEF Settles
<1>s. \A p \in 1 .. MaxParts : p < part[r] => reply'[<<r, p>>] = reply[<<r, p>>]
  BY <1>r DEF Account, PastIsSettled
<1>1. NewAtFirst(r)'
  BY DEF Account, NewAtFirst
<1>2. FutureIsUnsent(r)'
  BY <1>r DEF Account, FutureIsUnsent
<1>3. PastIsSettled(r)'
  BY <1>s DEF Account, PastIsSettled
<1>4. UnreadIsNoted(r)'
  BY DEF Account, UnreadIsNoted
<1>5. SkipsAreNoted(r)'
  BY <1>p, <1>o, <1>s DEF Account, SkipsAreNoted
<1>6. LayerIsUniform(r)'
  <2> SUFFICES ASSUME NEW p \in OpenedParts(r), p < part[r], pc'[r] \in {"inspecting", "waiting"}
               PROVE  /\ layer2' => reply'[<<r, p>>] # "unsent"
                      /\ ~layer2' => reply'[<<r, p>>] = "unsent"
    BY <1>o DEF Account, LayerIsUniform
  <2>1. pc[r] # "new"
    BY <1>p DEF Account, NewAtFirst
  <2>2. pc[r] \in {"inspecting", "waiting"} /\ layer2' = layer2
    BY <2>1
  <2>3. reply'[<<r, p>>] = reply[<<r, p>>]
    BY <1>p, <1>s
  <2>4. QED
    BY <2>2, <2>3 DEF Account, LayerIsUniform
<1>7. SentIsJudged(r)'
  <2> SUFFICES ASSUME SentInspected(r)' PROVE SentIsJudged(r)'
    BY DEF SentIsJudged
  <2>1. SentInspected(r) /\ trail'[r] = trail[r]
    OBVIOUS
  <2>2. /\ ~Pending(r) /\ trail[r] = RequestTrail(r)
        /\ config.failClosed => skipped[r] = "none"
        /\ \/ \A p \in OpenedParts(r) : reply[<<r, p>>] # "unsent"
           \/ \A p \in OpenedParts(r) : reply[<<r, p>>] = "unsent"
    BY <2>1 DEF Account, SentIsJudged
  <2>3. Pending(r)' = Pending(r) /\ RequestTrail(r)' = RequestTrail(r)
    BY DEF Pending, Parts, RequestTrail
  <2>4. \A p \in OpenedParts(r) : reply'[<<r, p>>] = reply[<<r, p>>]
    BY <1>p, <1>s, <2>2
  <2>5. QED
    BY <1>o, <2>1, <2>2, <2>3, <2>4 DEF SentIsJudged
<1>8. NotesAreExact(r)'
  <2>1. \A x \in findings[r] : x[1] \in 1 .. MaxParts
    BY DEF Typed, TypeOK, AllItems
  <2>2. QED
    BY <1>p, <1>o, <1>s, <2>1 DEF Account, NotesAreExact
<1>9. QED
  BY <1>1, <1>2, <1>3, <1>4, <1>5, <1>6, <1>7, <1>8 DEF Account

-----------------------------------------------------------------------------
(* The steps that move a request's own account.                            *)

(* A handler still inspecting has sent nothing.                            *)
LEMMA OpenIsUnsent ==
    ASSUME IInv, NEW r \in Requests, pc[r] \in {"new", "inspecting", "waiting"}
    PROVE  ~SentInspected(r)
<1>1. QED
  BY DEF IInv, OpenIsUntouched, SentInspected, Sent

(* The call of a part is the first with its name, and leaves the answers   *)
(* of the parts behind alone.                                              *)
LEMMA CallKeepsAccount ==
    ASSUME AInv, NEW r \in Requests, CallLayer2(r)
    PROVE  Account(r)'
<1>a. /\ Typed /\ Account(r) /\ pc[r] = "inspecting" /\ Pending(r)
      /\ config' = config /\ payload' = payload /\ layer2' = layer2
      /\ part' = part /\ skipped' = skipped /\ unread' = unread /\ findings' = findings /\ wire' = wire
      /\ pc'[r] = "waiting" /\ Ner!Submit(Call(r)) /\ Ner!TypeOK
  BY DEF AInv, IInv, Accounts, CallLayer2, inspectVars, resultVars, Typed, TypeOK
<1>p. /\ part[r] \in 1 .. MaxParts + 1 /\ MaxParts \in Nat
      /\ OpenedParts(r) \subseteq 1 .. MaxParts
      /\ \A p \in 1 .. MaxParts : <<r, p>> \in Calls
  BY <1>a, PartFacts
<1>o. OpenedParts(r)' = OpenedParts(r)
  BY <1>a DEF OpenedParts
<1>r. \A p \in 1 .. MaxParts : p # part[r] => reply'[<<r, p>>] = reply[<<r, p>>]
  <2>1. Call(r) \in Calls /\ Call(r) = <<r, part[r]>>
    BY <1>a, CallType DEF Call
  <2>2. \A p : p # part[r] => <<r, p>> # <<r, part[r]>>
    OBVIOUS
  <2>3. QED
    BY <1>a, <1>p, <2>1, <2>2, SubmitStarts
<1>1. NewAtFirst(r)' /\ UnreadIsNoted(r)'
  BY <1>a DEF Account, NewAtFirst, UnreadIsNoted
<1>2. FutureIsUnsent(r)'
  BY <1>a, <1>p, <1>r DEF Account, FutureIsUnsent
<1>3. PastIsSettled(r)'
  BY <1>a, <1>p, <1>r DEF Account, PastIsSettled
<1>4. SkipsAreNoted(r)'
  BY <1>a, <1>p, <1>o, <1>r DEF Account, SkipsAreNoted
<1>5. LayerIsUniform(r)'
  <2>1. layer2
    BY DEF CallLayer2
  <2>2. QED
    BY <1>a, <1>p, <1>o, <1>r, <2>1 DEF Account, LayerIsUniform
<1>6. SentIsJudged(r)'
  <2>1. ~SentInspected(r)
    BY <1>a, OpenIsUnsent DEF AInv
  <2>2. QED
    BY <1>a, <2>1 DEF SentIsJudged, SentInspected, Sent
<1>7. NotesAreExact(r)'
  <2>1. \A x \in findings[r] : x[1] \in 1 .. MaxParts
    BY <1>a DEF Typed, TypeOK, AllItems
  <2>2. QED
    BY <1>a, <1>p, <1>o, <1>r, <2>1 DEF Account, NotesAreExact
<1>8. QED
  BY <1>1, <1>2, <1>3, <1>4, <1>5, <1>6, <1>7 DEF Account

(* A part is left behind with its answer settled, its unread rest noted    *)
(* and a missing answer noted.                                             *)
LEMMA ConcludingKeepsAccount ==
    ASSUME AInv, NEW r \in Requests, PassOver(r) \/ ReadWithLayer1(r) \/ ReturnFromLayer2(r)
    PROVE  Account(r)'
<1>t. Typed /\ Account(r)
  BY DEF AInv, IInv, Accounts
<1>a. /\ pc[r] \in {"inspecting", "waiting"} /\ pc'[r] = "inspecting" /\ Pending(r)
      /\ config' = config /\ payload' = payload /\ layer2' = layer2
      /\ wire' = wire /\ reply' = reply
      /\ \E found : Conclude(r, found)
  BY <1>t DEF PassOver, ReadWithLayer1, ReturnFromLayer2, Typed, TypeOK, WaitingOnAPart,
              resultVars, nerVars
<1>b. /\ part'[r] = part[r] + 1
      /\ unread'[r] = IF Unread(config, payload[r], part[r])
                      THEN unread[r] \cup {part[r]} ELSE unread[r]
  BY <1>t, <1>a DEF Conclude, Typed, TypeOK
<1>p. /\ part[r] \in 1 .. MaxParts + 1 /\ MaxParts \in Nat
      /\ OpenedParts(r) \subseteq 1 .. MaxParts /\ PartsOf(payload[r]) \subseteq 1 .. MaxParts
      /\ part[r] \in 1 .. MaxParts
      /\ \A p \in 1 .. MaxParts : p < part[r] + 1 => p < part[r] \/ p = part[r]
  BY <1>t, <1>a, PartFacts
<1>o. OpenedParts(r)' = OpenedParts(r)
  BY <1>a DEF OpenedParts
\* What this part's own call left.
<1>c. /\ reply[<<r, part[r]>>] # "pending"
      /\ part[r] \in OpenedParts(r) =>
            /\ layer2 => reply[<<r, part[r]>>] # "unsent"
            /\ ~layer2 => reply[<<r, part[r]>>] = "unsent"
      /\ skipped[r] # "none" => skipped'[r] # "none"
      /\ reply[<<r, part[r]>>] \notin {"ok", "unsent"} => skipped'[r] # "none"
  <2>1. CASE PassOver(r) \/ ReadWithLayer1(r)
    <3>1. reply[<<r, part[r]>>] = "unsent" /\ skipped' = skipped /\ pc[r] = "inspecting"
      BY <1>t, <1>p, <2>1 DEF Account, FutureIsUnsent, PassOver, ReadWithLayer1
    <3>2. part[r] \in OpenedParts(r) => ~layer2
      BY <2>1 DEF PassOver, ReadWithLayer1, OpenedParts
    <3>3. QED
      BY <3>1, <3>2
  <2>2. CASE ReturnFromLayer2(r)
    <3>1. /\ reply[<<r, part[r]>>] \in Ner!Final /\ pc[r] = "waiting"
          /\ skipped'[r] = SkippedAfter(skipped[r], reply[<<r, part[r]>>])
      BY <1>t, <2>2 DEF ReturnFromLayer2, Call, Typed, TypeOK
    <3>2. reply[<<r, part[r]>>] \notin {"pending", "unsent"}
      BY <3>1 DEF Ner!Final, Ner!Unavailable
    <3>3. /\ skipped[r] # "none" => skipped'[r] # "none"
          /\ reply[<<r, part[r]>>] # "ok" => skipped'[r] # "none"
      BY <3>1 DEF SkippedAfter, SkipReason
    <3>4. layer2
      BY <1>t, <3>1 DEF Account, LayerIsUniform
    <3>5. QED
      BY <3>1, <3>2, <3>3, <3>4
  <2>3. QED
    BY <2>1, <2>2
<1>1. NewAtFirst(r)'
  BY <1>a DEF NewAtFirst
<1>2. FutureIsUnsent(r)'
  <2>1. \A p \in 1 .. MaxParts : p > part[r] + 1 \/ p = part[r] + 1 => p > part[r]
    BY <1>p
  <2>2. QED
    BY <1>t, <1>a, <1>b, <2>1 DEF Account, FutureIsUnsent
<1>3. PastIsSettled(r)'
  BY <1>t, <1>a, <1>b, <1>c, <1>p DEF Account, PastIsSettled
<1>4. UnreadIsNoted(r)'
  BY <1>t, <1>a, <1>b, <1>p DEF Account, UnreadIsNoted
<1>5. SkipsAreNoted(r)'
  BY <1>t, <1>a, <1>b, <1>c, <1>o, <1>p DEF Account, SkipsAreNoted
<1>6. LayerIsUniform(r)'
  BY <1>t, <1>a, <1>b, <1>c, <1>o, <1>p DEF Account, LayerIsUniform
<1>7. SentIsJudged(r)'
  <2>1. ~SentInspected(r)
    BY <1>a, OpenIsUnsent DEF AInv
  <2>2. QED
    BY <1>a, <2>1 DEF SentIsJudged, SentInspected, Sent
<1>8. NotesAreExact(r)'
  <2>1. PICK found : /\ findings'[r] = findings[r] \cup found
                     /\ \A x \in found : x[2] \in NerKinds =>
                                            reply[<<r, part[r]>>] = "ok"
                     /\ \A x \in found : x[1] = part[r]
                     /\ part[r] \in OpenedParts(r) /\ reply[<<r, part[r]>>] = "ok" =>
                           Layer2Items(payload[r], part[r]) \subseteq found
    <3>1. CASE PassOver(r)
      <4> DEFINE nothing == {}
      <4>1. findings'[r] = findings[r] \cup nothing /\ \A x \in nothing : FALSE
        BY <1>t, <3>1 DEF PassOver, Conclude, Typed, TypeOK
      <4>2. part[r] \notin OpenedParts(r)
        BY <3>1 DEF PassOver, OpenedParts
      <4> HIDE DEF nothing
      <4>3. QED
        BY <4>1, <4>2
    <3>2. CASE ReadWithLayer1(r)
      <4>1. reply[<<r, part[r]>>] = "unsent"
        BY <1>t, <1>p, <3>2 DEF Account, FutureIsUnsent, ReadWithLayer1
      <4>2. /\ findings'[r] = findings[r] \cup Layer1Items(payload[r], part[r])
            /\ \A x \in Layer1Items(payload[r], part[r]) : x[1] = part[r] /\ x[2] \notin NerKinds
        BY <1>t, <3>2 DEF ReadWithLayer1, Conclude, Layer1Items, Typed, TypeOK
      <4>3. QED
        BY <4>1, <4>2
    <3>3. CASE ReturnFromLayer2(r)
      <4> DEFINE left == Layer1Items(payload[r], part[r])
                         \cup IF reply[Call(r)] = "ok" THEN Layer2Items(payload[r], part[r]) ELSE {}
      <4>1. findings'[r] = findings[r] \cup left
        BY <1>t, <3>3 DEF ReturnFromLayer2, Conclude, Typed, TypeOK
      <4>2. \A x \in left : x[1] = part[r] /\ (x[2] \in NerKinds => reply[<<r, part[r]>>] = "ok")
        BY DEF Layer1Items, Layer2Items, Call
      <4>3. reply[<<r, part[r]>>] = "ok" => Layer2Items(payload[r], part[r]) \subseteq left
        BY DEF Call
      <4> HIDE DEF left
      <4>4. QED
        BY <4>1, <4>2, <4>3
    <3>4. QED
      BY <3>1, <3>2, <3>3
  <2>2. \A x \in findings'[r] :
           x[1] < part[r] + 1 /\ (x[2] \in NerKinds => reply[<<r, x[1]>>] = "ok")
    <3>1. \A x \in findings[r] : x[1] \in 1 .. MaxParts
      BY <1>t DEF Typed, TypeOK, AllItems
    <3>2. QED
      BY <1>t, <1>p, <2>1, <3>1 DEF Account, NotesAreExact
  <2>3. \A p \in OpenedParts(r) :
           p < part[r] + 1 /\ reply[<<r, p>>] = "ok" =>
               Layer2Items(payload[r], p) \subseteq findings'[r]
    BY <1>t, <1>p, <2>1 DEF Account, NotesAreExact
  <2>4. \A p \in unread'[r] : p \in PartsOf(payload[r]) /\ Unread(config, payload[r], p)
    BY <1>t, <1>a, <1>b, PartFacts DEF Account, NotesAreExact
  <2>5. QED
    BY <1>a, <1>b, <1>o, <2>2, <2>3, <2>4 DEF NotesAreExact
<1>9. QED
  BY <1>1, <1>2, <1>3, <1>4, <1>5, <1>6, <1>7, <1>8 DEF Account

(* What is sent is recorded in the same step, after the last part, and not *)
(* under fail_closed when an answer is missing.                            *)
LEMMA ForwardKeepsAccount ==
    ASSUME AInv, NEW r \in Requests, Forward(r)
    PROVE  Account(r)'
<1>a. /\ Typed /\ Account(r) /\ pc[r] = "inspecting" /\ ~Pending(r) /\ ~RefusedByPolicy(r)
      /\ config' = config /\ payload' = payload
      /\ part' = part /\ findings' = findings /\ skipped' = skipped /\ unread' = unread
      /\ reply' = reply
      /\ pc'[r] = "sending" /\ trail'[r] = RequestTrail(r)
  BY DEF AInv, IInv, Accounts, Forward, Judged, Record, inspectVars, nerVars, Typed, TypeOK
<1>o. OpenedParts(r)' = OpenedParts(r)
  BY <1>a DEF OpenedParts
<1>1. NewAtFirst(r)' /\ UnreadIsNoted(r)' /\ PastIsSettled(r)'
  BY <1>a DEF Account, NewAtFirst, UnreadIsNoted, PastIsSettled
<1>2. FutureIsUnsent(r)'
  BY <1>a DEF Account, FutureIsUnsent
<1>3. SkipsAreNoted(r)'
  BY <1>a, <1>o DEF Account, SkipsAreNoted
<1>4. LayerIsUniform(r)'
  BY <1>a DEF LayerIsUniform
<1>5. SentIsJudged(r)'
  <2>1. \A p \in OpenedParts(r) : p < part[r]
    BY <1>a, PartFacts
  <2>2. \/ \A p \in OpenedParts(r) : reply[<<r, p>>] # "unsent"
        \/ \A p \in OpenedParts(r) : reply[<<r, p>>] = "unsent"
    BY <1>a, <2>1 DEF Account, LayerIsUniform
  <2>3. config.failClosed => skipped[r] = "none"
    BY <1>a DEF RefusedByPolicy
  <2>4. ~Pending(r)' /\ trail'[r] = RequestTrail(r)'
    BY <1>a DEF Pending, Parts, RequestTrail
  <2>5. QED
    BY <1>a, <1>o, <2>2, <2>3, <2>4 DEF SentIsJudged
<1>6. NotesAreExact(r)'
  BY <1>a, <1>o DEF Account, NotesAreExact
<1>7. QED
  BY <1>1, <1>2, <1>3, <1>4, <1>5, <1>6 DEF Account

-----------------------------------------------------------------------------
(* What a step of one handler leaves alone in the others.                  *)
HandlerStep(r) ==
    \/ NoProvider(r) \/ BadBody(r) \/ ForwardUninspected(r) \/ BeginInspection(r)
    \/ InspectionStep(r)
    \/ TimerFires(r)
    \/ UpstreamAnswers(r) \/ UpstreamFails(r)
    \/ HangUp(r)
SameFor(q) ==
    /\ pc'[q] = pc[q] /\ part'[q] = part[q] /\ findings'[q] = findings[q]
    /\ skipped'[q] = skipped[q] /\ unread'[q] = unread[q]
    /\ wire'[q] = wire[q] /\ trail'[q] = trail[q]

LEMMA HandlersAreApart ==
    ASSUME Typed, NEW r \in Requests, HandlerStep(r), NEW q \in Requests \ {r}
    PROVE  /\ config' = config /\ payload' = payload /\ layer2' = layer2
           /\ SameFor(q)
<1>d. /\ DOMAIN pc = Requests /\ DOMAIN part = Requests /\ DOMAIN findings = Requests
      /\ DOMAIN skipped = Requests /\ DOMAIN unread = Requests
      /\ DOMAIN wire = Requests /\ DOMAIN trail = Requests
  BY DEF Typed, TypeOK
<1> USE DEF SameFor, inspectVars, resultVars
<1>1. CASE NoProvider(r) \/ BadBody(r) \/ ForwardUninspected(r) \/ BeginInspection(r)
  BY <1>d, <1>1 DEF NoProvider, BadBody, ForwardUninspected, BeginInspection, Finish
<1>2. CASE PassOver(r) \/ ReadWithLayer1(r) \/ ReturnFromLayer2(r) \/ CallLayer2(r)
  BY <1>d, <1>2 DEF PassOver, ReadWithLayer1, ReturnFromLayer2, CallLayer2, Conclude
<1>3. CASE RefuseUninspected(r) \/ Block(r) \/ MaskingFails(r) \/ Forward(r)
  BY <1>d, <1>3 DEF RefuseUninspected, Block, MaskingFails, Forward, Finish, Record
<1>4. CASE TimerFires(r) \/ UpstreamAnswers(r) \/ UpstreamFails(r) \/ HangUp(r)
  BY <1>d, <1>4 DEF TimerFires, UpstreamAnswers, UpstreamFails, HangUp, Finish
<1>5. QED
  BY <1>1, <1>2, <1>3, <1>4 DEF HandlerStep, InspectionStep

(* Whatever a handler does, the answers other requests have only settle.   *)
LEMMA AnswersAreApart ==
    ASSUME Typed, NEW r \in Requests, HandlerStep(r),
           NEW q \in Requests, q # r \/ ~CallLayer2(r),
           NEW p \in 1 .. MaxParts
    PROVE  Settles(<<q, p>>)
<1>a. Ner!TypeOK /\ <<q, p>> \in Calls
  BY DEF Typed, TypeOK, Calls
<1>1. CASE CallLayer2(r)
  <2>1. /\ Ner!Submit(Call(r)) /\ Call(r) \in Calls /\ Call(r) = <<r, part[r]>>
    BY <1>1, CallType DEF CallLayer2, Call
  <2>2. <<q, p>> # <<r, part[r]>>
    BY <1>1
  <2>3. QED
    BY <1>a, <2>1, <2>2, SubmitStarts DEF Settles
<1>2. CASE TimerFires(r) \/ HangUp(r)
  <2>1. \/ UNCHANGED nerVars
        \/ Call(r) \in Calls /\ (Ner!TimeOut(Call(r)) \/ Ner!Cancel(Call(r)))
    BY <1>2, CallType DEF TimerFires, HangUp, Typed, WaitingOnAPart
  <2>2. QED
    BY <1>a, <2>1, AnswersSettle
<1>3. CASE ~CallLayer2(r) /\ ~TimerFires(r) /\ ~HangUp(r)
  <2>1. UNCHANGED nerVars
    BY <1>3 DEF HandlerStep, InspectionStep, NoProvider, BadBody, ForwardUninspected,
                BeginInspection, PassOver, ReadWithLayer1, ReturnFromLayer2,
                RefuseUninspected, Block, MaskingFails, Forward, UpstreamAnswers, UpstreamFails
  <2>2. QED
    BY <1>a, <2>1, AnswersSettle
<1>4. QED
  BY <1>1, <1>2, <1>3

LEMMA StepAInv == AInv /\ [Next]_vars => AInv'
<1> SUFFICES ASSUME AInv, [Next]_vars PROVE AInv'
  OBVIOUS
<1>t. IInv /\ IInv' /\ Typed /\ \A r \in Requests : Account(r)
  BY StepIInv DEF AInv, Accounts, IInv
<1>1. ASSUME NEW r \in Requests, HandlerStep(r), NEW q \in Requests \ {r} PROVE Account(q)'
  <2>1. /\ config' = config /\ payload' = payload /\ layer2' = layer2
        /\ SameFor(q)
    BY <1>t, <1>1, HandlersAreApart
  <2>2. \A p \in 1 .. MaxParts : Settles(<<q, p>>)
    BY <1>t, <1>1, AnswersAreApart
  <2>3. SentInspected(q)' => SentInspected(q) /\ trail'[q] = trail[q]
    BY <2>1 DEF SentInspected, Sent, SameFor
  <2>4. QED
    BY <1>t, <2>1, <2>2, <2>3, AccountStands DEF SameFor
\* The handler's own account, where it neither concludes a part, calls nor sends.
<1>2. ASSUME NEW r \in Requests,
             \/ NoProvider(r) \/ BadBody(r) \/ ForwardUninspected(r) \/ BeginInspection(r)
             \/ RefuseUninspected(r) \/ Block(r) \/ MaskingFails(r)
             \/ TimerFires(r) \/ UpstreamAnswers(r) \/ UpstreamFails(r) \/ HangUp(r)
      PROVE  Account(r)'
  <2> USE DEF inspectVars, resultVars
  <2>d. DOMAIN pc = Requests /\ DOMAIN wire = Requests /\ DOMAIN trail = Requests
    BY <1>t DEF Typed, TypeOK
  <2>1. /\ UNCHANGED <<config, payload, layer2>> /\ UNCHANGED inspectVars
        /\ pc'[r] = "new" => pc[r] = "new"
        /\ pc'[r] = "inspecting" => pc[r] \in {"new", "inspecting"}
        /\ pc'[r] = "waiting" => pc[r] = "waiting"
    BY <1>2, <2>d DEF NoProvider, BadBody, ForwardUninspected, BeginInspection, RefuseUninspected,
        Block, MaskingFails, TimerFires, UpstreamAnswers, UpstreamFails, HangUp, Finish
  <2>2. ~CallLayer2(r)
    <3>1. pc'[r] = "waiting" => pc[r] = "waiting"
      BY <2>1
    <3>2. CallLayer2(r) => pc'[r] = "waiting" /\ pc[r] = "inspecting"
      BY <2>d DEF CallLayer2
    <3>3. QED
      BY <3>1, <3>2
  <2>3. HandlerStep(r)
    BY <1>2 DEF HandlerStep, InspectionStep
  <2>4. \A p \in 1 .. MaxParts : Settles(<<r, p>>)
    BY <1>t, <2>2, <2>3, AnswersAreApart
  <2>5. SentInspected(r)' => SentInspected(r) /\ trail'[r] = trail[r]
    <3>1. CASE ForwardUninspected(r)
      BY <3>1 DEF ForwardUninspected, SentInspected
    <3>2. CASE Block(r) \/ MaskingFails(r)
      <4>1. ~SentInspected(r)
        BY <1>t, <3>2, OpenIsUnsent DEF Block, MaskingFails, Judged
      <4>2. wire' = wire
        BY <3>2 DEF Block, MaskingFails
      <4>3. QED
        BY <2>1, <4>1, <4>2 DEF SentInspected, Sent
    <3>3. CASE \/ NoProvider(r) \/ BadBody(r) \/ BeginInspection(r) \/ RefuseUninspected(r)
               \/ TimerFires(r) \/ UpstreamAnswers(r) \/ UpstreamFails(r) \/ HangUp(r)
      <4>1. wire' = wire /\ trail' = trail
        BY <3>3 DEF NoProvider, BadBody, BeginInspection, RefuseUninspected, TimerFires,
                    UpstreamAnswers, UpstreamFails, HangUp
      <4>2. QED
        BY <2>1, <4>1 DEF SentInspected, Sent
    <3>4. QED
      BY <1>2, <3>1, <3>2, <3>3
  <2>6. QED
    BY <1>t, <2>1, <2>4, <2>5, AccountStands
<1>3. ASSUME NEW r \in Requests, HandlerStep(r) PROVE Accounts'
  <2>1. Account(r)'
    <3>1. CASE CallLayer2(r)
      BY <3>1, CallKeepsAccount
    <3>2. CASE PassOver(r) \/ ReadWithLayer1(r) \/ ReturnFromLayer2(r)
      BY <3>2, ConcludingKeepsAccount
    <3>3. CASE Forward(r)
      BY <3>3, ForwardKeepsAccount
    <3>4. QED
      BY <1>2, <1>3, <3>1, <3>2, <3>3 DEF HandlerStep, InspectionStep
  <2>2. QED
    BY <1>1, <1>3, <2>1 DEF Accounts
<1>4. ASSUME WorkerTakes \/ WorkerAnswers \/ WorkerDies \/ Restart \/ UNCHANGED vars
      PROVE  Accounts'
  <2> SUFFICES ASSUME NEW q \in Requests PROVE Account(q)'
    BY DEF Accounts
  <2>1. /\ config' = config /\ payload' = payload
        /\ part' = part /\ findings' = findings /\ skipped' = skipped /\ unread' = unread
        /\ wire' = wire /\ trail' = trail
    BY <1>4 DEF WorkerTakes, WorkerAnswers, WorkerDies, Restart, vars, inspectVars, resultVars
  <2>2. /\ pc'[q] = "new" => pc[q] = "new"
        /\ pc'[q] = "inspecting" => pc[q] = "inspecting" /\ layer2' = layer2
        /\ pc'[q] = "waiting" => pc[q] = "waiting" /\ layer2' = layer2
    BY <1>4 DEF WorkerTakes, WorkerAnswers, WorkerDies, Restart, vars
  <2>3. ASSUME NEW p \in 1 .. MaxParts PROVE Settles(<<q, p>>)
    <3>1. Ner!TypeOK /\ <<q, p>> \in Calls
      BY <1>t DEF Typed, TypeOK, Calls
    <3>2. \/ UNCHANGED nerVars
          \/ \E c \in Calls, result \in {"ok", "error"} : Ner!Answer(c, result)
          \/ Ner!Take \/ Ner!Die \/ Ner!Restart
      BY <1>4 DEF WorkerTakes, WorkerAnswers, WorkerDies, Restart, vars
    <3>3. QED
      BY <3>1, <3>2, AnswersSettle
  <2>4. SentInspected(q)' => SentInspected(q) /\ trail'[q] = trail[q]
    BY <2>1 DEF SentInspected, Sent
  <2>5. QED
    BY <1>t, <2>1, <2>2, <2>3, <2>4, AccountStands
<1>5. Accounts'
  <2>1. \/ \E r \in Requests : HandlerStep(r)
        \/ WorkerTakes \/ WorkerAnswers \/ WorkerDies \/ Restart \/ UNCHANGED vars
    BY DEF Next, HandlerStep
  <2>2. QED
    BY <1>3, <1>4, <2>1
<1>6. QED
  BY <1>t, <1>5 DEF AInv

(* Every reachable state accounts for every request.                       *)
THEOREM Accounted == Spec => []AInv
<1>1. QED
  BY InitAInv, StepAInv, PTL DEF Spec

-----------------------------------------------------------------------------
(* Whatever was sent has its events: what layer 1 sees in any part, every  *)
(* part that was not read whole, and a missing answer of layer 2, for any  *)
(* number of parts and requests.                                           *)
THEOREM NothingSentIsUnaccounted == Spec => []SentIsAudited
<1>1. AInv => SentIsAudited
  <2> SUFFICES ASSUME AInv, NEW r \in Requests, SentInspected(r)
               PROVE  /\ \A p \in OpenedParts(r) : \A x \in Layer1Items(payload[r], p) :
                            PiiDetected(x, DecisionOn(config, payload[r], x)) \in trail[r]
                      /\ \A p \in PartsOf(payload[r]) :
                            Unread(config, payload[r], p) => AttachmentSkipped(p) \in trail[r]
                      /\ (\E p \in OpenedParts(r) : reply[<<r, p>>] \notin {"ok", "unsent"}) =>
                            \E reason \in Reasons : InspectionTimeout(reason) \in trail[r]
    BY DEF SentIsAudited
  <2>1. /\ Typed /\ Account(r) /\ CoversWhatItRead
        /\ ~Pending(r) /\ trail[r] = RequestTrail(r)
    BY DEF AInv, IInv, Accounts, Account, SentIsJudged
  <2>2. /\ \A p \in PartsOf(payload[r]) : p < part[r]
        /\ OpenedParts(r) \subseteq PartsOf(payload[r])
    BY <2>1, PartFacts
  <2>3. ASSUME NEW p \in OpenedParts(r), NEW x \in Layer1Items(payload[r], p)
        PROVE  PiiDetected(x, DecisionOn(config, payload[r], x)) \in trail[r]
    <3>1. x \in findings[r]
      BY <2>1, <2>2 DEF CoversWhatItRead
    <3>2. QED
      BY <2>1, <3>1 DEF RequestTrail, Trail
  <2>4. ASSUME NEW p \in PartsOf(payload[r]), Unread(config, payload[r], p)
        PROVE  AttachmentSkipped(p) \in trail[r]
    <3>1. p \in unread[r]
      BY <2>1, <2>2, <2>4 DEF Account, UnreadIsNoted
    <3>2. QED
      BY <2>1, <3>1 DEF RequestTrail, Trail
  <2>5. ASSUME NEW p \in OpenedParts(r), reply[<<r, p>>] \notin {"ok", "unsent"}
        PROVE  \E reason \in Reasons : InspectionTimeout(reason) \in trail[r]
    <3>1. skipped[r] # "none" /\ skipped[r] \in Reasons
      BY <2>1, <2>2, <2>5 DEF Account, SkipsAreNoted, Typed, TypeOK
    <3>2. InspectionTimeout(skipped[r]) \in trail[r]
      BY <2>1, <3>1 DEF RequestTrail, Trail
    <3>3. QED
      BY <3>1, <3>2
  <2>6. QED
    BY <2>3, <2>4, <2>5
<1>2. QED
  BY <1>1, Accounted, PTL

(* Under fail_closed no request leaves with layer 2's answer for some of   *)
(* its parts only, for any number of parts and whatever the worker, the    *)
(* timers and restarts do to the calls.                                    *)
THEOREM FailClosedHolds == Spec => []FailClosedIsAllOrNothing
<1>1. AInv => FailClosedIsAllOrNothing
  <2> SUFFICES ASSUME AInv, NEW r \in Requests, config.failClosed, SentInspected(r)
               PROVE  \E answer \in {"ok", "unsent"} :
                         \A p \in OpenedParts(r) : reply[<<r, p>>] = answer
    BY DEF FailClosedIsAllOrNothing
  <2>1. /\ Typed /\ Account(r) /\ ~Pending(r) /\ skipped[r] = "none"
        /\ \/ \A p \in OpenedParts(r) : reply[<<r, p>>] # "unsent"
           \/ \A p \in OpenedParts(r) : reply[<<r, p>>] = "unsent"
    BY DEF AInv, IInv, Accounts, Account, SentIsJudged
  <2>2. \A p \in OpenedParts(r) : reply[<<r, p>>] \in {"ok", "unsent"}
    BY <2>1, PartFacts DEF Account, SkipsAreNoted
  <2>3. QED
    BY <2>1, <2>2
<1>2. QED
  BY <1>1, Accounted, PTL

-----------------------------------------------------------------------------
Outcomes == [r \in Requests |-> Outcome(r)]

(* PrivacyGate's instance of Policy defines what Gateway's own does.       *)
LEMMA SamePolicy ==
    ASSUME NEW cfg \in Configs, NEW pl \in Payloads, NEW F
    PROVE  /\ Gate!Blocked = Blocked /\ Gate!Masked = Masked
           /\ Gate!PartsOf(pl) = PartsOf(pl) /\ Gate!Items(pl) = Items(pl)
           /\ Gate!Inspected(cfg, pl) = Inspected(cfg, pl)
           /\ \A p : /\ Gate!Opens(cfg, pl, p) = Opens(cfg, pl, p)
                     /\ Gate!Unread(cfg, pl, p) = Unread(cfg, pl, p)
                     /\ Gate!Layer1Items(pl, p) = Layer1Items(pl, p)
                     /\ Gate!Layer2Items(pl, p) = Layer2Items(pl, p)
           /\ Gate!Overall(cfg, pl, F) = Overall(cfg, pl, F)
           /\ Gate!Rewritten(cfg, pl, F) = Rewritten(cfg, pl, F)
           /\ \A missed, reason :
                 Gate!Trail(cfg, pl, F, missed, reason) = Trail(cfg, pl, F, missed, reason)
<1>1. /\ Gate!Blocked = Blocked /\ Gate!Masked = Masked /\ Gate!Advised = Advised
      /\ Gate!Observed = Observed /\ Gate!Decisions = Decisions
      /\ Gate!ChecksumKinds = ChecksumKinds /\ Gate!NerKinds = NerKinds
      /\ Gate!DataKind = DataKind
  BY DEF Gate!Blocked, Blocked, Gate!Masked, Masked, Gate!Advised, Advised, Gate!Observed,
         Observed, Gate!Decisions, Decisions, Gate!ChecksumKinds, ChecksumKinds,
         Gate!NerKinds, NerKinds, Gate!DataKind, DataKind, Gate!ShapeKinds, ShapeKinds
<1>2. Gate!PartsOf(pl) = PartsOf(pl)
  BY DEF Gate!PartsOf, PartsOf
<1>3. Gate!Items(pl) = Items(pl)
  BY <1>1, <1>2 DEF Gate!Items, Items
<1>4. Gate!Inspected(cfg, pl) = Inspected(cfg, pl)
  BY DEF Gate!Inspected, Inspected
<1>5. \A p : /\ Gate!Opens(cfg, pl, p) = Opens(cfg, pl, p)
            /\ Gate!Unread(cfg, pl, p) = Unread(cfg, pl, p)
  BY DEF Gate!Opens, Opens, Gate!Unread, Unread, Gate!Visited, Visited
<1>6. \A p : /\ Gate!Layer1Items(pl, p) = Layer1Items(pl, p)
            /\ Gate!Layer2Items(pl, p) = Layer2Items(pl, p)
  BY <1>1 DEF Gate!Layer1Items, Layer1Items, Gate!Layer2Items, Layer2Items
<1>7. \A k : Gate!KindMax(k) = KindMax(k)
  BY <1>1 DEF Gate!KindMax, KindMax, Gate!Lesser, Lesser, Gate!LayerMax, LayerMax,
              Gate!EvidenceMax, EvidenceMax, Gate!Layer, Layer, Gate!Evidence, Evidence
<1>8. \A k : Gate!ClampDecision(cfg, k) = ClampDecision(cfg, k)
  BY <1>1, <1>7 DEF Gate!ClampDecision, ClampDecision, Gate!Lesser, Lesser, Gate!ModeFor, ModeFor
<1>9. \A x : Gate!DecisionOn(cfg, pl, x) = DecisionOn(cfg, pl, x)
  BY <1>1, <1>8 DEF Gate!DecisionOn, DecisionOn
<1>10. Gate!Overall(cfg, pl, F) = Overall(cfg, pl, F)
  <2> DEFINE D(x) == DecisionOn(cfg, pl, x)
             IsMax(d) == /\ \A x \in F : D(x) <= d
                         /\ d = Observed \/ \E x \in F : D(x) = d
             GateMax(d) == /\ \A x \in F : Gate!DecisionOn(cfg, pl, x) <= d
                           /\ d = Gate!Observed \/ \E x \in F : Gate!DecisionOn(cfg, pl, x) = d
  <2>1. Gate!Overall(cfg, pl, F) = CHOOSE d \in Gate!Decisions : GateMax(d)
    BY DEF Gate!Overall
  <2>2. Overall(cfg, pl, F) \in Decisions /\ IsMax(Overall(cfg, pl, F))
    BY OverallIsStrongest
  <2>3. Gate!Overall(cfg, pl, F) \in Decisions /\ IsMax(Gate!Overall(cfg, pl, F))
    <3>1. \A d : GateMax(d) <=> IsMax(d)
      BY <1>1, <1>9
    <3> HIDE DEF GateMax, IsMax
    <3>2. QED
      BY <1>1, <2>1, <2>2, <3>1
  <2>4. \A x : D(x) \in 0 .. 3
    BY DecisionTypes DEF Decisions, Observed, Blocked
  <2> HIDE DEF D
  <2>5. \A d, e \in 0 .. 3 : IsMax(d) /\ IsMax(e) => d = e
    BY <2>4 DEF Observed
  <2>6. QED
    BY <2>2, <2>3, <2>5 DEF Decisions, Observed, Blocked
<1>11. Gate!Rewritten(cfg, pl, F) = Rewritten(cfg, pl, F)
  BY <1>1, <1>9 DEF Gate!Rewritten, Rewritten
<1>12. \A missed, reason :
          Gate!Trail(cfg, pl, F, missed, reason) = Trail(cfg, pl, F, missed, reason)
  <2>1. {Gate!PiiDetected(x, Gate!DecisionOn(cfg, pl, x)) : x \in F}
          = {PiiDetected(x, DecisionOn(cfg, pl, x)) : x \in F}
    BY <1>9 DEF Gate!PiiDetected, PiiDetected
  <2>2. /\ \A d : Gate!DecisionMade(d) = DecisionMade(d)
        /\ \A p : Gate!AttachmentSkipped(p) = AttachmentSkipped(p)
        /\ \A reason : Gate!InspectionTimeout(reason) = InspectionTimeout(reason)
    BY DEF Gate!DecisionMade, DecisionMade, Gate!AttachmentSkipped, AttachmentSkipped,
           Gate!InspectionTimeout, InspectionTimeout
  <2>3. QED
    BY <1>10, <2>1, <2>2 DEF Gate!Trail, Trail
<1>13. QED
  BY <1>1, <1>2, <1>3, <1>4, <1>5, <1>6, <1>10, <1>11, <1>12

(* The parts layer 2 answered for are those the judgement read with it.    *)
AnsweredParts(r) == {p \in OpenedParts(r) : reply[<<r, p>>] = "ok"}

(* After its last part a handler holds exactly what PrivacyGate judges on. *)
LEMMA JudgedOnEverything ==
    ASSUME AInv, NEW r \in Requests, Judged(r)
    PROVE  /\ findings[r] = Gate!FoundWith(r, AnsweredParts(r))
           /\ unread[r] = {p \in PartsOf(payload[r]) : Unread(config, payload[r], p)}
           /\ skipped[r] = "none" => AnsweredParts(r) \in {{}, OpenedParts(r)}
<1>a. /\ Typed /\ Account(r) /\ CoversWhatItRead /\ FindingsAreReal
      /\ pc[r] = "inspecting" /\ ~Pending(r)
  BY DEF AInv, IInv, Accounts, Judged
<1>p. /\ \A p \in PartsOf(payload[r]) : p < part[r]
      /\ OpenedParts(r) \subseteq PartsOf(payload[r])
  BY <1>a, PartFacts
<1>f. Gate!FoundWith(r, AnsweredParts(r)) =
         (UNION {Layer1Items(payload[r], p) : p \in OpenedParts(r)})
         \cup (UNION {Layer2Items(payload[r], p) : p \in AnsweredParts(r)})
  <2>1. config \in Configs /\ payload[r] \in Payloads
    BY <1>a DEF Typed, TypeOK
  <2>2. Gate!Opened(r) = OpenedParts(r)
    BY <2>1, SamePolicy DEF Gate!Opened, OpenedParts
  <2>3. \A p : /\ Gate!Layer1Items(payload[r], p) = Layer1Items(payload[r], p)
              /\ Gate!Layer2Items(payload[r], p) = Layer2Items(payload[r], p)
    BY <2>1, SamePolicy
  <2>4. QED
    BY <2>2, <2>3 DEF Gate!FoundWith
<1>1. findings[r] \subseteq Gate!FoundWith(r, AnsweredParts(r))
  <2> SUFFICES ASSUME NEW x \in findings[r] PROVE x \in Gate!FoundWith(r, AnsweredParts(r))
    OBVIOUS
  <2>1. /\ x \in PartsOf(payload[r]) \X DataKind /\ x[2] \in payload[r].parts[x[1]].kinds
        /\ x[1] \in OpenedParts(r)
        /\ x[2] \in NerKinds => reply[<<r, x[1]>>] = "ok"
    BY <1>a DEF FindingsAreReal, Items, Account, NotesAreExact
  <2>2. x = <<x[1], x[2]>>
    BY <2>1
  <2>3. CASE x[2] \in NerKinds
    <3>1. x \in Layer2Items(payload[r], x[1]) /\ x[1] \in AnsweredParts(r)
      BY <2>1, <2>2, <2>3 DEF Layer2Items, AnsweredParts
    <3>2. QED
      BY <1>f, <3>1
  <2>4. CASE x[2] \notin NerKinds
    <3>1. x \in Layer1Items(payload[r], x[1])
      BY <2>1, <2>2, <2>4 DEF Layer1Items
    <3>2. QED
      BY <1>f, <2>1, <3>1
  <2>5. QED
    BY <2>3, <2>4
<1>2. Gate!FoundWith(r, AnsweredParts(r)) \subseteq findings[r]
  <2>1. \A p \in OpenedParts(r) : Layer1Items(payload[r], p) \subseteq findings[r]
    BY <1>a, <1>p DEF CoversWhatItRead
  <2>2. \A p \in AnsweredParts(r) : Layer2Items(payload[r], p) \subseteq findings[r]
    BY <1>a, <1>p DEF AnsweredParts, Account, NotesAreExact
  <2>3. QED
    BY <1>f, <2>1, <2>2
<1>3. unread[r] = {p \in PartsOf(payload[r]) : Unread(config, payload[r], p)}
  BY <1>a, <1>p DEF Account, NotesAreExact, UnreadIsNoted
<1>4. ASSUME skipped[r] = "none" PROVE AnsweredParts(r) \in {{}, OpenedParts(r)}
  <2>1. \A p \in OpenedParts(r) : reply[<<r, p>>] \in {"ok", "unsent"}
    BY <1>a, <1>p, <1>4 DEF Account, SkipsAreNoted
  <2>2. \/ \A p \in OpenedParts(r) : reply[<<r, p>>] # "unsent"
        \/ \A p \in OpenedParts(r) : reply[<<r, p>>] = "unsent"
    BY <1>a, <1>p DEF Account, LayerIsUniform
  <2>3. QED
    BY <2>1, <2>2 DEF AnsweredParts
<1>5. QED
  BY <1>1, <1>2, <1>3, <1>4

(* A verdict below Masked rewrites nothing, so an original body sent       *)
(* without a masked one is what PrivacyGate sends.                         *)
LEMMA NothingToRewrite ==
    ASSUME Typed, NEW r \in Requests, Verdict(r) # Blocked,
           ~HasMaskedBody(config, payload[r], findings[r])
    PROVE  Rewritten(config, payload[r], findings[r]) = {}
<1>1. /\ config \in Configs /\ payload[r] \in Payloads
  BY DEF Typed, TypeOK
<1>2. /\ Verdict(r) \in 0 .. 2
      /\ \A x \in findings[r] : DecisionOn(config, payload[r], x) <= Verdict(r)
  BY <1>1, OverallIsStrongest DEF Verdict, Decisions, Observed, Blocked
<1>3. \A x : DecisionOn(config, payload[r], x) \in 0 .. 3
  BY <1>1, DecisionTypes DEF Decisions, Observed, Blocked
<1>4. CASE Verdict(r) = 2
  BY <1>4 DEF HasMaskedBody, Verdict, Masked
<1>5. CASE Verdict(r) # 2
  BY <1>2, <1>3, <1>5 DEF Rewritten, Masked
<1>6. QED
  BY <1>4, <1>5

-----------------------------------------------------------------------------
LEMMA InitIsGateInit == Init => Gate!Init
<1> SUFFICES ASSUME Init PROVE Gate!Init
  OBVIOUS
<1>1. \A r \in Requests : Outcome(r) = "open"
  BY DEF Init, Outcome, Sent
<1>2. QED
  BY <1>1 DEF Init, Gate!Init

(* Four ways a step of Gateway shows in PrivacyGate.  First: not at all.   *)
LEMMA Unseen ==
    ASSUME UNCHANGED <<config, payload, clear, trail>>,
           \A q \in Requests : Outcome(q)' = Outcome(q)
    PROVE  UNCHANGED Gate!gateVars
<1>1. QED
  BY DEF Gate!gateVars

LEMMA OthersKeepTheirOutcome ==
    ASSUME NEW r \in Requests, NEW o, Outcome(r)' = o,
           \A q \in Requests \ {r} : pc'[q] = pc[q] /\ wire'[q] = wire[q]
    PROVE  Outcomes' = [Outcomes EXCEPT ![r] = o]
<1>1. \A q \in Requests \ {r} : Outcome(q)' = Outcome(q)
  BY DEF Outcome, Sent
<1>2. QED
  BY <1>1 DEF Outcomes

(* Second: a request is refused without a judgement.                       *)
LEMMA Rejected ==
    ASSUME UNCHANGED <<config, payload, clear, trail>>, wire' = wire,
           NEW r \in Requests, ~Sent(r), pc[r] \notin {"done", "gone"},
           DOMAIN pc = Requests, pc' = [pc EXCEPT ![r] = "done"]
    PROVE  Gate!Next
<1>1. Outcome(r) = "open" /\ Outcome(r)' = "refused"
  BY DEF Outcome, Sent
<1>2. Outcomes' = [Outcomes EXCEPT ![r] = "refused"]
  BY <1>1, OthersKeepTheirOutcome
<1>3. Gate!Reject(r)
  BY <1>1, <1>2 DEF Gate!Reject, Outcomes
<1>4. QED
  BY <1>3 DEF Gate!Next

(* Third: handlers are dropped, those that had sent nothing are lost.      *)
LEMMA Dropped ==
    ASSUME UNCHANGED <<config, payload, clear, trail>>, wire' = wire,
           \A q \in Requests : pc'[q] = pc[q] \/ (pc[q] # "done" /\ pc'[q] = "gone")
    PROVE  Gate!Next \/ UNCHANGED Gate!gateVars
<1> DEFINE lost == {q \in Requests : Outcome(q) = "open" /\ pc'[q] = "gone"}
<1>1. \A q \in Requests : Outcome(q)' = IF q \in lost THEN "lost" ELSE Outcome(q)
  BY DEF Outcome, Sent
<1>2. CASE lost = {}
  <2>1. \A q \in Requests : Outcome(q)' = Outcome(q)
    BY <1>1, <1>2
  <2>2. QED
    BY <2>1, Unseen
<1>3. CASE lost # {}
  <2>1. Gate!Lose(lost)
    BY <1>1, <1>3 DEF Gate!Lose
  <2>2. lost \in SUBSET Requests
    OBVIOUS
  <2> HIDE DEF lost
  <2>3. QED
    BY <2>1, <2>2 DEF Gate!Next
<1>4. QED
  BY <1>2, <1>3

(* Fourth: a request is judged, and what is recorded, sent and kept back   *)
(* follows from one set of findings.                                       *)
LEMMA JudgedOnce ==
    ASSUME AInv, NEW r \in Requests, Judged(r), ~RefusedByPolicy(r),
           UNCHANGED <<config, payload>>, Record(r),
           \A q \in Requests \ {r} : pc'[q] = pc[q] /\ wire'[q] = wire[q],
           \/ /\ Verdict(r) < Blocked
              /\ Outcome(r)' = "released"
              /\ clear' = [clear EXCEPT ![r] =
                             Items(payload[r]) \ Rewritten(config, payload[r], findings[r])]
           \/ /\ Verdict(r) >= Masked
              /\ Outcome(r)' = "refused"
              /\ clear' = clear,
           Inspected(config, payload[r])
    PROVE  Gate!Next
<1> DEFINE read == AnsweredParts(r)
<1>t. /\ config \in Configs /\ payload[r] \in Payloads
      /\ skipped[r] \in {"none", "timedout", "unavailable"}
  BY DEF AInv, IInv, Typed, TypeOK, Reasons
<1>1. Outcome(r) = "open"
  BY DEF AInv, IInv, OpenIsUntouched, Judged, Outcome, Sent
<1>2. /\ findings[r] = Gate!FoundWith(r, read)
      /\ unread[r] = {p \in PartsOf(payload[r]) : Unread(config, payload[r], p)}
      /\ skipped[r] = "none" => read \in {{}, OpenedParts(r)}
  BY JudgedOnEverything
<1>3. Gate!Opened(r) = OpenedParts(r) /\ read \in SUBSET Gate!Opened(r)
  BY <1>t, SamePolicy DEF Gate!Opened, OpenedParts, AnsweredParts
<1>4. {p \in Gate!PartsOf(payload[r]) : Gate!Unread(config, payload[r], p)} = unread[r]
  BY <1>t, <1>2, SamePolicy
<1>5. /\ Gate!Overall(config, payload[r], findings[r]) = Verdict(r)
      /\ Gate!Rewritten(config, payload[r], findings[r])
           = Rewritten(config, payload[r], findings[r])
      /\ Gate!Items(payload[r]) = Items(payload[r])
      /\ Gate!Inspected(config, payload[r])
      /\ Gate!Trail(config, payload[r], findings[r], unread[r], skipped[r]) = RequestTrail(r)
      /\ Gate!Blocked = Blocked /\ Gate!Masked = Masked
  BY <1>t, SamePolicy DEF Verdict, RequestTrail
<1>6. \/ Outcome(r)' = "released" /\ Outcomes' = [Outcomes EXCEPT ![r] = "released"]
      \/ Outcome(r)' = "refused" /\ Outcomes' = [Outcomes EXCEPT ![r] = "refused"]
  BY OthersKeepTheirOutcome
<1> HIDE DEF read
<1>7. Gate!Judge(r, read, skipped[r])
  <2>1. /\ Outcomes[r] = "open"
        /\ Gate!Inspected(config, payload[r])
        /\ ~(config.failClosed /\ skipped[r] # "none")
        /\ skipped[r] = "none" => read \in {{}, Gate!Opened(r)}
        /\ UNCHANGED <<config, payload>>
    BY <1>1, <1>2, <1>3, <1>5 DEF RefusedByPolicy, Outcomes
  <2>2. trail' = [trail EXCEPT ![r] =
                    Gate!Trail(config, payload[r], Gate!FoundWith(r, read),
                               {p \in Gate!PartsOf(payload[r]) :
                                   Gate!Unread(config, payload[r], p)}, skipped[r])]
    BY <1>2, <1>4, <1>5 DEF Record
  <2>3. \/ /\ Gate!Overall(config, payload[r], Gate!FoundWith(r, read)) < Gate!Blocked
           /\ Outcomes' = [Outcomes EXCEPT ![r] = "released"]
           /\ clear' = [clear EXCEPT ![r] = Gate!Items(payload[r])
                          \ Gate!Rewritten(config, payload[r], Gate!FoundWith(r, read))]
        \/ /\ Gate!Overall(config, payload[r], Gate!FoundWith(r, read)) >= Gate!Masked
           /\ Outcomes' = [Outcomes EXCEPT ![r] = "refused"]
           /\ UNCHANGED clear
    BY <1>2, <1>5, <1>6
  <2>4. QED
    BY <2>1, <2>2, <2>3 DEF Gate!Judge, Outcomes
<1>8. QED
  BY <1>t, <1>3, <1>7 DEF Gate!Next

-----------------------------------------------------------------------------
(* Only what is to be inspected gets to the judgement.                     *)
OnlyInspectedIsRead ==
    \A r \in Requests : pc[r] \in {"inspecting", "waiting"} => Inspected(config, payload[r])

RInv == AInv /\ OnlyInspectedIsRead

LEMMA InitRInv == Init => RInv
<1>1. Init => OnlyInspectedIsRead
  BY DEF Init, OnlyInspectedIsRead
<1>2. QED
  BY <1>1, InitAInv DEF RInv

LEMMA StepRInv == RInv /\ [Next]_vars => RInv'
<1> SUFFICES ASSUME RInv, [Next]_vars PROVE RInv'
  OBVIOUS
<1>t. AInv /\ AInv' /\ Typed /\ OnlyInspectedIsRead
  BY StepAInv DEF RInv, AInv, IInv
<1>1. ASSUME NEW r \in Requests, HandlerStep(r) PROVE OnlyInspectedIsRead'
  <2>1. config' = config /\ payload' = payload
    BY <1>1 DEF HandlerStep, InspectionStep, NoProvider, BadBody, ForwardUninspected,
                BeginInspection, PassOver, ReadWithLayer1, CallLayer2, ReturnFromLayer2,
                RefuseUninspected, Block, MaskingFails, Forward, TimerFires, UpstreamAnswers,
                UpstreamFails, HangUp
  <2>2. \A q \in Requests \ {r} : pc'[q] = pc[q]
    BY <1>t, <1>1, HandlersAreApart DEF SameFor
  <2>3. pc'[r] \in {"inspecting", "waiting"} => Inspected(config, payload[r])
    <3>d. DOMAIN pc = Requests
      BY <1>t DEF Typed, TypeOK
    <3>1. CASE \/ NoProvider(r) \/ BadBody(r) \/ ForwardUninspected(r) \/ RefuseUninspected(r)
               \/ Block(r) \/ MaskingFails(r) \/ Forward(r)
               \/ UpstreamAnswers(r) \/ UpstreamFails(r) \/ HangUp(r)
      BY <3>1, <3>d DEF NoProvider, BadBody, ForwardUninspected, RefuseUninspected, Block,
                        MaskingFails, Forward, UpstreamAnswers, UpstreamFails, HangUp, Finish
    <3>2. CASE BeginInspection(r)
      BY <3>2 DEF BeginInspection
    <3>3. CASE \/ PassOver(r) \/ ReadWithLayer1(r) \/ CallLayer2(r) \/ ReturnFromLayer2(r)
               \/ TimerFires(r)
      BY <1>t, <3>3 DEF PassOver, ReadWithLayer1, CallLayer2, ReturnFromLayer2, TimerFires,
                        OnlyInspectedIsRead
    <3>4. QED
      BY <1>1, <3>1, <3>2, <3>3 DEF HandlerStep, InspectionStep
  <2>4. QED
    BY <1>t, <2>1, <2>2, <2>3 DEF OnlyInspectedIsRead
<1>2. ASSUME WorkerTakes \/ WorkerAnswers \/ WorkerDies \/ Restart \/ UNCHANGED vars
      PROVE  OnlyInspectedIsRead'
  BY <1>t, <1>2 DEF WorkerTakes, WorkerAnswers, WorkerDies, Restart, vars, OnlyInspectedIsRead
<1>3. OnlyInspectedIsRead'
  <2>1. \/ \E r \in Requests : HandlerStep(r)
        \/ WorkerTakes \/ WorkerAnswers \/ WorkerDies \/ Restart \/ UNCHANGED vars
    BY DEF Next, HandlerStep
  <2>2. QED
    BY <1>1, <1>2, <2>1
<1>4. QED
  BY <1>t, <1>3 DEF RInv

(* Every step of Gateway is a step of PrivacyGate, or does not show.       *)
LEMMA StepIsGateStep == RInv /\ [Next]_vars => [Gate!Next]_(Gate!gateVars)
<1> SUFFICES ASSUME RInv, [Next]_vars PROVE Gate!Next \/ UNCHANGED Gate!gateVars
  OBVIOUS
<1>t. /\ AInv /\ IInv /\ Typed /\ OpenIsUntouched /\ OnlyInspectedIsRead
      /\ DOMAIN pc = Requests /\ DOMAIN wire = Requests
  BY DEF RInv, AInv, IInv, Typed, TypeOK
\* Before and inside the inspection, and in layer 2.
<1>1. ASSUME NEW r \in Requests,
             \/ BeginInspection(r) \/ PassOver(r) \/ ReadWithLayer1(r) \/ CallLayer2(r)
             \/ ReturnFromLayer2(r) \/ TimerFires(r)
      PROVE  UNCHANGED Gate!gateVars
  <2>1. UNCHANGED <<config, payload, clear, trail>> /\ wire' = wire
    BY <1>1 DEF BeginInspection, PassOver, ReadWithLayer1, CallLayer2, ReturnFromLayer2,
                TimerFires, resultVars
  <2>2. \A q \in Requests : pc'[q] = pc[q] \/ {pc[q], pc'[q]} \cap {"done", "gone"} = {}
    BY <1>t, <1>1 DEF BeginInspection, PassOver, ReadWithLayer1, CallLayer2, ReturnFromLayer2,
                      TimerFires
  <2>3. \A q \in Requests : Outcome(q)' = Outcome(q)
    BY <2>1, <2>2 DEF Outcome, Sent
  <2>4. QED
    BY <2>1, <2>3, Unseen
<1>2. ASSUME WorkerTakes \/ WorkerAnswers \/ WorkerDies \/ UNCHANGED vars
      PROVE  UNCHANGED Gate!gateVars
  <2>1. UNCHANGED <<config, payload, clear, trail>> /\ wire' = wire /\ pc' = pc
    BY <1>2 DEF WorkerTakes, WorkerAnswers, WorkerDies, vars, resultVars
  <2>2. QED
    BY <2>1, Unseen DEF Outcome, Sent
<1>3. ASSUME NEW r \in Requests, NoProvider(r) \/ BadBody(r) \/ RefuseUninspected(r)
      PROVE  Gate!Next
  <2>1. /\ UNCHANGED <<config, payload, clear, trail>> /\ wire' = wire
        /\ pc[r] \in {"new", "inspecting"} /\ pc' = [pc EXCEPT ![r] = "done"]
    BY <1>3 DEF NoProvider, BadBody, RefuseUninspected, Judged, Finish
  <2>2. ~Sent(r)
    BY <1>t, <2>1 DEF OpenIsUntouched, Sent
  <2>3. QED
    BY <1>t, <2>1, <2>2, Rejected
<1>4. ASSUME NEW r \in Requests, ForwardUninspected(r) PROVE Gate!Next
  <2>1. /\ pc[r] = "new" /\ ~Inspected(config, payload[r])
        /\ pc' = [pc EXCEPT ![r] = "sending"]
        /\ wire' = [wire EXCEPT ![r] = "original"]
        /\ clear' = [clear EXCEPT ![r] = Items(payload[r])]
        /\ UNCHANGED <<config, payload, trail>>
    BY <1>4 DEF ForwardUninspected
  <2>2. Outcome(r) = "open" /\ Outcome(r)' = "released"
    BY <1>t, <2>1 DEF OpenIsUntouched, Outcome, Sent
  <2>3. Outcomes' = [Outcomes EXCEPT ![r] = "released"]
    BY <1>t, <2>1, <2>2, OthersKeepTheirOutcome
  <2>4. /\ Gate!Inspected(config, payload[r]) = Inspected(config, payload[r])
        /\ Gate!Items(payload[r]) = Items(payload[r])
    BY <1>t, SamePolicy DEF Typed, TypeOK
  <2>5. Gate!PassUninspected(r)
    BY <2>1, <2>2, <2>3, <2>4 DEF Gate!PassUninspected, Outcomes
  <2>6. QED
    BY <2>5 DEF Gate!Next
<1>5. ASSUME NEW r \in Requests, UpstreamAnswers(r) \/ UpstreamFails(r)
      PROVE  Gate!Next \/ UNCHANGED Gate!gateVars
  <2>1. /\ UNCHANGED <<config, payload, clear, trail>> /\ wire' = wire
        /\ pc[r] = "sending" /\ pc' = [pc EXCEPT ![r] = "done"]
    BY <1>5 DEF UpstreamAnswers, UpstreamFails, Finish
  <2>2. CASE Sent(r)
    <3>1. \A q \in Requests : Outcome(q)' = Outcome(q)
      BY <1>t, <2>1, <2>2 DEF Outcome, Sent
    <3>2. QED
      BY <2>1, <3>1, Unseen
  <2>3. CASE ~Sent(r)
    BY <1>t, <2>1, <2>3, Rejected
  <2>4. QED
    BY <2>2, <2>3
<1>6. ASSUME NEW r \in Requests, Block(r) \/ MaskingFails(r) \/ Forward(r) PROVE Gate!Next
  <2>1. /\ Judged(r) /\ ~RefusedByPolicy(r) /\ UNCHANGED <<config, payload>> /\ Record(r)
        /\ ~Sent(r) /\ Inspected(config, payload[r])
        /\ Verdict(r) \in 0 .. 3
    BY <1>t, <1>6, JudgedKnowsAll
    DEF Block, MaskingFails, Forward, Judged, OpenIsUntouched, Sent, OnlyInspectedIsRead,
        Decisions, Observed, Blocked
  <2>2. \A q \in Requests \ {r} : pc'[q] = pc[q] /\ wire'[q] = wire[q]
    BY <1>t, <1>6 DEF Block, MaskingFails, Forward, Finish
  <2>3. CASE Block(r) \/ MaskingFails(r)
    <3>1. Verdict(r) >= Masked
      BY <2>1, <2>3 DEF Block, MaskingFails, HasMaskedBody, Verdict, Masked, Blocked
    <3>2. Outcome(r)' = "refused" /\ clear' = clear
      BY <1>t, <2>1, <2>3 DEF Block, MaskingFails, Finish, Outcome, Sent
    <3>3. QED
      BY <1>t, <2>1, <2>2, <3>1, <3>2, JudgedOnce
  <2>4. CASE Forward(r)
    <3>1. Verdict(r) < Blocked
      BY <2>1, <2>4 DEF Forward, Blocked
    <3>2. Outcome(r)' = "released"
      BY <1>t, <2>4 DEF Forward, Outcome, Sent
    <3>3. clear' = [clear EXCEPT ![r] =
                      Items(payload[r]) \ Rewritten(config, payload[r], findings[r])]
      <4>1. CASE HasMaskedBody(config, payload[r], findings[r])
        BY <2>4, <4>1 DEF Forward
      <4>2. CASE ~HasMaskedBody(config, payload[r], findings[r])
        <5>1. Rewritten(config, payload[r], findings[r]) = {}
          BY <1>t, <2>4, <4>2, NothingToRewrite DEF Forward
        <5>2. clear' = [clear EXCEPT ![r] = Items(payload[r])]
          BY <2>4, <4>2 DEF Forward
        <5>3. QED
          BY <5>1, <5>2
      <4>3. QED
        BY <4>1, <4>2
    <3>4. QED
      BY <1>t, <2>1, <2>2, <3>1, <3>2, <3>3, JudgedOnce
  <2>5. QED
    BY <1>6, <2>3, <2>4
<1>7. ASSUME (\E r \in Requests : HangUp(r)) \/ Restart
      PROVE  Gate!Next \/ UNCHANGED Gate!gateVars
  <2>1. UNCHANGED <<config, payload, clear, trail>> /\ wire' = wire
    BY <1>7 DEF HangUp, Restart, resultVars
  <2>2. \A q \in Requests : pc'[q] = pc[q] \/ (pc[q] # "done" /\ pc'[q] = "gone")
    BY <1>t, <1>7 DEF HangUp, Restart
  <2>3. QED
    BY <2>1, <2>2, Dropped
<1>8. QED
  BY <1>1, <1>2, <1>3, <1>4, <1>5, <1>6, <1>7 DEF Next, InspectionStep

(* The gateway is one judgement per request: whatever order its awaits,    *)
(* its timers, the inference thread and the clients run in, what is sent   *)
(* and what is recorded is what PrivacyGate allows.                        *)
THEOREM GatewayImplementsGate == Spec => ImplementsGate
<1>1. Init => Gate!Init
  BY InitIsGateInit
<1>2. QED
  BY <1>1, InitRInv, StepRInv, StepIsGateStep, PTL DEF Spec, ImplementsGate, Gate!Spec
=============================================================================
