# Sentin-NPU: the verification project

Sentin-NPU is a gateway between people and hosted language models. Every
request passes through it: two detection layers look for sensitive data in the
prompt and in attachments, a policy decides per kind of data whether to
observe, advise, mask or block, and an audit trail records what was decided
without recording the data. This directory holds TLA+ models of that code,
the TLC configurations that check them and TLAPS proofs. Paths below are
relative to the repository; `G/` stands for `gateway/crates/`.

Contents: 1 the system, 2 the modules, 3 how state and actions correspond to
the code, 4 the runs and their bounds, 5 fairness, 6 the proofs, 7 where code
and documents disagree, 8 what is not modelled, 9 the plan, 10 how to run it.

## 1. The system

| Component | State it keeps | Operations | Talks to |
|---|---|---|---|
| Request pipeline (`G/sentin-proxy/src/lib.rs`, `inspect.rs`) | per request: the body, the part being looked at, the findings, the first reason layer 2 was skipped, the parts it could not read; shared: the configuration read at start | `proxy`, `inspect_request`, `mask_spans`, `relay` | adapters, both layers, audit sinks, the upstream |
| Layer-2 service (`ner_service.rs`) | an unbounded channel of jobs, the job on the worker, a reply channel and a timer per call | `start`, `inspect`, `worker` | one inference thread |
| Policy (`G/sentin-core`, `config.rs`) | none | `max_decision`, `clamp_decision`, `mode_for` | used by the pipeline |
| Audit (`audit_sink.rs`, `G/sentin-audit`, `otlp.rs`) | a file under a mutex, a UDP socket, a channel and a batch of the exporter | `record_request`, `Fanout::emit`, the exporter's loop | a file, a syslog collector, an OTLP collector |
| Response relay (`stream.rs`) | the bytes received and not handed on | `relay_body`, `buffered`, `windowed`, `flush_point` | the upstream and the client |
| Layer-1 scanner (`G/sentin-detect/src/deterministic.rs`, `checksums.rs`) | none | `detect` and the checksums | used by the pipeline and the relay |
| NER engine (`ner.rs`) | the compiled model and one infer request | `load_with`, `detect`, `decode` | OpenVINO |
| Device selection (`select.rs`, `ov.rs`) | a cache file shared by all starts | `measure_all`, `rank`, `cached`, `remember`, `device_candidates` | OpenVINO, the file system |
| Attachments (`G/sentin-extract`) | none | `decode`, `sniff`, `extract` | used by the pipeline |
| Process (`bin/gateway.rs`, `service.rs`) | listener, service status, log file | start, stop, install | the service control manager |
| Console (`G/sentin-ui`) | the edited text, the text saved and its backup, the fields of the window, the last status seen, the report on offer | edit, apply, save, restart, read the log, build a report | the configuration file, the service, the log, the trail |
| Diagnostics, benchmarks, tools, packaging | none at run time | print, measure, build | hardware, OpenVINO |

How they interact. Each request is a tokio task. It is suspended at three
kinds of await: reading the body, waiting for layer 2 (once per text field and
once per readable attachment), and the upstream call. Between two awaits it
runs alone. The inference thread takes jobs of all requests from one channel.
A task that gives up on its timer leaves its job behind. When the client hangs
up, the task is dropped at the await it is suspended at. The audit sinks are
called synchronously, after the verdict and before the upstream call; only the
OTLP exporter runs on its own.

What is hard here, and what would make each part correct:

* **Pipeline.** Layer 2 may answer some parts of a request and not others, die
  or be restarted in the middle. No layer-1 identifier that is set to block or
  mask may leave in the clear whatever happens to layer 2; what is sent must be
  audited, truthfully; `fail_closed` must be all or nothing; a 403 needs data
  whose checksum was verified; an inspection must end.
* **Layer-2 service.** Nobody may wait for an answer that cannot come; a late
  answer must not replace an outcome that was acted on; a job must not be run
  twice; the queue must drain when inferences end.
* **Masking.** Replacing one span must not make the offsets of another stale,
  whatever overlaps.
* **Adapters and forwarding.** Three APIs keep text and files in different
  places and forms; what is rewritten must be what was inspected, every file
  must be read or reported, and the trail must name the host the request really
  went to.
* **Scanner and checksums.** One pass from left to right over every alphabet of
  identifiers: a neighbour must not hide an identifier, a longer token must not
  yield one, and a checksum must notice what it is there to notice.
* **Reading attachments and names.** Cuts at three limits (bytes, text, tokens)
  must not join words, invent entities or exceed the limit.
* **Audit.** Lines of two requests must not mix; one sink must not cost another
  its event; no event may be exported twice; emitting must not wait for a
  collector; and a reader of each format must get out what was put in.
* **Relay.** Bytes must arrive once and in order, and an identifier within one
  event must be inspected in one piece.
* **Device selection.** A slow or refusing device must not cost the machine
  layer 2 while another one works, across starts that share a cache.
* **Console and process.** An edit may change one setting and no other; a save
  must not destroy somebody else's change; success may be reported only for a
  start that reads the saved settings; what is shown after a restart must be
  about that start; a report must be of the whole trail.

`PROJECT.json` lists these hazards at their lines, with the properties for them.

## 2. The modules

| Module | What it is |
|---|---|
| `Policy` | operators only: decisions, kinds of data, evidence, the two ceilings, what a verdict is and which events it leaves in the trail |
| `NerService` | the layer-2 service: channel, worker, reply channels, timers |
| `PrivacyGate` | the abstract specification of the pipeline: each request is judged in one step |
| `Gateway` | the proxy handler and `inspect_request`, composed with `NerService` (`Ner == INSTANCE NerService`) |
| `MCGateway` | the bodies and configurations TLC checks `Gateway` on |
| `Gateway_proofs` | the theorems about `Gateway`: what may leave, what a sent request leaves in the trail, `fail_closed`, and that it implements `PrivacyGate` |
| `Adapters` | operators only: the JSON pointers to the texts and files of an Anthropic, OpenAI or Google body, and the write back |
| `Forwarding` | `proxy` and `relay` seen from outside: body, URL, headers, trail |
| `ForwardedBodies`, `MCForwarding` | where each API keeps a text or a file, those the adapters say they read and the others, and the properties of the body that rest on it |
| `Masking` | `mask_spans`, one span per step |
| `Checksums` | operators only: PESEL, NIP, REGON, IBAN, Luhn, and the calendar they need |
| `Scanner`, `MCScanner` | layer 1: `detect`, one scanner's step at a time |
| `Layer1_proofs` | the theorems about `Scanner`, `Checksums` and `Masking` |
| `Extraction` | an attachment from base64 to text, part by part |
| `NerDecode` | from a text to tokens, labels and named entities |
| `Reading`, `MCReading` | `Extraction` followed by `NerDecode` on what it read |
| `Layer2_proofs` | the theorems about `NerService` and `Reading` |
| `AuditSinks` | the fan-out to file, syslog and OTLP |
| `AuditRecord` | operators only: the events of one verdict with all their fields |
| `Cef`, `Otlp` | operators only: an event as a CEF line and as an OTLP log record |
| `Timestamp` | operators only: the two clocks, seconds since 1970 as a date and time |
| `Report` | operators only: every counter of the report over the lines of a trail, and the page |
| `AuditTrail`, `MCAuditTrail` | `AuditSinks` carrying `AuditRecord`'s events to `Report`'s reader and a reader of CEF |
| `ReportConsole`, `MCReportConsole` | the report tab: build, offer, rewrite in another language |
| `AuditTrail_proofs` | the theorems about `AuditSinks`, `Report` and `ReportConsole`, and the escaping of `Cef` |
| `StreamRelay` | the three ways a response is relayed |
| `StreamRelay_proofs` | its theorems, and those about `Forwarding` |
| `DeviceSelection`, `MCDeviceSelection` | how a start finds the device for layer 2, with the cache file that starts share |
| `DeviceSelection_proofs` | its theorems |
| `PolicyFile` | operators only: edits of the YAML lines, and what the gateway reads from them |
| `GatewayService` | the Windows service: states, load, bind, serve, drain, fail, die |
| `Console`, `MCConsole` | the console: edit, apply, save, restart, refresh, with `GatewayService` beside it |
| `Console_proofs` | the theorems about editing, saving, restarting and the status shown |
| `Lists` | operators only: adding numbers up, keeping the elements of one kind |
| `DataLemmas` | lemmas about sequences and sets of numbers that the proofs share |

How they compose:

* `Gateway` shares `queue`, `running`, `alive` and `reply` with its instance of
  `NerService`; its `CallLayer2`, `TimerFires`, `HangUp`, `Worker...` and
  `Restart` use that module's actions, so everything proved about the service's
  actions holds of the composition. `PrivacyGate` is instantiated in `Gateway`
  with `outcome <- [r |-> Outcome(r)]`, and `ImplementsGate` is checked as a
  property.
* `Forwarding` is the same handler as `Gateway` with the data that `Gateway`
  abstracts and without its concurrency: layer 2 is off and one request is in
  hand, and in exchange bodies, paths and headers are there.
* `Masking` refines the one assignment that both make of masking: there a
  finding disappears from what is sent, which is right for findings that do not
  overlap; `Masking` is about those that do.
* `Reading` gives the text that `Extraction` produces to `NerDecode`
  (`INSTANCE NerDecode WITH text <- out`).
* `AuditTrail` extends `AuditSinks`: an event there is a handler and a number,
  and here the record `AuditRecord` makes of it. The file's lines are parsed and
  counted by `Report` in every state; the datagrams are rendered by `Cef`.
* `Console` extends `GatewayService`, which extends `PolicyFile`: the file on
  disk is what connects the three.

A definition placed just before another one with a longer name for the same
thing, such as `TakeAgain` before `Take`, is a faulty variant used to show that a
property can fail. No specification uses it.

## 3. Correspondence to the code

`map` in `PROJECT.json` has the lines of every definition. The reading rules:

**Data.** A body is a list of *parts*, text fields first and then attachments,
in the order `inspect_request` visits them. A part has a source (prompt or
attachment), an extraction outcome (full, truncated, failed) and the kinds of
sensitive data in it. An *item* is a kind in a part: it stands for the findings
of that kind there. `clear[r]` is the set of items the bytes sent upstream
carry unmasked, `wire[r]` says whether the original or the masked body was sent.
The kinds are one or two of each class that the code tells apart: checksum
verified (`pesel`, `nip`), pattern only (`email`, `phone_pl`), named entity
(`person`). When layer 2 answers it reports the entities of the part; what it
misses is the model's quality, not the program's logic.

**Events** are, in `Gateway`, the event kinds `record_request` emits with the
decision they carry; `AuditRecord` has every other field.

**`Gateway`.** One action per stretch of `proxy` or `inspect_request` between
awaits and per early return: `NoProvider` 404, `BadBody` 400,
`ForwardUninspected` and `BeginInspection` (the guard on `inspect.request`, the
provider's schema and the JSON), `PassOver` for an attachment that does not
open, `ReadWithLayer1` and `CallLayer2` for a part with layer 2 off and on,
`ReturnFromLayer2` when the call has an outcome, `TimerFires`, then
`RefuseUninspected` 503, `Block` 403, `MaskingFails` 500 or `Forward`, and
`UpstreamAnswers` or `UpstreamFails` 502. 200 stands for any status the
upstream may give. `BadBody` may happen to any routed request: reading the body
can fail at the transport. `HangUp` drops a handler at an await, `Restart`
kills all of them and decides anew whether the model loads.

**`NerService`.** `reply[c]` is the oneshot channel of a call as its caller
sees it. `TimeOut` needs an empty channel because tokio's `timeout` polls the
answer first. `Answer` and `Die` follow ownership: whoever drops the job drops
the sending half of its channel.

**`Adapters` and `Forwarding`.** A body is a JSON value: objects, arrays and
strings, and one scalar that is no string. A string is a word that says what is
in it (`number`, a checksummed identifier; `name`, which is only advised;
`data:number`, a file in a data URI; `junk`, one that does not decode). Pointers
are sequences of segments, as in the code, and `WriteText` writes at one. The
handler is `NotFound`, `BodyUnread`, `PassUninspected` or `Inspect`, then `Send`,
then `Unreachable` or `Relay`; paths and URLs are sequences of pieces cut where
the code compares or cuts them. `table` is the order in which this process's
`HashMap` yields the providers, fixed by a start and different between starts.

**`Masking`.** The text is its positions; the stable sort by descending start
is the choice `IsNext`; `ReplaceRange` is `String::replace_range`. A
placeholder is one symbol, as its text matters to nobody here.

**`Scanner`.** A text is a sequence of numbers: 0 to 9 are digits, 10 to 35
capital letters as IBAN counts them, 36 to 61 small ones, and the rest are the
separators and characters `detect` tells apart. The state is the position and
the findings; a step is one turn of the loop in `detect`: the first `scan_*` that
matches at the position, and the place behind its match.

**`Extraction`, `NerDecode`, `Reading`.** A unit of text is a letter of one
byte or a wider one, a space, the end of a paragraph, the end of a run or a tag.
The budget arithmetic is the code's. The zip reader, the PDF library and the
tokenizer are choices: any list of parts, any text, one token per letter. The
network is the choice of a label for each token.

**`AuditSinks`, `AuditTrail`.** `writeln!` on an unbuffered `File` is two writes,
hence `WriteLine` and `WriteLineEnd`; either may fail, the first also after a
part of the line. All three sinks are configured; one that could not be
opened at start is simply not in the fan-out. A text is a sequence of
characters, of which only the ones CEF gives a meaning are told apart. An
`Option` is a sequence of at most one value and an absent field is no field,
as serde leaves it out.

**`Report`, `ReportConsole`.** A line of a trail is an event, blank, broken or
not UTF-8. The counters are bags. A page is what it is made from: language,
counters, warning. `ReplaceTrail` is anybody who moves, empties or restores a
file.

**`Timestamp`.** The arithmetic of `civil_from_days`, which the code has twice.
That texts order like the clock is what lets `from_jsonl` compare them.

**`PolicyFile`, `GatewayService`, `Console`.** A configuration is its lines:
indentation, key, value and note (a comment, which edits must keep). `Value` is
what the gateway's YAML parser gets from them, modelled from how the code uses
it. The service has the states the control manager reports and the steps that
change them; a report of a state and the work it is about are separate steps, as
in the code. The console's `apply` is its saves, its call to stop, each poll,
its call to start, and what it says; `doing` is how far it is. Writes may stop
in the middle and the console may die (`DieSaving`).

**`StreamRelay`.** A byte is an end of sentence, a line feed, one that is not
UTF-8, or any other. Chunks are of any size, as the network decides.

**`DeviceSelection`.** A start is one run of `NerEngine::load_with`; several may
overlap. Timings are numbers of which only the order and the side of the ceiling
count; 0 is a refusal. The key is the pair the code makes of it (size of the
`.bin`, enumeration); the path and the runtime version do not change here.
`Miss` may happen to any start, as `SENTIN_DEVICE_PROBE=force` does. `remember`
is three steps because the file is read, truncated and written without a lock;
what another start wrote in between can leave its tail behind a shorter text.
The candidates are a set and the order a relation (`IsNext`), which is the
stable sort where it matters, in ties. `MachineChanges` stands for drivers,
devices and the model directory; `steady` remembers, for the properties, which
starts saw none. The fixed cascade behind `measure: false` has no caller in the
gateway and is left out, as are names with an index such as `GPU.0`.

## 4. The runs

| Run | Instance | Shows |
|---|---|---|
| `ner_service` | four calls, panics, restarts | nobody waits in vain, late answers are discarded, the channel drains |
| `gateway` | two concurrent requests, six bodies, five configurations, at most two parts | `NoClearLeak`, `SentIsAudited`, `TrailTellsTheTruth`, `FailClosedIsAllOrNothing`, `OnlyProvenDataBlocks`, the refinement `ImplementsGate`, and that every inspection ends with nothing assumed of the worker |
| `adapters` | bodies of each API with up to three blocks of every form or two messages, five configurations, both orders of two overlapping providers | every text of the prompt and nothing that is no text is rewritten, every file of a message is read or reported once, the trail names the host |
| `masking` | every set of up to three findings in a text of five positions | only findings are replaced, none is left whole |
| `scanner` | every text of up to three fragments out of nineteen: identifiers of all kinds, valid, wrong, grouped, prefixed, and what stands around them | identifiers that are set off are found, findings are whole tokens, every single wrong digit the checksum can see is seen |
| `reading` | office files of up to two parts out of six, one attachment of each other form, limits of eight bytes and ten of text, five tokens, four labels | entities are the maximal runs, what fits is read whole with paragraphs apart, no more than the limit is collected |
| `audit` | two requests with two and one events, batches of two, one failed write, POSTs that fail or are rejected, restarts; every model name of up to three characters | no duplicates, order, every sink is offered every event, whole lines, the exporter survives, the report owns up to what it cannot read, every datagram reads back |
| `report` | two trails, one growing by up to three lines of five kinds, moved, emptied and restored | a report is of the whole trail whatever the order, and the one on offer is the one shown |
| `stream` | every response of up to six bytes of four classes, every chunking, three strategies | order and completeness, whole events inspected, nothing complete is held |
| `device` | two starts, five machines of three devices, three models, two enumerations, two cards, three requests, two objectives, one change | complete cache entries, layer 2 given up only where nothing runs, nothing better passed over (over the ceiling: nothing quicker that is no dearer) |
| `console` | three configurations, two steps of the operator, one of somebody else, one poll in either direction, failures and deaths at any step | edits touch nothing else, what a save found survives, no old settings are served once success is reported, this start is shown, every apply ends |
| `fail_closed_audit` | as `gateway` | a violation: section 7 |

Why the bounds are enough. Two requests are what it takes for one to be queued
behind the other, for a panic to drop a job on the worker and one in the queue,
and for a hang-up of one while the other waits; requests share nothing else. Two parts are what it takes for
layer 2 to answer one part of a request and not the other, in both orders; all
further parts repeat one of the two. The bodies hold every combination of
source, extraction outcome and class of kind that takes its own path. The
configurations differ in `fail_closed`, in whether the model directory is set,
attachments are read and requests inspected, and in advice against protection.
Four calls give a queue with a job behind a job behind a job. Three spans are the least for an overlap
with a span that was itself skipped. Three events and batches of two leave one
event behind a full batch. One failed write is what it takes for a torn line
with a whole one appended to it; a second adds a second torn line. Three
characters hold a backslash, something for it to escape and a neighbour. Three
blocks put one before and one after the one that is skipped. Three fragments are
an identifier and a neighbour on either side. Two office parts are the least for
a budget that one part uses up for the other. Three lines are the least that can
be out of order around a torn one. Two steps of the operator are an edit and
the apply after it, or two applies with somebody else's edit in between; one
poll shows both outcomes of a poll, the last one included. Six bytes hold two complete events with a sentence
each. Two starts give a cache that is filled by one and read by the other, and
two writers of one file. The machines have every device inside the ceiling, one
inside, none, and none that runs; one change of the machine in between makes
any of them follow any other.

`gateway` takes one order of two different bodies and `device` uses symmetry in
the starts, because no definition tells the two requests or starts apart; no run
with a liveness property uses SYMMETRY. A run checks for deadlock unless its
system may stop for good: a function returns (`masking`, `scanner`, `reading`,
`adapters`), a stream ends (`stream`), a start is over (`device`), an operator
stops editing (`console`). The other systems can always restart or be asked
again.

The bounds are named: `MaxParts`, `MaxSpans` and `Length`, `MaxLength`,
`BatchMax`, `MaxFailedWrites`, `MaxLines`, `MaxChanges`, `MaxEdits`,
`MaxOutside` and `MaxPolls`; calls, requests, handlers, starts and texts are
bounded by the sets given.

Some assumptions that TLC evaluates at the start of a run are checks of pure
operators against a reference: `DatesAreTheCalendars` (every day of 400 years has
the date after the day before's), `TextsAreInTheOrderOfTheClock` and
`EveryLogRecordIsItsEvent` (a log record has one attribute per fact, and the
event's own value in each).

## 5. Fairness

* `Gateway`: a handler that can run does run (tokio polls woken tasks), and
  timers fire (tokio's timer wheel). Nothing is assumed of the inference thread, of
  the upstream, of clients. So `EveryInspectionEnds` rests on the timers only,
  as the comment on `NerService::inspect` wants it.
* `NerService`: the timers again. `QueueDrains` states its extra assumption,
  that inferences end, in the property (`WorkerRuns => ...`), since the code
  cannot bound an inference.
* `Console`: the console's own thread runs, so a step of `apply` that is possible
  is taken, and an operator who lost the console opens it again (`LiveSpec`).
  Nothing is assumed of the service: `ApplyEnds` rests on the bounded polls.
* `AuditSinks`: the handlers run. `QueueIsExported` assumes in the property
  that the exporter is scheduled and a POST ends, which the client, having no
  timeout, does not guarantee by itself.

Weak fairness is enough everywhere: an action that is waited for stays enabled
until it happens or is no longer needed.

## 6. The proofs

All theorems are for every value of the constants: any set of calls, requests,
bodies and configurations, any length of the queue, any starts, machines and
ceilings, any text and findings to mask, any handlers and events. They rest on
the named assumptions of the modules, which TLC evaluates in the runs and which only
say that the constants have the shape the code gives them: payloads,
configurations and parts of `Gateway`, models, machines and ceilings of
`DeviceSelection`, lengths of `Masking`, `StreamRelay` and `Reading`, texts of
`Scanner`, limits and attachments of `Extraction`, lines of `Console` and of the
trails of `ReportConsole` (`LinesAssumption`), upstreams of `Forwarding`
(`TablesAssumption`: a base URL, with a scheme and without a query, as `config.rs`
describes it and the code's concatenation needs it). One says more:
`ClosingAssumption` of `Extraction`, that behind the text of an office document
there is an end tag. XML has no other place for text, and without it a part could
end in the middle of a word, of which the code makes one word with the first of the
next part. The theorems about `AuditSinks` need none and hold for every batch size and
number of events; the one about the report of its file needs the contents of the
events: that there are as many as `record_request` makes (`EventsAssumption`,
`EventsAreRecorded`), and that findings come in a list and their kinds have names
(`InspectionAssumption`), without which the page would not count them.

**`DataLemmas`.** The library's induction takes an operator, which the provers cannot
instantiate. `NatSetInduction` is induction for a *set* of numbers, from the
well-foundedness of the order (a set that is not everything has a least missing
number), and `SeqInduction` the same for a set of sequences. A recursive function
exists because its beginnings do (`JoinExists`, `AddsExists`, and in their modules
`RemainsExists`, `PathsExist`, `BlocksExist`); what it computes then follows by
induction. This gives
`FlattenSeq`, `Total` and `Kept` over an element more, a concatenation and an element
changed, so that folds over data of any length can be proved about. `Kept` stands
where `SelectSeq` might, as the provers know nothing of that one.

**`Layer2_proofs`, the service.** `IInv` is `TypeOK /\ PendingIsHeld /\ HeldOnce /\
HeldWasSent`. `HeldOnce` alone is not inductive: a call submitted now could be
in the queue already; `HeldWasSent` excludes it, as whatever is held was sent
before. From it: `TypeCorrect`, `NobodyWaitsInVain` (`PendingIsHeld`),
`NoJobIsRunTwice` (`HeldOnce`), and the action properties `OutcomesAreFinal`
(`LateAnswerIsDiscarded`) and `ServedInOrder` (`FirstInFirstOut`).

**`Layer2_proofs`, reading.** Three invariants of `Reading`. `TextInv`: while the parts of
an archive are read, the text is never over its limit, so the budget is what is left
of it, and taking tags out makes nothing longer (`PushShrinks`); from it
`TextStaysInLimit` (`WorkIsBounded`). `FitInv`: of an archive that fits, the first
parts have been read whole and the budget is no less than the rest takes.
`Along` follows one part unit by unit, with the place each letter came from: two
letters that come to stand side by side are of one paragraph. `ReadUpTo` puts parts
behind each other, for which a part must end in no letter (`PartEndsClosed`); from
it `FittingDocumentsAreReadWhole` (`WhatFitsIsRead`). `DecInv`: `decode` is some number of
words into the text; what begins before that and has ended is reported, and the
entity being extended reaches from its first word to here (`DecodedUpTo`). For that the
tokens the model is shown must be whole words but for the last one, numbered without
a gap in the order of the text (`WordIdsCount`, `PiecesInOrder`, `TokensRead`,
`WordsShown`). From it `EntitiesAreTheLongestRuns` (`EntitiesAreMaximalRuns`), whatever
the labels.

**`Gateway_proofs`.** `IInv` has five named parts:

* `Typed`: types, and that a waiting handler waits on a part it has;
* `OpenIsUntouched`: before the judgement nothing was sent or recorded;
* `CoversWhatItRead`: `findings` holds every layer-1 item of every part already
  passed, which is why the judgement knows all of them;
* `FindingsAreReal`: findings are items of the body, in parts that opened;
* `Judgement`: what was sent and recorded is what the policy makes of the
  findings, which no longer change.

`NoClearLeak` is not inductive by itself: it speaks of the moment of sending,
and what makes it true is that every part was read before. The lemmas
`JudgedKnowsAll`, `ForwardIsSafe` and `BlockedIsProven` connect the parts, and
`StepIInv` goes through `Next` action by action. From the invariant:
`TypeCorrect`, `LayerOneAlwaysProtects` (`NoClearLeak`), `TheTrailIsTrue`
(`TrailTellsTheTruth`) and `BlockingNeedsProof` (`OnlyProvenDataBlocks`).

`AInv` adds to `IInv` one account per request, because
`SentIsAudited` and `FailClosedIsAllOrNothing` speak of the answers of every call a
request made, and the state at the moment of sending no longer says when they
came. `FutureIsUnsent` and `PastIsSettled` put the answers in step with the
handler: what is ahead of it was not asked, what is behind it is answered or timed
out for good (`AnswersSettle`). `UnreadIsNoted`, `SkipsAreNoted` and `NotesAreExact`
say that the notes the handler keeps are those answers and nothing else;
`LayerIsUniform` that layer 2 is asked for every part or for none, as it is
switched off at a start only. `SentIsJudged` carries all that past the judgement.
The lemmas go by who steps: a handler at a call, at a conclusion, at the upstream
(`CallKeepsAccount`, `ConcludingKeepsAccount`, `ForwardKeepsAccount`), another
handler (`HandlersAreApart`), the worker or a timer (`AnswersAreApart`). From it:
`NothingSentIsUnaccounted` (`SentIsAudited`) and `FailClosedHolds`.

`GatewayImplementsGate` is the step simulation. A step
of `Gateway` does not show in `PrivacyGate` (`Unseen`: reading, waiting, answering,
timers), or shows as a refusal without a judgement (`Rejected`), as a loss
(`Dropped`: hang-ups, crashes), as a body passed on without inspection, or as the one
judgement (`JudgedOnce`). `OnlyInspectedIsRead` joins the invariant to tell the last
two apart. `JudgedOnEverything` is what the last needs: when the handler is past
its last part, its findings are exactly those the abstract judgement uses, with
layer 2's part of them for the parts that were answered. `SamePolicy` says that the
two instances of `Policy` define the same operators.

**`Layer1_proofs`, the scan.** One lemma per scan says what it matches (`PhoneMatch`,
`NumberMatch`, `VatMatch`, `IbanMatch`, `EmailMatch`): where it begins and ends, what
stands on either side, and on what evidence. `SInv` is that the pass is at a
position (`Placed`), that what it found lies before it in order, and that each
finding is a token of its own; from it `NoFindingIsAWindow` (`FindingsAreWholeTokens`).
`ChecksumsNoticeOneWrongDigit`: a weighted sum changes by weight times difference
when one digit does (`TotalOfOneChange`), and no weight a checksum uses makes that a
multiple of its modulus; Luhn's doubling sends ten digits to ten; the remainder by 97
differs at the digit and goes on to differ (`RemainderOfOneChange`).
`NothingSetOffIsMissed` (`SetOffIdentifiersAreFound`): `NothingIsPassed` says that the pass has
not gone by an identifier it did not find. Its step has two sides: at the first
character of such an identifier a scan matches all of it (`NumberIsFound`,
`AccountIsFound`), and no match that begins before it reaches into it
(`NothingReaches`). An identifier is set off (`Apart`) when it is a word, with no plus, hyphen,
dot or @ in front and no other word a space or hyphen away. An earlier version allowed
more; the attempt to prove it ended at a text for which it is false, where a match
that begins before reaches into the identifier.

**`Layer1_proofs`, the masking.** Spans are handled by descending start, so the text to the left
of the last replaced span is still the original (`LeftIsUntouched`) and a span that
does not overlap it sits where its offsets say; what is to the right is a
placeholder or from beyond (`RightIsBeyond`). A span that is skipped reaches over
the start of the last replaced one, and loses that position (`HandledAreBroken`).
`NothingElseIsReplaced` and `EveryFindingIsBroken` follow. `ReplaceRangeElements`
is what `replace_range` does to a sequence.

**`AuditTrail_proofs`, the sinks.** Three invariants over one typing, `Sound`. `OInv`: the
stored events, the batch and the queue are each in order and each before the next
(`EventsInOrder`), and hold only events their handlers are through with (`PastEvents`),
so what is enqueued is behind all of them; from it `ExportedInOrder`. `FInv`: where a
handler is with its event says which sinks have it (`PresentIsUnderWay`), only a
restart takes anything out of the exporter's hands (`GivenStaysGiven`), and then
no handler that had begun is left; from it `EverySinkIsGivenEveryEvent`. `LInv`: who
writes holds the lock, and an entry of the file is followed by its end, given up, or
the last one with its writer at the end of it; from it `LinesAreNotMixed`. The lemmas
before them are about sequences seen as sets, and order across a concatenation.

**`AuditTrail_proofs`, the report.** `TheReportIsOfTheWholeTrail` is about a fold over lines,
each of which may touch seventeen counters. What one event does to a report is written
once as a sum, counter by counter (`Made`, `CountedIsMade`); such sums commute
(`MadeCommutes`, from `BagSumCommutes`), so any two lines may change places
(`LinesCommute`). The report of a trail is a recursive function of the lines read so far
(`ReportByLine`, `ReportOfAppend`), and by induction over its length a line is worth as
much at the front as at the end (`ReportOfPrepend`): the report of the reversed trail is the
same (`ReportOfReverse`). The counts and the period follow by the same induction
(`Told`, `ReportTells`): first and last time are times of events, none lies outside,
and only a report without a time has none. The lines are those of the
files as long as nobody writes anything else into them (`TrailsHoldLines`), which
`WholeTrailIsReported` needs and proves. The report tab: `RInv` adds to its property
that what is offered is a place reports go to (`OffersAPlace`), so that the next one
is written over it or leaves it alone; `WhatIsOfferedIsShown`
(`TheReportOfferedIsTheOneShown`).

**`AuditTrail_proofs`, from the file to the report.** `TheReportHidesNothing` joins the two:
the report of the file the sinks wrote owns up to what is missing (`TheReportOwnsUp`).
Its own invariant, `MInv`, only says that the file is a sequence of recorded events,
whole or torn, and line ends, because whoever is past the lock has an event left. The
rest is true of every such sequence, by induction over its parts (`ToldInFull`): what
is behind the last line end is the line being written (`CutInto`), and the report of
the lines before it has counted the events alone on theirs, added up their findings
and met a broken line just when something else was there (`Accounted`). Only a line end
changes either side, and what it does is decided by the line it ends
(`PartsGrow`, `LineSays`): none, one whole event, or anything else. The last line needs
no end (`LastLineNeedsNoEnd`). The findings are a sum over a tally, of which nobody
knows the order it is taken in: `AnyOrder` shows that it does not matter, `SumOfOneMore`
that a value more is one more. That every finding has a detector to be counted
by is read off `record_request` (`FindingCounts`, `RecordCounts`).

**`AuditTrail_proofs`, the escaping of a CEF value.** `ValuesReadBack`: for a text of any
characters and any length, a reader that follows the format gets from what
`escape_value` made of it the text without its carriage returns; it is left behind no
backslash, meets no equals sign that would begin another field, and reads one line.
The four replacements pass over the text one after the other, the reader once; the
induction is over the text (`GoesThrough`), and what one character more adds to the
line is `EscapeGrows`. The order of the replacements matters: with the
backslashes doubled after the equals signs (`EscapeValueLate`) the run has a counterexample.

**`DeviceSelection_proofs`.** All three invariants of the run `device` are proved,
with `TypeOK` and `FallbackIsReported`, which the run leaves out: an explicit
request that is served by another device is reported.
`IInv` has a part for each question: `Typed` (with `Files`: entries of the file
and of every text about to be written time their whole enumeration), `Progress`
(what is decided by which step), `Trying` (candidates are those left and those
that refused; the device in use was the first of those left), `Reporting` (the
device an explicit request resolves to is the first to refuse) and `Knowing`
(timings and refusals still hold on a machine that did not change). None of the
properties is inductive alone: `NothingBetterIsPassedOver` needs the partition of
the candidates, `OffOnlyWhenNothingRuns` needs that survivors run (`SurvivorsRun`).
`OthersAreUntouched` and the two lemmas on `Untouched` deal once with the starts
that do not move, so that each action is looked at for its own start only.

**`Console_proofs`.** Three small invariants, each about what the console knows at a
point where the file or the service may have moved on. `SInv`: between the copy and
the write the backup is what was found (`WhatWasFoundIsKept`). `NInv`: from the moment
this restart has started the service, a process that has loaded anything loaded
what is on disk, as nothing but a change from outside writes it until the next save
(`NewSettingsAreServed`); a console that was closed tells nothing (`ClosedIsSilent`).
`GInv`: what this start said of layer 2 is the last line of the log, however it is
rotated (`NoEarlierStartIsShown`, for `ThisStartIsShown`). The edits of the text are
opaque in all three: they hold whatever an edit does.

`EditsKeepToTheirSetting` (`EditsTouchNothingElse`) is about the edits. `EInv` says of
the text and of what was asked for that they agree (`Good`), and each edit that it
makes a text in which every other setting reads as before (`Edits`). What YAML makes
of a text is in `PathOfLine`: the keys above a line, from the nearest line that is
indented less (`AboveIsAbove`). Indentation and keys alone decide it (`SamePaths`), so a
new value is felt only by what is read from that line (`ValueStays`), and a
block found by the code lies under its heading in YAML's sense too
(`BlockIsBlock`, `HeadingIsOnThePath`), so the line found is no other setting's,
although the code does not look at the depth it is at. A line inserted moves the
lines behind it and nothing they are nested in (`AboveMoves`, `PathsMove`): it has the
indentation of the last line with a key of its block, and behind the block comes a line
that ends all that this one could be nested in. The files may be any texts of any
length, with keys repeated and nested in any way (`ConfigurationsAssumption`).

**`StreamRelay_proofs`.** `IInv`: the pieces and what is pending are what was received
(`Ordered`); what the strategy holds back (`HeldBack`); under buffer and window each
piece was read by layer 1 (`PiecesAreRead`) and ends behind an event unless it is the
end of the response (`PiecesEndEvents`); every byte delivered is in a piece
(`PiecesCover`). Where a piece lies is counted from the pieces before it, so that
the invariant follows each. From it `NoByteIsLost` (`EveryByteInOrder`) and `NoEventIsCut`
(`EventsAreInspectedWhole`); with the window looked at after each chunk,
`NothingWaitsInTheWindow` (`NothingCompleteIsHeld`). `HandOnAppends` is the lemma all
need: what is handed on lies behind what was delivered, and that stays where it was.

**`StreamRelay_proofs`, the request's way there.** `FInv`: a request that was inspected
or sent has a provider (`Chosen`), the context names that provider's host (`Named`) and the
message goes to the URL made of its upstream (`Addressed`). That the two agree is
`HostOfUrl`, about `split`, `split_once` and `trim_end_matches` on sequences of any
length: what is trimmed off the end is slashes, so the first stop behind the scheme
is where it was, or is the first piece of what was glued on. `DestinationIsTold`
(`TheTrailNamesTheDestination`).

Only model-checked. Liveness (`EveryInspectionEnds`, `QueueDrains`, `QueueIsExported`,
`ApplyEnds`): fairness and `ENABLED` are beyond the proof system. The two properties
of `ForwardedBodies`: the strings of a JSON tree are found with a RECURSIVE operator, and
that two indexes are two segments of a pointer rests on `ToString`, of which the
provers know nothing. `EveryDatagramReadsBack`: that each value comes
back is proved (`ValuesReadBack`), but the fields of a datagram are put together in the
order of `SetToSeq` from numbers written with `ToString`, and the provers know nothing
of either; the run enumerates the events.

## 7. Where code and documents disagree

Each is a finding in `PROJECT.json` with the lines and the quotation. One is a
run that TLC ends with a counterexample:

* `fail_closed_audit`: a request refused under `fail_closed` leaves no event,
  although `config/default.yaml` says that `inspection_timeout` is emitted. The
  503 is returned before `record_request`.

The others were met while a definition was written, or are the reason why a
property has the exemption it has. The models do what the code does.

* Pipeline: `timeout_ms` is charged for every text field and attachment, although
  `config.rs` calls it the time inspection may take. A finding that overlaps
  another is recorded as masked, but what the kept one does not cover is
  forwarded. `provider_for` compares prefixes as strings, so `/openai-eu` goes to
  `/openai`'s provider with a glued URL (`TheTrailNamesTheDestination` exempts
  such paths). Texts inside tool results, tool calls and some other places are
  not inspected, nor are files inside tool results: `OnlyTextsAreRewritten` and
  `EveryFileIsRead` let them leave either way. Repeated request headers lose all values but the last, and
  `trailers` in the list of hop-by-hop headers names no header.
* Scanner: digits are joined as far as separators go and nothing shorter is
  tried, so identifiers next to numbers are missed
  (`SetOffIdentifiersAreFound` is about identifiers that are set off); `+48` and
  a space is no prefix, and what follows may pass as a PESEL.
* Attachments: the text budget of an office file is applied before the tags are
  removed, so a cut is not reported; runs get a space behind them; parts of
  nothing but tags are not charged to the budget.
* Audit: an OTLP collector that answers with an error status costs the batch
  without a log line; an OTLP record has none of the attachment fields; a CEF
  line has `fileHash` twice for an attachment; `client_addr` has no port;
  `distinct_attachments` does not count documents nobody could read.
* Devices: with every device over the ceiling, the default objective takes the
  cheapest class, although a comment, a test and the log line say the fastest.
  `NothingBetterIsPassedOver` demands there only what both agree on: no device that
  another beats in time without being dearer.
  `measure_all` never returns the error it documents: a model that cannot be
  read is recorded, and cached, as a refusal of every device, and the key does not
  change when the `.xml` is repaired. `OffOnlyWhenNothingRuns` therefore speaks
  only of starts that measured.
* Console: `Running` is reported before the configuration is read and the port
  bound, so success may be told of a start that fails; "the gateway is running
  the new settings" is also told where nothing was restarted, and "still running
  the old settings" where it is not running; a rejected edit stays in the text
  and is saved by the next apply; a mode on a line of its own shows as observing;
  a second save after a torn one overwrites the only whole copy; the layer-2
  line may be an earlier start's; one byte that is not UTF-8 makes every report
  of that trail impossible; and choosing another trail for a report changes the
  path that apply writes into the configuration.

## 8. What is not modelled

* The quality of the NER network, PDF and zip libraries, the tokenizer and
  OpenVINO: choices in the models.
* The YAML parser, except for what it makes of the lines the console edits, and
  the defaults of the configuration.
* Entity references inside office XML (`quick-xml` decodes them), and text
  encodings: a file is UTF-8, or in a code page or UTF-16 and then refused.
* The Linux side of the console, where `systemctl restart` is one call, the
  installation of the service, and the report written from the command line,
  which overwrites the same page once.
* Redirects: `reqwest` follows them unless told otherwise, and the client is built
  without a policy (`lib.rs:125`), so an upstream that answers 307 or 308 may have the
  body sent on to another host. `Forwarding` ends with the first answer, and
  `TheTrailNamesTheDestination` speaks of the request that the gateway sends.
* A copy or a write of the console that fails before it touches the file: it changes
  nothing, and is reported like one that failed later, which is modelled.
* Chart geometry, translations and widgets: rendering.
* Diagnostics, benchmarks, packaging and build tools: no state at run time.
* `Gateway` lets `Trail` be one step: that a crash may come between two sinks of one
  event is in `AuditSinks`. The growth of the two unbounded channels is visible
  in the models and bounded there only by the number of calls and events.

## 9. The plan

Done, in this order: the pipeline with layer 2 and its proofs; masking, the
sinks and the relay; device selection and its proofs; the scanner and its
checksums; attachments and names; the console with the service; the trail end to
end; the report; the adapters.

Left:

1. A proof of `EveryDatagramReadsBack` beyond its values: the header and the fields.
2. The reading of the configuration with its defaults, beside `PolicyFile`.
3. The installation of the service and the Linux side of the restart.

## 10. Running it

In this directory, with TLC and the community modules on the path:

    tlc -workers 2 -config gateway.cfg MCGateway
    tlc -workers 2 -config NerService.cfg NerService
    tlapm Gateway_proofs.tla

Each row of `runs` in `PROJECT.json` gives the module and the configuration.
The longest runs, `gateway`, `audit` and `device`, take one to two minutes each on
two cores.
