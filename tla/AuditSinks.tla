----------------------------- MODULE AuditSinks -----------------------------
(***************************************************************************)
(* Where audit events go.  A handler emits the events of its request one   *)
(* after another, and each event to every sink in turn: the JSON Lines     *)
(* file under its mutex, the syslog socket, and the channel of the OTLP    *)
(* exporter, a task of its own that posts to the collector in batches.     *)
(* Handlers run on several threads, so their steps interleave.             *)
(*                                                                         *)
(* at[h] is where handler h is with its next event:                        *)
(*   jsonl    about to lock the file     line, newline  writing, locked    *)
(*   syslog   about to send              otlp           about to enqueue   *)
(*   gone     the process died under it                                    *)
(***************************************************************************)
EXTENDS Naturals, Sequences, SequencesExt, FiniteSets

CONSTANTS Handlers,
          Events,      \* how many events the request of a handler emits
          BatchMax,   \* events in one POST
          MaxFailedWrites   \* bound on the writes to the file that fail

ASSUME EventsAssumption == Events \in [Handlers -> Nat \ {0}]
\* The batch is full when a second or later event fills it.
ASSUME BatchAssumption == BatchMax \in Nat \ {0, 1}

VARIABLES
    at, emitted,  \* each handler's position, and how many events it is through with
    lock,         \* who holds the mutex of the file, as a set of at most one
    file,         \* what was appended to the file: events, torn ones and line ends
    datagrams,    \* the events given to the socket
    exporter,     \* idle (in recv), collecting (in try_recv), posting, gone
    queue,        \* the unbounded channel of the exporter
    batch,
    stored,       \* what the collector has stored
    warned,       \* the failures that were logged: <<sink, event>>
    rejected      \* events in a POST the collector answered with an error status

handlerVars == <<at, emitted>>
fileVars == <<lock, file>>
otlpVars == <<exporter, queue, batch, stored, rejected>>
vars == <<handlerVars, fileVars, datagrams, otlpVars, warned>>

AuditEvents == UNION {{h} \X (1 .. Events[h]) : h \in Handlers}
LineEnd == <<>>
Torn(event) == Append(event, "torn")
Event(h) == <<h, emitted[h] + 1>>
Busy(h) == emitted[h] < Events[h]
Warn(sink, events) == warned' = warned \cup ({sink} \X events)
MoveTo(h, place) == at' = [at EXCEPT ![h] = place]

Init ==
    /\ at = [h \in Handlers |-> "jsonl"]
    /\ emitted = [h \in Handlers |-> 0]
    /\ lock = {} /\ file = <<>>
    /\ datagrams = {}
    \* The task builds its client first, and dies where no TLS can be set up.
    /\ exporter \in {"idle", "gone"}
    /\ queue = <<>> /\ batch = <<>>
    /\ stored = <<>> /\ rejected = {}
    /\ warned = {}

-----------------------------------------------------------------------------
(* JsonlEmitter.  The line and its end are two writes, under one lock.     *)

LockWithoutWaiting(h) ==
    /\ at[h] = "jsonl" /\ Busy(h)
    /\ lock' = {h}
    /\ MoveTo(h, "line")
    /\ UNCHANGED <<emitted, file, datagrams, otlpVars, warned>>
Lock(h) ==
    /\ at[h] = "jsonl" /\ Busy(h)
    /\ lock = {}
    /\ lock' = {h}
    /\ MoveTo(h, "line")
    /\ UNCHANGED <<emitted, file, datagrams, otlpVars, warned>>

WriteLine(h) ==
    /\ at[h] = "line"
    /\ file' = Append(file, Event(h))
    /\ MoveTo(h, "newline")
    /\ UNCHANGED <<emitted, lock, datagrams, otlpVars, warned>>

WriteLineEnd(h) ==
    /\ at[h] = "newline"
    /\ file' = Append(file, LineEnd)
    /\ lock' = {}
    /\ MoveTo(h, "syslog")
    /\ UNCHANGED <<emitted, datagrams, otlpVars, warned>>

\* Either write fails, leaving a part of the line or nothing: logged, and on to
\* the next sink.
WriteFailsForAll(h) ==
    /\ at[h] \in {"line", "newline"}
    /\ Warn("jsonl", {Event(h)})
    /\ lock' = {}
    /\ MoveTo(h, "jsonl")
    /\ emitted' = [emitted EXCEPT ![h] = @ + 1]
    /\ UNCHANGED <<file, datagrams, otlpVars>>
WriteFails(h) ==
    /\ Cardinality({w \in warned : w[1] = "jsonl"}) < MaxFailedWrites
    /\ \/ at[h] = "line" /\ file' \in {file, Append(file, Torn(Event(h)))}
       \/ at[h] = "newline" /\ UNCHANGED file
    /\ Warn("jsonl", {Event(h)})
    /\ lock' = {}
    /\ MoveTo(h, "syslog")
    /\ UNCHANGED <<emitted, datagrams, otlpVars>>

-----------------------------------------------------------------------------
(* SyslogEmitter: one datagram, and nobody to say whether it arrived.      *)

SendDatagram(h) ==
    /\ at[h] = "syslog"
    /\ \/ datagrams' = datagrams \cup {Event(h)} /\ UNCHANGED warned
       \/ Warn("syslog", {Event(h)}) /\ UNCHANGED datagrams
    /\ MoveTo(h, "otlp")
    /\ UNCHANGED <<emitted, fileVars, otlpVars>>

-----------------------------------------------------------------------------
(* OtlpEmitter: the handler's side, then the exporter's.                   *)

Enqueue(h) ==
    /\ at[h] = "otlp"
    /\ \/ /\ exporter # "gone"
          /\ queue' = Append(queue, Event(h))
          /\ UNCHANGED warned
       \/ /\ exporter = "gone"
          /\ Warn("otlp", {Event(h)})
          /\ UNCHANGED queue
    /\ MoveTo(h, "jsonl")
    /\ emitted' = [emitted EXCEPT ![h] = @ + 1]
    /\ UNCHANGED <<fileVars, datagrams, exporter, batch, stored, rejected>>

ReceiveFirst ==
    /\ exporter = "idle" /\ queue # <<>>
    /\ batch' = <<Head(queue)>>
    /\ queue' = Tail(queue)
    /\ exporter' = "collecting"
    /\ UNCHANGED <<handlerVars, fileVars, datagrams, stored, rejected, warned>>

Full == Len(batch) >= BatchMax

ReceiveMore ==
    /\ exporter = "collecting" /\ queue # <<>> /\ ~Full
    /\ batch' = Append(batch, Head(queue))
    /\ queue' = Tail(queue)
    /\ UNCHANGED <<handlerVars, fileVars, datagrams, exporter, stored, rejected, warned>>

StartPost ==
    /\ exporter = "collecting"
    /\ queue = <<>> \/ Full
    /\ exporter' = "posting"
    /\ UNCHANGED <<handlerVars, fileVars, datagrams, queue, batch, stored, rejected, warned>>

BackToKeepingTheBatch == exporter' = "idle" /\ batch' = batch
BackTo == exporter' = "idle" /\ batch' = <<>>

PostStored ==
    /\ exporter = "posting"
    /\ stored' = stored \o batch
    /\ BackTo
    /\ UNCHANGED <<handlerVars, fileVars, datagrams, queue, rejected, warned>>

\* No answer: the collector may have stored the batch all the same.
PostFailsAndStops ==
    /\ exporter = "posting"
    /\ stored' \in {stored, stored \o batch}
    /\ Warn("otlp", ToSet(batch))
    /\ exporter' = "gone" /\ batch' = <<>> /\ queue' = <<>>
    /\ UNCHANGED <<handlerVars, fileVars, datagrams, rejected>>
PostFails ==
    /\ exporter = "posting"
    /\ stored' \in {stored, stored \o batch}
    /\ Warn("otlp", ToSet(batch))
    /\ BackTo
    /\ UNCHANGED <<handlerVars, fileVars, datagrams, queue, rejected>>

\* An answer with an error status is an answer: nothing looks at the status.
PostRejected ==
    /\ exporter = "posting"
    /\ rejected' = rejected \cup ToSet(batch)
    /\ BackTo
    /\ UNCHANGED <<handlerVars, fileVars, datagrams, queue, stored, warned>>

-----------------------------------------------------------------------------
\* The process dies and is started again: what was only in memory is gone,
\* and so are the handlers that had begun.
Restart ==
    /\ at' = [h \in Handlers |-> IF emitted[h] = 0 /\ at[h] = "jsonl" THEN "jsonl" ELSE "gone"]
    /\ lock' = {}
    /\ exporter' \in {"idle", "gone"} /\ queue' = <<>> /\ batch' = <<>>
    /\ UNCHANGED <<emitted, file, datagrams, stored, rejected, warned>>

EmitStep(h) ==
    \/ Lock(h) \/ WriteLine(h) \/ WriteLineEnd(h) \/ WriteFails(h)
    \/ SendDatagram(h) \/ Enqueue(h)
ExporterStep == ReceiveFirst \/ ReceiveMore \/ StartPost
Answer == PostStored \/ PostFails \/ PostRejected

Next == (\E h \in Handlers : EmitStep(h)) \/ ExporterStep \/ Answer \/ Restart

\* A handler runs.  Nothing is assumed of the exporter or of the collector.
Fairness == \A h \in Handlers : WF_vars(EmitStep(h))
ExporterRuns == WF_vars(ExporterStep) /\ WF_vars(Answer)

Spec == Init /\ [][Next]_vars /\ Fairness

-----------------------------------------------------------------------------
Exported == stored \o batch \o queue

(* No event is exported twice, and the exporter keeps each request's       *)
(* events in the order they happened.                                      *)
ExportedOnceInOrder ==
    \A i, j \in DOMAIN Exported :
        i < j /\ Exported[i][1] = Exported[j][1] => Exported[i][2] < Exported[j][2]

(* "Failure of one does not affect the others" (Fanout): an event a        *)
(* handler is through with was given to every sink, or its failure logged. *)
EverySinkIsOffered ==
    \A h \in Handlers : \A n \in 1 .. emitted[h] :
        /\ <<h, n>> \in ToSet(file) \/ <<"jsonl", <<h, n>>>> \in warned
        /\ <<h, n>> \in datagrams \/ <<"syslog", <<h, n>>>> \in warned
        /\ at[h] = "gone" \/ <<h, n>> \in ToSet(Exported) \cup rejected
              \/ <<"otlp", <<h, n>>>> \in warned

(* An event in the file is followed by its line end, unless its writer is  *)
(* at it, its write failed or the process died there: two handlers never   *)
(* write into each other's lines.                                          *)
LinesDoNotInterleave ==
    \A i \in DOMAIN file : file[i] # LineEnd =>
        \/ i < Len(file) /\ file[i + 1] = LineEnd
        \/ i = Len(file) /\ lock = {file[i][1]}
        \/ <<"jsonl", SubSeq(file[i], 1, 2)>> \in warned
        \/ at[file[i][1]] = "gone"

(* While the process lives and the collector answers, with whatever answer, *)
(* each event in the queue is posted: no failure stops the exporter.       *)
QueueIsExported ==
    ExporterRuns =>
        \A e \in AuditEvents : e \in ToSet(queue) ~>
            \/ e \in ToSet(stored) \cup rejected
            \/ <<"otlp", e>> \in warned
            \/ at[e[1]] = "gone"
=============================================================================
