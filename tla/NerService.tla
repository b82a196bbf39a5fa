----------------------------- MODULE NerService -----------------------------
(***************************************************************************)
(* Layer 2: one inference thread behind an unbounded channel.              *)
(*                                                                         *)
(* A call is one NerService::inspect: it makes a oneshot channel, sends a  *)
(* job that owns its sending half and waits for the answer for at most     *)
(* timeout_ms.  A caller that gives up leaves its job in the queue, where  *)
(* the worker will still run it.  reply[c] is the state of call c's        *)
(* oneshot channel as its caller sees it:                                  *)
(*   unsent     the call has not been made                                 *)
(*   pending    the caller waits and the channel is empty                  *)
(*   ok, error  the worker's result is in the channel                      *)
(*   dropped    the job was destroyed with its half of the channel         *)
(*   refused    the channel to the worker was closed: nothing was sent     *)
(*   timedout   the timer won                                              *)
(*   cancelled  the caller's future was dropped, or its process died       *)
(***************************************************************************)
EXTENDS Naturals, Sequences

CONSTANT Calls

VARIABLES queue,    \* the mpsc channel of jobs, oldest first
          running,  \* the job the worker is inferring on, as a set of at most one
          alive,    \* the worker thread exists, and holds the receiving half
          reply     \* what each call's oneshot channel holds

nerVars == <<queue, running, alive, reply>>

Unavailable == {"error", "dropped", "refused"}
Final == {"ok", "timedout", "cancelled"} \cup Unavailable

Queued == {queue[i] : i \in DOMAIN queue}
Held == Queued \cup running

Init ==
    /\ queue = <<>>
    /\ running = {}
    /\ alive = TRUE
    /\ reply = [c \in Calls |-> "unsent"]

\* Sending fails only when the receiving half is gone, with the thread.
Submit(c) ==
    /\ reply[c] = "unsent"
    /\ IF alive
       THEN /\ queue' = Append(queue, c)
            /\ reply' = [reply EXCEPT ![c] = "pending"]
       ELSE /\ reply' = [reply EXCEPT ![c] = "refused"]
            /\ UNCHANGED queue
    /\ UNCHANGED <<running, alive>>

\* tokio::time::timeout polls the answer before the timer, so the timer wins
\* only while the channel is empty.  The job stays where it is.
TimeOut(c) ==
    /\ reply[c] = "pending"
    /\ reply' = [reply EXCEPT ![c] = "timedout"]
    /\ UNCHANGED <<queue, running, alive>>

\* The caller's future is dropped at its await.
Cancel(c) ==
    /\ reply[c] = "pending"
    /\ reply' = [reply EXCEPT ![c] = "cancelled"]
    /\ UNCHANGED <<queue, running, alive>>

Take ==
    /\ alive /\ running = {} /\ queue # <<>>
    /\ running' = {Head(queue)}
    /\ queue' = Tail(queue)
    /\ UNCHANGED <<alive, reply>>

\* A closed reply channel means the caller moved on; the result is discarded.
AnswerOverwrites(c, result) ==
    /\ c \in running
    /\ running' = {}
    /\ reply' = [reply EXCEPT ![c] = result]
    /\ UNCHANGED <<queue, alive>>
AnswerStopsOnClosed(c, result) ==
    /\ c \in running
    /\ reply[c] = "pending"
    /\ running' = {}
    /\ reply' = [reply EXCEPT ![c] = result]
    /\ UNCHANGED <<queue, alive>>
Answer(c, result) ==
    /\ c \in running
    /\ running' = {}
    /\ reply' = [reply EXCEPT ![c] = IF @ = "pending" THEN result ELSE @]
    /\ UNCHANGED <<queue, alive>>

\* A panic inside detect unwinds the thread: the receiving half goes, and with
\* it every queued job and the sending half of its reply channel.
DieKeepingReplies ==
    /\ alive /\ running # {}
    /\ alive' = FALSE
    /\ queue' = <<>>
    /\ running' = {}
    /\ UNCHANGED reply
Die ==
    /\ alive /\ running # {}
    /\ alive' = FALSE
    /\ queue' = <<>>
    /\ running' = {}
    /\ reply' = [c \in Calls |-> IF c \in Held /\ reply[c] = "pending"
                                 THEN "dropped" ELSE reply[c]]

\* The process is killed and started again; start() spawns a new worker.
Restart ==
    /\ queue' = <<>>
    /\ running' = {}
    /\ alive' = TRUE
    /\ reply' = [c \in Calls |-> IF reply[c] = "pending" THEN "cancelled" ELSE reply[c]]

Next ==
    \/ \E c \in Calls :
          \/ Submit(c)
          \/ TimeOut(c)
          \/ Cancel(c)
          \/ Answer(c, "ok")
          \/ Answer(c, "error")
    \/ Take
    \/ Die
    \/ Restart

\* The timer is tokio's: it fires.  Nothing is assumed of the worker, which
\* may be inside an inference that never returns.
TimersFire == \A c \in Calls : WF_nerVars(TimeOut(c))
WorkerRuns == /\ WF_nerVars(Take)
              /\ WF_nerVars(\E c \in Calls : Answer(c, "ok") \/ Answer(c, "error"))

Spec == Init /\ [][Next]_nerVars /\ TimersFire

-----------------------------------------------------------------------------
TypeOK ==
    /\ queue \in Seq(Calls)
    /\ running \in SUBSET Calls
    /\ alive \in BOOLEAN
    /\ reply \in [Calls -> {"unsent", "pending"} \cup Final]

(* No caller waits for an answer nobody can send: a pending call's job is  *)
(* in the channel or on the worker (inspect's "worker dropped the job" arm *)
(* is what keeps this true when the thread dies with jobs queued).         *)
PendingIsHeld == \A c \in Calls : reply[c] = "pending" => c \in Held

(* The worker owns one job at a time, a job is in one place, and it is     *)
(* there once: the text of a call is never inferred on twice.              *)
HeldOnce ==
    /\ \A c, d \in running : c = d
    /\ running \cap Queued = {}
    /\ \A i, j \in DOMAIN queue : queue[i] = queue[j] => i = j

(* Only calls that were made are held.                                     *)
HeldWasSent == \A c \in Held : reply[c] \notin {"unsent", "refused"}

(* A result that arrives after the timer, or after the caller hung up, is  *)
(* discarded: the outcome a caller acted on is never replaced.             *)
LateAnswerIsDiscarded ==
    [][\A c \in Calls : reply[c] \in Final => reply'[c] = reply[c]]_nerVars

(* Jobs leave the channel in the order they entered it, abandoned ones     *)
(* included: a later caller is never served before an earlier one.         *)
FirstInFirstOut ==
    [][\A i, j \in DOMAIN queue :
          i < j /\ queue[j] \notin Queued' => queue[i] \notin Queued']_nerVars

(* If inferences end, abandoned jobs do not stay in the channel for ever.  *)
QueueDrains == WorkerRuns => \A c \in Calls : c \in Queued ~> c \notin Queued
=============================================================================
