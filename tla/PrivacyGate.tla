---------------------------- MODULE PrivacyGate ----------------------------
(***************************************************************************)
(* What the gateway promises about each request, with no inference thread, *)
(* no queue, no timer and no order of steps: one request is judged in one  *)
(* step, on everything layer 1 can see in it and on what layer 2 saw in    *)
(* the parts it read, and the judgement decides together what is sent, in  *)
(* what form, and what the audit trail says.  Gateway implements this.     *)
(***************************************************************************)
EXTENDS Policy, FiniteSets

CONSTANTS Requests, Payloads, Configs

VARIABLES config,   \* the configuration read at start
          payload,  \* what each client sends
          outcome,  \* open, refused, released or lost
          clear,    \* the sensitive items that left the machine unmasked
          trail     \* the audit events of each request

gateVars == <<config, payload, outcome, clear, trail>>

Init ==
    /\ config \in Configs
    /\ payload \in [Requests -> Payloads]
    /\ outcome = [r \in Requests |-> "open"]
    /\ clear = [r \in Requests |-> {}]
    /\ trail = [r \in Requests |-> {}]

Opened(r) == {p \in PartsOf(payload[r]) : Opens(config, payload[r], p)}

\* What is found when layer 2 read exactly the parts in read.
FoundWith(r, read) ==
    (UNION {Layer1Items(payload[r], p) : p \in Opened(r)})
    \cup (UNION {Layer2Items(payload[r], p) : p \in read})

\* Refusals that need no judgement: no provider for the path, no body.
Reject(r) ==
    /\ outcome[r] = "open"
    /\ outcome' = [outcome EXCEPT ![r] = "refused"]
    /\ UNCHANGED <<config, payload, clear, trail>>

\* A body the gateway has no schema for is passed on untouched.
PassUninspected(r) ==
    /\ outcome[r] = "open"
    /\ ~Inspected(config, payload[r])
    /\ outcome' = [outcome EXCEPT ![r] = "released"]
    /\ clear' = [clear EXCEPT ![r] = Items(payload[r])]
    /\ UNCHANGED <<config, payload, trail>>

\* skipped is the reason layer 2 did not contribute everywhere it was asked,
\* "none" when it did, or when this gateway runs without it: with no reason
\* given, layer 2 read all of the request or none of it.
Judge(r, read, skipped) ==
    LET found   == FoundWith(r, read)
        overall == Overall(config, payload[r], found)
        unread  == {p \in PartsOf(payload[r]) : Unread(config, payload[r], p)}
    IN  /\ outcome[r] = "open"
        /\ Inspected(config, payload[r])
        /\ ~(config.failClosed /\ skipped # "none")
        /\ skipped = "none" => read \in {{}, Opened(r)}
        /\ trail' = [trail EXCEPT ![r] = Trail(config, payload[r], found, unread, skipped)]
        /\ \/ /\ overall < Blocked
              /\ outcome' = [outcome EXCEPT ![r] = "released"]
              /\ clear' = [clear EXCEPT ![r] =
                             Items(payload[r]) \ Rewritten(config, payload[r], found)]
           \/ /\ overall >= Masked
              /\ outcome' = [outcome EXCEPT ![r] = "refused"]
              /\ UNCHANGED clear
        /\ UNCHANGED <<config, payload>>

\* Clients hung up, or the process died, before there was a judgement.
Lose(lost) ==
    /\ lost # {}
    /\ \A r \in lost : outcome[r] = "open"
    /\ outcome' = [r \in Requests |-> IF r \in lost THEN "lost" ELSE outcome[r]]
    /\ UNCHANGED <<config, payload, clear, trail>>

Next ==
    \/ \E r \in Requests :
        \/ Reject(r)
        \/ PassUninspected(r)
        \/ \E read \in SUBSET Opened(r), skipped \in {"none", "timedout", "unavailable"} :
              Judge(r, read, skipped)
    \/ \E lost \in SUBSET Requests : Lose(lost)

Spec == Init /\ [][Next]_gateVars
=============================================================================
