-------------------------- MODULE DeviceSelection --------------------------
(***************************************************************************)
(* How a start of the gateway finds the device that runs layer 2.  Under   *)
(* AUTO every device OpenVINO enumerates is timed on the real model, or    *)
(* the timings of an earlier start are read from a cache file, and the     *)
(* devices are ranked; a device asked for by name is tried first and the   *)
(* others after it.  Then the candidates compile the model one by one.     *)
(* Starts share the cache file and may overlap, each may be killed, and    *)
(* the machine changes under them.                                         *)
(*                                                                         *)
(* at[s] is the step that start s takes next:                              *)
(*   idle       it was not launched yet                                    *)
(*   lookup, measure   read the cache, time the next device                *)
(*   merge, truncate, write   the three steps of remember                  *)
(*   rank, open, compile, bind   choose, and try the candidates            *)
(*   up, off    layer 2 runs, or the gateway does without it               *)
(*   dead       the process ended before either                            *)
(***************************************************************************)
EXTENDS Naturals, Sequences, SequencesExt

CONSTANTS
    Starts,
    Models,       \* contents of the model directory
    Size,         \* size of the .bin file of each: all the cache key has of it
    Readable,     \* the models OpenVINO can read
    Machines,     \* milliseconds per inference by device, 0 where it refuses
    Enumerations, \* what available_devices may answer, in its order
    Cards,        \* what the GPU may say of itself: its type and its full name
    Requests,     \* inference.device
    Words,        \* inference.select
    Ceiling,      \* inference.max_inference_ms
    MaxChanges    \* bound on the changes of the machine

AutoOrder == <<"NPU", "GPU", "CPU">>
Devices == ToSet(AutoOrder)
Refuses == 0

ASSUME ModelAssumption == Size \in [Models -> Nat] /\ Readable \subseteq Models
ASSUME MachineAssumption ==
    /\ Machines \subseteq [Devices -> Nat]
    /\ Enumerations \subseteq Seq(Devices)
    /\ \A list \in Enumerations :
          \A i, j \in DOMAIN list : list[i] = list[j] => i = j
ASSUME CardAssumption == Cards \subseteq {"integrated", "discrete", "none"} \X {"intel", "other"}
ASSUME CeilingAssumption == Ceiling \in Nat /\ MaxChanges \in Nat

VARIABLES
    model, speed, enumerated, card,  \* the machine
    request, select,                 \* the configuration
    legible, entries,                \* the cache file: does it parse, and what it holds
    at, key, trials, fromCache, text,
    left, refused, fellBack, device, reason,
    steady,  \* the starts during which nothing changed on the machine (history)
    changes

machine == <<model, speed, enumerated, card>>
cacheFile == <<legible, entries>>
probe == <<key, trials, fromCache, text>>
outcome == <<left, refused, fellBack, device, reason>>
vars == <<machine, request, select, cacheFile, at, probe, outcome, steady, changes>>

-----------------------------------------------------------------------------
(* Choosing.                                                               *)

Key == [size : {Size[m] : m \in Models}, available : Enumerations]
CacheKey == [size |-> Size[model], available |-> enumerated]

\* The plugin's DEVICE_TYPE decides, then the full name.
Integrated(c) == c[1] = "integrated" \/ (c[1] = "none" /\ c[2] = "intel")
CostRank(d) ==
    CASE d = "NPU" -> 0
      [] d = "GPU" -> IF Integrated(card) THEN 1 ELSE 3
      [] OTHER -> 2

Available(s) == key[s].available
Position(s, d) == CHOOSE i \in DOMAIN Available(s) : Available(s)[i] = d
Measured(s) == {Available(s)[i] : i \in DOMAIN trials[s]}
Time(s, d) == trials[s][Position(s, d)]
Usable(s) == {d \in Measured(s) : Time(s, d) # Refuses}
Inside(s) == {d \in Usable(s) : Time(s, d) <= Ceiling}
OverCeiling(s) == Inside(s) = {} /\ Usable(s) # {}

OnlyThoseInside(s) == Inside(s)
SlowOnesAsEscapeRoutes(s) == Usable(s)
\* The ceiling rejects only while something is inside it.
Survivors(s) == IF OverCeiling(s) THEN Usable(s) ELSE Inside(s)

\* An unknown word is logged and means cost.
Objective == IF select \in {"latency", "speed"} THEN "latency" ELSE "cost"

\* The sort is stable: the order of enumeration breaks the last ties.
Quicker(s, d, e) ==
    \/ Time(s, d) < Time(s, e)
    \/ Time(s, d) = Time(s, e) /\ Position(s, d) < Position(s, e)
RankedBefore(s, d, e) ==
    IF Objective = "latency" THEN Quicker(s, d, e)
    ELSE \/ CostRank(d) < CostRank(e)
         \/ CostRank(d) = CostRank(e) /\ Quicker(s, d, e)

\* A device asked for by name: itself if it is there, else the first that is,
\* and the CPU where nothing is; behind it the others in the order of AUTO.
Present(s) == ToSet(Available(s))
InAutoOrder(d, e) ==
    \E i, j \in DOMAIN AutoOrder : i < j /\ AutoOrder[i] = d /\ AutoOrder[j] = e
FirstOf(S) == CHOOSE d \in S : \A e \in S \ {d} : InAutoOrder(d, e)
Resolved(s) ==
    IF request \in Present(s) THEN request
    ELSE IF Present(s) # {} THEN FirstOf(Present(s)) ELSE "CPU"
ResolvedElsewhere(s) == Resolved(s) # request
DeviceCandidates(s) == {Resolved(s)} \cup Present(s)
ListedBefore(s, d, e) == d = Resolved(s) \/ (e # Resolved(s) /\ InAutoOrder(d, e))

Precedes(s, d, e) ==
    IF request = "AUTO" THEN RankedBefore(s, d, e) ELSE ListedBefore(s, d, e)
IsNext(s, d) == d \in left[s] /\ \A e \in left[s] \ {d} : Precedes(s, d, e)

-----------------------------------------------------------------------------

None == "none"
NoKey == [size |-> 0, available |-> <<>>]
NoEntries == [k \in {} |-> <<>>]

Init ==
    /\ model \in Models /\ speed \in Machines
    /\ enumerated \in Enumerations /\ card \in Cards
    /\ request \in Requests /\ select \in Words
    /\ legible = FALSE /\ entries = NoEntries
    /\ at = [s \in Starts |-> "idle"]
    /\ key = [s \in Starts |-> NoKey]
    /\ trials = [s \in Starts |-> <<>>]
    /\ fromCache = [s \in Starts |-> FALSE]
    /\ text = [s \in Starts |-> NoEntries]
    /\ left = [s \in Starts |-> {}]
    /\ refused = [s \in Starts |-> {}]
    /\ fellBack = [s \in Starts |-> FALSE]
    /\ device = [s \in Starts |-> None]
    /\ reason = [s \in Starts |-> None]
    /\ steady = {} /\ changes = 0

Goto(s, place) == at' = [at EXCEPT ![s] = place]
GiveUp(s, why) == Goto(s, "off") /\ reason' = [reason EXCEPT ![s] = why]

-----------------------------------------------------------------------------
(* load_with, up to the point where it knows the candidates.               *)

\* The tokenizer, the labels or the runtime cannot be loaded.
FilesMissing(s) ==
    /\ at[s] = "idle"
    /\ GiveUp(s, "files")
    /\ steady' = steady \cup {s}
    /\ UNCHANGED <<machine, request, select, cacheFile, probe, left, refused, fellBack, device, changes>>

Begin(s) ==
    /\ at[s] = "idle"
    /\ key' = [key EXCEPT ![s] = CacheKey]
    /\ Goto(s, IF request = "AUTO" THEN "lookup" ELSE "list")
    /\ steady' = steady \cup {s}
    /\ UNCHANGED <<machine, request, select, cacheFile, trials, fromCache, text, outcome, changes>>

\* An explicit request measures nothing.
List(s) ==
    /\ at[s] = "list"
    /\ left' = [left EXCEPT ![s] = DeviceCandidates(s)]
    /\ fellBack' = [fellBack EXCEPT ![s] = ResolvedElsewhere(s)]
    /\ Goto(s, "open")
    /\ UNCHANGED <<machine, request, select, cacheFile, probe, refused, device, reason, steady, changes>>

Hit(s) ==
    /\ at[s] = "lookup"
    /\ legible /\ key[s] \in DOMAIN entries
    /\ trials' = [trials EXCEPT ![s] = entries[key[s]]]
    /\ fromCache' = [fromCache EXCEPT ![s] = TRUE]
    /\ Goto(s, "rank")
    /\ UNCHANGED <<machine, request, select, cacheFile, key, text, outcome, steady, changes>>

\* No file, a file that does not parse, no such entry, or a forced probe, which
\* the operator may ask for at any start.
Miss(s) ==
    /\ at[s] = "lookup"
    /\ Goto(s, "measure")
    /\ UNCHANGED <<machine, request, select, cacheFile, probe, outcome, steady, changes>>

\* A device that is there compiles a model that can be read, unless it refuses.
Runs(d) == model \in Readable /\ d \in ToSet(enumerated) /\ speed[d] # Refuses

\* A refusal is a timing too, and so is a model that cannot be read: measure_all
\* never returns the error its documentation announces.
Measure(s) ==
    LET next == Len(trials[s]) + 1 IN
    /\ at[s] = "measure"
    /\ next <= Len(Available(s))
    /\ trials' = [trials EXCEPT ![s] =
           Append(@, IF Runs(Available(s)[next]) THEN speed[Available(s)[next]] ELSE Refuses)]
    /\ UNCHANGED <<machine, request, select, cacheFile, at, key, fromCache, text, outcome, steady, changes>>

FinishedAtTheFirstRefusal(s) ==
    \/ Len(trials[s]) = Len(Available(s))
    \/ trials[s] # <<>> /\ trials[s][Len(trials[s])] = Refuses
Finished(s) == Len(trials[s]) = Len(Available(s))
AllTimed(s) ==
    /\ at[s] = "measure"
    /\ Finished(s)
    /\ Goto(s, "merge")
    /\ UNCHANGED <<machine, request, select, cacheFile, probe, outcome, steady, changes>>

-----------------------------------------------------------------------------
(* remember: read, insert, open with truncation, write.  No lock.          *)

Kept == IF legible THEN entries ELSE NoEntries
Merge(s) ==
    /\ at[s] = "merge"
    /\ text' = [text EXCEPT ![s] =
           [k \in DOMAIN Kept \cup {key[s]} |-> IF k = key[s] THEN trials[s] ELSE Kept[k]]]
    /\ Goto(s, "truncate")
    /\ UNCHANGED <<machine, request, select, cacheFile, key, trials, fromCache, outcome, steady, changes>>

Truncate(s) ==
    /\ at[s] = "truncate"
    /\ legible' = FALSE /\ entries' = NoEntries
    /\ Goto(s, "write")
    /\ UNCHANGED <<machine, request, select, probe, outcome, steady, changes>>

\* Over what another start has written meanwhile, a longer text leaves its tail
\* behind this one.
Write(s) ==
    /\ at[s] = "write"
    /\ \/ legible' = TRUE /\ entries' = text[s]
       \/ legible /\ legible' = FALSE /\ entries' = NoEntries
    /\ Goto(s, "rank")
    /\ UNCHANGED <<machine, request, select, probe, outcome, steady, changes>>

\* The directory is read-only, or the disk is full: not an error.
CannotWrite(s) ==
    /\ at[s] \in {"truncate", "write"}
    /\ \/ at[s] = "truncate" /\ UNCHANGED cacheFile
       \/ at[s] = "write" /\ legible' = FALSE /\ entries' = NoEntries
    /\ Goto(s, "rank")
    /\ UNCHANGED <<machine, request, select, probe, outcome, steady, changes>>

-----------------------------------------------------------------------------
(* From the candidates to a device.                                        *)

Rank(s) ==
    /\ at[s] = "rank"
    /\ Survivors(s) # {}
    /\ left' = [left EXCEPT ![s] = Survivors(s)]
    /\ Goto(s, "open")
    /\ UNCHANGED <<machine, request, select, cacheFile, probe, refused, fellBack, device, reason, steady, changes>>

NothingToTry(s) ==
    /\ at[s] = "rank"
    /\ Survivors(s) = {}
    /\ GiveUp(s, "refused")
    /\ UNCHANGED <<machine, request, select, cacheFile, probe, left, refused, fellBack, device, steady, changes>>

Open(s) ==
    /\ at[s] = "open"
    /\ \/ model \in Readable /\ Goto(s, "compile") /\ UNCHANGED reason
       \/ model \notin Readable /\ GiveUp(s, "refused")
    /\ UNCHANGED <<machine, request, select, cacheFile, probe, left, refused, fellBack, device, steady, changes>>

\* The loop that compiles has the model in memory: a change on disk does not
\* reach it, but a device may disappear.
CompilesOn(d) == d \in ToSet(enumerated) /\ speed[d] # Refuses

Compile(s, d) ==
    /\ at[s] = "compile" /\ IsNext(s, d)
    /\ CompilesOn(d)
    /\ device' = [device EXCEPT ![s] = d]
    /\ fellBack' = [fellBack EXCEPT ![s] = @ \/ refused[s] # {}]
    /\ Goto(s, "bind")
    /\ UNCHANGED <<machine, request, select, cacheFile, probe, left, refused, reason, steady, changes>>

CompileRefused(s, d) ==
    /\ at[s] = "compile" /\ IsNext(s, d)
    /\ ~ CompilesOn(d)
    /\ left' = [left EXCEPT ![s] = @ \ {d}]
    /\ refused' = [refused EXCEPT ![s] = @ \cup {d}]
    /\ UNCHANGED <<machine, request, select, cacheFile, at, probe, fellBack, device, reason, steady, changes>>

EveryoneRefused(s) ==
    /\ at[s] = "compile" /\ left[s] = {}
    /\ GiveUp(s, "refused")
    /\ UNCHANGED <<machine, request, select, cacheFile, probe, left, refused, fellBack, device, steady, changes>>

\* Reading the shapes and creating the request: either works or ends the load.
Bind(s) ==
    /\ at[s] = "bind"
    /\ \/ Goto(s, "up") /\ UNCHANGED reason
       \/ GiveUp(s, "shapes")
    /\ UNCHANGED <<machine, request, select, cacheFile, probe, left, refused, fellBack, device, steady, changes>>

-----------------------------------------------------------------------------
(* Everything else.                                                        *)

Kill(s) ==
    /\ at[s] \notin {"idle", "up", "off", "dead"}
    /\ Goto(s, "dead")
    /\ UNCHANGED <<machine, request, select, cacheFile, probe, outcome, steady, changes>>

\* A driver is updated, a device added, removed or kept busy by somebody else,
\* the model directory is damaged, repaired or replaced.
MachineChanges ==
    /\ changes < MaxChanges
    /\ changes' = changes + 1
    /\ steady' = {}
    /\ \/ model' \in Models /\ UNCHANGED <<speed, enumerated>>
       \/ speed' \in Machines /\ UNCHANGED <<model, enumerated>>
       \/ enumerated' \in Enumerations /\ UNCHANGED <<model, speed>>
    /\ UNCHANGED <<card, request, select, cacheFile, at, probe, outcome>>

Next ==
    \/ \E s \in Starts :
          \/ FilesMissing(s) \/ Begin(s) \/ List(s) \/ Hit(s) \/ Miss(s)
          \/ Measure(s) \/ AllTimed(s) \/ Merge(s) \/ Truncate(s) \/ Write(s) \/ CannotWrite(s)
          \/ Rank(s) \/ NothingToTry(s) \/ Open(s)
          \/ \E d \in Devices : Compile(s, d) \/ CompileRefused(s, d)
          \/ EveryoneRefused(s) \/ Bind(s) \/ Kill(s)
    \/ MachineChanges

Spec == Init /\ [][Next]_vars

-----------------------------------------------------------------------------
(* Properties.                                                             *)

TypeOK ==
    /\ model \in Models /\ speed \in Machines /\ enumerated \in Enumerations /\ card \in Cards
    /\ request \in Requests /\ select \in Words
    /\ legible \in BOOLEAN /\ DOMAIN entries \subseteq Key
    /\ at \in [Starts -> {"idle", "lookup", "measure", "merge", "truncate", "write", "rank",
                          "list", "open", "compile", "bind", "up", "off", "dead"}]
    /\ key \in [Starts -> Key \cup {NoKey}]
    /\ \A s \in Starts : Len(trials[s]) <= Len(Available(s))
    /\ fromCache \in [Starts -> BOOLEAN] /\ fellBack \in [Starts -> BOOLEAN]
    /\ left \in [Starts -> SUBSET Devices] /\ refused \in [Starts -> SUBSET Devices]
    /\ device \in [Starts -> Devices \cup {None}]
    /\ reason \in [Starts -> {None, "files", "refused", "shapes"}]
    /\ steady \subseteq Starts /\ changes \in 0 .. MaxChanges

\* What is remembered under a key times every device of that key's enumeration:
\* a probe cut short, a file half written or overwritten by another start never
\* hides a device from later starts (select::remember, select::cached).
RememberedTrialsAreComplete ==
    legible => \A k \in DOMAIN entries : Len(entries[k]) = Len(k.available)

\* Layer 2 is given up for want of a device only where no device would run the
\* model: the ceiling alone never switches it off, nor does a device asked for
\* that is missing.  Of a start that measured, or was told its device, while the
\* machine stayed as it was (rank, device_candidates, load_with).
OffOnlyWhenNothingRuns ==
    \A s \in steady :
        at[s] = "off" /\ reason[s] = "refused" /\ ~ fromCache[s]
            => \A d \in Present(s) : ~ Runs(d)

Costs(s, d, e) ==
    \/ CostRank(d) > CostRank(e)
    \/ CostRank(d) = CostRank(e) /\ Time(s, d) >= Time(s, e)

\* Under AUTO the device in use is inside the ceiling if any was timed inside
\* it, and no device on its side of the ceiling is passed over that was better,
\* unless it refused to compile since: quicker, where latency is asked for;
\* cheaper, or as cheap and quicker, where cost is and the ceiling is met.  With
\* everything over the ceiling, whether the quickest or the cheapest is to be
\* taken under cost is left open, as the code and its comments disagree, but
\* never one that is slower than another and no cheaper (select::rank).
NothingBetterIsPassedOver ==
    \A s \in Starts :
        request = "AUTO" /\ device[s] # None =>
            \A d \in Usable(s) \ refused[s] :
                /\ d \in Inside(s) => device[s] \in Inside(s)
                /\ (d \in Inside(s) <=> device[s] \in Inside(s)) =>
                       /\ Objective = "latency" => Time(s, d) >= Time(s, device[s])
                       /\ Objective = "cost" /\ d \in Inside(s) => Costs(s, d, device[s])
                       /\ CostRank(d) <= CostRank(device[s]) => Time(s, d) >= Time(s, device[s])

\* "Which device executed" is reported: where a device was asked for by name,
\* fell_back is set exactly when another one runs (load_with).
FallbackIsReported ==
    \A s \in Starts :
        request # "AUTO" /\ device[s] # None => (fellBack[s] <=> device[s] # request)
=============================================================================
