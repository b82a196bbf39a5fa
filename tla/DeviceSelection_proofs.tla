----------------------- MODULE DeviceSelection_proofs -----------------------
(***************************************************************************)
(* Device selection for any number of starts, any machines, enumerations,  *)
(* models, ceiling and number of changes of the machine.  The invariant    *)
(* has a part for each question: what is typed and complete (Typed), where *)
(* a start is and what it has decided by then (Progress), which candidates *)
(* it is through with (Trying), what it will report (Reporting), and what  *)
(* it knows of a machine that stayed as it was (Knowing).                  *)
(***************************************************************************)
EXTENDS DeviceSelection, TLAPS

\* A cache file that parses: every entry times its whole enumeration.
Files == {f \in UNION {[K -> Seq(Nat)] : K \in SUBSET Key} :
             \A k \in DOMAIN f : Len(f[k]) = Len(k.available)}

Probing == {"lookup", "measure", "merge", "truncate", "write", "rank"}
Timed == {"merge", "truncate", "write", "rank"}
Loading == {"open", "compile"}
Ended == {"up", "off", "dead"}
Places == {"idle", "list"} \cup Probing \cup Loading \cup {"bind"} \cup Ended

Typed ==
    /\ model \in Models /\ speed \in Machines /\ enumerated \in Enumerations /\ card \in Cards
    /\ request \in Requests /\ select \in Words
    /\ legible \in BOOLEAN /\ entries \in Files
    /\ at \in [Starts -> Places]
    /\ key \in [Starts -> Key \cup {NoKey}]
    /\ trials \in [Starts -> Seq(Nat)]
    /\ \A s \in Starts : Len(trials[s]) <= Len(Available(s))
    /\ fromCache \in [Starts -> BOOLEAN] /\ fellBack \in [Starts -> BOOLEAN]
    /\ text \in [Starts -> Files]
    /\ left \in [Starts -> SUBSET Devices] /\ refused \in [Starts -> SUBSET Devices]
    /\ device \in [Starts -> Devices \cup {None}]
    /\ reason \in [Starts -> {None, "files", "refused", "shapes"}]
    /\ steady \subseteq Starts /\ changes \in 0 .. MaxChanges

Progress(s) ==
    /\ at[s] = "idle" => key[s] = NoKey /\ trials[s] = <<>>
    /\ at[s] \in {"idle", "list", "lookup"} => trials[s] = <<>> /\ ~ fromCache[s]
    /\ at[s] \in Probing => key[s] \in Key /\ request = "AUTO"
    /\ at[s] \in {"list"} \cup Loading => key[s] \in Key
    /\ at[s] = "list" => request # "AUTO"
    /\ at[s] \in Timed => Len(trials[s]) = Len(Available(s))
    /\ at[s] \in Loading /\ request = "AUTO" => Len(trials[s]) = Len(Available(s))
    /\ at[s] \in {"idle", "list"} \cup Probing => refused[s] = {} /\ fellBack[s] = FALSE
    /\ at[s] \in {"idle", "list"} \cup Probing \cup Loading => device[s] = None

Candidates(s) == IF request = "AUTO" THEN Survivors(s) ELSE DeviceCandidates(s)

\* The candidates are those still to try and those that refused, and the device
\* in use was the first of those still to try.
Trying(s) ==
    at[s] \in Loading \/ device[s] # None =>
        /\ left[s] \cup refused[s] = Candidates(s)
        /\ left[s] \cap refused[s] = {}
        /\ Candidates(s) # {}
        /\ device[s] # None => IsNext(s, device[s])

Reporting(s) ==
    /\ request # "AUTO" /\ at[s] \in Loading =>
           /\ fellBack[s] = ResolvedElsewhere(s)
           /\ refused[s] # {} => Resolved(s) \in refused[s]
    /\ request # "AUTO" /\ device[s] # None => (fellBack[s] <=> device[s] # request)

\* What a start saw still holds where nothing changed.
Knowing(s) ==
    s \in steady =>
        /\ at[s] # "idle"
        /\ at[s] \in {"list"} \cup Probing \cup Loading => Available(s) = enumerated
        /\ at[s] \in Probing \cup Loading /\ ~ fromCache[s] =>
               \A i \in DOMAIN trials[s] :
                   trials[s][i] = IF Runs(Available(s)[i]) THEN speed[Available(s)[i]] ELSE Refuses
        /\ at[s] \in Loading => \A d \in refused[s] : ~ CompilesOn(d)
        /\ at[s] = "off" /\ reason[s] = "refused" /\ ~ fromCache[s]
               => \A d \in Present(s) : ~ Runs(d)

IInv ==
    /\ Typed
    /\ \A s \in Starts : Progress(s) /\ Trying(s) /\ Reporting(s) /\ Knowing(s)

-----------------------------------------------------------------------------
(* Enumerations, timings and candidates.                                   *)

LEMMA AvailableFacts ==
    ASSUME Typed, NEW s \in Starts
    PROVE  /\ Available(s) \in Seq(Devices)
           /\ \A i, j \in DOMAIN Available(s) : Available(s)[i] = Available(s)[j] => i = j
<1>1. CASE key[s] \in Key
  <2>1. Available(s) \in Enumerations
    BY <1>1 DEF Available, Key
  <2>2. QED
    BY <2>1, MachineAssumption
<1>2. CASE key[s] = NoKey
  BY <1>2 DEF Available, NoKey
<1>3. QED
  BY <1>1, <1>2 DEF Typed

LEMMA TimeFacts ==
    ASSUME Typed, NEW s \in Starts
    PROVE  /\ \A i \in DOMAIN trials[s] :
                  /\ i \in DOMAIN Available(s)
                  /\ Available(s)[i] \in Measured(s)
                  /\ Time(s, Available(s)[i]) = trials[s][i]
           /\ \A d \in Measured(s) : d \in Devices /\ d \in Present(s) /\ Time(s, d) \in Nat
           /\ Survivors(s) \subseteq Usable(s) /\ Usable(s) \subseteq Measured(s)
<1> DEFINE list == Available(s)
           timings == trials[s]
<1>1. /\ list \in Seq(Devices)
      /\ \A i, j \in DOMAIN list : list[i] = list[j] => i = j
  BY AvailableFacts
<1>2. timings \in Seq(Nat) /\ Len(timings) <= Len(list)
  BY DEF Typed
<1> HIDE DEF list, timings
<1>3. \A i \in DOMAIN timings : i \in DOMAIN list /\ timings[i] \in Nat
  BY <1>1, <1>2
<1>4. \A i \in DOMAIN list : (CHOOSE j \in DOMAIN list : list[j] = list[i]) = i
  BY <1>1
<1>5. \A i \in DOMAIN list : list[i] \in Devices
  BY <1>1
<1>6. ASSUME NEW i \in DOMAIN timings
      PROVE  /\ i \in DOMAIN list
             /\ list[i] \in Measured(s)
             /\ Time(s, list[i]) = timings[i]
  BY <1>3, <1>4 DEF Measured, Time, Position, list, timings
<1>7. ASSUME NEW d \in Measured(s)
      PROVE  d \in Devices /\ d \in Present(s) /\ Time(s, d) \in Nat
  <2>1. PICK i \in DOMAIN timings : d = list[i]
    BY DEF Measured, list, timings
  <2>2. QED
    BY <2>1, <1>3, <1>5, <1>6 DEF Present, ToSet, list
<1>8. Survivors(s) \subseteq Usable(s) /\ Usable(s) \subseteq Measured(s)
  BY DEF Survivors, Inside, Usable
<1>9. QED
  BY <1>6, <1>7, <1>8 DEF list, timings

LEMMA ResolvedFacts ==
    ASSUME Typed, NEW s \in Starts
    PROVE  /\ Present(s) \subseteq Devices
           /\ Resolved(s) \in Devices
           /\ request \notin Present(s) => Resolved(s) # request \/ Present(s) = {}
<1>1. Present(s) \subseteq Devices
  <2>1. \A i \in DOMAIN Available(s) : Available(s)[i] \in Devices
    BY AvailableFacts
  <2>2. QED
    BY <2>1 DEF Present, ToSet
<1>2. Devices = {"NPU", "GPU", "CPU"}
  BY DEF Devices, AutoOrder, ToSet
<1>3. ASSUME Present(s) # {} PROVE FirstOf(Present(s)) \in Present(s)
  <2>1. InAutoOrder("NPU", "GPU") /\ InAutoOrder("NPU", "CPU") /\ InAutoOrder("GPU", "CPU")
    BY DEF InAutoOrder, AutoOrder
  <2>2. \E d \in Present(s) : \A e \in Present(s) \ {d} : InAutoOrder(d, e)
    BY <1>1, <1>2, <1>3, <2>1
  <2>3. QED
    BY <2>2 DEF FirstOf
<1>4. Resolved(s) \in Devices
  BY <1>1, <1>2, <1>3 DEF Resolved
<1>5. QED
  BY <1>1, <1>3, <1>4 DEF Resolved

(* What a start considers depends on its key, its timings and the          *)
(* configuration, and on nothing else that moves.                          *)
LEMMA SameView ==
    ASSUME NEW s \in Starts, key'[s] = key[s], trials'[s] = trials[s],
           request' = request, select' = select, card' = card
    PROVE  /\ Available(s)' = Available(s) /\ Present(s)' = Present(s)
           /\ Resolved(s)' = Resolved(s) /\ ResolvedElsewhere(s)' = ResolvedElsewhere(s)
           /\ Candidates(s)' = Candidates(s)
           /\ \A d, e : Precedes(s, d, e)' <=> Precedes(s, d, e)
<1>1. Available(s)' = Available(s)
  BY DEF Available
<1>2. Present(s)' = Present(s)
  BY <1>1 DEF Present
<1>3. Resolved(s)' = Resolved(s)
  BY <1>2 DEF Resolved
<1>4. \A d : Position(s, d)' = Position(s, d)
  BY <1>1 DEF Position
<1>5. \A d : Time(s, d)' = Time(s, d)
  BY <1>4 DEF Time
<1>6. Measured(s)' = Measured(s)
  BY <1>1 DEF Measured
<1>7. Usable(s)' = Usable(s)
  BY <1>5, <1>6 DEF Usable
<1>8. Inside(s)' = Inside(s)
  BY <1>5, <1>7 DEF Inside
<1>9. Survivors(s)' = Survivors(s)
  BY <1>7, <1>8 DEF Survivors, OverCeiling
<1>10. Candidates(s)' = Candidates(s)
  BY <1>2, <1>3, <1>9 DEF Candidates, DeviceCandidates
<1>11. \A d, e : Quicker(s, d, e)' <=> Quicker(s, d, e)
  BY <1>4, <1>5 DEF Quicker
<1>12. \A d, e : RankedBefore(s, d, e)' <=> RankedBefore(s, d, e)
  BY <1>11 DEF RankedBefore, Objective, CostRank
<1>13. \A d, e : Precedes(s, d, e)' <=> Precedes(s, d, e)
  BY <1>3, <1>12 DEF Precedes, ListedBefore
<1>14. QED
  BY <1>1, <1>2, <1>3, <1>10, <1>13 DEF ResolvedElsewhere

\* Start s is where it was and knows what it knew.
Untouched(s) ==
    /\ at'[s] = at[s] /\ key'[s] = key[s] /\ trials'[s] = trials[s]
    /\ fromCache'[s] = fromCache[s] /\ fellBack'[s] = fellBack[s]
    /\ left'[s] = left[s] /\ refused'[s] = refused[s]
    /\ device'[s] = device[s] /\ reason'[s] = reason[s]

LEMMA UntouchedKeepsProgress ==
    ASSUME NEW s \in Starts, Untouched(s), request' = request, select' = select, card' = card,
           Progress(s), Trying(s), Reporting(s)
    PROVE  Progress(s)' /\ Trying(s)' /\ Reporting(s)'
<1> USE DEF Untouched
<1>1. /\ Available(s)' = Available(s)
      /\ Resolved(s)' = Resolved(s) /\ ResolvedElsewhere(s)' = ResolvedElsewhere(s)
      /\ Candidates(s)' = Candidates(s)
      /\ \A d, e : Precedes(s, d, e)' <=> Precedes(s, d, e)
  BY SameView
<1>2. \A d : IsNext(s, d)' <=> IsNext(s, d)
  BY <1>1 DEF IsNext
<1>3. Progress(s)'
  BY <1>1 DEF Progress
<1>4. Trying(s)'
  BY <1>1, <1>2 DEF Trying
<1>5. Reporting(s)'
  BY <1>1 DEF Reporting
<1>6. QED
  BY <1>3, <1>4, <1>5

LEMMA UntouchedKeepsKnowing ==
    ASSUME NEW s \in Starts, Untouched(s), UNCHANGED machine, request' = request,
           s \in steady' => s \in steady, Knowing(s)
    PROVE  Knowing(s)'
<1>1. Available(s)' = Available(s) /\ Present(s)' = Present(s)
  BY DEF Untouched, Available, Present
<1>2. \A d : (Runs(d)' <=> Runs(d)) /\ (CompilesOn(d)' <=> CompilesOn(d))
  BY DEF Runs, CompilesOn, machine
<1>3. QED
  BY <1>1, <1>2 DEF Knowing, Untouched, machine

-----------------------------------------------------------------------------
(* The first part: types.                                                  *)

LEMMA FileFacts ==
    /\ NoEntries \in Files
    /\ \A f \in Files, k \in Key, t \in Seq(Nat) :
          Len(t) = Len(k.available) =>
              [j \in DOMAIN f \cup {k} |-> IF j = k THEN t ELSE f[j]] \in Files
    /\ \A f \in Files : \A k \in DOMAIN f :
          k \in Key /\ f[k] \in Seq(Nat) /\ Len(f[k]) = Len(k.available)
<1>1. \A f \in Files : \A k \in DOMAIN f :
         k \in Key /\ f[k] \in Seq(Nat) /\ Len(f[k]) = Len(k.available)
  BY DEF Files
<1>2. NoEntries \in Files
  <2>1. NoEntries \in [{} -> Seq(Nat)]
    BY DEF NoEntries
  <2>2. QED
    BY <2>1 DEF Files
<1>3. ASSUME NEW f \in Files, NEW k \in Key, NEW t \in Seq(Nat), Len(t) = Len(k.available)
      PROVE  [j \in DOMAIN f \cup {k} |-> IF j = k THEN t ELSE f[j]] \in Files
  <2> DEFINE g == [j \in DOMAIN f \cup {k} |-> IF j = k THEN t ELSE f[j]]
  <2>1. DOMAIN f \cup {k} \in SUBSET Key
    BY <1>1
  <2>2. g \in [DOMAIN f \cup {k} -> Seq(Nat)]
    BY <1>1, <1>3
  <2>3. \A j \in DOMAIN g : Len(g[j]) = Len(j.available)
    BY <1>1, <1>3
  <2> HIDE DEF g
  <2>4. g \in Files
    BY <2>1, <2>2, <2>3 DEF Files
  <2>5. QED
    BY <2>4 DEF g
<1>4. QED
  BY <1>1, <1>2, <1>3

LEMMA KeyFacts ==
    ASSUME Typed
    PROVE  CacheKey \in Key /\ \A k \in Key : k.available \in Enumerations
<1>1. CacheKey.size \in {Size[m] : m \in Models}
  BY DEF Typed, CacheKey
<1>2. QED
  BY <1>1 DEF Typed, CacheKey, Key

LEMMA TypedStep ==
    ASSUME IInv, [Next]_vars
    PROVE  Typed'
<1> USE DEF Probing, Timed, Loading, Ended, Places, machine, cacheFile, probe, outcome, Goto, GiveUp
<1>0. Typed /\ \A s \in Starts : Progress(s)
  BY DEF IInv
<1>1. ASSUME NEW s \in Starts, FilesMissing(s) PROVE Typed'
  BY <1>0, <1>1 DEF Typed, FilesMissing, Available
<1>2. ASSUME NEW s \in Starts, Begin(s) PROVE Typed'
  <2>1. key' \in [Starts -> Key \cup {NoKey}] /\ at' \in [Starts -> Places]
    BY <1>0, <1>2, KeyFacts DEF Typed, Begin
  <2>2. \A t \in Starts : Len(trials'[t]) <= Len(Available(t)')
    <3>1. ASSUME NEW t \in Starts PROVE Len(trials'[t]) <= Len(Available(t)')
      <4>1. CASE t # s
        BY <1>0, <1>2, <4>1 DEF Typed, Begin, Available
      <4>2. CASE t = s
        <5>1. trials'[s] = <<>> /\ Available(s)' = enumerated /\ enumerated \in Seq(Devices)
          BY <1>0, <1>2, MachineAssumption DEF Typed, Begin, Available, CacheKey, Progress
        <5>2. QED
          BY <4>2, <5>1
      <4>3. QED
        BY <4>1, <4>2
    <3>2. QED
      BY <3>1
  <2>3. QED
    BY <1>0, <1>2, <2>1, <2>2 DEF Typed, Begin
<1>3. ASSUME NEW s \in Starts, List(s) PROVE Typed'
  <2>1. DeviceCandidates(s) \subseteq Devices
    BY <1>0, ResolvedFacts DEF DeviceCandidates
  <2>2. ResolvedElsewhere(s) \in BOOLEAN
    BY DEF ResolvedElsewhere
  <2>3. QED
    BY <1>0, <1>3, <2>1, <2>2 DEF Typed, List, Available
<1>4. ASSUME NEW s \in Starts, Hit(s) PROVE Typed'
  <2>1. /\ entries[key[s]] \in Seq(Nat)
        /\ Len(entries[key[s]]) = Len(Available(s))
    BY <1>0, <1>4, FileFacts DEF Typed, Hit, Available
  <2>2. Len(Available(s)) \in Nat
    BY <1>0, AvailableFacts
  <2>3. QED
    BY <1>0, <1>4, <2>1, <2>2 DEF Typed, Hit, Available
<1>5. ASSUME NEW s \in Starts, Miss(s) PROVE Typed'
  BY <1>0, <1>5 DEF Typed, Miss, Available
<1>6. ASSUME NEW s \in Starts, Measure(s) PROVE Typed'
  <2> DEFINE next == Len(trials[s]) + 1
             time == IF Runs(Available(s)[next]) THEN speed[Available(s)[next]] ELSE Refuses
  <2>1. next \in DOMAIN Available(s) /\ Available(s)[next] \in Devices
    BY <1>0, <1>6, AvailableFacts DEF Typed, Measure
  <2>2. time \in Nat
    BY <1>0, <2>1, MachineAssumption DEF Typed, Refuses
  <2> HIDE DEF time
  <2>3. Append(trials[s], time) \in Seq(Nat) /\ Len(Append(trials[s], time)) = next
    BY <1>0, <2>2 DEF Typed
  <2>4. trials' = [trials EXCEPT ![s] = Append(trials[s], time)]
    BY <1>6 DEF Measure, time
  <2>5. next <= Len(Available(s))
    BY <1>6 DEF Measure
  <2>6. QED
    BY <1>0, <1>6, <2>3, <2>4, <2>5 DEF Typed, Measure, Available
<1>7. ASSUME NEW s \in Starts, AllTimed(s) PROVE Typed'
  BY <1>0, <1>7 DEF Typed, AllTimed, Available
<1>8. ASSUME NEW s \in Starts, Merge(s) PROVE Typed'
  <2>1. Kept \in Files
    BY <1>0, FileFacts DEF Typed, Kept
  <2>2. key[s] \in Key /\ trials[s] \in Seq(Nat) /\ Len(trials[s]) = Len(key[s].available)
    BY <1>0, <1>8 DEF Typed, Progress, Merge, Available
  <2>3. [k \in DOMAIN Kept \cup {key[s]} |-> IF k = key[s] THEN trials[s] ELSE Kept[k]] \in Files
    BY <2>1, <2>2, FileFacts
  <2>4. QED
    BY <1>0, <1>8, <2>3 DEF Typed, Merge, Available
<1>9. ASSUME NEW s \in Starts, Truncate(s) PROVE Typed'
  BY <1>0, <1>9, FileFacts DEF Typed, Truncate, Available
<1>10. ASSUME NEW s \in Starts, Write(s) PROVE Typed'
  BY ZenonT(90), <1>0, <1>10, FileFacts DEF Typed, Write, Available
<1>11. ASSUME NEW s \in Starts, CannotWrite(s) PROVE Typed'
  BY <1>0, <1>11, FileFacts DEF Typed, CannotWrite, Available
<1>12. ASSUME NEW s \in Starts, Rank(s) PROVE Typed'
  <2>1. Survivors(s) \subseteq Devices
    BY <1>0, TimeFacts
  <2>2. QED
    BY <1>0, <1>12, <2>1 DEF Typed, Rank, Available
<1>13. ASSUME NEW s \in Starts, NothingToTry(s) PROVE Typed'
  BY <1>0, <1>13 DEF Typed, NothingToTry, Available
<1>14. ASSUME NEW s \in Starts, Open(s) PROVE Typed'
  BY <1>0, <1>14 DEF Typed, Open, Available
<1>15. ASSUME NEW s \in Starts, NEW d \in Devices, Compile(s, d) PROVE Typed'
  BY <1>0, <1>15 DEF Typed, Compile, Available
<1>16. ASSUME NEW s \in Starts, NEW d \in Devices, CompileRefused(s, d) PROVE Typed'
  BY <1>0, <1>16 DEF Typed, CompileRefused, Available
<1>17. ASSUME NEW s \in Starts, EveryoneRefused(s) PROVE Typed'
  BY <1>0, <1>17 DEF Typed, EveryoneRefused, Available
<1>18. ASSUME NEW s \in Starts, Bind(s) PROVE Typed'
  BY <1>0, <1>18 DEF Typed, Bind, Available
<1>19. ASSUME NEW s \in Starts, Kill(s) PROVE Typed'
  BY <1>0, <1>19 DEF Typed, Kill, Available
<1>20. CASE MachineChanges
  BY <1>0, <1>20, CeilingAssumption DEF Typed, MachineChanges, Available
<1>21. CASE UNCHANGED vars
  BY <1>0, <1>21 DEF Typed, vars, Available
<1>22. QED
  BY <1>1, <1>2, <1>3, <1>4, <1>5, <1>6, <1>7, <1>8, <1>9, <1>10, <1>11, <1>12, <1>13,
     <1>14, <1>15, <1>16, <1>17, <1>18, <1>19, <1>20, <1>21 DEF Next

-----------------------------------------------------------------------------
(* The other parts, of the start that takes the step.                      *)

Parts(s) == Progress(s) /\ Trying(s) /\ Reporting(s) /\ Knowing(s)

\* Steps that only go on to the next one, before there are candidates.
LEMMA BeforeCandidates ==
    ASSUME IInv, NEW s \in Starts,
           FilesMissing(s) \/ Begin(s) \/ Hit(s) \/ Miss(s) \/ AllTimed(s) \/ Merge(s)
              \/ Truncate(s) \/ Write(s) \/ CannotWrite(s)
    PROVE  Parts(s)'
<1> USE DEF Probing, Timed, Loading, Ended, Places, machine, cacheFile, probe, outcome, Goto, GiveUp
<1>0. Typed /\ Progress(s) /\ Knowing(s)
  BY DEF IInv
<1>1. CASE FilesMissing(s)
  <2>1. device'[s] = None /\ at'[s] = "off" /\ reason'[s] = "files"
    BY <1>0, <1>1 DEF Typed, FilesMissing, Progress
  <2>2. QED
    BY <1>0, <2>1 DEF Parts, Progress, Trying, Reporting, Knowing
<1>2. CASE Begin(s)
  <2>1. /\ device'[s] = None /\ trials'[s] = <<>> /\ ~ fromCache'[s]
        /\ refused'[s] = {} /\ fellBack'[s] = FALSE
        /\ key'[s] = CacheKey /\ at'[s] = IF request = "AUTO" THEN "lookup" ELSE "list"
        /\ UNCHANGED <<request, enumerated>>
    BY <1>0, <1>2 DEF Typed, Begin, Progress
  <2>2. Available(s)' = enumerated' /\ key'[s] \in Key
    BY <1>0, <2>1, KeyFacts DEF Available, CacheKey
  <2>3. DOMAIN trials'[s] = {}
    BY <2>1
  <2>4. Knowing(s)'
    BY <2>1, <2>2, <2>3 DEF Knowing
  <2>5. QED
    BY <2>1, <2>2, <2>4 DEF Parts, Progress, Trying, Reporting
<1>3. CASE Hit(s)
  <2>1. /\ at[s] = "lookup" /\ at'[s] = "rank" /\ key'[s] = key[s] /\ fromCache'[s] = TRUE
        /\ device'[s] = device[s] /\ refused'[s] = refused[s] /\ fellBack'[s] = fellBack[s]
        /\ trials'[s] = entries[key[s]]
        /\ UNCHANGED <<request, enumerated, steady>>
    BY <1>0, <1>3 DEF Typed, Hit
  <2>2. Len(trials'[s]) = Len(Available(s)') /\ Available(s)' = Available(s)
    BY <1>0, <1>3, <2>1, FileFacts DEF Typed, Hit, Available
  <2>3. QED
    BY <1>0, <2>1, <2>2 DEF Parts, Progress, Trying, Reporting, Knowing
<1>4. CASE Miss(s) \/ AllTimed(s) \/ Merge(s) \/ Truncate(s) \/ Write(s) \/ CannotWrite(s)
  <2>1. /\ at[s] \in Probing /\ at'[s] \in Probing \ {"lookup"}
        /\ at'[s] = "measure" => at[s] = "lookup"
        /\ at'[s] \in Timed => at[s] \in Timed \/ Len(trials[s]) = Len(Available(s))
        /\ key'[s] = key[s] /\ trials'[s] = trials[s] /\ fromCache'[s] = fromCache[s]
        /\ device'[s] = device[s] /\ refused'[s] = refused[s] /\ fellBack'[s] = fellBack[s]
        /\ UNCHANGED <<machine, request, select, steady>>
    BY <1>0, <1>4 DEF Typed, Miss, AllTimed, Finished, Merge, Truncate, Write, CannotWrite
  <2>2. Available(s)' = Available(s) /\ \A d : Runs(d)' <=> Runs(d)
    BY <2>1 DEF Available, Runs
  <2>3. Progress(s)'
    BY <1>0, <2>1, <2>2 DEF Progress
  <2>4. Knowing(s)'
    BY <1>0, <2>1, <2>2 DEF Knowing
  <2>5. device'[s] = None /\ request' = "AUTO"
    BY <1>0, <2>1 DEF Progress
  <2>6. QED
    BY <2>1, <2>3, <2>4, <2>5 DEF Parts, Trying, Reporting
<1>5. QED
  BY <1>1, <1>2, <1>3, <1>4

LEMMA MeasureStep ==
    ASSUME IInv, NEW s \in Starts, Measure(s)
    PROVE  Parts(s)'
<1> USE DEF Probing, Timed, Loading, Ended, Places, machine, cacheFile, probe, outcome
<1> DEFINE next == Len(trials[s]) + 1
           time == IF Runs(Available(s)[next]) THEN speed[Available(s)[next]] ELSE Refuses
<1>0. Typed /\ Progress(s) /\ Knowing(s)
  BY DEF IInv
<1>1. /\ at[s] = "measure" /\ at'[s] = "measure" /\ key'[s] = key[s]
      /\ fromCache'[s] = fromCache[s] /\ device'[s] = device[s]
      /\ refused'[s] = refused[s] /\ fellBack'[s] = fellBack[s]
      /\ trials'[s] = Append(trials[s], time)
      /\ UNCHANGED <<machine, request, steady>>
  BY <1>0 DEF Typed, Measure
<1>2. Available(s)' = Available(s) /\ \A d : Runs(d)' <=> Runs(d)
  BY <1>1 DEF Available, Runs
<1>3. ASSUME s \in steady, ~ fromCache[s], NEW i \in DOMAIN trials'[s]
      PROVE  trials'[s][i] =
                 IF Runs(Available(s)[i]) THEN speed[Available(s)[i]] ELSE Refuses
  <2>1. trials[s] \in Seq(Nat)
    BY <1>0 DEF Typed
  <2>2. CASE i \in DOMAIN trials[s]
    <3>1. trials'[s][i] = trials[s][i]
      BY <1>1, <2>1, <2>2
    <3>2. QED
      BY <1>0, <1>1, <1>3, <2>2, <3>1 DEF Knowing
  <2>3. CASE i = next
    <3>1. trials'[s][i] = time
      BY <1>1, <2>1, <2>3
    <3>2. QED
      BY <2>3, <3>1
  <2>4. QED
    <3> HIDE DEF time
    <3>1. DOMAIN trials'[s] = 1 .. next /\ DOMAIN trials[s] = 1 .. Len(trials[s])
      BY <1>1, <2>1
    <3>2. QED
      BY <2>1, <2>2, <2>3, <3>1
<1> HIDE DEF time
<1>4. Knowing(s)'
  BY <1>0, <1>1, <1>2, <1>3 DEF Knowing
<1>5. Progress(s)'
  BY <1>0, <1>1, <1>2 DEF Progress
<1>6. device'[s] = None /\ request' = "AUTO"
  BY <1>0, <1>1 DEF Progress
<1>7. QED
  BY <1>1, <1>4, <1>5, <1>6 DEF Parts, Trying, Reporting

\* The candidates are known.
LEMMA CandidatesStep ==
    ASSUME IInv, NEW s \in Starts, List(s) \/ Rank(s)
    PROVE  Parts(s)'
<1> USE DEF Probing, Timed, Loading, Ended, Places, machine, cacheFile, probe, outcome, Goto
<1>0. Typed /\ Progress(s) /\ Knowing(s)
  BY DEF IInv
<1>1. /\ at'[s] = "open" /\ at[s] \in {"list", "rank"}
      /\ left'[s] = Candidates(s) /\ Candidates(s) # {}
      /\ key'[s] = key[s] /\ trials'[s] = trials[s] /\ fromCache'[s] = fromCache[s]
      /\ device'[s] = None /\ refused'[s] = {} /\ reason'[s] = reason[s]
      /\ request # "AUTO" => fellBack'[s] = ResolvedElsewhere(s)
      /\ UNCHANGED <<machine, request, select, steady>>
  <2>1. CASE List(s)
    BY <1>0, <2>1 DEF Typed, List, Progress, Candidates, DeviceCandidates
  <2>2. CASE Rank(s)
    BY <1>0, <2>2 DEF Typed, Rank, Progress, Candidates
  <2>3. QED
    BY <2>1, <2>2
<1>2. /\ Available(s)' = Available(s) /\ Candidates(s)' = Candidates(s)
      /\ Resolved(s)' = Resolved(s) /\ ResolvedElsewhere(s)' = ResolvedElsewhere(s)
  BY <1>1, SameView
<1>3. \A d : Runs(d)' <=> Runs(d)
  BY <1>1 DEF Runs
<1>4. Progress(s)'
  BY <1>0, <1>1, <1>2 DEF Progress
<1>5. Trying(s)'
  BY <1>1, <1>2 DEF Trying
<1>6. Reporting(s)'
  BY <1>1, <1>2 DEF Reporting
<1>7. trials[s] = <<>> => DOMAIN trials[s] = {}
  OBVIOUS
<1>8. Knowing(s)'
  BY <1>0, <1>1, <1>2, <1>3, <1>7 DEF Knowing, Progress
<1>9. QED
  BY <1>4, <1>5, <1>6, <1>8 DEF Parts

\* Where the machine is as it was, every survivor runs.
LEMMA SurvivorsRun ==
    ASSUME Typed, NEW s \in Starts, s \in steady, Knowing(s), ~ fromCache[s],
           at[s] \in Probing \cup Loading
    PROVE  /\ \A d \in Usable(s) : Runs(d)
           /\ Len(trials[s]) = Len(Available(s)) =>
                  \A d \in Present(s) : Runs(d) => d \in Usable(s)
<1>1. \A i \in DOMAIN trials[s] :
         trials[s][i] = IF Runs(Available(s)[i]) THEN speed[Available(s)[i]] ELSE Refuses
  BY DEF Knowing
<1>2. ASSUME NEW d \in Usable(s) PROVE Runs(d)
  <2>1. PICK i \in DOMAIN trials[s] : d = Available(s)[i]
    BY DEF Usable, Measured
  <2>2. trials[s][i] # Refuses
    BY <2>1, TimeFacts DEF Usable
  <2>3. QED
    BY <1>1, <2>1, <2>2
<1>3. ASSUME Len(trials[s]) = Len(Available(s)), NEW d \in Present(s), Runs(d)
      PROVE  d \in Usable(s)
  <2>1. PICK i \in DOMAIN Available(s) : d = Available(s)[i]
    BY DEF Present, ToSet
  <2>2. trials[s] \in Seq(Nat) /\ Available(s) \in Seq(Devices)
    BY AvailableFacts DEF Typed
  <2>3. i \in DOMAIN trials[s]
    BY <1>3, <2>1, <2>2
  <2>4. trials[s][i] # Refuses
    BY <1>1, <1>3, <2>1, <2>3 DEF Runs
  <2>5. d \in Measured(s) /\ Time(s, d) # Refuses
    BY <2>1, <2>3, <2>4, TimeFacts
  <2>6. QED
    BY <2>5 DEF Usable
<1>4. QED
  BY <1>2, <1>3

\* Layer 2 is given up: nothing runs, if the machine is as it was measured.
LEMMA GivingUpStep ==
    ASSUME IInv, NEW s \in Starts, NothingToTry(s) \/ Open(s) \/ EveryoneRefused(s)
    PROVE  Parts(s)'
<1> USE DEF Probing, Timed, Loading, Ended, Places, machine, cacheFile, probe, outcome, Goto, GiveUp
<1>0. Typed /\ Progress(s) /\ Trying(s) /\ Reporting(s) /\ Knowing(s)
  BY DEF IInv
<1>1. /\ at[s] \in {"rank", "open", "compile"} /\ at'[s] \in {"compile", "off"}
      /\ at'[s] = "compile" => at[s] = "open"
      /\ key'[s] = key[s] /\ trials'[s] = trials[s] /\ fromCache'[s] = fromCache[s]
      /\ left'[s] = left[s] /\ refused'[s] = refused[s] /\ fellBack'[s] = fellBack[s]
      /\ device[s] = None /\ device'[s] = None
      /\ UNCHANGED <<machine, request, select, steady>>
  BY <1>0 DEF Typed, Progress, NothingToTry, Open, EveryoneRefused
<1>2. /\ Available(s)' = Available(s) /\ Present(s)' = Present(s)
      /\ Candidates(s)' = Candidates(s)
      /\ Resolved(s)' = Resolved(s) /\ ResolvedElsewhere(s)' = ResolvedElsewhere(s)
  BY <1>1, SameView
<1>3. \A d : (Runs(d)' <=> Runs(d)) /\ (CompilesOn(d)' <=> CompilesOn(d))
  BY <1>1 DEF Runs, CompilesOn
<1>4. Progress(s)'
  BY <1>0, <1>1, <1>2 DEF Progress
<1>5. Trying(s)'
  BY <1>0, <1>1, <1>2 DEF Trying
<1>6. Reporting(s)'
  BY <1>0, <1>1, <1>2 DEF Reporting
<1>7. ASSUME at'[s] = "off", s \in steady, ~ fromCache[s], NEW d \in Present(s), Runs(d)
      PROVE  FALSE
  <2>1. CASE NothingToTry(s)
    <3>1. Usable(s) = {}
      BY <2>1 DEF NothingToTry, Survivors, OverCeiling
    <3>2. Len(trials[s]) = Len(Available(s))
      BY <1>0, <2>1 DEF Progress, NothingToTry
    <3>3. QED
      BY <1>0, <1>1, <1>7, <3>1, <3>2, SurvivorsRun
  <2>2. CASE Open(s)
    BY <1>0, <1>1, <1>7, <2>2 DEF Typed, Open, Runs
  <2>3. CASE EveryoneRefused(s)
    <3>1. at[s] = "compile" /\ left[s] = {}
      BY <2>3 DEF EveryoneRefused
    <3>2. refused[s] = Candidates(s) /\ Candidates(s) # {}
      BY <1>0, <3>1 DEF Trying
    <3>3. \A e \in Candidates(s) : ~ Runs(e)
      BY <1>0, <1>7, <3>1, <3>2 DEF Knowing, Runs, CompilesOn
    <3>4. CASE request = "AUTO"
      <4>1. Survivors(s) # {} /\ \A e \in Survivors(s) : ~ Runs(e)
        BY <3>2, <3>3, <3>4 DEF Candidates
      <4>2. \A e \in Usable(s) : Runs(e)
        BY <1>0, <1>7, <3>1, SurvivorsRun
      <4>3. QED
        BY <1>0, <4>1, <4>2, TimeFacts
    <3>5. CASE request # "AUTO"
      BY <1>7, <3>3, <3>5 DEF Candidates, DeviceCandidates
    <3>6. QED
      BY <3>4, <3>5
  <2>4. QED
    BY <2>1, <2>2, <2>3
<1>8. Knowing(s)'
  BY <1>0, <1>1, <1>2, <1>3, <1>7 DEF Knowing
<1>9. QED
  BY <1>4, <1>5, <1>6, <1>8 DEF Parts

\* The first candidate of an explicit request is the device it resolves to.
LEMMA ResolvedIsFirst ==
    ASSUME Typed, NEW s \in Starts, request # "AUTO", NEW d \in Devices, IsNext(s, d),
           Resolved(s) \in left[s]
    PROVE  d = Resolved(s)
BY DEF IsNext, Precedes, ListedBefore

LEMMA CompileStep ==
    ASSUME IInv, NEW s \in Starts, NEW d \in Devices, Compile(s, d)
    PROVE  Parts(s)'
<1> USE DEF Probing, Timed, Loading, Ended, Places, machine, cacheFile, probe, outcome, Goto
<1>0. Typed /\ Progress(s) /\ Trying(s) /\ Reporting(s) /\ Knowing(s)
  BY DEF IInv
<1>1. /\ at[s] = "compile" /\ at'[s] = "bind" /\ IsNext(s, d)
      /\ key'[s] = key[s] /\ trials'[s] = trials[s] /\ fromCache'[s] = fromCache[s]
      /\ left'[s] = left[s] /\ refused'[s] = refused[s]
      /\ device'[s] = d /\ (fellBack'[s] <=> fellBack[s] \/ refused[s] # {})
      /\ UNCHANGED <<machine, request, select, steady>>
  BY <1>0 DEF Typed, Compile
<1>2. /\ Available(s)' = Available(s) /\ Candidates(s)' = Candidates(s)
      /\ \A x, e : Precedes(s, x, e)' <=> Precedes(s, x, e)
  BY <1>1, SameView
<1>3. Progress(s)'
  BY <1>0, <1>1, <1>2 DEF Progress
<1>4. Trying(s)'
  BY <1>0, <1>1, <1>2 DEF Trying, IsNext
<1>5. ASSUME request # "AUTO" PROVE fellBack'[s] <=> d # request
  <2>1. /\ fellBack[s] = ResolvedElsewhere(s)
        /\ refused[s] # {} => Resolved(s) \in refused[s]
        /\ left[s] \cup refused[s] = DeviceCandidates(s) /\ left[s] \cap refused[s] = {}
    BY <1>0, <1>1, <1>5 DEF Reporting, Trying, Candidates
  <2>2. d \in left[s]
    BY <1>1 DEF IsNext
  <2>3. CASE refused[s] = {}
    <3>1. d = Resolved(s)
      BY <1>0, <1>1, <1>5, <2>1, <2>3, ResolvedIsFirst DEF DeviceCandidates
    <3>2. QED
      BY <1>1, <2>1, <2>3, <3>1 DEF ResolvedElsewhere
  <2>4. CASE refused[s] # {}
    <3>1. d # Resolved(s) /\ d \in Present(s)
      BY <2>1, <2>2, <2>4 DEF DeviceCandidates
    <3>2. d # request
      BY <3>1 DEF Resolved
    <3>3. QED
      BY <1>1, <2>4, <3>2
  <2>5. QED
    BY <2>3, <2>4
<1>6. Reporting(s)'
  BY <1>1, <1>5 DEF Reporting
<1>7. Knowing(s)'
  BY <1>0, <1>1, <1>2 DEF Knowing
<1>8. QED
  BY <1>3, <1>4, <1>6, <1>7 DEF Parts

LEMMA RefusalStep ==
    ASSUME IInv, NEW s \in Starts, NEW d \in Devices, CompileRefused(s, d)
    PROVE  Parts(s)'
<1> USE DEF Probing, Timed, Loading, Ended, Places, machine, cacheFile, probe, outcome
<1>0. Typed /\ Progress(s) /\ Trying(s) /\ Reporting(s) /\ Knowing(s)
  BY DEF IInv
<1>1. /\ at[s] = "compile" /\ at'[s] = "compile" /\ IsNext(s, d) /\ ~ CompilesOn(d)
      /\ key'[s] = key[s] /\ trials'[s] = trials[s] /\ fromCache'[s] = fromCache[s]
      /\ left'[s] = left[s] \ {d} /\ refused'[s] = refused[s] \cup {d}
      /\ device'[s] = device[s] /\ fellBack'[s] = fellBack[s]
      /\ UNCHANGED <<machine, request, select, steady>>
  BY <1>0 DEF Typed, CompileRefused
<1>2. /\ Available(s)' = Available(s) /\ Candidates(s)' = Candidates(s)
      /\ Resolved(s)' = Resolved(s) /\ ResolvedElsewhere(s)' = ResolvedElsewhere(s)
  BY <1>1, SameView
<1>3. device[s] = None
  BY <1>0, <1>1 DEF Progress
<1>4. Progress(s)'
  BY <1>0, <1>1, <1>2 DEF Progress
<1>5. d \in left[s]
  BY <1>1 DEF IsNext
<1>6. Trying(s)'
  BY <1>0, <1>1, <1>2, <1>3, <1>5 DEF Trying
<1>7. ASSUME request # "AUTO" PROVE Resolved(s) \in refused'[s]
  <2>1. CASE refused[s] # {}
    BY <1>0, <1>1, <1>7, <2>1 DEF Reporting
  <2>2. CASE refused[s] = {}
    <3>1. Resolved(s) \in left[s]
      BY <1>0, <1>1, <1>7, <2>2 DEF Trying, Candidates, DeviceCandidates
    <3>2. d = Resolved(s)
      BY <1>0, <1>1, <1>7, <3>1, ResolvedIsFirst
    <3>3. QED
      BY <1>1, <3>2
  <2>3. QED
    BY <2>1, <2>2
<1>8. Reporting(s)'
  BY <1>0, <1>1, <1>2, <1>3, <1>7 DEF Reporting
<1>9. \A e : (Runs(e)' <=> Runs(e)) /\ (CompilesOn(e)' <=> CompilesOn(e))
  BY <1>1 DEF Runs, CompilesOn
<1>10. Knowing(s)'
  BY <1>0, <1>1, <1>2, <1>9 DEF Knowing
<1>11. QED
  BY <1>4, <1>6, <1>8, <1>10 DEF Parts

LEMMA EndingStep ==
    ASSUME IInv, NEW s \in Starts, Bind(s) \/ Kill(s)
    PROVE  Parts(s)'
<1> USE DEF Probing, Timed, Loading, Ended, Places, machine, cacheFile, probe, outcome, Goto, GiveUp
<1>0. Typed /\ Progress(s) /\ Trying(s) /\ Reporting(s) /\ Knowing(s)
  BY DEF IInv
<1>1. /\ at[s] \notin {"idle"} \cup Ended /\ at'[s] \in Ended
      /\ at'[s] = "off" => reason'[s] = "shapes"
      /\ key'[s] = key[s] /\ trials'[s] = trials[s] /\ fromCache'[s] = fromCache[s]
      /\ left'[s] = left[s] /\ refused'[s] = refused[s] /\ fellBack'[s] = fellBack[s]
      /\ device'[s] = device[s]
      /\ UNCHANGED <<machine, request, select, steady>>
  BY <1>0 DEF Typed, Bind, Kill
<1>2. /\ Available(s)' = Available(s) /\ Candidates(s)' = Candidates(s)
      /\ \A x, e : Precedes(s, x, e)' <=> Precedes(s, x, e)
  BY <1>1, SameView
<1>3. Progress(s)'
  BY <1>1 DEF Progress
<1>4. Trying(s)'
  BY <1>0, <1>1, <1>2 DEF Trying, IsNext
<1>5. Reporting(s)'
  BY <1>0, <1>1 DEF Reporting
<1>6. Knowing(s)'
  BY <1>0, <1>1 DEF Knowing
<1>7. QED
  BY <1>3, <1>4, <1>5, <1>6 DEF Parts

-----------------------------------------------------------------------------
(* The invariant holds.                                                    *)

Step(s) ==
    \/ FilesMissing(s) \/ Begin(s) \/ List(s) \/ Hit(s) \/ Miss(s)
    \/ Measure(s) \/ AllTimed(s) \/ Merge(s) \/ Truncate(s) \/ Write(s) \/ CannotWrite(s)
    \/ Rank(s) \/ NothingToTry(s) \/ Open(s)
    \/ \E d \in Devices : Compile(s, d) \/ CompileRefused(s, d)
    \/ EveryoneRefused(s) \/ Bind(s) \/ Kill(s)

LEMMA ActorStep ==
    ASSUME IInv, NEW s \in Starts, Step(s)
    PROVE  Parts(s)'
BY BeforeCandidates, MeasureStep, CandidatesStep, GivingUpStep, CompileStep, RefusalStep,
   EndingStep DEF Step

LEMMA OthersAreUntouched ==
    ASSUME IInv, NEW s \in Starts, Step(s), NEW t \in Starts, t # s
    PROVE  /\ Untouched(t)
           /\ UNCHANGED <<machine, request, select>>
           /\ t \in steady' => t \in steady
<1> USE DEF Untouched, machine, probe, outcome, Goto, GiveUp
<1>1. Typed
  BY DEF IInv
<1>2. CASE FilesMissing(s) \/ Begin(s) \/ List(s)
  BY <1>1, <1>2 DEF Typed, FilesMissing, Begin, List
<1>3. CASE Hit(s) \/ Miss(s) \/ Measure(s) \/ AllTimed(s)
  BY <1>1, <1>3 DEF Typed, Hit, Miss, Measure, AllTimed
<1>4. CASE Merge(s) \/ Truncate(s) \/ Write(s) \/ CannotWrite(s)
  BY <1>1, <1>4 DEF Typed, Merge, Truncate, Write, CannotWrite
<1>5. CASE Rank(s) \/ NothingToTry(s) \/ Open(s)
  BY <1>1, <1>5 DEF Typed, Rank, NothingToTry, Open
<1>6. CASE \E d \in Devices : Compile(s, d) \/ CompileRefused(s, d)
  BY <1>1, <1>6 DEF Typed, Compile, CompileRefused
<1>7. CASE EveryoneRefused(s) \/ Bind(s) \/ Kill(s)
  BY <1>1, <1>7 DEF Typed, EveryoneRefused, Bind, Kill
<1>8. QED
  BY <1>2, <1>3, <1>4, <1>5, <1>6, <1>7 DEF Step

LEMMA InitIInv == Init => IInv
<1> SUFFICES ASSUME Init PROVE IInv
  OBVIOUS
<1> USE DEF Init, Probing, Timed, Loading, Ended, Places
<1>1. Typed
  <2>1. entries \in Files /\ text \in [Starts -> Files]
    BY FileFacts
  <2>2. trials \in [Starts -> Seq(Nat)] /\ \A s \in Starts : Len(trials[s]) <= Len(Available(s))
    BY DEF Available, NoKey
  <2>3. changes \in 0 .. MaxChanges
    BY CeilingAssumption
  <2>4. QED
    BY <2>1, <2>2, <2>3 DEF Typed
<1>2. ASSUME NEW s \in Starts PROVE Progress(s) /\ Trying(s) /\ Reporting(s) /\ Knowing(s)
  BY <1>2 DEF Progress, Trying, Reporting, Knowing
<1>3. QED
  BY <1>1, <1>2 DEF IInv

LEMMA StepIInv == IInv /\ [Next]_vars => IInv'
<1> SUFFICES ASSUME IInv, [Next]_vars PROVE IInv'
  OBVIOUS
<1>1. Typed'
  BY TypedStep
<1>2. ASSUME NEW t \in Starts PROVE Parts(t)'
  <2>0. Parts(t)
    BY DEF IInv, Parts
  <2>1. CASE \E s \in Starts : Step(s)
    <3>1. PICK s \in Starts : Step(s)
      BY <2>1
    <3>2. CASE s = t
      BY <3>1, <3>2, ActorStep
    <3>3. CASE s # t
      <4>1. /\ Untouched(t)
            /\ t \in steady' => t \in steady
            /\ UNCHANGED machine /\ request' = request /\ select' = select /\ card' = card
        BY <3>1, <3>3, OthersAreUntouched DEF machine
      <4>2. QED
        BY <2>0, <4>1, UntouchedKeepsProgress, UntouchedKeepsKnowing DEF Parts
    <3>4. QED
      BY <3>2, <3>3
  <2>2. CASE MachineChanges
    <3>1. Untouched(t) /\ UNCHANGED <<request, select, card>> /\ steady' = {}
      BY <2>2 DEF MachineChanges, Untouched, probe, outcome
    <3>2. Knowing(t)'
      BY <3>1 DEF Knowing
    <3>3. QED
      BY <2>0, <3>1, <3>2, UntouchedKeepsProgress DEF Parts
  <2>3. CASE UNCHANGED vars
    <3>1. /\ Untouched(t) /\ steady' = steady
          /\ UNCHANGED machine /\ request' = request /\ select' = select /\ card' = card
      BY <2>3 DEF vars, Untouched, machine, probe, outcome
    <3>2. QED
      BY <2>0, <3>1, UntouchedKeepsProgress, UntouchedKeepsKnowing DEF Parts
  <2>4. QED
    BY <2>1, <2>2, <2>3 DEF Next, Step
<1>3. QED
  BY <1>1, <1>2 DEF IInv, Parts

THEOREM Invariance == Spec => []IInv
  BY InitIInv, StepIInv, PTL DEF Spec

-----------------------------------------------------------------------------
(* What follows.                                                           *)

\* Types: every variable, of every start, stays in its set.
THEOREM TypeCorrect == Spec => []TypeOK
<1>1. IInv => TypeOK
  BY FileFacts DEF IInv, Typed, TypeOK, Places, Probing, Timed, Loading, Ended, Files
<1>2. QED
  BY <1>1, Invariance, PTL

\* Whatever starts overlap, are killed, or write over each other's file, a file
\* that parses holds complete probes only (select::remember, select::cached).
THEOREM CacheIsComplete == Spec => []RememberedTrialsAreComplete
<1>1. IInv => RememberedTrialsAreComplete
  BY FileFacts DEF IInv, Typed, RememberedTrialsAreComplete
<1>2. QED
  BY <1>1, Invariance, PTL

\* The ceiling does not switch layer 2 off, nor does a device that refuses,
\* while another one runs the model (select::rank, NerEngine::load_with).
THEOREM CeilingIsNoSwitch == Spec => []OffOnlyWhenNothingRuns
<1>1. IInv => OffOnlyWhenNothingRuns
  BY DEF IInv, Typed, Knowing, OffOnlyWhenNothingRuns
<1>2. QED
  BY <1>1, Invariance, PTL

\* A device asked for by name runs, or fell_back says that another one does
\* (ov::device_candidates, NerEngine::load_with).
THEOREM FallbackIsNeverSilent == Spec => []FallbackIsReported
<1>1. IInv => FallbackIsReported
  BY DEF IInv, Reporting, FallbackIsReported
<1>2. QED
  BY <1>1, Invariance, PTL

\* Being ranked before is costing no more.
LEMMA RankingIsByCost ==
    ASSUME Typed, NEW s \in Starts, NEW d \in Measured(s), NEW e \in Measured(s),
           RankedBefore(s, e, d)
    PROVE  IF Objective = "latency" THEN Time(s, d) >= Time(s, e) ELSE Costs(s, d, e)
<1>1. Time(s, d) \in Nat /\ Time(s, e) \in Nat
  BY TimeFacts
<1>2. Quicker(s, e, d) => Time(s, d) >= Time(s, e)
  BY <1>1 DEF Quicker
<1>3. CostRank(d) \in Nat /\ CostRank(e) \in Nat
  BY DEF CostRank
<1>4. QED
  BY <1>2, <1>3 DEF RankedBefore, Costs

\* What costs more is dearer or slower, whichever of the two is asked for.
LEMMA CostlierIsDearerOrSlower ==
    ASSUME NEW s, NEW d, NEW e, Costs(s, d, e), CostRank(d) <= CostRank(e)
    PROVE  Time(s, d) >= Time(s, e)
<1>1. CostRank(d) \in Nat /\ CostRank(e) \in Nat
  BY DEF CostRank
<1>2. QED
  BY <1>1 DEF Costs

\* AUTO uses the best of the devices that compile, on the right side of the
\* ceiling (select::rank, NerEngine::load_with).
THEOREM BestDeviceIsUsed == Spec => []NothingBetterIsPassedOver
<1>1. ASSUME IInv, NEW s \in Starts, request = "AUTO", device[s] # None,
             NEW d \in Usable(s) \ refused[s]
      PROVE  /\ d \in Inside(s) => device[s] \in Inside(s)
             /\ (d \in Inside(s) <=> device[s] \in Inside(s)) =>
                    /\ Objective = "latency" => Time(s, d) >= Time(s, device[s])
                    /\ Objective = "cost" /\ d \in Inside(s) => Costs(s, d, device[s])
                    /\ CostRank(d) <= CostRank(device[s]) => Time(s, d) >= Time(s, device[s])
  <2> DEFINE e == device[s]
  <2>0. Typed
    BY <1>1 DEF IInv
  <2>1. /\ left[s] \cup refused[s] = Survivors(s) /\ IsNext(s, e)
        /\ Survivors(s) \subseteq Usable(s) /\ Usable(s) \subseteq Measured(s)
        /\ e \in Survivors(s)
    BY <1>1, <2>0, TimeFacts DEF IInv, Trying, Candidates, IsNext
  <2> HIDE DEF e
  <2>2. Time(s, d) \in Nat /\ Time(s, e) \in Nat
    BY <2>0, <2>1, TimeFacts
  <2>3. Time(s, d) <= Ceiling => Survivors(s) = Inside(s)
    BY DEF Survivors, OverCeiling, Inside
  <2>4. e \in Inside(s) <=> Time(s, e) <= Ceiling
    BY <2>1 DEF Inside
  <2>5. Time(s, d) <= Ceiling => Time(s, e) <= Ceiling
    BY <2>1, <2>3, <2>4
  <2>6. ASSUME Time(s, d) <= Ceiling <=> Time(s, e) <= Ceiling
        PROVE  d \in Survivors(s)
    <3>1. CASE Time(s, d) <= Ceiling
      BY <2>3, <3>1 DEF Inside
    <3>2. CASE ~ (Time(s, d) <= Ceiling)
      BY <2>1, <2>4, <2>6, <3>2 DEF Survivors
    <3>3. QED
      BY <3>1, <3>2
  <2>7. ASSUME d \in Survivors(s)
        PROVE  IF Objective = "latency" THEN Time(s, d) >= Time(s, e) ELSE Costs(s, d, e)
    <3>1. CASE d = e
      BY <2>2, <3>1 DEF Costs
    <3>2. CASE d # e
      <4>1. d \in left[s] \ {e}
        BY <2>1, <2>7, <3>2
      <4>2. RankedBefore(s, e, d)
        BY <1>1, <2>1, <4>1 DEF IsNext, Precedes
      <4>3. QED
        BY <2>0, <2>1, <4>2, RankingIsByCost
    <3>3. QED
      BY <3>1, <3>2
  <2>8. d \in Inside(s) <=> Time(s, d) <= Ceiling
    BY DEF Inside
  <2>9. (d \in Inside(s) <=> e \in Inside(s)) =>
            IF Objective = "latency" THEN Time(s, d) >= Time(s, e) ELSE Costs(s, d, e)
    BY <2>4, <2>6, <2>7, <2>8
  <2>10. (d \in Inside(s) <=> e \in Inside(s)) /\ CostRank(d) <= CostRank(e) => Time(s, d) >= Time(s, e)
    BY <2>9, CostlierIsDearerOrSlower
  <2>11. Objective = "cost" => Objective # "latency"
    OBVIOUS
  <2>12. QED
    BY <2>4, <2>5, <2>8, <2>9, <2>10, <2>11 DEF e
<1>2. IInv => NothingBetterIsPassedOver
  BY <1>1 DEF NothingBetterIsPassedOver
<1>3. QED
  BY <1>2, Invariance, PTL
=============================================================================
