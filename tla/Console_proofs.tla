--------------------------- MODULE Console_proofs ---------------------------
(***************************************************************************)
(* The console and the service, for any configurations, edits, changes     *)
(* from outside, crashes, and any length of the polls: what a save         *)
(* destroys, what the operator is told after a restart, and what an edit   *)
(* of the text changes besides what was asked for.                         *)
(***************************************************************************)
EXTENDS Console, DataLemmas

LEMMA NextSplits ==
    ASSUME [Next]_all
    PROVE  \/ Operator \/ RefreshStatus \/ Applying \/ DieSaving \/ OpenAgain
           \/ EditOutside
           \/ ServiceNext /\ UNCHANGED <<disk, consoleVars>>
           \/ UNCHANGED all
BY DEF Next

-----------------------------------------------------------------------------
(* Saving.  Between the copy and the write the backup is what was found.   *)
SInv ==
    /\ found \in {disk, backup}
    /\ doing = "copying" => found = disk
    /\ doing = "writing" => found = backup

LEMMA SInvAtFirst == Init => SInv
BY DEF Init, SInv

LEMMA SInvIsKept == SInv /\ [Next]_all => SInv'
<1> SUFFICES ASSUME SInv, [Next]_all PROVE SInv'
  OBVIOUS
<1> USE DEF SInv, history, editorVars
<1>1. ASSUME Operator PROVE SInv'
  <2>1. ASSUME NEW kind, NEW mode, PickMode(kind, mode) PROVE SInv'
    BY <2>1 DEF PickMode, Idle
  <2>2. ASSUME NEW field, NEW value, EditField(field, value) PROVE SInv'
    BY <2>2 DEF EditField, Idle
  <2>3. CASE Revert
    BY <2>3 DEF Revert, Idle
  <2>4. CASE Apply
    <3>1. /\ doing' \in {"copying", "idle"} /\ found' = disk
          /\ UNCHANGED <<disk, backup>>
      BY <2>4 DEF Apply
    <3>2. QED
      BY <3>1
  <2>5. CASE RestartGateway
    BY <2>5 DEF RestartGateway
  <2>6. QED
    BY <1>1, <2>1, <2>2, <2>3, <2>4, <2>5 DEF Operator
<1>2. ASSUME RefreshStatus PROVE SInv'
  BY <1>2 DEF RefreshStatus
<1>3. ASSUME Applying PROVE SInv'
  <2>1. CASE CopyToBackup
    BY <2>1 DEF CopyToBackup, StopTelling
  <2>2. CASE Write
    BY <2>2 DEF Write, StopTelling
  <2>3. CASE AskToStop \/ AwaitStop \/ Start \/ AwaitRunning \/ Told
    <3>1. UNCHANGED <<disk, backup, found>> /\ doing' \notin {"copying", "writing"}
      BY <2>3 DEF AskToStop, AwaitStop, Start, AwaitRunning, Told
    <3>2. QED
      BY <3>1
  <2>4. QED
    BY <1>3, <2>1, <2>2, <2>3 DEF Applying
<1>4. ASSUME DieSaving PROVE SInv'
  BY <1>4 DEF DieSaving
<1>5. ASSUME OpenAgain PROVE SInv'
  BY <1>5 DEF OpenAgain
<1>6. ASSUME EditOutside PROVE SInv'
  BY <1>6 DEF EditOutside
<1>7. ASSUME UNCHANGED <<disk, consoleVars>> PROVE SInv'
  BY <1>7 DEF consoleVars
<1>8. QED
  BY <1>1, <1>2, <1>3, <1>4, <1>5, <1>6, <1>7, NextSplits DEF all

(* Whatever fails in the middle of a save, and whenever the console dies,  *)
(* what the save found on disk is still whole in the file or the backup.   *)
THEOREM WhatWasFoundIsKept == Spec => []WhatASaveFoundSurvives
<1>1. SInv => WhatASaveFoundSurvives
  BY DEF SInv, WhatASaveFoundSurvives
<1>2. QED
  BY <1>1, SInvAtFirst, SInvIsKept, PTL DEF Spec

-----------------------------------------------------------------------------
(* Restarting.  Once this restart has started the service, the process     *)
(* that runs has loaded nothing or what is on disk.                        *)
Loaded == proc \in {"loaded", "listening", "serving"}
Restarted == doing = "awaiting_run" \/ (doing \in {"told", "idle"} /\ notice = "good")
NewOneRuns ==
    Restarted /\ status # "NotInstalled" /\ outside = 0 => (Loaded => running = disk)
ClosedIsSilent == doing = "closed" => notice = "none"
NInv == outside \in Nat /\ ClosedIsSilent /\ NewOneRuns

LEMMA NInvAtFirst == Init => NInv
BY DEF Init, NInv, ClosedIsSilent, NewOneRuns, Restarted

LEMMA NInvIsKept == NInv /\ [Next]_all => NInv'
<1> SUFFICES ASSUME NInv, [Next]_all PROVE NInv'
  OBVIOUS
<1> USE DEF NInv, NewOneRuns
<1>0. ClosedIsSilent'
  <2>1. CASE doing' = "closed" /\ ~DieSaving
    <3>1. UNCHANGED <<doing, notice>>
      BY <2>1, NextSplits
      DEF Operator, PickMode, EditField, Revert, Apply, RestartGateway, RefreshStatus, Applying,
          CopyToBackup, Write, StopTelling, AskToStop, AwaitStop, Start, AwaitRunning, Told,
          OpenAgain, EditOutside, all, consoleVars, Idle
    <3>2. QED
      BY <3>1 DEF ClosedIsSilent
  <2>2. CASE DieSaving
    BY <2>2 DEF DieSaving, ClosedIsSilent
  <2>3. QED
    BY <2>1, <2>2 DEF ClosedIsSilent
<1>1. ASSUME UNCHANGED <<disk, status, proc, running, outside>>, Restarted' => Restarted
      PROVE  NInv'
  BY <1>0, <1>1 DEF Loaded
<1>2. ASSUME outside' = outside, ~Restarted' PROVE NInv'
  BY <1>0, <1>2
<1>3. ASSUME Operator PROVE NInv'
  <2>1. ASSUME NEW kind, NEW mode, PickMode(kind, mode) PROVE NInv'
    BY <1>1, <2>1 DEF PickMode, serviceVars, Restarted
  <2>2. ASSUME NEW field, NEW value, EditField(field, value) PROVE NInv'
    BY <1>1, <2>2 DEF EditField, serviceVars, Restarted
  <2>3. CASE Revert
    BY <1>2, <2>3 DEF Revert, Restarted, Idle
  <2>4. CASE Apply
    <3>1. outside' = outside /\ (doing' = "copying" \/ (doing' = "idle" /\ notice' = "bad"))
      BY <2>4 DEF Apply
    <3>2. QED
      BY <1>2, <3>1 DEF Restarted
  <2>5. CASE RestartGateway
    BY <1>2, <2>5 DEF RestartGateway, Restarted
  <2>6. QED
    BY <1>3, <2>1, <2>2, <2>3, <2>4, <2>5 DEF Operator
<1>4. ASSUME RefreshStatus PROVE NInv'
  BY <1>1, <1>4 DEF RefreshStatus, serviceVars, history, Restarted
<1>5. ASSUME Applying PROVE NInv'
  <2>1. CASE CopyToBackup
    BY <1>2, <2>1 DEF CopyToBackup, StopTelling, history, Restarted
  <2>2. CASE Write
    <3>1. CASE status = "NotInstalled"
      BY <1>0, <2>2, <3>1 DEF Write, serviceVars, history
    <3>2. CASE status # "NotInstalled"
      BY <1>2, <2>2, <3>2 DEF Write, StopTelling, history, Restarted
    <3>3. QED
      BY <3>1, <3>2
  <2>3. CASE AskToStop
    BY <1>2, <2>3 DEF AskToStop, history, Restarted
  <2>4. CASE AwaitStop
    BY <1>2, <2>4 DEF AwaitStop, history, Restarted
  <2>5. CASE Start
    <3>1. CASE CanStart /\ StartService /\ UNCHANGED history
      BY <1>0, <3>1 DEF StartService, Loaded, history
    <3>2. CASE doing' = "told" /\ notice' = "bad" /\ UNCHANGED history
      BY <1>2, <3>2 DEF history, Restarted
    <3>3. QED
      BY <2>5, <3>1, <3>2 DEF Start
  <2>6. CASE AwaitRunning
    BY <1>1, <2>6 DEF AwaitRunning, serviceVars, history, Restarted
  <2>7. CASE Told
    BY <1>1, <2>7 DEF Told, serviceVars, history, Restarted
  <2>8. QED
    BY <1>5, <2>1, <2>2, <2>3, <2>4, <2>5, <2>6, <2>7 DEF Applying
<1>6. ASSUME DieSaving PROVE NInv'
  BY <1>2, <1>6 DEF DieSaving, history, Restarted
<1>7. ASSUME OpenAgain PROVE NInv'
  BY <1>2, <1>7 DEF OpenAgain, ClosedIsSilent, Restarted
<1>8. ASSUME EditOutside PROVE NInv'
  <2>1. outside' \in Nat /\ outside' # 0
    BY <1>8 DEF EditOutside
  <2>2. QED
    BY <1>0, <2>1
<1>9. ASSUME ServiceNext, UNCHANGED <<disk, consoleVars>> PROVE NInv'
  <2>1. UNCHANGED <<disk, doing, notice, outside>>
    BY <1>9 DEF consoleVars, history
  <2>2. CASE ReportRunning
    BY <1>0, <2>1, <2>2 DEF ReportRunning, ToPhase, Loaded
  <2>3. CASE LoadConfig
    BY <1>0, <2>1, <2>3 DEF LoadConfig, ToPhase, Loaded
  <2>4. CASE Bind \/ WithInference \/ Drained
    <3>1. UNCHANGED <<status, running>> /\ (Loaded' => Loaded)
      BY <2>4 DEF Bind, WithInference, Drained, ToPhase, Loaded
    <3>2. QED
      BY <1>0, <2>1, <3>1 DEF Restarted
  <2>5. CASE ReportStopped \/ Kill
    BY <1>0, <2>1, <2>5 DEF ReportStopped, Kill, ToPhase, Loaded
  <2>6. QED
    BY <1>9, <2>2, <2>3, <2>4, <2>5 DEF ServiceNext
<1>10. ASSUME UNCHANGED all PROVE NInv'
  BY <1>1, <1>10 DEF all, consoleVars, serviceVars, history, Restarted
<1>11. QED
  BY <1>3, <1>4, <1>5, <1>6, <1>7, <1>8, <1>9, <1>10, NextSplits

(* Once the console has said that the gateway runs the new settings, no    *)
(* process serves by older ones, however long the old one takes to stop    *)
(* and whatever becomes of the new one.                                    *)
THEOREM NewSettingsAreServed == Spec => []NoOldSettingsAreServed
<1>1. NInv => NoOldSettingsAreServed
  BY DEF NInv, NewOneRuns, Restarted, Loaded, NoOldSettingsAreServed
<1>2. QED
  BY <1>1, NInvAtFirst, NInvIsKept, PTL DEF Spec

-----------------------------------------------------------------------------
(* The log.  What this start said is the last line there is.               *)
Said == {"ready", "unavailable"}
GInv ==
    /\ log \in Seq(Said)
    /\ said # "" => log # <<>> /\ log[Len(log)] = said

LEMMA GInvAtFirst == Init => GInv
<1> SUFFICES ASSUME Init PROVE GInv
  OBVIOUS
<1>1. CASE status = "Stopped"
  <2>1. said = "" /\ log = <<>>
    BY <1>1 DEF Init, ServiceInit
  <2>2. QED
    BY <2>1, EmptySeq DEF GInv
<1>2. CASE status # "Stopped"
  <2>1. said = "ready" /\ log = <<"ready">>
    BY <1>2 DEF Init, ServiceInit
  <2>2. <<"ready">> \in Seq(Said) /\ Len(<<"ready">>) = 1 /\ <<"ready">>[1] = "ready"
    BY DEF Said
  <2>3. QED
    BY <2>1, <2>2 DEF GInv
<1>3. QED
  BY <1>1, <1>2

LEMMA GInvIsKept == GInv /\ [Next]_all => GInv'
<1> SUFFICES ASSUME GInv, [Next]_all PROVE GInv'
  OBVIOUS
<1>1. ASSUME UNCHANGED <<said, log>> PROVE GInv'
  BY <1>1 DEF GInv
<1>2. ASSUME Operator PROVE GInv'
  BY <1>1, <1>2 DEF Operator, PickMode, EditField, Revert, Apply, RestartGateway, serviceVars
<1>3. ASSUME Applying PROVE GInv'
  <2>1. CASE Start
    <3>1. CASE StartService
      <4>1. said' = "" /\ log' \in Seq(Said)
        BY <3>1, EmptySeq DEF StartService, GInv
      <4>2. QED
        BY <4>1 DEF GInv
    <3>2. CASE UNCHANGED serviceVars
      BY <1>1, <3>2 DEF serviceVars
    <3>3. QED
      BY <2>1, <3>1, <3>2 DEF Start
  <2>2. CASE ~Start
    BY <1>1, <1>3, <2>2 DEF Applying, CopyToBackup, Write, AskToStop, AwaitStop, AwaitRunning,
                            Told, serviceVars
  <2>3. QED
    BY <2>1, <2>2
<1>4. ASSUME RefreshStatus \/ DieSaving \/ OpenAgain \/ EditOutside \/ UNCHANGED all
      PROVE  GInv'
  BY <1>1, <1>4 DEF RefreshStatus, DieSaving, OpenAgain, EditOutside, all, serviceVars
<1>5. ASSUME ServiceNext PROVE GInv'
  <2>1. CASE WithInference
    <3>1. CASE UNCHANGED <<said, log>>
      BY <1>1, <3>1
    <3>2. CASE said' \in Said /\ log' = Append(log, said')
      <4>1. log \in Seq(Said)
        BY DEF GInv
      <4>2. ASSUME NEW what \in Said
            PROVE  /\ Append(log, what) \in Seq(Said) /\ Append(log, what) # <<>>
                   /\ Append(log, what)[Len(Append(log, what))] = what
        BY <4>1, LenProperties, AppendProperties
      <4>3. QED
        BY <3>2, <4>2 DEF GInv
    <3>3. QED
      BY <2>1, <3>1, <3>2 DEF WithInference, Said
  <2>2. CASE ~WithInference
    BY <1>1, <1>5, <2>2 DEF ServiceNext, ReportRunning, LoadConfig, Bind, Drained,
                            ReportStopped, Kill
  <2>3. QED
    BY <2>1, <2>2
<1>6. QED
  BY <1>2, <1>3, <1>4, <1>5, NextSplits

(* Whatever earlier starts left in the log, and however the log is         *)
(* rotated, a refresh shows what this start has said of layer 2.           *)
THEOREM NoEarlierStartIsShown == Spec => ThisStartIsShown
<1> DEFINE Shown == (RefreshStatus \/ Told) /\ proc = "serving" /\ said # "" => layer2' = said
<1>1. GInv /\ [Next]_all => [Shown]_all
  <2>1. SUFFICES ASSUME GInv, RefreshStatus \/ Told, said # "" PROVE layer2' = said
    OBVIOUS
  <2>2. log # <<>> /\ log[Len(log)] = said
    BY <2>1 DEF GInv
  <2>3. layer2' = Layer2FromLog
    BY <2>1 DEF RefreshStatus, Told
  <2>4. QED
    BY <2>2, <2>3 DEF Layer2FromLog, Last
<1>2. QED
  BY <1>1, GInvAtFirst, GInvIsKept, PTL DEF Spec, ThisStartIsShown

-----------------------------------------------------------------------------
(* The YAML reading of a file.  Above is the nearest heading.              *)
\* Every text; the provers do not know these to be texts.
Texts == STRING \cup {"", "pesel", "email", "true", "false", "list", "host:514", "#siem",
                      "unset", "default", "rejected", "advise", "mask", "block"}
Line == [indent : Nat, key : Texts, value : Texts, note : Texts]
Contents == Seq(Line)
IsAbove(text, i, a) ==
    /\ a \in 0 .. i - 1
    /\ a # 0 => IsKeyLine(text[a]) /\ text[a].indent < text[i].indent
    /\ \A j \in a + 1 .. i - 1 : IsKeyLine(text[j]) => text[j].indent >= text[i].indent

LEMMA LinesAreLines ==
    ASSUME NEW text \in Contents
    PROVE  /\ text \in Seq(Line) /\ Len(text) \in Nat /\ DOMAIN text = 1 .. Len(text)
           /\ \A i \in 1 .. Len(text) : text[i] \in Line /\ text[i].indent \in Nat /\ text[i].key \in Texts
<1>1. text \in Seq(Line)
  BY DEF Contents
<1>2. Len(text) \in Nat /\ DOMAIN text = 1 .. Len(text) /\ \A i \in 1 .. Len(text) : text[i] \in Line
  BY <1>1, LenProperties, ElementOfSeq
<1>3. \A l \in Line : l.indent \in Nat /\ l.key \in Texts
  BY DEF Line
<1> QED BY <1>1, <1>2, <1>3

LEMMA AboveIsAbove ==
    ASSUME NEW text \in Contents, NEW i \in 1 .. Len(text)
    PROVE  IsAbove(text, i, Above(text, i))
<1> DEFINE S == {0} \cup {j \in 1 .. i - 1 : IsKeyLine(text[j]) /\ text[j].indent < text[i].indent}
           a == Max(S)
<1>1. Len(text) \in Nat /\ i \in Nat /\ i - 1 \in Nat
  BY LinesAreLines
<1>2. \A j \in 1 .. Len(text) : text[j].indent \in Nat
  BY LinesAreLines
<1>3. S \in SUBSET (0 .. i - 1) /\ S # {}
  BY <1>1
<1>4. a \in S /\ \A y \in S : y <= a
  <2> HIDE DEF S
  <2> DEFINE n == i - 1
  <2>1. n \in Nat /\ S \in SUBSET (0 .. n)
    BY <1>1, <1>3
  <2> HIDE DEF n
  <2> QED BY <1>3, <2>1, MaxOfBounded
<1>5. Above(text, i) = a
  BY DEF Above
<1> HIDE DEF a
<1>6. ASSUME NEW j \in a + 1 .. i - 1, IsKeyLine(text[j]) PROVE text[j].indent >= text[i].indent
  <2>1. a \in 0 .. i - 1
    BY <1>3, <1>4
  <2>2. j \in 1 .. i - 1 /\ j \in 1 .. Len(text) /\ ~(j <= a)
    BY <1>1, <2>1
  <2>3. j \notin S
    BY <1>4, <2>2
  <2> QED BY <1>2, <1>6, <2>2, <2>3
<1> QED BY <1>3, <1>4, <1>5, <1>6 DEF IsAbove

LEMMA OnlyOneIsAbove ==
    ASSUME NEW text \in Contents, NEW i \in 1 .. Len(text), NEW a, IsAbove(text, i, a)
    PROVE  Above(text, i) = a
<1> DEFINE b == Above(text, i)
<1>1. IsAbove(text, i, b)
  BY AboveIsAbove
<1> HIDE DEF b
<1>2. Len(text) \in Nat /\ i \in Nat /\ a \in 0 .. i - 1 /\ b \in 0 .. i - 1
  BY <1>1, LinesAreLines DEF IsAbove
<1>3. \A j \in 1 .. Len(text) : text[j].indent \in Nat
  BY LinesAreLines
<1>4. ASSUME a < b PROVE FALSE
  <2>1. b \in a + 1 .. i - 1 /\ b # 0 /\ b \in 1 .. Len(text) /\ i \in 1 .. Len(text)
    BY <1>2, <1>4
  <2>2. text[b].indent >= text[i].indent /\ text[b].indent < text[i].indent
    BY <1>1, <2>1 DEF IsAbove
  <2> QED BY <1>3, <2>1, <2>2
<1>5. ASSUME b < a PROVE FALSE
  <2>1. a \in b + 1 .. i - 1 /\ a # 0 /\ a \in 1 .. Len(text) /\ i \in 1 .. Len(text)
    BY <1>2, <1>5
  <2>2. text[a].indent >= text[i].indent /\ text[a].indent < text[i].indent
    BY <1>1, <2>1 DEF IsAbove
  <2> QED BY <1>3, <2>1, <2>2
<1> QED BY <1>2, <1>4, <1>5 DEF b

\* The keys from the top to line i, as PathOf defines them.
ArePaths(text, n, f) ==
    f = [i \in 0 .. n |-> IF i = 0 THEN <<>> ELSE Append(f[Above(text, i)], text[i].key)]

LEMMA PathsExist ==
    ASSUME NEW text \in Contents
    PROVE  \A n \in Nat : n <= Len(text) => \E f : ArePaths(text, n, f)
<1> DEFINE T == {n \in Nat : n <= Len(text) => \E f : ArePaths(text, n, f)}
<1>1. 0 \in T
  <2>1. ArePaths(text, 0, [i \in 0 .. 0 |-> <<>>])
    BY DEF ArePaths
  <2> QED BY <2>1
<1>2. ASSUME NEW n \in Nat, n \in T PROVE n + 1 \in T
  <2> SUFFICES ASSUME n + 1 <= Len(text) PROVE \E f : ArePaths(text, n + 1, f)
    OBVIOUS
  <2>1. Len(text) \in Nat
    BY LinesAreLines
  <2>2. PICK f : ArePaths(text, n, f)
    BY <1>2, <2>1
  <2> DEFINE g == [i \in 0 .. n + 1 |->
                      IF i = 0 THEN <<>>
                      ELSE Append(IF i = n + 1 THEN f[Above(text, n + 1)] ELSE f[Above(text, i)], text[i].key)]
  <2>3. \A i \in 1 .. n + 1 : Above(text, i) \in 0 .. i - 1 /\ i \in 1 .. Len(text)
    BY <2>1, AboveIsAbove DEF IsAbove
  <2>4. \A i \in 0 .. n : g[i] = f[i]
    <3>1. \A i \in 0 .. n : i \in 0 .. n + 1 /\ i # n + 1
      OBVIOUS
    <3>2. \A i \in 0 .. n : f[i] = IF i = 0 THEN <<>> ELSE Append(f[Above(text, i)], text[i].key)
      BY <2>2 DEF ArePaths
    <3> QED BY <3>1, <3>2
  <2>5. \A i \in 1 .. n + 1 : g[Above(text, i)] = f[Above(text, i)]
    <3> HIDE DEF g
    <3>1. \A i \in 1 .. n + 1 : Above(text, i) \in 0 .. n
      BY <2>3
    <3> QED BY <2>4, <3>1
  <2>6. \A i \in 0 .. n + 1 : g[i] = IF i = 0 THEN <<>> ELSE Append(g[Above(text, i)], text[i].key)
    <3>1. \A i \in 0 .. n + 1 : i # 0 => i \in 1 .. n + 1
      OBVIOUS
    <3>2. \A i \in 0 .. n + 1 : g[i] = IF i = 0 THEN <<>> ELSE Append(f[Above(text, i)], text[i].key)
      OBVIOUS
    <3> HIDE DEF g
    <3> QED BY <2>5, <3>1, <3>2
  <2>7. g = [i \in 0 .. n + 1 |-> g[i]]
    OBVIOUS
  <2> HIDE DEF g
  <2>8. ArePaths(text, n + 1, g)
    BY <2>6, <2>7 DEF ArePaths
  <2> QED BY <2>8
<1> HIDE DEF T
<1>3. \A n \in Nat : n \in T
  BY <1>1, <1>2, NatSetInduction
<1> QED BY <1>3 DEF T

LEMMA PathOfLine ==
    ASSUME NEW text \in Contents
    PROVE  /\ PathOf(text)[0] = <<>>
           /\ \A i \in 1 .. Len(text) :
                  /\ Above(text, i) \in 0 .. i - 1
                  /\ PathOf(text)[i] = Append(PathOf(text)[Above(text, i)], text[i].key)
           /\ \A i \in 0 .. Len(text) : PathOf(text)[i] \in Seq(Texts)
<1> DEFINE n == Len(text)
           p == PathOf(text)
<1>1. n \in Nat
  BY LinesAreLines
<1>2. \E f : ArePaths(text, n, f)
  BY <1>1, PathsExist
<1>3. p = CHOOSE f : ArePaths(text, n, f)
  BY DEF PathOf, ArePaths
<1>4. ArePaths(text, n, p)
  <2> HIDE DEF p
  <2> QED BY <1>2, <1>3
<1> HIDE DEF p
<1>5. \A i \in 0 .. n : p[i] = IF i = 0 THEN <<>> ELSE Append(p[Above(text, i)], text[i].key)
  BY <1>4 DEF ArePaths
<1>6. \A i \in 1 .. n : Above(text, i) \in 0 .. i - 1 /\ text[i].key \in Texts
  BY AboveIsAbove, LinesAreLines DEF IsAbove
<1>7. p[0] = <<>> /\ \A i \in 1 .. n : p[i] = Append(p[Above(text, i)], text[i].key)
  <2>1. \A i \in 1 .. n : i \in 0 .. n /\ i # 0
    OBVIOUS
  <2>2. 0 \in 0 .. n
    BY <1>1
  <2> HIDE DEF n
  <2> QED BY <1>5, <2>1, <2>2
<1>8. \A i \in 0 .. n : p[i] \in Seq(Texts)
  <2> DEFINE T == {m \in Nat : \A i \in 0 .. m : i <= n => p[i] \in Seq(Texts)}
  <2>1. 0 \in T
    <3>1. <<>> \in Seq(Texts)
      OBVIOUS
    <3>2. \A i \in 0 .. 0 : i = 0
      OBVIOUS
    <3> QED BY <1>7, <3>1, <3>2
  <2>2. ASSUME NEW m \in Nat, m \in T PROVE m + 1 \in T
    <3> SUFFICES ASSUME NEW i \in 0 .. m + 1, i <= n, i \notin 0 .. m PROVE p[i] \in Seq(Texts)
      BY <2>2
    <3>1. i = m + 1 /\ i \in 1 .. n /\ Above(text, i) \in 0 .. m /\ Above(text, i) <= n
      BY <1>1, <1>6
    <3>2. p[Above(text, i)] \in Seq(Texts)
      BY <2>2, <3>1
    <3> DEFINE q == p[Above(text, i)]
               k == text[i].key
    <3>3. p[i] = Append(q, k) /\ k \in Texts /\ q \in Seq(Texts)
      BY <1>6, <1>7, <3>1, <3>2
    <3> HIDE DEF q, k
    <3>4. Append(q, k) \in Seq(Texts)
      BY <3>3, AppendProperties
    <3> QED BY <3>3, <3>4
  <2> HIDE DEF T
  <2>3. n \in T
    BY <1>1, <2>1, <2>2, NatSetInduction
  <2> QED BY <1>1, <2>3 DEF T
<1> QED BY <1>6, <1>7, <1>8 DEF p, n

(* Indentation and keys alone decide what is nested in what.               *)
SameShape(text, copy) ==
    /\ Len(copy) = Len(text)
    /\ \A i \in 1 .. Len(text) : copy[i].key = text[i].key /\ copy[i].indent = text[i].indent

LEMMA SamePaths ==
    ASSUME NEW text \in Contents, NEW copy \in Contents, SameShape(text, copy)
    PROVE  \A i \in 0 .. Len(text) : PathOf(copy)[i] = PathOf(text)[i]
<1> DEFINE n == Len(text)
           p == PathOf(text)
           q == PathOf(copy)
<1>1. n \in Nat /\ Len(copy) = n
  BY LinesAreLines DEF SameShape
<1>2. \A i \in 1 .. n : Above(copy, i) = Above(text, i)
  <2> SUFFICES ASSUME NEW i \in 1 .. n PROVE Above(copy, i) = Above(text, i)
    OBVIOUS
  <2>1. IsAbove(text, i, Above(text, i))
    BY AboveIsAbove
  <2>2. \A j \in 1 .. n : IsKeyLine(copy[j]) <=> IsKeyLine(text[j])
    BY DEF SameShape, IsKeyLine
  <2> DEFINE a == Above(text, i)
  <2>3. IsAbove(copy, i, a)
    <3> HIDE DEF a
    <3>1. IsAbove(text, i, a)
      BY <2>1 DEF a
    <3>2. \A j \in 1 .. i : j \in 1 .. n
      BY <1>1
    <3>3. a \in 0 .. i - 1 /\ i \in 1 .. i /\ \A j \in a + 1 .. i - 1 : j \in 1 .. i
      BY <1>1, <3>1 DEF IsAbove
    <3>4. a # 0 => a \in 1 .. i
      BY <1>1, <3>3
    <3> QED BY <2>2, <3>1, <3>2, <3>3, <3>4 DEF SameShape, IsAbove
  <2> HIDE DEF a
  <2>4. Above(copy, i) = a
    BY <1>1, <2>3, OnlyOneIsAbove
  <2> QED BY <2>4 DEF a
<1>3. /\ p[0] = <<>> /\ q[0] = <<>>
      /\ \A i \in 1 .. n : /\ Above(text, i) \in 0 .. i - 1
                           /\ p[i] = Append(p[Above(text, i)], text[i].key)
                           /\ q[i] = Append(q[Above(text, i)], text[i].key)
  <2>1. /\ p[0] = <<>> /\ \A i \in 1 .. n : /\ Above(text, i) \in 0 .. i - 1
                                            /\ p[i] = Append(p[Above(text, i)], text[i].key)
    BY PathOfLine
  <2>2. /\ q[0] = <<>> /\ \A i \in 1 .. n : q[i] = Append(q[Above(copy, i)], copy[i].key)
    BY <1>1, PathOfLine
  <2>3. \A i \in 1 .. n : copy[i].key = text[i].key
    BY DEF SameShape
  <2> HIDE DEF p, q
  <2> QED BY <1>2, <2>1, <2>2, <2>3
<1> HIDE DEF p, q
<1> DEFINE T == {m \in Nat : \A i \in 0 .. m : i <= n => q[i] = p[i]}
<1>4. 0 \in T
  <2>1. \A i \in 0 .. 0 : i = 0
    OBVIOUS
  <2> QED BY <1>3, <2>1
<1>5. ASSUME NEW m \in Nat, m \in T PROVE m + 1 \in T
  <2> SUFFICES ASSUME NEW i \in 0 .. m + 1, i <= n, i \notin 0 .. m PROVE q[i] = p[i]
    BY <1>5
  <2>1. i \in 1 .. n /\ i = m + 1
    BY <1>1
  <2>2. Above(text, i) \in 0 .. m /\ Above(text, i) <= n
    BY <1>1, <1>3, <2>1
  <2>3. q[Above(text, i)] = p[Above(text, i)]
    BY <1>5, <2>2
  <2> QED BY <1>3, <2>1, <2>3
<1> HIDE DEF T
<1>6. n \in T
  BY <1>1, <1>4, <1>5, NatSetInduction
<1> QED BY <1>1, <1>6 DEF T, p, q

(* Where a setting is, and what it says.                                   *)
LinesOf(text, setting) == {i \in DOMAIN text : text[i].key = Last(setting) /\ PathOf(text)[i] = setting}

LEMMA ValueOf ==
    ASSUME NEW text \in Contents, NEW setting, NEW default
    PROVE  /\ ValueAt(text, setting, default)
                = IF LinesOf(text, setting) = {} THEN default ELSE text[Max(LinesOf(text, setting))].value
           /\ LinesOf(text, setting) \in SUBSET (0 .. Len(text))
           /\ LinesOf(text, setting) # {} => Max(LinesOf(text, setting)) \in LinesOf(text, setting)
                                            /\ \A y \in LinesOf(text, setting) : y <= Max(LinesOf(text, setting))
<1>1. ValueAt(text, setting, default)
                = IF LinesOf(text, setting) = {} THEN default ELSE text[Max(LinesOf(text, setting))].value
  BY DEF ValueAt, LinesOf
<1>2. Len(text) \in Nat /\ LinesOf(text, setting) \in SUBSET (0 .. Len(text))
  BY LinesAreLines DEF LinesOf
<1>3. LinesOf(text, setting) # {} => Max(LinesOf(text, setting)) \in LinesOf(text, setting)
                                            /\ \A y \in LinesOf(text, setting) : y <= Max(LinesOf(text, setting))
  BY <1>2, MaxOfBounded
<1> QED BY <1>1, <1>2, <1>3

(* A line that is not the setting's may say what it wants.                 *)
LEMMA ValueStays ==
    ASSUME NEW text \in Contents, NEW copy \in Contents, SameShape(text, copy),
           NEW index, \A i \in 1 .. Len(text) : i # index => copy[i].value = text[i].value,
           NEW setting, NEW default, index \notin LinesOf(text, setting)
    PROVE  ValueAt(copy, setting, default) = ValueAt(text, setting, default)
<1>1. DOMAIN text = 1 .. Len(text) /\ DOMAIN copy = 1 .. Len(text) /\ Len(text) \in Nat
  BY LinesAreLines DEF SameShape
<1>2. \A i \in 1 .. Len(text) : PathOf(copy)[i] = PathOf(text)[i] /\ copy[i].key = text[i].key
  BY <1>1, SamePaths DEF SameShape
<1> DEFINE at == LinesOf(text, setting)
<1>3. LinesOf(copy, setting) = at
  BY <1>1, <1>2 DEF LinesOf
<1>4. at # {} => Max(at) \in at
  BY ValueOf
<1>5. at # {} => Max(at) \in 1 .. Len(text) /\ Max(at) # index
  BY <1>1, <1>4 DEF LinesOf
<1> DEFINE m == Max(at)
<1>6. ValueAt(text, setting, default) = IF at = {} THEN default ELSE text[m].value
  BY ValueOf
<1>7. ValueAt(copy, setting, default) = IF at = {} THEN default ELSE copy[m].value
  BY <1>3, ValueOf
<1> HIDE DEF at, m
<1> QED BY <1>5, <1>6, <1>7 DEF m

(* A line below a heading and indented further, with all in between, has   *)
(* the heading's key on its path.                                          *)
Under(text, h, i) ==
    /\ h \in 1 .. i - 1 /\ IsKeyLine(text[h])
    /\ \A j \in h + 1 .. i : IsKeyLine(text[j]) => text[h].indent < text[j].indent

LEMMA HeadingIsOnThePath ==
    ASSUME NEW text \in Contents, NEW h \in 1 .. Len(text)
    PROVE  \A i \in 1 .. Len(text) : IsKeyLine(text[i]) /\ Under(text, h, i) =>
               \E k \in 1 .. Len(PathOf(text)[i]) : PathOf(text)[i][k] = text[h].key
<1> DEFINE n == Len(text)
           p == PathOf(text)
           Has(i) == \E k \in 1 .. Len(p[i]) : p[i][k] = text[h].key
           T == {m \in Nat : \A i \in 1 .. n : i <= m /\ IsKeyLine(text[i]) /\ Under(text, h, i) => Has(i)}
<1>1. n \in Nat /\ \A i \in 1 .. n : text[i].indent \in Nat /\ text[i].key \in Texts
  BY LinesAreLines
<1>2. /\ \A i \in 1 .. n : /\ Above(text, i) \in 0 .. i - 1
                           /\ p[i] = Append(p[Above(text, i)], text[i].key)
      /\ \A i \in 0 .. n : p[i] \in Seq(Texts)
  BY PathOfLine
<1> HIDE DEF p, n
<1>3. ASSUME NEW i \in 1 .. n
      PROVE  /\ Len(p[i]) = Len(p[Above(text, i)]) + 1 /\ Len(p[Above(text, i)]) \in Nat
             /\ p[i][Len(p[i])] = text[i].key
             /\ \A k \in 1 .. Len(p[Above(text, i)]) : p[i][k] = p[Above(text, i)][k]
  <2> DEFINE q == p[Above(text, i)]
             e == text[i].key
             S == Texts
  <2>0. Above(text, i) \in 0 .. n
    BY <1>1, <1>2
  <2>1. q \in Seq(S) /\ e \in S /\ p[i] = Append(q, e)
    BY <1>1, <1>2, <2>0
  <2> HIDE DEF q, e, S
  <2>2. Len(Append(q, e)) = Len(q) + 1 /\ Append(q, e)[Len(q) + 1] = e /\ Len(q) \in Nat
        /\ \A k \in 1 .. Len(q) : Append(q, e)[k] = q[k]
    BY <2>1
  <2> QED BY <2>1, <2>2 DEF q, e
<1>4. 0 \in T
  OBVIOUS
<1>5. ASSUME NEW m \in Nat, m \in T PROVE m + 1 \in T
  <2> SUFFICES ASSUME NEW i \in 1 .. n, i <= m + 1, IsKeyLine(text[i]), Under(text, h, i) PROVE Has(i)
    OBVIOUS
  <2> DEFINE a == Above(text, i)
  <2>1. IsAbove(text, i, a)
    BY AboveIsAbove DEF n
  <2> HIDE DEF a
  <2>2. a \in 0 .. i - 1 /\ h \in 1 .. i - 1 /\ i \in h + 1 .. i
    BY <1>1, <2>1 DEF IsAbove, Under
  <2>3. text[h].indent < text[i].indent /\ IsKeyLine(text[h])
    BY <2>2 DEF Under
  <2>4. a >= h
    <3> SUFFICES ASSUME a < h PROVE FALSE
      BY <2>2
    <3>1. h \in a + 1 .. i - 1
      BY <2>2
    <3>2. text[h].indent >= text[i].indent
      BY <2>1, <2>3, <3>1 DEF IsAbove
    <3>3. text[h].indent \in Nat /\ text[i].indent \in Nat
      BY <1>1, <2>2
    <3> QED BY <2>3, <3>2, <3>3
  <2>5. Has(a)
    <3>1. CASE a = h
      <4>1. p[h][Len(p[h])] = text[h].key /\ Len(p[h]) \in 1 .. Len(p[h])
        BY SMTT(60), <1>3 DEF n
      <4> QED BY <3>1, <4>1
    <3>2. CASE a # h
      <4>1. a \in 1 .. n /\ a <= m /\ h \in 1 .. a - 1 /\ a # 0
        BY <1>1, <2>2, <2>4, <3>2
      <4>2. IsKeyLine(text[a])
        BY <2>1, <4>1 DEF IsAbove
      <4>3. Under(text, h, a)
        <5>1. \A j \in h + 1 .. a : j \in h + 1 .. i
          BY <2>2
        <5> QED BY <4>1, <5>1 DEF Under
      <4> QED BY <1>5, <4>1, <4>2, <4>3
    <3> QED BY <3>1, <3>2
  <2>6. PICK k \in 1 .. Len(p[a]) : p[a][k] = text[h].key
    BY <2>5
  <2>7. k \in 1 .. Len(p[i]) /\ p[i][k] = p[a][k]
    BY <1>3, <2>6 DEF a
  <2> QED BY <2>6, <2>7
<1> HIDE DEF T
<1>6. n \in T
  BY <1>1, <1>4, <1>5, NatSetInduction
<1> QED BY <1>1, <1>6 DEF T, p, n

-----------------------------------------------------------------------------
(* The block of a key: what is below its line and indented further, up to  *)
(* a line that is not.                                                     *)
IsBlock(text, key, b) ==
    b = <<>> \/ \E h \in 1 .. Len(text), e \in 1 .. Len(text) + 1 :
        /\ b = <<h + 1, e, text[h].indent>>
        /\ IsKeyLine(text[h]) /\ text[h].key = key /\ h < e
        /\ \A j \in h + 1 .. e - 1 : IsKeyLine(text[j]) => text[h].indent < text[j].indent
        /\ e # Len(text) + 1 => IsKeyLine(text[e]) /\ text[e].indent <= text[h].indent

LEMMA StepFinds ==
    ASSUME NEW text \in Contents, NEW a \in Nat \ {0}, NEW e \in 1 .. Len(text) + 1, NEW d \in Int,
           e # Len(text) + 1 => IsKeyLine(text[e]) /\ text[e].indent <= d, NEW key
    PROVE  IsBlock(text, key, Step(text, <<a, e, d>>, key))
<1> DEFINE f == <<a, e, d>>
           M == {i \in a .. e - 1 : IsKeyLine(text[i]) /\ text[i].key = key /\ text[i].indent > d}
           h == Min(M)
           E == {e} \cup {i \in h + 1 .. e - 1 : IsKeyLine(text[i]) /\ text[i].indent <= text[h].indent}
           x == Min(E)
<1>1. Len(text) \in Nat /\ \A i \in 1 .. Len(text) : text[i].indent \in Nat
  BY LinesAreLines
<1>2. f # <<>> /\ f[1] = a /\ f[2] = e /\ f[3] = d
  OBVIOUS
<1>3. Inside(text, f, key, f[3]) = M
  BY <1>2 DEF Inside
<1>4. BlockEnd(text, h, e) = x
  BY DEF BlockEnd
<1>5. Step(text, f, key) = IF M = {} THEN <<>> ELSE <<h + 1, x, text[h].indent>>
  <2> HIDE DEF M, h, x, f
  <2>1. Step(text, f, key) = IF M = {} THEN <<>> ELSE <<Min(M) + 1, BlockEnd(text, Min(M), e), text[Min(M)].indent>>
    BY <1>2, <1>3 DEF Step
  <2> QED BY <1>4, <2>1 DEF h
<1>6. SUFFICES ASSUME M # {} PROVE IsBlock(text, key, <<h + 1, x, text[h].indent>>)
  BY <1>5 DEF IsBlock
<1>7. h \in M
  <2>1. M \in SUBSET Nat
    BY <1>1
  <2> HIDE DEF M
  <2> QED BY <1>6, <2>1, MinOfSome
<1>8. h \in 1 .. Len(text) /\ h < e /\ h \in Nat /\ IsKeyLine(text[h]) /\ text[h].key = key /\ text[h].indent > d
  <2> HIDE DEF h
  <2> QED BY <1>1, <1>7
<1> HIDE DEF h
<1>9. x \in E /\ \A y \in E : x <= y
  <2>1. E \in SUBSET Nat /\ E # {}
    BY <1>1, <1>8
  <2> HIDE DEF E
  <2> QED BY <2>1, MinOfSome
<1> HIDE DEF x
<1>10. x \in 1 .. Len(text) + 1 /\ h < x /\ x <= e
  BY <1>1, <1>8, <1>9
<1>11. ASSUME NEW j \in h + 1 .. x - 1, IsKeyLine(text[j]) PROVE text[h].indent < text[j].indent
  <2>1. j \in h + 1 .. e - 1 /\ ~(x <= j) /\ j \in 1 .. Len(text)
    BY <1>1, <1>8, <1>10
  <2>2. j \notin E
    BY <1>9, <2>1
  <2>3. ~(text[j].indent <= text[h].indent)
    BY <1>11, <2>1, <2>2
  <2> QED BY SMTT(60), <1>1, <1>8, <2>1, <2>3
<1>12. ASSUME x # Len(text) + 1 PROVE IsKeyLine(text[x]) /\ text[x].indent <= text[h].indent
  <2>1. CASE x = e
    <3>1. IsKeyLine(text[e]) /\ text[e].indent <= d /\ e \in 1 .. Len(text)
      BY <1>1, <1>10, <1>12, <2>1
    <3> QED BY <1>1, <1>8, <2>1, <3>1
  <2>2. CASE x # e
    BY <1>9, <2>2
  <2> QED BY <2>1, <2>2
<1> QED BY <1>8, <1>10, <1>11, <1>12 DEF IsBlock

Blocks(text, path, n, f) ==
    f = [i \in 0 .. n |-> IF i = 0 THEN <<1, Len(text) + 1, -1>> ELSE Step(text, f[i - 1], path[i])]

LEMMA BlocksExist == ASSUME NEW text, NEW path PROVE \A n \in Nat : \E f : Blocks(text, path, n, f)
<1> DEFINE T == {n \in Nat : \E f : Blocks(text, path, n, f)}
           first == <<1, Len(text) + 1, -1>>
<1>1. 0 \in T
  <2>1. Blocks(text, path, 0, [i \in 0 .. 0 |-> first])
    BY DEF Blocks
  <2> QED BY <2>1
<1>2. ASSUME NEW n \in Nat, n \in T PROVE n + 1 \in T
  <2>1. PICK f : Blocks(text, path, n, f)
    BY <1>2
  <2> DEFINE g == [i \in 0 .. n + 1 |-> IF i = 0 THEN first ELSE Step(text, f[i - 1], path[i])]
  <2> HIDE DEF first
  <2>2. \A i \in 0 .. n : f[i] = IF i = 0 THEN first ELSE Step(text, f[i - 1], path[i])
    BY <2>1 DEF Blocks, first
  <2>3. \A i \in 0 .. n + 1 : g[i] = IF i = 0 THEN first ELSE Step(text, f[i - 1], path[i])
    OBVIOUS
  <2>4. g = [i \in 0 .. n + 1 |-> g[i]]
    OBVIOUS
  <2> HIDE DEF g
  <2>5. \A i \in 0 .. n : g[i] = f[i]
    BY <2>2, <2>3
  <2>6. \A i \in 0 .. n + 1 : i # 0 => i - 1 \in 0 .. n
    OBVIOUS
  <2>7. \A i \in 0 .. n + 1 : g[i] = IF i = 0 THEN first ELSE Step(text, g[i - 1], path[i])
    BY <2>3, <2>5, <2>6
  <2>8. Blocks(text, path, n + 1, g)
    BY <2>4, <2>7 DEF Blocks, first
  <2> QED BY <2>8
<1> HIDE DEF T
<1>3. \A n \in Nat : n \in T
  BY <1>1, <1>2, NatSetInduction
<1> QED BY <1>3 DEF T

LEMMA BlockIsBlock ==
    ASSUME NEW text \in Contents, NEW path, Len(path) \in Nat \ {0}
    PROVE  IsBlock(text, path[Len(path)], Block(text, path))
<1> DEFINE n == Len(path)
           F == CHOOSE f : Blocks(text, path, n, f)
           first == <<1, Len(text) + 1, -1>>
<1>1. Blocks(text, path, n, F)
  <2>1. \E f : Blocks(text, path, n, f)
    BY BlocksExist
  <2> QED BY <2>1
<1>2. Block(text, path) = F[n]
  BY DEF Block, Blocks
<1>3. Len(text) \in Nat /\ \A i \in 1 .. Len(text) : text[i].indent \in Nat
  BY LinesAreLines
<1> HIDE DEF F, n, first
<1>4. \A i \in 0 .. n : F[i] = IF i = 0 THEN first ELSE Step(text, F[i - 1], path[i])
  BY <1>1 DEF Blocks, first
<1>5. n \in Nat /\ n # 0
  BY DEF n
<1>6. F[0] = first /\ \A i \in 1 .. n : F[i] = Step(text, F[i - 1], path[i])
  <2>1. 0 \in 0 .. n /\ \A i \in 1 .. n : i \in 0 .. n /\ i # 0
    BY <1>5
  <2> QED BY <1>4, <2>1
<1> DEFINE T == {i \in Nat : i + 1 <= n => IsBlock(text, path[i + 1], F[i + 1])}
<1>7. 0 \in T
  <2> SUFFICES IsBlock(text, path[1], F[1])
    OBVIOUS
  <2>1. F[1] = Step(text, first, path[1])
    BY <1>5, <1>6
  <2> DEFINE e == Len(text) + 1
             d == -1
  <2>2. e \in 1 .. Len(text) + 1 /\ d \in Int /\ 1 \in Nat \ {0} /\ e = Len(text) + 1
    BY <1>3
  <2>3. first = <<1, e, d>>
    BY DEF first
  <2> HIDE DEF e, d
  <2>4. IsBlock(text, path[1], Step(text, <<1, e, d>>, path[1]))
    BY <2>2, StepFinds
  <2> QED BY <2>1, <2>3, <2>4
<1>8. ASSUME NEW i \in Nat, i \in T PROVE i + 1 \in T
  <2> SUFFICES ASSUME (i + 1) + 1 <= n PROVE IsBlock(text, path[(i + 1) + 1], F[(i + 1) + 1])
    OBVIOUS
  <2> DEFINE k == i + 1
             key == path[k + 1]
  <2>1. k \in 1 .. n /\ k + 1 \in 1 .. n /\ (k + 1) - 1 = k
    BY <1>5
  <2>2. F[k + 1] = Step(text, F[k], key)
    BY <1>6, <2>1
  <2>3. IsBlock(text, path[k], F[k])
    BY <1>5, <1>8, <2>1
  <2>s. SUFFICES IsBlock(text, key, F[k + 1])
    OBVIOUS
  <2> HIDE DEF k, key
  <2>4. CASE F[k] = <<>>
    BY <2>2, <2>4 DEF Step, IsBlock
  <2>5. CASE F[k] # <<>>
    <3>1. PICK h \in 1 .. Len(text), e \in 1 .. Len(text) + 1 :
              /\ F[k] = <<h + 1, e, text[h].indent>>
              /\ e # Len(text) + 1 => IsKeyLine(text[e]) /\ text[e].indent <= text[h].indent
      BY <2>3, <2>5 DEF IsBlock
    <3> DEFINE a == h + 1
               d == text[h].indent
    <3>2. a \in Nat \ {0} /\ d \in Int /\ F[k] = <<a, e, d>>
          /\ (e # Len(text) + 1 => IsKeyLine(text[e]) /\ text[e].indent <= d)
      BY <1>3, <3>1
    <3> HIDE DEF a, d
    <3>3. IsBlock(text, key, Step(text, <<a, e, d>>, key))
      BY <3>2, StepFinds
    <3> QED BY <2>2, <3>2, <3>3
  <2> QED BY <2>4, <2>5
<1> HIDE DEF T
<1>9. \A i \in Nat : i \in T
  BY <1>7, <1>8, NatSetInduction
<1>10. n - 1 \in Nat /\ (n - 1) + 1 = n /\ n <= n
  BY <1>5
<1>11. n - 1 \in T
  BY <1>9, <1>10
<1>12. IsBlock(text, path[n], F[n])
  BY <1>10, <1>11 DEF T
<1> QED BY <1>2, <1>12 DEF n

-----------------------------------------------------------------------------
(* Changing one line's value.                                              *)
LEMMA LineChanged ==
    ASSUME NEW text \in Contents, NEW index \in 1 .. Len(text), NEW line \in Line,
           line.key = text[index].key, line.indent = text[index].indent
    PROVE  LET copy == [text EXCEPT ![index] = line]
           IN  /\ copy \in Contents /\ SameShape(text, copy)
               /\ \A i \in 1 .. Len(text) : i # index => copy[i].value = text[i].value
<1> DEFINE copy == [text EXCEPT ![index] = line]
<1>1. text \in Seq(Line) /\ DOMAIN text = 1 .. Len(text)
  BY LinesAreLines
<1>2. copy \in Seq(Line) /\ Len(copy) = Len(text)
  BY <1>1, ExceptSeq
<1>3. \A i \in 1 .. Len(text) : copy[i] = IF i = index THEN line ELSE text[i]
  BY <1>1
<1>4. copy \in Contents
  BY <1>2 DEF Contents
<1> HIDE DEF copy
<1>5. SameShape(text, copy)
  BY <1>2, <1>3 DEF SameShape
<1> QED BY <1>3, <1>4, <1>5 DEF copy

(* The places a setting is read from.                                      *)
Sinks == {AuditEnabled, AuditPath, SyslogEnabled, SyslogAddress}
Kinds == {"pesel", "email"}
Places(s) == IF s \in Sinks THEN {s} ELSE {s, <<s[1], s[2], "mode">>}

LEMMA OneMore ==
    ASSUME NEW D, NEW s \in Seq(D), NEW e \in D, NEW r \in Seq(D), Len(r) = Len(s) + 1,
           \A i \in 1 .. Len(s) : r[i] = s[i], r[Len(s) + 1] = e
    PROVE  Append(s, e) = r
<1>1. /\ Append(s, e) \in Seq(D) /\ Len(Append(s, e)) = Len(s) + 1
      /\ \A i \in 1 .. Len(s) : Append(s, e)[i] = s[i]
      /\ Append(s, e)[Len(s) + 1] = e
  BY AppendProperties
<1>2. \A i \in 1 .. Len(s) + 1 : i \in 1 .. Len(s) \/ i = Len(s) + 1
  BY LenProperties
<1>3. \A i \in 1 .. Len(s) + 1 : Append(s, e)[i] = r[i]
  BY <1>1, <1>2
<1> QED BY <1>1, <1>3, SeqEqual

LEMMA SettingsAre ==
    /\ Settings = Sinks \cup {Detector(kind) : kind \in Kinds}
    /\ \A s \in Sinks : s[1] = "audit" /\ Len(s) = 3 /\ Last(s) = s[3]
    /\ \A kind : /\ Detector(kind)[1] = "detectors" /\ Detector(kind)[2] = kind /\ Len(Detector(kind)) = 2
                 /\ Last(Detector(kind)) = kind /\ Append(Detector(kind), "mode") = <<"detectors", kind, "mode">>
                 /\ Last(<<"detectors", kind, "mode">>) = "mode"
                 /\ Detector(kind) \notin Sinks
<1>1. Settings = Sinks \cup {Detector(kind) : kind \in Kinds}
  BY DEF Settings, Sinks, Kinds
<1>2. \A s \in Sinks : s[1] = "audit" /\ Len(s) = 3 /\ Last(s) = s[3]
  BY DEF Sinks, AuditEnabled, AuditPath, SyslogEnabled, SyslogAddress, Last
<1>3. ASSUME NEW kind
      PROVE  /\ Detector(kind)[1] = "detectors" /\ Detector(kind)[2] = kind /\ Len(Detector(kind)) = 2
             /\ Last(Detector(kind)) = kind /\ Append(Detector(kind), "mode") = <<"detectors", kind, "mode">>
             /\ Last(<<"detectors", kind, "mode">>) = "mode"
  <2> DEFINE D == {"detectors", kind, "mode"}
             s == <<"detectors", kind>>
             e == "mode"
             r == <<"detectors", kind, "mode">>
  <2>1. s \in Seq(D) /\ e \in D /\ r \in Seq(D) /\ Len(s) = 2 /\ Len(r) = 3
        /\ s[1] = "detectors" /\ s[2] = kind /\ r[1] = "detectors" /\ r[2] = kind /\ r[3] = "mode"
    OBVIOUS
  <2>2. Detector(kind) = s
    BY DEF Detector
  <2>3. Append(s, e) = r
    <3>1. r[3] = e /\ r[1] = s[1] /\ r[2] = s[2]
      BY <2>1
    <3> HIDE DEF s, e, r, D
    <3>3. /\ s \in Seq(D) /\ e \in D /\ r \in Seq(D) /\ Len(r) = 3 /\ Len(s) = 2
      BY <2>1
    <3>4. Len(r) = Len(s) + 1 /\ r[Len(s) + 1] = e
      BY <3>1, <3>3
    <3>5. \A i \in 1 .. Len(s) : i = 1 \/ i = 2
      BY <3>3
    <3>6. \A i \in 1 .. Len(s) : r[i] = s[i]
      BY <3>1, <3>5
    <3> QED BY <3>3, <3>4, <3>6, OneMore
  <2> QED BY <2>1, <2>2, <2>3 DEF Last
<1>4. \A kind : Detector(kind) \notin Sinks
  BY <1>2, <1>3
<1> QED BY <1>1, <1>2, <1>3, <1>4

LEMMA ValueByPlaces ==
    ASSUME NEW text, NEW copy, NEW s \in Settings,
           \A place \in Places(s) : \A default : ValueAt(copy, place, default) = ValueAt(text, place, default)
    PROVE  Value(copy, s) = Value(text, s)
<1>1. CASE s \in Sinks
  <2>1. s[1] # "detectors" /\ s \in Places(s)
    BY <1>1, SettingsAre DEF Places
  <2> QED BY <2>1 DEF Value
<1>2. ASSUME NEW kind \in Kinds, s = Detector(kind) PROVE Value(copy, s) = Value(text, s)
  <2>1. /\ s[1] = "detectors" /\ s[2] = kind /\ s \in Places(s)
        /\ Append(Detector(kind), "mode") \in Places(s)
    BY <1>2, SettingsAre DEF Places
  <2>2. ModeFor(copy, kind) = ModeFor(text, kind)
    BY <1>2, <2>1 DEF ModeFor
  <2> QED BY <2>1, <2>2 DEF Value
<1> QED BY <1>1, <1>2, SettingsAre

LEMMA ValueType == ASSUME NEW text \in Contents, NEW s PROVE Value(text, s) \in Texts
<1>1. \A setting : \A default \in Texts : ValueAt(text, setting, default) \in Texts
  <2> SUFFICES ASSUME NEW setting, NEW default \in Texts PROVE ValueAt(text, setting, default) \in Texts
    OBVIOUS
  <2> DEFINE at == LinesOf(text, setting)
             m == Max(at)
  <2>1. at # {} => m \in at
    BY ValueOf
  <2>2. at # {} => m \in 1 .. Len(text)
    BY <2>1, LinesAreLines DEF LinesOf
  <2>3. \A i \in 1 .. Len(text) : text[i].value \in Texts
    BY LinesAreLines DEF Line
  <2>4. ValueAt(text, setting, default) = IF at = {} THEN default ELSE text[m].value
    BY ValueOf
  <2> HIDE DEF at, m
  <2> QED BY <2>2, <2>3, <2>4
<1>2. "unset" \in Texts /\ "default" \in Texts
  BY DEF Texts
<1>3. \A kind : ModeFor(text, kind) \in Texts
  BY <1>1, <1>2 DEF ModeFor
<1> QED BY <1>1, <1>2, <1>3 DEF Value

(* What an edit of a setting has to do.                                    *)
Edits(text, setting, value, result) ==
    /\ result.lines \in Contents
    /\ \A s \in Settings \ {setting} : Value(result.lines, s) = Value(text, s)
    /\ result.ok => Value(result.lines, setting) = value

LEMMA LeavingItIsAnEdit ==
    ASSUME NEW text \in Contents, NEW setting, NEW value
    PROVE  Edits(text, setting, value, Rejected(text))
BY DEF Edits, Rejected

LEMMA ReadBackEdits ==
    ASSUME NEW text \in Contents, NEW copy \in Contents, NEW setting, NEW value,
           \A s \in Settings \ {setting} : Value(copy, s) = Value(text, s)
    PROVE  Edits(text, setting, value, ReadBack(copy, setting, value))
BY DEF Edits, ReadBack, Accepted, Rejected

(* A value is changed in a line that is no other setting's.                *)
LEMMA LineEdits ==
    ASSUME NEW text \in Contents, NEW index \in 1 .. Len(text), NEW line \in Line,
           line.key = text[index].key, line.indent = text[index].indent,
           NEW setting, NEW value,
           \A s \in Settings \ {setting} : \A place \in Places(s) : index \notin LinesOf(text, place)
    PROVE  Edits(text, setting, value, ReadBack([text EXCEPT ![index] = line], setting, value))
<1> DEFINE copy == [text EXCEPT ![index] = line]
<1>1. /\ copy \in Contents /\ SameShape(text, copy)
      /\ \A i \in 1 .. Len(text) : i # index => copy[i].value = text[i].value
  BY LineChanged
<1> HIDE DEF copy
<1>2. \A s \in Settings \ {setting} : \A place \in Places(s) : \A default :
          ValueAt(copy, place, default) = ValueAt(text, place, default)
  BY <1>1, ValueStays
<1>3. \A s \in Settings \ {setting} : Value(copy, s) = Value(text, s)
  BY <1>2, ValueByPlaces
<1>4. Edits(text, setting, value, ReadBack(copy, setting, value))
  BY <1>1, <1>3, ReadBackEdits
<1> QED BY <1>4 DEF copy

(* A line found in a block.                                                *)
LEMMA LineIsInBlock ==
    ASSUME NEW text \in Contents, NEW path, Len(path) \in Nat \ {0}, Block(text, path) # <<>>,
           NEW key, NEW index \in LineOf(text, path, key)
    PROVE  /\ index \in 1 .. Len(text) /\ IsKeyLine(text[index]) /\ text[index].key = key
           /\ \E k \in 1 .. Len(PathOf(text)[index]) : PathOf(text)[index][k] = path[Len(path)]
<1>1. PICK h \in 1 .. Len(text), e \in 1 .. Len(text) + 1 :
        /\ Block(text, path) = <<h + 1, e, text[h].indent>>
        /\ IsKeyLine(text[h]) /\ text[h].key = path[Len(path)] /\ h < e
        /\ \A j \in h + 1 .. e - 1 : IsKeyLine(text[j]) => text[h].indent < text[j].indent
  BY BlockIsBlock DEF IsBlock
<1>2. index \in h + 1 .. e - 1 /\ IsKeyLine(text[index]) /\ text[index].key = key
  <2>1. LineOf(text, path, key) = {i \in h + 1 .. e - 1 : IsKeyLine(text[i]) /\ text[i].key = key /\ text[i].indent > -1}
    BY <1>1 DEF LineOf, Inside
  <2> QED BY <2>1
<1>3. Len(text) \in Nat
  BY LinesAreLines
<1>4. index \in 1 .. Len(text) /\ h \in 1 .. index - 1 /\ \A j \in h + 1 .. index : j \in h + 1 .. e - 1
  BY <1>2, <1>3
<1>5. Under(text, h, index)
  BY <1>1, <1>4 DEF Under
<1>6. \E k \in 1 .. Len(PathOf(text)[index]) : PathOf(text)[index][k] = text[h].key
  BY <1>2, <1>4, <1>5, HeadingIsOnThePath
<1> QED BY <1>1, <1>2, <1>4, <1>6

LEMMA SetScalarEdits ==
    ASSUME NEW text \in Contents, NEW setting \in Sinks, NEW value,
           NEW written, written.value \in Texts, written.note \in Texts
    PROVE  Edits(text, setting, value, SetScalar(text, setting, written, value))
<1> DEFINE path == Front(setting)
           at == IF Block(text, path) = <<>> THEN {} ELSE LineOf(text, path, Last(setting))
           index == Min(at)
           note == IF written.note = "" THEN text[index].note ELSE written.note
           line == [text[index] EXCEPT !.value = written.value, !.note = note]
<1>1. Len(path) \in Nat \ {0} /\ path[Len(path)] = setting[2] /\ Last(setting) = setting[3]
  BY DEF Front, Last, Sinks, AuditEnabled, AuditPath, SyslogEnabled, SyslogAddress
<1> HIDE DEF path
<1>2. CASE at = {}
  <2>1. SetScalar(text, setting, written, value) = Rejected(text)
    BY <1>2 DEF SetScalar, path
  <2> QED BY <2>1, LeavingItIsAnEdit
<1>3. CASE at # {}
  <2>1. Block(text, path) # <<>> /\ at = LineOf(text, path, Last(setting))
    BY <1>3
  <2>2. \A i \in at : /\ i \in 1 .. Len(text) /\ text[i].key = Last(setting)
                      /\ \E k \in 1 .. Len(PathOf(text)[i]) : PathOf(text)[i][k] = setting[2]
    BY <1>1, <2>1, LineIsInBlock
  <2> HIDE DEF at
  <2>3. index \in at
    <3>1. at \in SUBSET Nat
      BY <2>2, LinesAreLines
    <3> QED BY <1>3, <3>1, MinOfSome
  <2> HIDE DEF index
  <2>4. index \in 1 .. Len(text) /\ text[index] \in Line
    BY <2>2, <2>3, LinesAreLines
  <2>5. note \in Texts
    BY <2>4 DEF Line
  <2> HIDE DEF note
  <2>6. line \in Line /\ line.key = text[index].key /\ line.indent = text[index].indent
    BY <2>4, <2>5 DEF Line
  <2>7. ASSUME NEW s \in Settings \ {setting}, NEW place \in Places(s), index \in LinesOf(text, place) PROVE FALSE
    <3>1. text[index].key = Last(place) /\ PathOf(text)[index] = place
      BY <2>7 DEF LinesOf
    <3>2. Last(place) = Last(setting) /\ \E k \in 1 .. Len(place) : place[k] = setting[2]
      BY <2>2, <2>3, <3>1
    <3>3. CASE s \in Sinks
      <4>1. place = s /\ s # setting
        BY <3>3 DEF Places
      <4>2. \A k \in 1 .. 3 : k = 1 \/ k = 2 \/ k = 3
        OBVIOUS
      <4> QED BY <3>2, <3>3, <4>1, <4>2 DEF Last, Sinks, AuditEnabled, AuditPath, SyslogEnabled, SyslogAddress
    <3>4. CASE s \notin Sinks
      <4>1. PICK kind \in Kinds : s = Detector(kind)
        BY <3>4, SettingsAre
      <4>2. Last(place) = kind \/ Last(place) = "mode"
        BY <3>4, <4>1, SettingsAre DEF Places
      <4> QED BY <1>1, <3>2, <4>2 DEF Kinds, Sinks, AuditEnabled, AuditPath, SyslogEnabled, SyslogAddress
    <3> QED BY <3>3, <3>4
  <2>8. SetScalar(text, setting, written, value) = ReadBack([text EXCEPT ![index] = line], setting, value)
    BY <1>3 DEF SetScalar, path, at, index, note
  <2> HIDE DEF line
  <2>9. Edits(text, setting, value, ReadBack([text EXCEPT ![index] = line], setting, value))
    BY <2>4, <2>6, <2>7, LineEdits
  <2> QED BY <2>8, <2>9
<1> QED BY <1>2, <1>3

LEMMA SetSinkEdits ==
    ASSUME NEW text \in Contents, NEW setting \in Sinks, NEW value \in Texts
    PROVE  Edits(text, setting, value, SetSink(text, setting, value))
<1>1. /\ Quoted(value).value \in Texts /\ Quoted(value).note \in Texts
      /\ Unquoted(value).value \in Texts /\ Unquoted(value).note \in Texts
  <2>1. Quoted(value).value = value /\ Quoted(value).note = ""
    BY DEF Quoted
  <2>2. \/ Unquoted(value).value = "host:514" /\ Unquoted(value).note = "#siem"
        \/ Unquoted(value).value = "list" /\ Unquoted(value).note = ""
        \/ Unquoted(value).value = value /\ Unquoted(value).note = ""
    <3>1. CASE value = "host:514 #siem"
      BY <3>1 DEF Unquoted
    <3>2. CASE value = "[::1]:514"
      BY <3>2 DEF Unquoted
    <3>3. CASE value # "host:514 #siem" /\ value # "[::1]:514"
      BY <3>3 DEF Unquoted
    <3> QED BY <3>1, <3>2, <3>3
  <2>3. "" \in Texts /\ "#siem" \in Texts /\ "host:514" \in Texts /\ "list" \in Texts
    BY DEF Texts
  <2> QED BY <2>1, <2>2, <2>3
<1>2. /\ Edits(text, setting, value, SetScalar(text, setting, Quoted(value), value))
      /\ Edits(text, setting, value, SetScalar(text, setting, Unquoted(value), value))
  BY <1>1, SetScalarEdits
<1>3. Edits(text, setting, value, Rejected(text))
  BY LeavingItIsAnEdit
<1>4. /\ AuditEnabled # AuditPath /\ AuditEnabled # SyslogEnabled /\ AuditEnabled # SyslogAddress
      /\ AuditPath # SyslogEnabled /\ AuditPath # SyslogAddress /\ SyslogEnabled # SyslogAddress
  BY DEF AuditEnabled, AuditPath, SyslogEnabled, SyslogAddress
<1>5. CASE setting = AuditEnabled
  BY <1>2, <1>4, <1>5 DEF SetSink, SetAuditEnabled
<1>6. CASE setting = AuditPath
  BY <1>2, <1>3, <1>4, <1>6 DEF SetSink, SetAuditPath
<1>7. CASE setting = SyslogEnabled
  BY <1>2, <1>4, <1>7 DEF SetSink, SetSyslogEnabled
<1>8. CASE setting = SyslogAddress
  BY <1>2, <1>4, <1>8 DEF SetSink, SetSyslogAddress
<1> QED BY <1>5, <1>6, <1>7, <1>8 DEF Sinks

-----------------------------------------------------------------------------
(* A line put behind the last one of a block.  Every line from there on    *)
(* stands one further down, and what it is nested in has not changed.      *)
Moved(t, i) == IF i <= t THEN i ELSE i + 1

\* copy is text with the line `new` put behind line t, the last one with a key
\* under the heading h, whose block ends at e.
Inserted(text, copy, t, h, e, new) ==
    /\ t \in 1 .. Len(text) /\ h \in 1 .. t - 1 /\ e \in t + 1 .. Len(text) + 1
    /\ Len(copy) = Len(text) + 1
    /\ copy[t + 1] = new
    /\ \A i \in 1 .. Len(text) : copy[Moved(t, i)] = text[i]
    /\ IsKeyLine(new) /\ new.indent = text[t].indent /\ IsKeyLine(text[t])
    /\ text[h].indent < text[t].indent
    /\ \A j \in t + 1 .. e - 1 : ~IsKeyLine(text[j])
    /\ e # Len(text) + 1 => IsKeyLine(text[e]) /\ text[e].indent <= text[h].indent

LEMMA WhereLinesMove ==
    ASSUME NEW n \in Nat, NEW t \in 1 .. n
    PROVE  /\ \A i \in 1 .. n : Moved(t, i) \in 1 .. n + 1 /\ Moved(t, i) # t + 1
           /\ \A i, j \in 1 .. n : i <= j => Moved(t, i) <= Moved(t, j)
           /\ \A j \in 1 .. n + 1 : j # t + 1 => \E i \in 1 .. n : j = Moved(t, i)
           /\ Moved(t, 0) = 0
<1>1. /\ \A i \in 1 .. n : Moved(t, i) \in 1 .. n + 1 /\ Moved(t, i) # t + 1
      /\ \A i, j \in 1 .. n : i <= j => Moved(t, i) <= Moved(t, j)
      /\ Moved(t, 0) = 0
  BY DEF Moved
<1>2. ASSUME NEW j \in 1 .. n + 1, j # t + 1 PROVE \E i \in 1 .. n : j = Moved(t, i)
  <2>1. CASE j <= t
    <3>1. j \in 1 .. n /\ Moved(t, j) = j
      BY <2>1 DEF Moved
    <3> QED BY <3>1
  <2>2. CASE j > t
    <3>1. j - 1 \in 1 .. n /\ Moved(t, j - 1) = j
      BY <1>2, <2>2 DEF Moved
    <3> QED BY <3>1
  <2> QED BY <2>1, <2>2
<1> QED BY <1>1, <1>2

LEMMA AboveMoves ==
    ASSUME NEW text \in Contents, NEW copy \in Contents, NEW t, NEW h, NEW e, NEW new,
           Inserted(text, copy, t, h, e, new), NEW i \in 1 .. Len(text), IsKeyLine(text[i])
    PROVE  Above(copy, Moved(t, i)) = Moved(t, Above(text, i))
<1> DEFINE n == Len(text)
           a == Above(text, i)
           b == Moved(t, a)
           k == Moved(t, i)
<1>1. n \in Nat /\ \A j \in 1 .. n : text[j].indent \in Nat
  BY LinesAreLines
<1>2. /\ t \in 1 .. n /\ h \in 1 .. n /\ h < t /\ e \in t + 1 .. n + 1 /\ Len(copy) = n + 1
      /\ copy[t + 1] = new /\ IsKeyLine(new) /\ new.indent = text[t].indent /\ IsKeyLine(text[t])
      /\ text[h].indent < text[t].indent
      /\ \A j \in t + 1 .. e - 1 : ~IsKeyLine(text[j])
      /\ e # n + 1 => IsKeyLine(text[e]) /\ text[e].indent <= text[h].indent
  BY <1>1 DEF Inserted
<1>3. \A j \in 1 .. n : copy[Moved(t, j)] = text[j]
  BY DEF Inserted
<1>4. IsAbove(text, i, a)
  BY AboveIsAbove
<1> HIDE DEF n, a
<1>5. a \in 0 .. i - 1 /\ i \in 1 .. n
  BY <1>4 DEF IsAbove, n
<1>6. k \in 1 .. n + 1 /\ b \in 0 .. k - 1
  BY <1>1, <1>2, <1>5 DEF Moved
<1>7. b # 0 => IsKeyLine(copy[b]) /\ copy[b].indent < copy[k].indent
  <2> SUFFICES ASSUME b # 0 PROVE IsKeyLine(copy[b]) /\ copy[b].indent < copy[k].indent
    OBVIOUS
  <2>1. a # 0 /\ a \in 1 .. n
    BY <1>1, <1>2, <1>5 DEF Moved
  <2>2. copy[b] = text[a] /\ copy[k] = text[i]
    BY <1>3, <1>5, <2>1
  <2> QED BY <1>4, <2>1, <2>2 DEF IsAbove
<1>8. ASSUME NEW j \in b + 1 .. k - 1, IsKeyLine(copy[j]) PROVE copy[j].indent >= copy[k].indent
  <2>1. copy[k] = text[i]
    BY <1>3, <1>5
  <2>2. CASE j = t + 1
    <3>1. i > t /\ a <= t
      BY <1>1, <1>2, <1>5, <2>2 DEF Moved
    <3>2. i >= e
      <4> SUFFICES ASSUME i < e PROVE FALSE
        BY <1>1, <1>2, <1>5
      <4>1. i \in t + 1 .. e - 1
        BY <1>1, <1>2, <1>5, <3>1
      <4> QED BY <1>2, <4>1
    <3>3. e # n + 1 /\ e \in 1 .. n /\ text[e].indent <= text[h].indent /\ IsKeyLine(text[e])
      BY <1>1, <1>2, <1>5, <3>2
    <3>4. text[t].indent >= text[i].indent
      <4>1. CASE a < t
        <5>1. t \in a + 1 .. i - 1
          BY SMTT(60), <1>1, <1>2, <1>5, <3>1, <4>1
        <5> QED BY <1>2, <1>4, <5>1 DEF IsAbove
      <4>2. CASE a = t
        <5>1. text[t].indent < text[i].indent
          BY <1>2, <1>4, <4>2 DEF IsAbove
        <5>2. text[e].indent >= text[i].indent
          <6>1. CASE i = e
            BY <1>1, <1>5, <6>1
          <6>2. CASE i # e
            <7>1. e \in a + 1 .. i - 1
              BY <1>1, <1>2, <1>5, <3>2, <4>2, <6>2
            <7> QED BY <1>4, <3>3, <7>1 DEF IsAbove
          <6> QED BY <6>1, <6>2
        <5> QED BY SMTT(60), <1>1, <1>2, <1>5, <3>3, <5>1, <5>2
      <4> QED BY <1>1, <1>2, <1>5, <3>1, <4>1, <4>2
    <3> QED BY <1>2, <2>1, <2>2, <3>4
  <2>3. CASE j # t + 1
    <3> DEFINE l == IF j <= t THEN j ELSE j - 1
    <3>1. l \in a + 1 .. i - 1 /\ Moved(t, l) = j /\ l \in 1 .. n
      BY <1>1, <1>2, <1>5, <1>6, <2>3 DEF Moved
    <3> HIDE DEF l
    <3>2. copy[j] = text[l]
      BY <1>3, <3>1
    <3> QED BY <1>4, <1>8, <2>1, <3>1, <3>2 DEF IsAbove
  <2> QED BY <2>2, <2>3
<1>9. IsAbove(copy, k, b) /\ k \in 1 .. Len(copy)
  BY <1>2, <1>6, <1>7, <1>8 DEF IsAbove
<1> HIDE DEF b, k
<1>10. Above(copy, k) = b
  BY <1>9, OnlyOneIsAbove
<1> QED BY <1>10 DEF b, k, a

LEMMA PathsMove ==
    ASSUME NEW text \in Contents, NEW copy \in Contents, NEW t, NEW h, NEW e, NEW new,
           Inserted(text, copy, t, h, e, new)
    PROVE  \A i \in 1 .. Len(text) : IsKeyLine(text[i]) => PathOf(copy)[Moved(t, i)] = PathOf(text)[i]
<1> DEFINE n == Len(text)
           p == PathOf(text)
           q == PathOf(copy)
           M(i) == Moved(t, i)
           T == {m \in Nat : \A i \in 1 .. n : i <= m /\ IsKeyLine(text[i]) => q[M(i)] = p[i]}
<1>1. n \in Nat /\ t \in 1 .. n /\ Len(copy) = n + 1 /\ \A i \in 1 .. n : copy[M(i)] = text[i]
  BY LinesAreLines DEF Inserted
<1>2. \A i \in 0 .. n : M(i) \in 0 .. n + 1 /\ (i # 0 => M(i) \in 1 .. n + 1) /\ M(0) = 0
  BY <1>1 DEF Moved
<1>3. p[0] = <<>> /\ \A i \in 1 .. n : p[i] = Append(p[Above(text, i)], text[i].key)
  BY PathOfLine
<1>4. q[0] = <<>> /\ \A i \in 1 .. n + 1 : q[i] = Append(q[Above(copy, i)], copy[i].key)
  BY <1>1, PathOfLine
<1>5. \A i \in 1 .. n : IsKeyLine(text[i]) => Above(copy, M(i)) = M(Above(text, i))
  BY AboveMoves
<1>6. \A i \in 1 .. n : /\ Above(text, i) \in 0 .. i - 1
                        /\ Above(text, i) # 0 => IsKeyLine(text[Above(text, i)])
  BY AboveIsAbove DEF IsAbove
<1> HIDE DEF n, p, q, M
<1>7. 0 \in T
  OBVIOUS
<1>8. ASSUME NEW m \in Nat, m \in T PROVE m + 1 \in T
  <2> SUFFICES ASSUME NEW i \in 1 .. n, i <= m + 1, IsKeyLine(text[i]) PROVE q[M(i)] = p[i]
    OBVIOUS
  <2> DEFINE a == Above(text, i)
  <2>1. a \in 0 .. i - 1 /\ (a # 0 => IsKeyLine(text[a])) /\ p[i] = Append(p[a], text[i].key) /\ i \in 0 .. n /\ i # 0
    BY <1>1, <1>3, <1>6
  <2>2. q[M(i)] = Append(q[M(a)], text[i].key)
    BY <1>1, <1>2, <1>4, <1>5, <2>1
  <2> HIDE DEF a
  <2>3. q[M(a)] = p[a]
    <3>1. CASE a = 0
      BY <1>1, <1>2, <1>3, <1>4, <3>1
    <3>2. CASE a # 0
      <4>1. a \in 1 .. n /\ a <= m
        BY <1>1, <2>1, <3>2
      <4> QED BY <1>8, <2>1, <3>2, <4>1
    <3> QED BY <3>1, <3>2
  <2> QED BY <2>1, <2>2, <2>3
<1> HIDE DEF T
<1>9. n \in T
  BY <1>1, <1>7, <1>8, NatSetInduction
<1> QED BY <1>1, <1>9 DEF T, n, p, q, M

LEMMA NoneIsBetween ==
    ASSUME NEW n \in Nat, NEW a \in 1 .. n + 1, NEW b \in 1 .. n + 1, a <= b, b <= a PROVE a = b
  OBVIOUS

(* The prover has no empty text: it is spoken of by name.                   *)
Written(key) == key # ""

LEMMA ValueMoves ==
    ASSUME NEW text \in Contents, NEW copy \in Contents, NEW t, NEW h, NEW e, NEW new,
           Inserted(text, copy, t, h, e, new), NEW setting, Written(Last(setting)), Last(setting) # new.key, NEW default
    PROVE  ValueAt(copy, setting, default) = ValueAt(text, setting, default)
<1> DEFINE n == Len(text)
           at == LinesOf(text, setting)
           to == LinesOf(copy, setting)
<1>1. n \in Nat /\ t \in 1 .. n /\ Len(copy) = n + 1 /\ copy[t + 1] = new /\ \A i \in 1 .. n : copy[Moved(t, i)] = text[i]
  BY LinesAreLines DEF Inserted
<1>0. /\ \A i \in 1 .. n : Moved(t, i) \in 1 .. n + 1
      /\ \A i, j \in 1 .. n : i <= j => Moved(t, i) <= Moved(t, j)
      /\ \A j \in 1 .. n + 1 : j # t + 1 => \E i \in 1 .. n : j = Moved(t, i)
  BY <1>1, WhereLinesMove
<1>2. DOMAIN text = 1 .. n /\ DOMAIN copy = 1 .. n + 1
  BY <1>1, LinesAreLines
<1>3. \A i \in 1 .. n : text[i].key = Last(setting) => PathOf(copy)[Moved(t, i)] = PathOf(text)[i]
  <2>1. \A i \in 1 .. n : text[i].key = Last(setting) => IsKeyLine(text[i])
    BY Zenon DEF IsKeyLine, Written
  <2>2. \A i \in 1 .. n : IsKeyLine(text[i]) => PathOf(copy)[Moved(t, i)] = PathOf(text)[i]
    BY PathsMove
  <2> QED BY <2>1, <2>2
<1>4. \A i \in 1 .. n : Moved(t, i) \in 1 .. n + 1 /\ (Moved(t, i) \in to <=> i \in at)
  <2>1. \A i \in 1 .. n : Moved(t, i) \in 1 .. n + 1
    BY <1>0
  <2> QED BY <1>1, <1>2, <1>3, <2>1 DEF LinesOf
<1>5. \A j \in to : \E i \in 1 .. n : j = Moved(t, i)
  <2> SUFFICES ASSUME NEW j \in to PROVE \E i \in 1 .. n : j = Moved(t, i)
    OBVIOUS
  <2>1. j \in 1 .. n + 1 /\ copy[j].key = Last(setting)
    BY <1>2 DEF LinesOf
  <2>2. j # t + 1
    BY <1>1, <2>1
  <2> QED BY <1>0, <2>1, <2>2
<1>6. at # {} => Max(at) \in at /\ Max(at) \in 1 .. n /\ \A y \in at : y <= Max(at)
  BY ZenonT(90), <1>2, ValueOf DEF LinesOf
<1>7. to # {} => Max(to) \in to /\ Max(to) \in 1 .. n + 1 /\ \A y \in to : y <= Max(to)
  BY ZenonT(90), <1>2, ValueOf DEF LinesOf
<1>8. at \subseteq 1 .. n
  BY <1>2 DEF LinesOf
<1>9. ValueAt(text, setting, default) = IF at = {} THEN default ELSE text[Max(at)].value
  BY ValueOf
<1>10. ValueAt(copy, setting, default) = IF to = {} THEN default ELSE copy[Max(to)].value
  BY ValueOf
<1> DEFINE from == Max(at)
           into == Max(to)
<1>14. /\ ValueAt(text, setting, default) = IF at = {} THEN default ELSE text[from].value
       /\ ValueAt(copy, setting, default) = IF to = {} THEN default ELSE copy[into].value
  BY <1>9, <1>10
<1>15. /\ at # {} => from \in at /\ from \in 1 .. n /\ \A k \in at : k <= from
       /\ to # {} => into \in to /\ into \in 1 .. n + 1 /\ \A k \in to : k <= into
  BY <1>6, <1>7
<1> HIDE DEF at, to, n, from, into
<1>11. to = {} <=> at = {}
  BY <1>4, <1>5, <1>8
<1>12. ASSUME at # {} PROVE into = Moved(t, from)
  <2>1. from \in at /\ from \in 1 .. n /\ Moved(t, from) \in to /\ Moved(t, from) <= into /\ into \in to /\ into \in 1 .. n + 1
    BY <1>4, <1>15, <1>11, <1>12
  <2>2. PICK i \in 1 .. n : into = Moved(t, i)
    BY <1>5, <2>1
  <2>3. i \in at
    BY <1>4, <2>1, <2>2
  <2>4. i <= from
    BY <1>15, <1>12, <2>3
  <2>5. Moved(t, i) <= Moved(t, from)
    BY <1>0, <2>1, <2>4
  <2>6. Moved(t, from) \in 1 .. n + 1
    BY <1>0, <2>1
  <2> DEFINE there == Moved(t, from)
  <2>7. into <= there /\ there <= into /\ into \in 1 .. n + 1 /\ there \in 1 .. n + 1
    BY <2>1, <2>2, <2>5, <2>6
  <2> HIDE DEF there
  <2>8. into = there
    BY <1>1, <2>7, NoneIsBetween
  <2> QED BY <2>8 DEF there
<1>13. at # {} => copy[into] = text[from]
  BY <1>1, <1>15, <1>12
<1>16. CASE at = {}
  <2>1. ValueAt(text, setting, default) = default
    BY <1>14, <1>16
  <2>2. to = {}
    BY <1>11, <1>16
  <2>3. ValueAt(copy, setting, default) = default
    BY <1>14, <2>2
  <2> QED BY <2>1, <2>3
<1>17. CASE at # {}
  <2>1. ValueAt(text, setting, default) = text[from].value
    BY <1>14, <1>17
  <2>2. to # {}
    BY <1>11, <1>17
  <2>3. ValueAt(copy, setting, default) = copy[into].value
    BY <1>14, <2>2
  <2>4. copy[into] = text[from]
    BY <1>13, <1>17
  <2> QED BY <2>1, <2>3, <2>4
<1> QED BY <1>16, <1>17

HasLine(s, copy, t, new) ==
    /\ copy \in Seq(Line) /\ Len(copy) = Len(s) + 1 /\ copy[t + 1] = new
    /\ \A i \in 1 .. Len(s) : copy[Moved(t, i)] = s[i]

LEMMA InsertedLine ==
    ASSUME NEW s \in Seq(Line), NEW t \in 1 .. Len(s), NEW new \in Line,
           NEW u, u = t + 1, NEW copy, copy = InsertAt(s, u, new)
    PROVE  HasLine(s, copy, t, new)
<1> DEFINE n == Len(s)
           D == Line
           before == SubSeq(s, 1, t)
           behind == SubSeq(s, u, n)
           one == <<new>>
           first == before \o one
<1>1. n \in Nat /\ t \in 1 .. n /\ u \in 2 .. n + 1 /\ u = t + 1 /\ \A i \in 1 .. n : s[i] \in D
  BY LenProperties, ElementOfSeq
<1>2. copy = first \o behind
  <2>1. u - 1 = t
    BY <1>1
  <2> QED BY <2>1 DEF InsertAt
<1>3. before \in Seq(D) /\ Len(before) = t /\ \A i \in 1 .. t : before[i] = s[i]
  <2>1. 1 \in Int /\ t \in Int /\ 1 <= t /\ (t - 1) + 1 = t /\ \A i \in 1 .. t : s[i] \in D /\ (1 + i) - 1 = i
    BY <1>1
  <2> HIDE DEF n, D
  <2> QED BY <2>1, SubSeqProperties
<1>4. behind \in Seq(D) /\ Len(behind) = n - t /\ \A i \in 1 .. n - t : behind[i] = s[t + i]
  <2>1. u \in Int /\ n \in Int /\ (n - u) + 1 = n - t /\ (u <= n <=> n - t # 0)
        /\ (\A i \in u .. n : s[i] \in D) /\ \A i \in 1 .. n - t : (u + i) - 1 = t + i
    BY <1>1
  <2> HIDE DEF n, D
  <2>2. /\ behind \in Seq(D) /\ Len(behind) = IF u <= n THEN (n - u) + 1 ELSE 0
        /\ \A i \in 1 .. (n - u) + 1 : behind[i] = s[(u + i) - 1]
    BY <2>1, SubSeqProperties
  <2> QED BY <2>1, <2>2
<1>5. one \in Seq(D) /\ Len(one) = 1 /\ one[1] = new
  OBVIOUS
<1> HIDE DEF n, D, before, behind, one
<1>6. /\ first \in Seq(D) /\ Len(first) = t + 1
      /\ \A i \in 1 .. t : first[i] = s[i]
      /\ first[t + 1] = new
  <2>1. /\ first \in Seq(D) /\ Len(first) = Len(before) + Len(one)
        /\ \A i \in 1 .. Len(before) : first[i] = before[i]
        /\ \A i \in 1 .. Len(one) : first[Len(before) + i] = one[i]
    <3>1. before \in Seq(D) /\ one \in Seq(D)
      BY <1>3, <1>5
    <3> QED BY <3>1, ConcatElements
  <2> HIDE DEF first
  <2>2. 1 \in 1 .. Len(one)
    BY <1>5
  <2> QED BY <1>1, <1>3, <1>5, <2>1, <2>2
<1> HIDE DEF first
<1>7. /\ copy \in Seq(D) /\ Len(copy) = Len(first) + Len(behind)
      /\ \A i \in 1 .. Len(first) : copy[i] = first[i]
      /\ \A i \in 1 .. Len(behind) : copy[Len(first) + i] = behind[i]
  <2>1. behind \in Seq(D) /\ first \in Seq(D)
    BY <1>4, <1>6
  <2> DEFINE c == first \o behind
  <2>2. /\ c \in Seq(D) /\ Len(c) = Len(first) + Len(behind)
        /\ \A i \in 1 .. Len(first) : c[i] = first[i]
        /\ \A i \in 1 .. Len(behind) : c[Len(first) + i] = behind[i]
    BY <2>1, ConcatElements
  <2>3. copy = c
    BY <1>2
  <2> HIDE DEF c
  <2> QED BY <2>2, <2>3
<1>8. Len(copy) = n + 1 /\ copy[u] = new
  <2>1. Len(copy) = n + 1
    BY <1>1, <1>4, <1>6, <1>7
  <2>2. u \in 1 .. Len(first) /\ first[u] = new
    BY <1>1, <1>6
  <2> QED BY <1>7, <2>1, <2>2
<1>9. ASSUME NEW i \in 1 .. n PROVE copy[Moved(t, i)] = s[i]
  <2>1. CASE i <= t
    <3>1. Moved(t, i) = i /\ i \in 1 .. t /\ i \in 1 .. Len(first)
      BY <1>1, <1>6, <2>1 DEF Moved
    <3> QED BY <1>6, <1>7, <3>1
  <2>2. CASE i > t
    <3> DEFINE j == i - t
    <3>1. Moved(t, i) = Len(first) + j /\ j \in 1 .. Len(behind) /\ j \in 1 .. n - t /\ t + j = i
      BY <1>1, <1>4, <1>6, <2>2 DEF Moved
    <3> HIDE DEF j
    <3> QED BY <1>4, <1>7, <3>1
  <2> QED BY <1>1, <2>1, <2>2
<1>10. copy \in Seq(D)
  BY <1>7
<1> QED BY <1>8, <1>9, <1>10 DEF n, D, HasLine

LEMMA OtherPlaces ==
    ASSUME NEW kind \in Kinds, NEW s \in Settings \ {Detector(kind)}, NEW place \in Places(s)
    PROVE  Last(place) # kind /\ Written(Last(place))
<1>1. CASE s \in Sinks
  <2>1. place = s
    BY <1>1 DEF Places
  <2>2. Last(s) = s[3]
    BY <1>1, SettingsAre
  <2>3. s[3] \in {"enabled", "path", "address"}
    BY <1>1 DEF Sinks, AuditEnabled, AuditPath, SyslogEnabled, SyslogAddress
  <2>4. Written("enabled") /\ Written("path") /\ Written("address")
    BY Zenon DEF Written
  <2>5. Written(s[3])
    BY <2>3, <2>4
  <2>6. s[3] # kind
    BY <2>3 DEF Kinds
  <2> QED BY <2>1, <2>2, <2>5, <2>6
<1>2. CASE s \notin Sinks
  <2>1. PICK other \in Kinds : s = Detector(other)
    BY <1>2, SettingsAre
  <2>2. other # kind /\ (Last(place) = other \/ Last(place) = "mode")
    BY <1>2, <2>1, SettingsAre DEF Places
  <2>3. Written("pesel") /\ Written("email") /\ Written("mode")
    BY Zenon DEF Written
  <2>4. (other = "pesel" \/ other = "email") /\ kind # "mode"
    BY DEF Kinds
  <2> QED BY <2>2, <2>3, <2>4
<1> QED BY <1>1, <1>2

LEMMA InsertionEdits ==
    ASSUME NEW text \in Contents, NEW kind \in Kinds, NEW mode,
           NEW t \in 1 .. Len(text), NEW h \in 1 .. t - 1, NEW e \in t + 1 .. Len(text) + 1,
           IsKeyLine(text[t]), text[h].indent < text[t].indent,
           \A j \in t + 1 .. e - 1 : ~IsKeyLine(text[j]),
           e # Len(text) + 1 => IsKeyLine(text[e]) /\ text[e].indent <= text[h].indent,
           NEW new \in Line, new.indent = text[t].indent, new.key = kind,
           NEW copy, copy = InsertAt(text, t + 1, new)
    PROVE  Edits(text, Detector(kind), mode, ReadBack(copy, Detector(kind), mode))
<1>1. text \in Seq(Line)
  BY LinesAreLines
<1>2. HasLine(text, copy, t, new)
  <2> DEFINE u == t + 1
  <2>1. u = t + 1 /\ copy = InsertAt(text, u, new)
    OBVIOUS
  <2> HIDE DEF u
  <2> QED BY <1>1, <2>1, InsertedLine
<1>3. IsKeyLine(new)
  BY Zenon DEF Kinds, IsKeyLine
<1>4. Inserted(text, copy, t, h, e, new)
  BY <1>2, <1>3 DEF Inserted, HasLine
<1>5. copy \in Contents
  BY <1>2 DEF Contents, HasLine
<1>6. \A setting, default : Written(Last(setting)) /\ Last(setting) # new.key
          => ValueAt(copy, setting, default) = ValueAt(text, setting, default)
  BY <1>4, <1>5, ValueMoves
<1>7. \A s \in Settings \ {Detector(kind)} : \A place \in Places(s) : Last(place) # kind /\ Written(Last(place))
  BY OtherPlaces
<1>8. \A s \in Settings \ {Detector(kind)} : Value(copy, s) = Value(text, s)
  BY <1>6, <1>7, ValueByPlaces
<1> QED BY <1>5, <1>8, ReadBackEdits

LEMMA InsertDetectorEdits ==
    ASSUME NEW text \in Contents, NEW kind \in Kinds, NEW mode \in Texts
    PROVE  Edits(text, Detector(kind), mode, InsertDetector(text, kind, mode))
<1> DEFINE path == <<"detectors">>
           block == Block(text, path)
           keyed == {i \in block[1] .. block[2] - 1 : IsKeyLine(text[i])}
           t == Max(keyed)
           new == [indent |-> text[t].indent, key |-> kind, value |-> mode, note |-> ""]
           copy == InsertAt(text, t + 1, new)
<1>1. Len(path) \in Nat \ {0}
  OBVIOUS
<1>2. InsertDetector(text, kind, mode)
          = IF block = <<>> \/ keyed = {} THEN Rejected(text) ELSE ReadBack(copy, Detector(kind), mode)
  BY DEF InsertDetector
<1> HIDE DEF path
<1>3. CASE block = <<>> \/ keyed = {}
  BY <1>2, <1>3, LeavingItIsAnEdit
<1>4. CASE block # <<>> /\ keyed # {}
  <2>1. PICK h \in 1 .. Len(text), e \in 1 .. Len(text) + 1 :
          /\ block = <<h + 1, e, text[h].indent>>
          /\ IsKeyLine(text[h]) /\ h < e
          /\ \A j \in h + 1 .. e - 1 : IsKeyLine(text[j]) => text[h].indent < text[j].indent
          /\ e # Len(text) + 1 => IsKeyLine(text[e]) /\ text[e].indent <= text[h].indent
    BY <1>1, <1>4, BlockIsBlock DEF IsBlock
  <2>2. block[1] = h + 1 /\ block[2] = e
    BY <2>1
  <2>3. Len(text) \in Nat /\ text \in Seq(Line) /\ \A i \in 1 .. Len(text) : text[i] \in Line
    BY LinesAreLines
  <2>4. \A i \in keyed : i \in h + 1 .. e - 1 /\ IsKeyLine(text[i]) /\ i \in 0 .. Len(text)
    BY <2>2, <2>3
  <2>5. \A i \in h + 1 .. e - 1 : IsKeyLine(text[i]) => i \in keyed
    BY <2>2
  <2> HIDE DEF block, keyed
  <2>6. t \in keyed /\ \A y \in keyed : y <= t
    <3>1. keyed \in SUBSET (0 .. Len(text))
      BY <2>4
    <3> QED BY <1>4, <2>3, <3>1, MaxOfBounded
  <2> HIDE DEF t
  <2>7. /\ t \in 1 .. Len(text) /\ h \in 1 .. t - 1 /\ e \in t + 1 .. Len(text) + 1
        /\ t \in h + 1 .. e - 1 /\ IsKeyLine(text[t]) /\ text[h].indent < text[t].indent
    <3>1. t \in h + 1 .. e - 1 /\ IsKeyLine(text[t])
      BY <2>4, <2>6
    <3>2. t \in 1 .. Len(text) /\ h \in 1 .. t - 1 /\ e \in t + 1 .. Len(text) + 1
      BY <2>3, <3>1
    <3> QED BY <2>1, <3>1, <3>2
  <2>8. ASSUME NEW j \in t + 1 .. e - 1 PROVE ~IsKeyLine(text[j])
    <3>1. j \in h + 1 .. e - 1 /\ ~(j <= t)
      BY <2>3, <2>7
    <3>2. j \notin keyed
      BY <2>6, <3>1
    <3> QED BY <2>5, <3>1, <3>2
  <2>9. new \in Line /\ new.indent = text[t].indent /\ new.key = kind
    <3>1. text[t].indent \in Nat /\ kind \in Texts /\ "" \in Texts
      BY <2>3, <2>7 DEF Line, Texts, Kinds
    <3> QED BY <3>1 DEF Line, Kinds
  <2> HIDE DEF new
  <2>10. PICK last \in 1 .. Len(text) : last = t
    BY <2>7
  <2>11. PICK line \in Line : line = new
    BY <2>9
  <2>12. PICK copied : copied = copy
    OBVIOUS
  <2>13. copied = InsertAt(text, last + 1, line)
    BY <2>10, <2>11, <2>12
  <2> HIDE DEF copy
  <2>14. Edits(text, Detector(kind), mode, ReadBack(copied, Detector(kind), mode))
    <3>1. /\ h \in 1 .. last - 1 /\ e \in last + 1 .. Len(text) + 1 /\ IsKeyLine(text[last])
          /\ text[h].indent < text[last].indent
          /\ line.indent = text[last].indent /\ line.key = kind
          /\ \A j \in last + 1 .. e - 1 : ~IsKeyLine(text[j])
          /\ e # Len(text) + 1 => IsKeyLine(text[e]) /\ text[e].indent <= text[h].indent
      BY <2>1, <2>7, <2>8, <2>9, <2>10, <2>11
    <3> QED BY <2>13, <3>1, InsertionEdits
  <2> QED BY <1>2, <1>4, <2>12, <2>14
<1> QED BY <1>3, <1>4

LEMMA SetDetectorModeEdits ==
    ASSUME NEW text \in Contents, NEW kind \in Kinds, NEW mode \in Texts
    PROVE  Edits(text, Detector(kind), mode, SetDetectorMode(text, kind, mode))
<1> DEFINE path == <<"detectors">>
           at == DetectorLine(text, kind)
           index == Min(at)
           line == [text[index] EXCEPT !.value = mode]
<1>1. Len(path) \in Nat \ {0}
  OBVIOUS
<1>2. at = IF Block(text, path) = <<>> THEN {} ELSE LineOf(text, path, kind)
  BY DEF DetectorLine
<1> HIDE DEF path
<1>3. \A i \in at : i \in 1 .. Len(text) /\ text[i].key = kind
  BY <1>1, <1>2, LineIsInBlock
<1>4. ASSUME at # {} PROVE Edits(text, Detector(kind), mode, ReplaceMode(text, index, kind, mode))
  <2> HIDE DEF at
  <2>1. index \in at
    <3>1. at \in SUBSET Nat
      BY <1>3, LinesAreLines
    <3> QED BY <1>4, <3>1, MinOfSome
  <2> HIDE DEF index
  <2>2. index \in 1 .. Len(text) /\ text[index].key = kind /\ text[index] \in Line
    BY <1>3, <2>1, LinesAreLines
  <2>3. line \in Line /\ line.key = text[index].key /\ line.indent = text[index].indent
    BY <2>2 DEF Line
  <2>4. \A s \in Settings \ {Detector(kind)} : \A place \in Places(s) : index \notin LinesOf(text, place)
    BY <2>2, OtherPlaces DEF LinesOf
  <2>5. ReplaceMode(text, index, kind, mode)
            = IF text[index].value = "" THEN Rejected(text)
              ELSE ReadBack([text EXCEPT ![index] = line], Detector(kind), mode)
    BY DEF ReplaceMode
  <2> HIDE DEF line
  <2>6. Edits(text, Detector(kind), mode, ReadBack([text EXCEPT ![index] = line], Detector(kind), mode))
    BY <2>2, <2>3, <2>4, LineEdits
  <2>7. Edits(text, Detector(kind), mode, Rejected(text))
    BY LeavingItIsAnEdit
  <2> QED BY <2>5, <2>6, <2>7
<1>5. /\ Edits(text, Detector(kind), mode, Rejected(text))
      /\ Edits(text, Detector(kind), mode, InsertDetector(text, kind, mode))
  BY LeavingItIsAnEdit, InsertDetectorEdits
<1> QED BY <1>4, <1>5 DEF SetDetectorMode

-----------------------------------------------------------------------------
(* The console over it.  What was asked for is what the text says, whether *)
(* or not the file is open.                                                *)
FieldTypes == [auditOn : Texts, path : Texts, syslogOn : Texts, address : Texts]
Holds(text, wanted) == \A s \in Settings : wanted[s] = "rejected" \/ Value(text, s) = wanted[s]
Good(text, wanted) == text \in Contents /\ wanted \in [Settings -> Texts] /\ Holds(text, wanted)

EInv ==
    /\ disk \in Contents
    /\ fields \in FieldTypes
    /\ Good(lines, asked)

LEMMA ConfigurationsAreContents == Files \subseteq Contents
<1>1. [indent : Nat, key : STRING, value : STRING, note : STRING] \subseteq Line
  BY Zenon DEF Line, Texts
<1>2. \A f \in Configurations : f \in Contents
  BY <1>1, SeqMonotonic DEF Configurations, Contents
<1> QED BY <1>2, ConfigurationsAssumption

LEMMA FreshIsGood ==
    ASSUME NEW text \in Contents
    PROVE  Good(text, ValuesOf(text)) /\ FieldsOf(text) \in FieldTypes
<1>1. \A s : Value(text, s) \in Texts
  BY ValueType
<1>2. ValuesOf(text) \in [Settings -> Texts] /\ \A s \in Settings : ValuesOf(text)[s] = Value(text, s)
  BY <1>1 DEF ValuesOf
<1>3. FieldsOf(text) \in FieldTypes
  BY <1>1 DEF FieldsOf, FieldTypes
<1> QED BY <1>2, <1>3 DEF Good, Holds

LEMMA EditIsGood ==
    ASSUME NEW text, NEW wanted, Good(text, wanted), NEW setting \in Settings, NEW value \in Texts,
           NEW result, Edits(text, setting, value, result)
    PROVE  Good(result.lines, [wanted EXCEPT ![setting] = IF result.ok THEN value ELSE "rejected"])
<1> DEFINE w == IF result.ok THEN value ELSE "rejected"
           after == [wanted EXCEPT ![setting] = w]
<1>1. "rejected" \in Texts
  BY DEF Texts
<1>2. w \in Texts /\ (w = "rejected" \/ Value(result.lines, setting) = w)
  BY <1>1 DEF Edits
<1> HIDE DEF w
<1>3. wanted \in [Settings -> Texts]
  BY DEF Good
<1>4. /\ after \in [Settings -> Texts]
      /\ \A s \in Settings : after[s] = IF s = setting THEN w ELSE wanted[s]
  BY <1>2, <1>3
<1> HIDE DEF after
<1>5. ASSUME NEW s \in Settings PROVE after[s] = "rejected" \/ Value(result.lines, s) = after[s]
  <2>1. CASE s = setting
    BY <1>2, <1>4, <2>1
  <2>2. CASE s # setting
    <3>1. Value(result.lines, s) = Value(text, s)
      BY <2>2 DEF Edits
    <3>2. wanted[s] = "rejected" \/ Value(text, s) = wanted[s]
      BY DEF Good, Holds
    <3> QED BY <1>4, <2>2, <3>1, <3>2
  <2> QED BY <2>1, <2>2
<1>6. result.lines \in Contents
  BY DEF Edits
<1>7. Good(result.lines, after)
  BY <1>4, <1>5, <1>6 DEF Good, Holds
<1> QED BY <1>7 DEF after, w

LEMMA ApplyOneIsGood ==
    ASSUME NEW state, Good(state.lines, state.asked), NEW wanted,
           NEW setting \in Sinks, NEW value \in Texts
    PROVE  Good(ApplyOne(state, wanted, setting, value).lines, ApplyOne(state, wanted, setting, value).asked)
<1> DEFINE result == SetSink(state.lines, setting, value)
           next == Took(state, setting, value, result)
<1>1. state.lines \in Contents
  BY DEF Good
<1>2. setting \in Settings
  BY SettingsAre
<1>3. Edits(state.lines, setting, value, result)
  BY <1>1, SetSinkEdits
<1>4. /\ next.lines = result.lines
      /\ next.asked = [state.asked EXCEPT ![setting] = IF result.ok THEN value ELSE "rejected"]
  BY DEF Took
<1>5. ApplyOne(state, wanted, setting, value) = IF wanted THEN next ELSE state
  BY DEF ApplyOne
<1> HIDE DEF result, next
<1>6. Good(next.lines, next.asked)
  BY <1>2, <1>3, <1>4, EditIsGood
<1> QED BY <1>5, <1>6

LEMMA AppliedIsGood ==
    ASSUME EInv PROVE Good(SinksApplied.lines, SinksApplied.asked)
<1> DEFINE first == [lines |-> lines, ok |-> TRUE, asked |-> asked]
           audit == ApplyOne(first, TRUE, AuditEnabled, fields.auditOn)
           path == ApplyOne(audit, fields.auditOn = "true", AuditPath, fields.path)
           syslog == ApplyOne(path, TRUE, SyslogEnabled, fields.syslogOn)
           address == ApplyOne(syslog, fields.syslogOn = "true", SyslogAddress, fields.address)
<1>1. fields.auditOn \in Texts /\ fields.path \in Texts /\ fields.syslogOn \in Texts /\ fields.address \in Texts
  BY DEF EInv, FieldTypes
<1>2. AuditEnabled \in Sinks /\ AuditPath \in Sinks /\ SyslogEnabled \in Sinks /\ SyslogAddress \in Sinks
  BY DEF Sinks
<1>3. Good(first.lines, first.asked)
  BY DEF EInv
<1>4. SinksApplied = address
  BY DEF SinksApplied
<1> HIDE DEF first
<1>5. Good(audit.lines, audit.asked)
  BY <1>1, <1>2, <1>3, ApplyOneIsGood
<1> HIDE DEF audit
<1>6. Good(path.lines, path.asked)
  BY <1>1, <1>2, <1>5, ApplyOneIsGood
<1> HIDE DEF path
<1>7. Good(syslog.lines, syslog.asked)
  BY <1>1, <1>2, <1>6, ApplyOneIsGood
<1> HIDE DEF syslog
<1>8. Good(address.lines, address.asked)
  BY <1>1, <1>2, <1>7, ApplyOneIsGood
<1> HIDE DEF address
<1> QED BY <1>4, <1>8

LEMMA CutIsContents == ASSUME NEW text \in Contents PROVE CutShort(text) \subseteq Contents
<1>1. Len(text) \in Nat /\ \A i \in 1 .. Len(text) : text[i] \in Line
  BY LinesAreLines
<1>2. ASSUME NEW n \in Nat, n <= Len(text) PROVE SubSeq(text, 1, n) \in Contents
  <2>1. 1 \in Int /\ n \in Int /\ \A i \in 1 .. n : text[i] \in Line
    BY <1>1, <1>2
  <2>2. SubSeq(text, 1, n) \in Seq(Line)
    BY <2>1, SubSeqProperties
  <2> QED BY <2>2 DEF Contents
<1>3. 0 \in Nat /\ 0 <= Len(text) /\ Len(text) \div 2 \in Nat /\ Len(text) \div 2 <= Len(text)
  BY <1>1
<1> DEFINE half == Len(text) \div 2
<1>4. CutShort(text) = {SubSeq(text, 1, 0), SubSeq(text, 1, half)}
  BY DEF CutShort
<1>5. half \in Nat /\ half <= Len(text)
  BY <1>3
<1> HIDE DEF half
<1> QED BY <1>2, <1>3, <1>4, <1>5

LEMMA EInvAtFirst == Init => EInv
BY ConfigurationsAreContents, FreshIsGood DEF Init, EInv

LEMMA ReloadIsGood == ASSUME EInv, Reload, disk' = disk PROVE EInv'
<1>1. CASE Parses(disk)
  <2>1. Good(disk, ValuesOf(disk)) /\ FieldsOf(disk) \in FieldTypes
    BY FreshIsGood DEF EInv
  <2>2. lines' = disk /\ fields' = FieldsOf(disk) /\ asked' = ValuesOf(disk)
    BY <1>1 DEF Reload
  <2> QED BY <2>1, <2>2 DEF EInv, Good, Holds
<1>2. CASE ~Parses(disk)
  BY <1>2 DEF Reload, EInv, Good, Holds
<1> QED BY <1>1, <1>2

LEMMA EInvIsKept == EInv /\ [Next]_all => EInv'
<1> SUFFICES ASSUME EInv, [Next]_all PROVE EInv'
  OBVIOUS
<1>0. ASSUME UNCHANGED <<disk, lines, fields, asked>> PROVE EInv'
  BY <1>0 DEF EInv, Good, Holds
<1>1. ASSUME NEW kind \in {"pesel", "email"}, NEW mode \in Modes, PickMode(kind, mode) PROVE EInv'
  <2> DEFINE result == SetDetectorMode(lines, kind, mode)
             setting == Detector(kind)
             after == [asked EXCEPT ![setting] = IF result.ok THEN mode ELSE "rejected"]
  <2>1. lines' = result.lines /\ asked' = after /\ disk' = disk /\ fields' = fields
    BY <1>1 DEF PickMode, Ask
  <2>2. mode \in Texts /\ kind \in Kinds /\ setting \in Settings /\ lines \in Contents
    BY SettingsAre DEF Modes, Texts, Kinds, EInv, Good
  <2>3. Edits(lines, setting, mode, result)
    BY <2>2, SetDetectorModeEdits
  <2>4. Good(lines, asked)
    BY DEF EInv
  <2> HIDE DEF result, setting
  <2>5. Good(result.lines, after)
    BY <2>2, <2>3, <2>4, EditIsGood
  <2> HIDE DEF after
  <2> QED BY <2>1, <2>5 DEF EInv, Good, Holds
<1>2. ASSUME NEW field \in {"auditOn", "path", "syslogOn", "address"}, NEW value \in Texts, EditField(field, value)
      PROVE  EInv'
  <2>1. fields' = [fields EXCEPT ![field] = value] /\ disk' = disk /\ lines' = lines /\ asked' = asked
    BY <1>2 DEF EditField
  <2>2. fields' \in FieldTypes
    BY <2>1 DEF EInv, FieldTypes
  <2> QED BY <2>1, <2>2 DEF EInv, Good, Holds
<1>3. ASSUME Operator PROVE EInv'
  <2>1. "true" \in Texts /\ "false" \in Texts /\ Paths \subseteq Texts /\ Addresses \subseteq Texts
    BY ConfigurationsAssumption DEF Texts
  <2>2. ASSUME NEW value \in {"true", "false"}, EditField("auditOn", value) \/ EditField("syslogOn", value) PROVE EInv'
    BY <1>2, <2>1, <2>2
  <2>3. ASSUME NEW value \in Paths, EditField("path", value) PROVE EInv'
    BY <1>2, <2>1, <2>3
  <2>4. ASSUME NEW value \in Addresses, EditField("address", value) PROVE EInv'
    BY <1>2, <2>1, <2>4
  <2>5. ASSUME Revert PROVE EInv'
    BY <2>5, ReloadIsGood DEF Revert
  <2>6. ASSUME Apply PROVE EInv'
    <3>1. lines' = SinksApplied.lines /\ asked' = SinksApplied.asked /\ disk' = disk /\ fields' = fields
      BY <2>6 DEF Apply
    <3> QED BY <3>1, AppliedIsGood DEF EInv, Good, Holds
  <2>7. ASSUME RestartGateway PROVE EInv'
    BY <1>0, <2>7 DEF RestartGateway, editorVars
  <2> QED BY <1>1, <1>3, <2>2, <2>3, <2>4, <2>5, <2>6, <2>7 DEF Operator
<1>4. ASSUME RefreshStatus PROVE EInv'
  BY <1>0, <1>4 DEF RefreshStatus, editorVars, history
<1>5. ASSUME NEW text \in CutShort(lines), disk' = text, UNCHANGED <<lines, fields, asked>> PROVE EInv'
  <2>1. text \in Contents
    BY CutIsContents DEF EInv, Good
  <2> QED BY <1>5, <2>1 DEF EInv, Good, Holds
<1>6. ASSUME Applying PROVE EInv'
  <2>1. ASSUME Write PROVE EInv'
    <3>1. UNCHANGED <<lines, fields, asked>> /\ (disk' = lines \/ disk' \in CutShort(lines))
      BY <2>1 DEF Write, history
    <3>2. CASE disk' = lines
      BY <3>1, <3>2 DEF EInv, Good, Holds
    <3> QED BY <1>5, <3>1, <3>2
  <2>2. ASSUME CopyToBackup \/ AskToStop \/ AwaitStop \/ Start \/ AwaitRunning \/ Told PROVE EInv'
    BY <1>0, <2>2 DEF CopyToBackup, AskToStop, AwaitStop, Start, AwaitRunning, Told, editorVars, history
  <2> QED BY <1>6, <2>1, <2>2 DEF Applying
<1>7. ASSUME DieSaving PROVE EInv'
  <2>1. UNCHANGED <<lines, fields, asked>> /\ (disk' = disk \/ disk' \in CutShort(lines))
    BY <1>7 DEF DieSaving, history
  <2> QED BY <1>0, <1>5, <2>1
<1>8. ASSUME OpenAgain PROVE EInv'
  BY <1>8, ReloadIsGood DEF OpenAgain
<1>9. ASSUME EditOutside PROVE EInv'
  <2>1. disk' \in Contents /\ UNCHANGED <<lines, fields, asked>>
    BY <1>9, ConfigurationsAreContents DEF EditOutside, editorVars
  <2> QED BY <2>1 DEF EInv, Good, Holds
<1>10. ASSUME ServiceNext /\ UNCHANGED <<disk, consoleVars>> PROVE EInv'
  BY <1>0, <1>10 DEF consoleVars, editorVars, history
<1>11. ASSUME UNCHANGED all PROVE EInv'
  BY <1>0, <1>11 DEF all, consoleVars, editorVars, history
<1> QED BY <1>3, <1>4, <1>6, <1>7, <1>8, <1>9, <1>10, <1>11, NextSplits

(* However long the file and whatever its nesting, comments and repeated   *)
(* keys, after any edits accepted or rejected, saves, crashes and changes  *)
(* from outside each setting of the text still reads as what was last      *)
(* asked for it: an edit of one is never felt in another.                  *)
THEOREM EditsKeepToTheirSetting == Spec => []EditsTouchNothingElse
<1>1. EInv => EditsTouchNothingElse
  BY DEF EInv, Good, Holds, EditsTouchNothingElse
<1> QED BY <1>1, EInvAtFirst, EInvIsKept, PTL DEF Spec
=============================================================================
