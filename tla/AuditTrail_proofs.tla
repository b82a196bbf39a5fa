--------------------------- MODULE AuditTrail_proofs ---------------------------
(***************************************************************************)
(* The sinks, for any number of handlers and events, any failures of the   *)
(* file, the socket and the collector, and any restarts.  The report of a  *)
(* trail of any lines and any length, and what the report tab offers,      *)
(* whatever becomes of the files.  And the two together: the report of the *)
(* file the sinks wrote.                                                   *)
(***************************************************************************)
EXTENDS AuditTrail, ReportConsole, DataLemmas, FiniteSetTheorems

(* The sequences the sinks are written with, seen as sets.                 *)
LEMMA EmptyHasNothing == ToSet(<<>>) = {}
BY DEF ToSet

LEMMA ElementsAreIndexed ==
    ASSUME NEW S, NEW s \in Seq(S)
    PROVE  /\ ToSet(s) \subseteq S
           /\ \A i \in 1 .. Len(s) : s[i] \in ToSet(s)
           /\ \A e \in ToSet(s) : \E i \in 1 .. Len(s) : e = s[i]
<1>1. DOMAIN s = 1 .. Len(s) /\ \A i \in 1 .. Len(s) : s[i] \in S
  BY LenProperties, ElementOfSeq
<1>2. QED
  BY <1>1 DEF ToSet

LEMMA ElementsOfConcat ==
    ASSUME NEW S, NEW s \in Seq(S), NEW t \in Seq(S)
    PROVE  ToSet(s \o t) = ToSet(s) \cup ToSet(t)
<1> DEFINE u == s \o t
<1>1. /\ u \in Seq(S) /\ Len(u) = Len(s) + Len(t)
      /\ \A i \in 1 .. Len(s) + Len(t) : u[i] = IF i <= Len(s) THEN s[i] ELSE t[i - Len(s)]
  BY ConcatProperties
<1> HIDE DEF u
<1>2. Len(s) \in Nat /\ Len(t) \in Nat
  BY LenProperties
<1>3. ASSUME NEW e \in ToSet(u) PROVE e \in ToSet(s) \cup ToSet(t)
  <2>1. PICK i \in 1 .. Len(u) : e = u[i]
    BY <1>1, ElementsAreIndexed
  <2>2. CASE i <= Len(s)
    <3>1. i \in 1 .. Len(s) /\ e = s[i]
      BY <1>1, <1>2, <2>1, <2>2
    <3>2. QED
      BY <3>1, ElementsAreIndexed
  <2>3. CASE ~(i <= Len(s))
    <3>1. i - Len(s) \in 1 .. Len(t) /\ e = t[i - Len(s)]
      BY <1>1, <1>2, <2>1, <2>3
    <3>2. QED
      BY <3>1, ElementsAreIndexed
  <2>4. QED
    BY <2>2, <2>3
<1>4. ASSUME NEW e \in ToSet(s) PROVE e \in ToSet(u)
  <2>1. PICK i \in 1 .. Len(s) : e = s[i]
    BY ElementsAreIndexed
  <2>2. i \in 1 .. Len(u) /\ e = u[i]
    BY <1>1, <1>2, <2>1
  <2>3. QED
    BY <1>1, <2>2, ElementsAreIndexed
<1>5. ASSUME NEW e \in ToSet(t) PROVE e \in ToSet(u)
  <2>1. PICK i \in 1 .. Len(t) : e = t[i]
    BY ElementsAreIndexed
  <2>2. /\ i + Len(s) \in 1 .. Len(s) + Len(t)
        /\ ~(i + Len(s) <= Len(s)) /\ i + Len(s) - Len(s) = i
    BY <1>2
  <2>3. i + Len(s) \in 1 .. Len(u) /\ e = u[i + Len(s)]
    BY <1>1, <2>1, <2>2
  <2>4. QED
    BY <1>1, <2>3, ElementsAreIndexed
<1>6. QED
  BY <1>3, <1>4, <1>5 DEF u

LEMMA ElementsOfOne ==
    ASSUME NEW e
    PROVE  ToSet(<<e>>) = {e}
BY DEF ToSet

LEMMA ElementsOfAppend ==
    ASSUME NEW S, NEW s \in Seq(S), NEW e \in S
    PROVE  ToSet(Append(s, e)) = ToSet(s) \cup {e}
<1>1. Append(s, e) = s \o <<e>> /\ <<e>> \in Seq(S)
  BY AppendIsConcat
<1>2. ToSet(s \o <<e>>) = ToSet(s) \cup ToSet(<<e>>)
  BY ZenonT(90), <1>1, ElementsOfConcat
<1>3. QED
  BY <1>1, <1>2, ElementsOfOne

LEMMA HeadThenTail ==
    ASSUME NEW S, NEW s \in Seq(S), s # <<>>
    PROVE  /\ Head(s) \in S /\ Tail(s) \in Seq(S)
           /\ s = <<Head(s)>> \o Tail(s)
<1>1. Head(s) \in S /\ Tail(s) \in Seq(S) /\ Len(s) \in Nat \ {0}
  BY HeadTailProperties, EmptySeq
<1>2. SubSeq(s, 1, Len(s)) = <<s[1]>> \o SubSeq(s, 1 + 1, Len(s))
  BY <1>1, SubSeqRecursiveFirst
<1>3. SubSeq(s, 1, Len(s)) = s /\ Tail(s) = SubSeq(s, 2, Len(s)) /\ Head(s) = s[1]
  BY <1>1, SubSeqFull, TailIsSubSeq
<1>4. QED
  BY <1>1, <1>2, <1>3

(* The events of each request in order: within a sequence, and from one to *)
(* the next.                                                               *)
Ordered(s) ==
    \A i, j \in DOMAIN s : i < j /\ s[i][1] = s[j][1] => s[i][2] < s[j][2]
Before(s, t) == \A e \in ToSet(s), f \in ToSet(t) : e[1] = f[1] => e[2] < f[2]

LEMMA OneIsOrdered == ASSUME NEW e PROVE Ordered(<<e>>)
BY DEF Ordered
LEMMA EmptyIsOrdered == Ordered(<<>>)
BY DEF Ordered

LEMMA OrderOfConcat ==
    ASSUME NEW S, NEW s \in Seq(S), NEW t \in Seq(S),
           Ordered(s), Ordered(t), Before(s, t)
    PROVE  Ordered(s \o t)
<1> DEFINE u == s \o t
<1>1. /\ u \in Seq(S) /\ Len(u) = Len(s) + Len(t)
      /\ \A i \in 1 .. Len(s) + Len(t) : u[i] = IF i <= Len(s) THEN s[i] ELSE t[i - Len(s)]
  BY ConcatProperties
<1> HIDE DEF u
<1>2. /\ Len(s) \in Nat /\ DOMAIN s = 1 .. Len(s)
      /\ Len(t) \in Nat /\ DOMAIN t = 1 .. Len(t)
      /\ DOMAIN u = 1 .. Len(u)
  BY <1>1, LenProperties
<1>3. SUFFICES ASSUME NEW i \in DOMAIN u, NEW j \in DOMAIN u, i < j, u[i][1] = u[j][1]
               PROVE  u[i][2] < u[j][2]
  BY DEF Ordered, u
<1>4. CASE j <= Len(s)
  <2>1. i \in DOMAIN s /\ j \in DOMAIN s /\ u[i] = s[i] /\ u[j] = s[j]
    BY <1>1, <1>2, <1>3, <1>4
  <2>2. QED
    BY <1>3, <2>1 DEF Ordered
<1>5. CASE ~(i <= Len(s))
  <2>1. /\ i - Len(s) \in DOMAIN t /\ j - Len(s) \in DOMAIN t
        /\ i - Len(s) < j - Len(s)
        /\ u[i] = t[i - Len(s)] /\ u[j] = t[j - Len(s)]
    BY <1>1, <1>2, <1>3, <1>5
  <2>2. QED
    BY <1>3, <2>1 DEF Ordered
<1>6. CASE i <= Len(s) /\ ~(j <= Len(s))
  <2>1. /\ i \in 1 .. Len(s) /\ j - Len(s) \in 1 .. Len(t)
        /\ u[i] = s[i] /\ u[j] = t[j - Len(s)]
    BY <1>1, <1>2, <1>3, <1>6
  <2>2. u[i] \in ToSet(s) /\ u[j] \in ToSet(t)
    BY <2>1, ElementsAreIndexed
  <2>3. QED
    BY <1>3, <2>2 DEF Before
<1>7. QED
  BY <1>2, <1>4, <1>5, <1>6

LEMMA OrderInsideConcat ==
    ASSUME NEW S, NEW s \in Seq(S), NEW t \in Seq(S), Ordered(s \o t)
    PROVE  Ordered(s) /\ Ordered(t) /\ Before(s, t)
<1> DEFINE u == s \o t
<1>1. /\ u \in Seq(S) /\ Len(u) = Len(s) + Len(t)
      /\ \A i \in 1 .. Len(s) + Len(t) : u[i] = IF i <= Len(s) THEN s[i] ELSE t[i - Len(s)]
  BY ConcatProperties
<1>2. \A i, j \in DOMAIN u : i < j /\ u[i][1] = u[j][1] => u[i][2] < u[j][2]
  BY DEF Ordered
<1> HIDE DEF u
<1>3. /\ Len(s) \in Nat /\ DOMAIN s = 1 .. Len(s)
      /\ Len(t) \in Nat /\ DOMAIN t = 1 .. Len(t)
      /\ DOMAIN u = 1 .. Len(u)
  BY <1>1, LenProperties
<1>4. ASSUME NEW i \in 1 .. Len(s) PROVE i \in DOMAIN u /\ u[i] = s[i]
  BY <1>1, <1>3
<1>5. ASSUME NEW i \in 1 .. Len(t)
      PROVE  i + Len(s) \in DOMAIN u /\ u[i + Len(s)] = t[i] /\ i + Len(s) > Len(s)
  <2>1. /\ i + Len(s) \in 1 .. Len(s) + Len(t)
        /\ ~(i + Len(s) <= Len(s)) /\ i + Len(s) - Len(s) = i
    BY <1>3
  <2>2. QED
    BY <1>1, <1>3, <2>1
<1>6. Ordered(s)
  BY <1>2, <1>3, <1>4 DEF Ordered
<1>7. Ordered(t)
  <2>1. SUFFICES ASSUME NEW i \in 1 .. Len(t), NEW j \in 1 .. Len(t),
                        i < j, t[i][1] = t[j][1]
                 PROVE  t[i][2] < t[j][2]
    BY <1>3 DEF Ordered
  <2>2. i + Len(s) < j + Len(s)
    BY <1>3, <2>1
  <2>3. QED
    BY ZenonT(90), <1>2, <1>5, <2>1, <2>2
<1>8. Before(s, t)
  <2>1. SUFFICES ASSUME NEW e \in ToSet(s), NEW f \in ToSet(t), e[1] = f[1]
                 PROVE  e[2] < f[2]
    BY DEF Before
  <2>2. PICK i \in 1 .. Len(s) : e = s[i]
    BY ElementsAreIndexed
  <2>3. PICK j \in 1 .. Len(t) : f = t[j]
    BY ElementsAreIndexed
  <2>4. i < j + Len(s)
    BY <1>3
  <2>5. QED
    BY <1>2, <1>4, <1>5, <2>1, <2>2, <2>3, <2>4
<1>9. QED
  BY <1>6, <1>7, <1>8
-----------------------------------------------------------------------------
(* What the variables hold.                                                *)
AllEvents == Handlers \X Nat
Entries == AllEvents \cup {LineEnd} \cup {Torn(e) : e \in AllEvents}
Places == {"jsonl", "line", "newline", "syslog", "otlp", "gone"}

Sound ==
    /\ at \in [Handlers -> Places]
    /\ emitted \in [Handlers -> Nat]
    /\ file \in Seq(Entries)
    /\ queue \in Seq(AllEvents) /\ batch \in Seq(AllEvents) /\ stored \in Seq(AllEvents)
    /\ exporter \in {"idle", "collecting", "posting", "gone"}

LEMMA EventIsAMark ==
    ASSUME Sound, NEW h \in Handlers
    PROVE  /\ Event(h) \in AllEvents /\ Event(h)[1] = h /\ Event(h)[2] = emitted[h] + 1
           /\ Event(h) \in Entries /\ LineEnd \in Entries /\ Torn(Event(h)) \in Entries
<1>1. Event(h) \in AllEvents /\ Event(h)[1] = h /\ Event(h)[2] = emitted[h] + 1
  BY DEF Event, AllEvents, Sound
<1>2. \A e \in AllEvents : e \in Entries /\ Torn(e) \in Entries
  BY DEF Entries
<1>3. LineEnd \in Entries
  BY DEF Entries
<1>4. QED
  BY <1>1, <1>2, <1>3

LEMMA SoundAtFirst == Init => Sound
BY EmptySeq DEF Init, Sound, Places

LEMMA SoundIsKept == Sound /\ [Next]_vars => Sound'
<1> SUFFICES ASSUME Sound, [Next]_vars PROVE Sound'
  OBVIOUS
<1> USE DEF Sound
<1>1. ASSUME NEW h \in Handlers, EmitStep(h) PROVE Sound'
  <2> USE EventIsAMark
  <2>1. CASE Lock(h)
    BY <2>1 DEF Lock, MoveTo, Places, otlpVars
  <2>2. CASE WriteLine(h)
    <3>1. file' \in Seq(Entries)
      BY <2>2, AppendProperties DEF WriteLine
    <3>2. QED
      BY <2>2, <3>1 DEF WriteLine, MoveTo, Places, otlpVars
  <2>3. CASE WriteLineEnd(h)
    <3>1. file' \in Seq(Entries)
      BY <2>3, AppendProperties DEF WriteLineEnd
    <3>2. QED
      BY <2>3, <3>1 DEF WriteLineEnd, MoveTo, Places, otlpVars
  <2>4. CASE WriteFails(h)
    <3>1. file' \in Seq(Entries)
      <4>1. file' = file \/ file' = Append(file, Torn(Event(h)))
        BY <2>4 DEF WriteFails
      <4>2. ASSUME NEW e \in Entries PROVE Append(file, e) \in Seq(Entries)
        BY AppendProperties
      <4>3. QED
        BY <4>1, <4>2
    <3>2. QED
      BY <2>4, <3>1 DEF WriteFails, MoveTo, Places, otlpVars
  <2>5. CASE SendDatagram(h)
    BY <2>5 DEF SendDatagram, MoveTo, Places, fileVars, otlpVars
  <2>6. CASE Enqueue(h)
    <3>1. queue' \in Seq(AllEvents)
      <4>1. queue' = queue \/ queue' = Append(queue, Event(h))
        BY <2>6 DEF Enqueue
      <4>2. ASSUME NEW e \in AllEvents PROVE Append(queue, e) \in Seq(AllEvents)
        BY AppendProperties
      <4>3. QED
        BY <4>1, <4>2
    <3>2. QED
      BY <2>6, <3>1 DEF Enqueue, MoveTo, Places, fileVars
  <2>7. QED
    BY <1>1, <2>1, <2>2, <2>3, <2>4, <2>5, <2>6 DEF EmitStep
<1>2. CASE ReceiveFirst
  <2>1. queue' \in Seq(AllEvents) /\ batch' \in Seq(AllEvents)
    BY <1>2, HeadThenTail DEF ReceiveFirst
  <2>2. QED
    BY <1>2, <2>1 DEF ReceiveFirst, handlerVars, fileVars
<1>3. CASE ReceiveMore
  <2>1. queue' \in Seq(AllEvents) /\ batch' \in Seq(AllEvents)
    BY <1>3, HeadThenTail, AppendProperties DEF ReceiveMore
  <2>2. QED
    BY <1>3, <2>1 DEF ReceiveMore, handlerVars, fileVars
<1>4. CASE StartPost
  BY <1>4 DEF StartPost, handlerVars, fileVars
<1>5. CASE Answer
  <2>1. stored' \in Seq(AllEvents) /\ batch' = <<>> /\ batch' \in Seq(AllEvents)
    <3>1. (stored' = stored \/ stored' = stored \o batch) /\ batch' = <<>>
      BY <1>5 DEF Answer, PostStored, PostFails, PostRejected, BackTo
    <3>2. stored \o batch \in Seq(AllEvents)
      BY ConcatProperties
    <3>3. QED
      BY <3>1, <3>2, EmptySeq
  <2>2. QED
    BY <1>5, <2>1
       DEF Answer, PostStored, PostFails, PostRejected, BackTo, handlerVars, fileVars
<1>6. CASE Restart
  BY <1>6, EmptySeq DEF Restart, Places
<1>7. CASE UNCHANGED vars
  BY <1>7 DEF vars, handlerVars, fileVars, otlpVars
<1>8. QED
  BY <1>1, <1>2, <1>3, <1>4, <1>5, <1>6, <1>7 DEF Next, ExporterStep

-----------------------------------------------------------------------------
(* Order.  What an event in the exporter's hands can be: one its handler   *)
(* is through with, and a later one of the same request behind it.         *)
EventsInOrder ==
    /\ Ordered(stored) /\ Ordered(batch) /\ Ordered(queue)
    /\ Before(stored, batch) /\ Before(stored, queue) /\ Before(batch, queue)
PastEvents ==
    \A e \in ToSet(stored) \cup ToSet(batch) \cup ToSet(queue) : e[2] <= emitted[e[1]]
EmptyHanded == exporter = "idle" => batch = <<>>
OInv == Sound /\ EventsInOrder /\ PastEvents /\ EmptyHanded

LEMMA OInvAtFirst == Init => OInv
<1> SUFFICES ASSUME Init PROVE OInv
  OBVIOUS
<1>1. stored = <<>> /\ batch = <<>> /\ queue = <<>>
  BY DEF Init
<1>2. QED
  BY <1>1, SoundAtFirst, EmptyIsOrdered, EmptyHasNothing
     DEF OInv, EventsInOrder, PastEvents, EmptyHanded, Before

LEMMA OInvIsKept == OInv /\ [Next]_vars => OInv'
<1> SUFFICES ASSUME OInv, [Next]_vars PROVE OInv'
  OBVIOUS
<1>0. Sound'
  BY SoundIsKept DEF OInv
<1>1. /\ queue \in Seq(AllEvents) /\ batch \in Seq(AllEvents) /\ stored \in Seq(AllEvents)
      /\ emitted \in [Handlers -> Nat]
      /\ ToSet(queue) \subseteq AllEvents /\ ToSet(batch) \subseteq AllEvents
      /\ ToSet(stored) \subseteq AllEvents
  BY ElementsAreIndexed DEF OInv, Sound
<1> DEFINE Remains == EventsInOrder' /\ PastEvents' /\ EmptyHanded'
<1>2. ASSUME UNCHANGED <<otlpVars, emitted>> PROVE Remains
  BY <1>2 DEF otlpVars, OInv, EventsInOrder, PastEvents, EmptyHanded
<1>3. ASSUME NEW h \in Handlers, EmitStep(h) PROVE Remains
  <2>1. CASE Lock(h) \/ WriteLine(h) \/ WriteLineEnd(h) \/ WriteFails(h) \/ SendDatagram(h)
    BY <1>2, <2>1 DEF Lock, WriteLine, WriteLineEnd, WriteFails, SendDatagram
  <2>2. CASE Enqueue(h)
    <3>1. /\ emitted' = [emitted EXCEPT ![h] = @ + 1]
          /\ UNCHANGED <<batch, stored, exporter>>
      BY <2>2 DEF Enqueue
    <3>2. \A g \in Handlers : emitted'[g] >= emitted[g] /\ emitted'[g] \in Nat
      BY <1>1, <3>1
    <3>3. CASE queue' = queue
      <4>1. PastEvents'
        <5>1. SUFFICES ASSUME NEW e \in ToSet(stored) \cup ToSet(batch) \cup ToSet(queue)
                       PROVE  e[2] <= emitted'[e[1]]
          BY <3>1, <3>3 DEF PastEvents
        <5>2. e[1] \in Handlers /\ e[2] \in Nat /\ e[2] <= emitted[e[1]]
          BY <1>1 DEF OInv, PastEvents, AllEvents
        <5>3. QED
          BY <1>1, <3>2, <5>2
      <4>2. QED
        BY <3>1, <3>3, <4>1 DEF OInv, EventsInOrder, EmptyHanded
    <3>4. CASE queue' = Append(queue, Event(h))
      <4>1. Event(h) \in AllEvents /\ Event(h)[1] = h /\ Event(h)[2] = emitted[h] + 1
        BY EventIsAMark DEF OInv
      <4> DEFINE e == Event(h)
      <4> HIDE DEF e
      <4>2. /\ queue' = queue \o <<e>> /\ <<e>> \in Seq(AllEvents)
            /\ ToSet(queue') = ToSet(queue) \cup {e} /\ ToSet(<<e>>) = {e}
        BY <1>1, <3>4, <4>1, AppendIsConcat, ElementsOfAppend, ElementsOfOne DEF e
      <4>3. ASSUME NEW f \in ToSet(stored) \cup ToSet(batch) \cup ToSet(queue)
            PROVE  /\ f[1] = e[1] => f[2] < e[2]
                   /\ f[2] <= emitted'[f[1]]
        <5>1. f[1] \in Handlers /\ f[2] \in Nat /\ f[2] <= emitted[f[1]]
          BY <1>1 DEF OInv, PastEvents, AllEvents
        <5>2. QED
          BY <1>1, <3>2, <4>1, <5>1 DEF e
      <4>4. Before(stored, <<e>>) /\ Before(batch, <<e>>) /\ Before(queue, <<e>>)
        BY <4>2, <4>3 DEF Before
      <4>5. Ordered(queue')
        BY <1>1, <4>2, <4>4, OneIsOrdered, OrderOfConcat DEF OInv, EventsInOrder
      <4>6. Before(stored, queue') /\ Before(batch, queue')
        BY <4>2, <4>4 DEF OInv, EventsInOrder, Before
      <4>7. e[2] <= emitted'[e[1]]
        BY <1>1, <3>1, <4>1 DEF e
      <4>8. PastEvents'
        BY <3>1, <4>2, <4>3, <4>7 DEF PastEvents
      <4>9. QED
        BY <3>1, <4>5, <4>6, <4>8 DEF OInv, EventsInOrder, EmptyHanded, Before
    <3>5. QED
      BY <2>2, <3>3, <3>4 DEF Enqueue
  <2>3. QED
    BY <1>3, <2>1, <2>2 DEF EmitStep
<1>4. ASSUME queue # <<>>
      PROVE  /\ <<Head(queue)>> \in Seq(AllEvents) /\ Tail(queue) \in Seq(AllEvents)
             /\ Ordered(Tail(queue))
             /\ Before(<<Head(queue)>>, Tail(queue))
             /\ ToSet(queue) = ToSet(<<Head(queue)>>) \cup ToSet(Tail(queue))
  <2>1. /\ Head(queue) \in AllEvents /\ Tail(queue) \in Seq(AllEvents)
        /\ queue = <<Head(queue)>> \o Tail(queue)
    BY <1>1, <1>4, HeadThenTail
  <2>2. <<Head(queue)>> \in Seq(AllEvents)
    BY <2>1
  <2> DEFINE first == <<Head(queue)>>
             rest == Tail(queue)
  <2>3. first \in Seq(AllEvents) /\ rest \in Seq(AllEvents) /\ queue = first \o rest
    BY <2>1, <2>2
  <2> HIDE DEF first, rest
  <2>4. Ordered(first \o rest)
    BY <2>3 DEF OInv, EventsInOrder
  <2>5. Ordered(rest) /\ Before(first, rest) /\ ToSet(queue) = ToSet(first) \cup ToSet(rest)
    BY <2>3, <2>4, OrderInsideConcat, ElementsOfConcat
  <2>6. QED
    BY <2>1, <2>2, <2>5 DEF first, rest
<1>5. ASSUME ReceiveFirst PROVE Remains
  <2>1. /\ batch = <<>> /\ batch' = <<Head(queue)>> /\ queue' = Tail(queue)
        /\ exporter' = "collecting" /\ UNCHANGED <<stored, emitted>>
    BY <1>5 DEF ReceiveFirst, OInv, EmptyHanded, handlerVars
  <2>2. /\ Ordered(queue') /\ Before(batch', queue') /\ Ordered(batch')
        /\ ToSet(queue) = ToSet(batch') \cup ToSet(queue')
    BY <1>4, <1>5, <2>1, OneIsOrdered DEF ReceiveFirst
  <2>3. Before(stored, batch') /\ Before(stored, queue')
    BY <2>2 DEF OInv, EventsInOrder, Before
  <2>4. QED
    BY <2>1, <2>2, <2>3 DEF OInv, EventsInOrder, PastEvents, EmptyHanded, Before
<1>6. ASSUME ReceiveMore PROVE Remains
  <2> DEFINE first == <<Head(queue)>>
  <2>1. /\ first \in Seq(AllEvents)
        /\ queue # <<>> /\ batch' = Append(batch, Head(queue)) /\ queue' = Tail(queue)
        /\ exporter' = "collecting" /\ UNCHANGED <<stored, emitted>>
    BY <1>4, <1>6 DEF ReceiveMore, handlerVars
  <2>2. batch' = batch \o first
    BY <1>1, <2>1, HeadThenTail, AppendIsConcat
  <2>3. /\ Ordered(queue') /\ Before(first, queue') /\ Ordered(first)
        /\ ToSet(queue) = ToSet(first) \cup ToSet(queue')
    BY <1>4, <2>1, OneIsOrdered
  <2> HIDE DEF first
  <2>4. ToSet(batch') = ToSet(batch) \cup ToSet(first)
    BY ZenonT(90), <1>1, <2>1, <2>2, ElementsOfConcat
  <2>5. Before(batch, first)
    BY <2>3 DEF OInv, EventsInOrder, Before
  <2>6. Ordered(batch')
    BY <1>1, <2>1, <2>2, <2>3, <2>5, OrderOfConcat DEF OInv, EventsInOrder
  <2>7. Before(batch', queue') /\ Before(stored, batch') /\ Before(stored, queue')
    BY <2>3, <2>4 DEF OInv, EventsInOrder, Before
  <2>8. PastEvents'
    BY <2>1, <2>3, <2>4 DEF OInv, PastEvents
  <2>9. QED
    BY <2>1, <2>3, <2>6, <2>7, <2>8 DEF OInv, EventsInOrder, EmptyHanded, Before
<1>7. ASSUME StartPost PROVE Remains
  BY <1>7 DEF StartPost, handlerVars, OInv, EventsInOrder, PastEvents, EmptyHanded
<1>8. ASSUME Answer PROVE Remains
  <2>1. batch' = <<>> /\ UNCHANGED <<queue, emitted>> /\ stored' \in {stored, stored \o batch}
    BY <1>8 DEF Answer, PostStored, PostFails, PostRejected, BackTo, handlerVars
  <2>2. ToSet(batch') = {} /\ Ordered(batch')
    BY <2>1, EmptyHasNothing, EmptyIsOrdered
  <2>3. ToSet(stored') \subseteq ToSet(stored) \cup ToSet(batch)
    BY ZenonT(90), <1>1, <2>1, ElementsOfConcat
  <2>4. Ordered(stored')
    BY <1>1, <2>1, OrderOfConcat DEF OInv, EventsInOrder
  <2>5. QED
    BY <2>1, <2>2, <2>3, <2>4 DEF OInv, EventsInOrder, PastEvents, EmptyHanded, Before
<1>9. ASSUME Restart PROVE Remains
  <2>1. batch' = <<>> /\ queue' = <<>> /\ UNCHANGED <<stored, emitted>>
    BY <1>9 DEF Restart
  <2>2. QED
    BY <2>1, EmptyHasNothing, EmptyIsOrdered
       DEF OInv, EventsInOrder, PastEvents, EmptyHanded, Before
<1>10. ASSUME UNCHANGED vars PROVE Remains
  BY <1>2, <1>10 DEF vars, handlerVars
<1>11. QED
  BY <1>0, <1>3, <1>5, <1>6, <1>7, <1>8, <1>9, <1>10 DEF OInv, Next, ExporterStep

(* Whatever order the handlers run in and whatever the collector answers,  *)
(* no event is exported twice, and each request's events are exported in   *)
(* the order they happened.                                                *)
THEOREM ExportedInOrder == Spec => []ExportedOnceInOrder
<1>1. OInv => ExportedOnceInOrder
  <2>1. SUFFICES ASSUME OInv PROVE Ordered(Exported)
    BY DEF Ordered, ExportedOnceInOrder
  <2>2. /\ queue \in Seq(AllEvents) /\ batch \in Seq(AllEvents) /\ stored \in Seq(AllEvents)
        /\ stored \o batch \in Seq(AllEvents)
    BY <2>1, ConcatProperties DEF OInv, Sound
  <2>3. Ordered(stored \o batch)
    BY <2>1, <2>2, OrderOfConcat DEF OInv, EventsInOrder
  <2>4. Before(stored \o batch, queue)
    <3>1. ToSet(stored \o batch) = ToSet(stored) \cup ToSet(batch)
      BY <2>2, ElementsOfConcat
    <3>2. QED
      BY <2>1, <3>1 DEF OInv, EventsInOrder, Before
  <2>5. Ordered((stored \o batch) \o queue)
    BY <2>1, <2>2, <2>3, <2>4, OrderOfConcat DEF OInv, EventsInOrder
  <2>6. QED
    BY <2>5 DEF Exported
<1>2. QED
  BY <1>1, OInvAtFirst, OInvIsKept, PTL DEF Spec
-----------------------------------------------------------------------------
(* Delivery.  An event is given to the sinks one after another, so where   *)
(* its handler is says which of them it has been given to already.         *)
Filed(e) == e \in ToSet(file) \/ <<"jsonl", e>> \in warned
Sent(e) == e \in datagrams \/ <<"syslog", e>> \in warned
HandedOver(e) ==
    \/ e \in ToSet(stored) \cup ToSet(batch) \cup ToSet(queue) \cup rejected
    \/ <<"otlp", e>> \in warned

PastIsDelivered ==
    \A h \in Handlers : \A n \in 1 .. emitted[h] :
        Filed(<<h, n>>) /\ Sent(<<h, n>>) /\ (at[h] = "gone" \/ HandedOver(<<h, n>>))
PresentIsUnderWay ==
    \A h \in Handlers :
        /\ at[h] = "newline" => Event(h) \in ToSet(file)
        /\ at[h] \in {"syslog", "otlp"} => Filed(Event(h))
        /\ at[h] = "otlp" => Sent(Event(h))
FInv == OInv /\ PastIsDelivered /\ PresentIsUnderWay

LEMMA FileIsAppendedTo ==
    ASSUME Sound, [Next]_vars
    PROVE  UNCHANGED file \/ \E e \in Entries : file' = Append(file, e)
<1>1. ASSUME NEW h \in Handlers, EmitStep(h)
      PROVE  UNCHANGED file \/ \E e \in Entries : file' = Append(file, e)
  <2>1. Event(h) \in Entries /\ LineEnd \in Entries /\ Torn(Event(h)) \in Entries
    BY EventIsAMark
  <2>2. UNCHANGED file \/ file' = Append(file, Event(h)) \/ file' = Append(file, LineEnd)
        \/ file' = Append(file, Torn(Event(h)))
    BY <1>1 DEF EmitStep, Lock, WriteLine, WriteLineEnd, WriteFails, SendDatagram, Enqueue, fileVars
  <2>3. QED
    BY <2>1, <2>2
<1>2. CASE ExporterStep \/ Answer \/ Restart \/ UNCHANGED vars
  BY <1>2 DEF ExporterStep, ReceiveFirst, ReceiveMore, StartPost, Answer, PostStored,
              PostFails, PostRejected, Restart, vars, fileVars
<1>3. QED
  BY <1>1, <1>2 DEF Next

LEMMA FileGrows ==
    ASSUME Sound, [Next]_vars
    PROVE  ToSet(file) \subseteq ToSet(file')
<1>1. UNCHANGED file \/ \E e \in Entries : file' = Append(file, e)
  BY FileIsAppendedTo
<1>2. ASSUME NEW e \in Entries PROVE ToSet(Append(file, e)) = ToSet(file) \cup {e}
  BY ElementsOfAppend DEF Sound
<1>3. QED
  BY <1>1, <1>2

LEMMA SinksKeepWhatTheyHave ==
    ASSUME Sound, [Next]_vars
    PROVE  datagrams \subseteq datagrams' /\ warned \subseteq warned'
BY DEF Next, vars, EmitStep, Lock, WriteLine, WriteLineEnd, WriteFails, SendDatagram, Enqueue,
       ExporterStep, ReceiveFirst, ReceiveMore, StartPost, Answer, PostStored, PostFails,
       PostRejected, Restart, Warn

(* Only a restart loses what the exporter has in its hands.                *)
LEMMA GivenStaysGiven ==
    ASSUME OInv, [Next]_vars, ~Restart, NEW e, HandedOver(e)
    PROVE  HandedOver(e)'
<1>1. queue \in Seq(AllEvents) /\ batch \in Seq(AllEvents) /\ stored \in Seq(AllEvents)
  BY DEF OInv, Sound
<1>2. ASSUME UNCHANGED otlpVars PROVE HandedOver(e)'
  <2>1. warned \subseteq warned'
    BY SinksKeepWhatTheyHave DEF OInv
  <2>2. QED
    BY <1>2, <2>1 DEF HandedOver, otlpVars
<1>3. ASSUME NEW h \in Handlers, EmitStep(h) PROVE HandedOver(e)'
  <2>1. CASE Enqueue(h)
    <3>1. /\ queue' = queue \/ queue' = Append(queue, Event(h))
          /\ UNCHANGED <<batch, stored, rejected>>
      BY <2>1 DEF Enqueue
    <3>2. ASSUME NEW f \in AllEvents PROVE ToSet(Append(queue, f)) = ToSet(queue) \cup {f}
      BY <1>1, ElementsOfAppend
    <3>3. Event(h) \in AllEvents
      BY EventIsAMark DEF OInv
    <3>4. ToSet(queue) \subseteq ToSet(queue') /\ warned \subseteq warned'
      BY <3>1, <3>2, <3>3, SinksKeepWhatTheyHave DEF OInv
    <3>5. QED
      BY <3>1, <3>4 DEF HandedOver
  <2>2. QED
    BY <1>2, <1>3, <2>1 DEF EmitStep, Lock, WriteLine, WriteLineEnd, WriteFails, SendDatagram
<1>4. ASSUME queue # <<>>
      PROVE  ToSet(queue) = {Head(queue)} \cup ToSet(Tail(queue)) /\ Head(queue) \in AllEvents
  <2>1. /\ Head(queue) \in AllEvents /\ Tail(queue) \in Seq(AllEvents)
        /\ queue = <<Head(queue)>> \o Tail(queue)
    BY <1>1, <1>4, HeadThenTail
  <2>2. <<Head(queue)>> \in Seq(AllEvents) /\ ToSet(<<Head(queue)>>) = {Head(queue)}
    BY <2>1, ElementsOfOne
  <2>3. ToSet(<<Head(queue)>> \o Tail(queue)) = ToSet(<<Head(queue)>>) \cup ToSet(Tail(queue))
    BY ZenonT(90), <2>1, <2>2, ElementsOfConcat
  <2>4. QED
    BY <2>1, <2>2, <2>3
<1>5. ASSUME ReceiveFirst \/ ReceiveMore PROVE HandedOver(e)'
  <2>1. /\ queue # <<>> /\ queue' = Tail(queue)
        /\ \/ batch' = <<Head(queue)>> /\ batch = <<>>
           \/ batch' = Append(batch, Head(queue))
        /\ UNCHANGED <<stored, rejected, warned>>
    BY <1>5 DEF ReceiveFirst, ReceiveMore, OInv, EmptyHanded
  <2>2. ToSet(batch') = ToSet(batch) \cup {Head(queue)}
    <3>1. CASE batch' = <<Head(queue)>> /\ batch = <<>>
      BY <3>1, ElementsOfOne, EmptyHasNothing
    <3>2. CASE batch' = Append(batch, Head(queue))
      BY <1>1, <1>4, <2>1, <3>2, ElementsOfAppend
    <3>3. QED
      BY <2>1, <3>1, <3>2
  <2>3. QED
    BY <1>4, <2>1, <2>2 DEF HandedOver
<1>6. ASSUME StartPost PROVE HandedOver(e)'
  BY <1>6 DEF StartPost, HandedOver
<1>7. ASSUME Answer PROVE HandedOver(e)'
  <2>1. ToSet(stored \o batch) = ToSet(stored) \cup ToSet(batch)
    BY <1>1, ElementsOfConcat
  <2>2. CASE PostStored
    BY <2>1, <2>2 DEF PostStored, HandedOver
  <2>3. CASE PostFails
    <3>1. /\ UNCHANGED <<queue, rejected>>
          /\ stored' = stored \/ stored' = stored \o batch
          /\ warned' = warned \cup ({"otlp"} \X ToSet(batch))
      BY <2>3 DEF PostFails, Warn
    <3>2. e \in ToSet(batch) => <<"otlp", e>> \in warned'
      BY <3>1
    <3>3. QED
      BY <2>1, <3>1, <3>2 DEF HandedOver
  <2>4. CASE PostRejected
    BY <2>4 DEF PostRejected, HandedOver
  <2>5. QED
    BY <1>7, <2>2, <2>3, <2>4 DEF Answer
<1>8. QED
  BY <1>2, <1>3, <1>5, <1>6, <1>7 DEF Next, ExporterStep, vars
LEMMA FInvAtFirst == Init => FInv
<1> SUFFICES ASSUME Init PROVE FInv
  OBVIOUS
<1>1. \A h \in Handlers : emitted[h] = 0 /\ at[h] = "jsonl"
  BY DEF Init
<1>2. QED
  BY <1>1, OInvAtFirst DEF FInv, PastIsDelivered, PresentIsUnderWay

LEMMA FInvIsKept == FInv /\ [Next]_vars => FInv'
<1> SUFFICES ASSUME FInv, [Next]_vars PROVE FInv'
  OBVIOUS
<1>0. Sound /\ OInv /\ OInv'
  BY OInvIsKept DEF FInv, OInv
<1>1. /\ at \in [Handlers -> Places] /\ emitted \in [Handlers -> Nat]
      /\ \A h \in Handlers : at[h] \in Places /\ emitted[h] \in Nat
  BY <1>0 DEF Sound
<1>2. ASSUME NEW e
      PROVE  (Filed(e) => Filed(e)') /\ (Sent(e) => Sent(e)')
             /\ (e \in ToSet(file) => e \in ToSet(file'))
  BY <1>0, FileGrows, SinksKeepWhatTheyHave DEF Filed, Sent
<1> DEFINE Remains == PastIsDelivered' /\ PresentIsUnderWay'
<1>3. ASSUME UNCHANGED handlerVars, ~Restart PROVE Remains
  <2>1. \A h \in Handlers : Event(h)' = Event(h) /\ at'[h] = at[h] /\ emitted'[h] = emitted[h]
    BY <1>3 DEF handlerVars, Event
  <2>2. PastIsDelivered'
    <3>1. ASSUME NEW h \in Handlers, NEW n \in 1 .. emitted[h]
          PROVE  /\ Filed(<<h, n>>)' /\ Sent(<<h, n>>)'
                 /\ at'[h] = "gone" \/ HandedOver(<<h, n>>)'
      <4>1. /\ Filed(<<h, n>>) /\ Sent(<<h, n>>)
            /\ at[h] = "gone" \/ HandedOver(<<h, n>>)
        BY DEF FInv, PastIsDelivered
      <4>2. QED
        BY <1>0, <1>2, <1>3, <2>1, <4>1, GivenStaysGiven
    <3>2. QED
      BY <2>1, <3>1 DEF PastIsDelivered
  <2>3. PresentIsUnderWay'
    <3>1. ASSUME NEW h \in Handlers
          PROVE  /\ at'[h] = "newline" => Event(h)' \in ToSet(file')
                 /\ at'[h] \in {"syslog", "otlp"} => Filed(Event(h))'
                 /\ at'[h] = "otlp" => Sent(Event(h))'
      <4>1. /\ at[h] = "newline" => Event(h) \in ToSet(file)
            /\ at[h] \in {"syslog", "otlp"} => Filed(Event(h))
            /\ at[h] = "otlp" => Sent(Event(h))
        BY DEF FInv, PresentIsUnderWay
      <4>2. QED
        BY <1>2, <2>1, <4>1 DEF Filed, Sent
    <3>2. QED
      BY <3>1 DEF PresentIsUnderWay
  <2>4. QED
    BY <2>2, <2>3
<1>4. ASSUME NEW h \in Handlers, EmitStep(h), ~Restart PROVE Remains
  <2>1. /\ \A g \in Handlers \ {h} : at'[g] = at[g] /\ emitted'[g] = emitted[g]
        /\ emitted'[h] \in {emitted[h], emitted[h] + 1}
        /\ at[h] # "gone" /\ at'[h] # "gone"
    BY <1>1, <1>4 DEF EmitStep, Lock, WriteLine, WriteLineEnd, WriteFails, SendDatagram, Enqueue,
                      MoveTo
  <2>2. ASSUME NEW g \in Handlers \ {h} PROVE Event(g)' = Event(g)
    BY <2>1 DEF Event
  <2>3. ASSUME NEW g \in Handlers, NEW n \in 1 .. emitted[g]
        PROVE  /\ Filed(<<g, n>>)' /\ Sent(<<g, n>>)'
               /\ at'[g] = "gone" \/ HandedOver(<<g, n>>)'
    <3>1. /\ Filed(<<g, n>>) /\ Sent(<<g, n>>)
          /\ at[g] = "gone" \/ HandedOver(<<g, n>>)
      BY DEF FInv, PastIsDelivered
    <3>2. HandedOver(<<g, n>>) => HandedOver(<<g, n>>)'
      BY <1>0, <1>4, GivenStaysGiven
    <3>3. at[g] = "gone" => at'[g] = "gone"
      BY <2>1
    <3>4. QED
      BY <1>2, <3>1, <3>2, <3>3
  <2>4. ASSUME NEW g \in Handlers \ {h}
        PROVE  /\ at'[g] = "newline" => Event(g)' \in ToSet(file')
               /\ at'[g] \in {"syslog", "otlp"} => Filed(Event(g))'
               /\ at'[g] = "otlp" => Sent(Event(g))'
    <3>1. /\ at[g] = "newline" => Event(g) \in ToSet(file)
          /\ at[g] \in {"syslog", "otlp"} => Filed(Event(g))
          /\ at[g] = "otlp" => Sent(Event(g))
      BY DEF FInv, PresentIsUnderWay
    <3>2. QED
      BY <1>2, <2>1, <2>2, <3>1 DEF Filed, Sent
  <2>5. /\ at[h] = "newline" => Event(h) \in ToSet(file)
        /\ at[h] \in {"syslog", "otlp"} => Filed(Event(h))
        /\ at[h] = "otlp" => Sent(Event(h))
    BY DEF FInv, PresentIsUnderWay
  \* Until it is through with the event.
  <2>6. ASSUME ~Enqueue(h)
        PROVE  /\ emitted' = emitted
               /\ at'[h] = "newline" => Event(h) \in ToSet(file')
               /\ at'[h] \in {"syslog", "otlp"} => Filed(Event(h))'
               /\ at'[h] = "otlp" => Sent(Event(h))'
    <3>1. CASE Lock(h)
      BY <1>1, <3>1 DEF Lock, MoveTo
    <3>2. CASE WriteLine(h)
      <4>1. Event(h) \in Entries
        BY <1>0, EventIsAMark
      <4>2. ToSet(Append(file, Event(h))) = ToSet(file) \cup {Event(h)}
        BY <1>0, <4>1, ElementsOfAppend DEF Sound
      <4>3. QED
        BY <1>1, <3>2, <4>2 DEF WriteLine, MoveTo
    <3>3. CASE WriteLineEnd(h)
      <4>1. at[h] = "newline" /\ at'[h] = "syslog" /\ emitted' = emitted
        BY <1>1, <3>3 DEF WriteLineEnd, MoveTo
      <4>2. Filed(Event(h))
        BY <2>5, <4>1 DEF Filed
      <4>3. Event(h)' = Event(h)
        BY <4>1 DEF Event
      <4>4. Filed(Event(h))'
        BY <1>2, <4>2, <4>3 DEF Filed
      <4>5. QED
        BY <4>1, <4>4
    <3>4. CASE WriteFails(h)
      <4>1. /\ at'[h] = "syslog" /\ emitted' = emitted
            /\ warned' = warned \cup ({"jsonl"} \X {Event(h)})
        BY <1>1, <3>4 DEF WriteFails, MoveTo, Warn
      <4>2. Event(h)' = Event(h)
        BY <4>1 DEF Event
      <4>3. <<"jsonl", Event(h)>> \in warned'
        BY <4>1
      <4>4. QED
        BY <4>1, <4>2, <4>3 DEF Filed
    <3>5. CASE SendDatagram(h)
      <4>1. /\ at[h] = "syslog" /\ at'[h] = "otlp" /\ emitted' = emitted
            /\ \/ datagrams' = datagrams \cup {Event(h)}
               \/ warned' = warned \cup ({"syslog"} \X {Event(h)})
        BY <1>1, <3>5 DEF SendDatagram, MoveTo, Warn
      <4>2. Event(h)' = Event(h)
        BY <4>1 DEF Event
      <4>3. Event(h) \in datagrams' \/ <<"syslog", Event(h)>> \in warned'
        BY <4>1
      <4>4. Filed(Event(h))'
        BY <1>2, <2>5, <4>1, <4>2 DEF Filed
      <4>5. QED
        BY <4>1, <4>2, <4>3, <4>4 DEF Sent
    <3>6. QED
      BY <1>4, <2>6, <3>1, <3>2, <3>3, <3>4, <3>5 DEF EmitStep
  <2>7. ASSUME ~Enqueue(h) PROVE Remains
    <3>1. Event(h)' = Event(h)
      BY <2>6, <2>7 DEF Event
    <3>2. PresentIsUnderWay'
      BY <2>4, <2>6, <2>7, <3>1 DEF PresentIsUnderWay
    <3>3. PastIsDelivered'
      BY <2>3, <2>6, <2>7 DEF PastIsDelivered
    <3>4. QED
      BY <3>2, <3>3
  <2>8. ASSUME Enqueue(h) PROVE Remains
    <3>1. /\ at[h] = "otlp" /\ at'[h] = "jsonl" /\ emitted'[h] = emitted[h] + 1
          /\ \/ queue' = Append(queue, Event(h))
             \/ warned' = warned \cup ({"otlp"} \X {Event(h)})
      BY <1>1, <2>8 DEF Enqueue, MoveTo, Warn
    <3>2. PICK e : e = <<h, emitted[h] + 1>>
      OBVIOUS
    <3>3. Filed(e) /\ Sent(e) /\ e = Event(h)
      BY <2>5, <3>1, <3>2 DEF Event
    <3>4. HandedOver(e)'
      <4>1. CASE queue' = Append(queue, Event(h))
        <5>1. Event(h) \in AllEvents /\ queue \in Seq(AllEvents)
          BY <1>0, EventIsAMark DEF Sound
        <5>2. e \in ToSet(queue')
          BY <3>3, <4>1, <5>1, ElementsOfAppend
        <5>3. QED
          BY <5>2 DEF HandedOver
      <4>2. CASE warned' = warned \cup ({"otlp"} \X {Event(h)})
        <5>1. <<"otlp", e>> \in warned'
          BY <3>3, <4>2
        <5>2. QED
          BY <5>1 DEF HandedOver
      <4>3. QED
        BY <3>1, <4>1, <4>2
    <3>5. Filed(e)' /\ Sent(e)'
      BY <1>2, <3>3
    <3>6. PastIsDelivered'
      <4>1. SUFFICES ASSUME NEW g \in Handlers, NEW n \in 1 .. emitted'[g]
                     PROVE  /\ Filed(<<g, n>>)' /\ Sent(<<g, n>>)'
                            /\ at'[g] = "gone" \/ HandedOver(<<g, n>>)'
        BY DEF PastIsDelivered
      <4>2. CASE n \in 1 .. emitted[g]
        BY <2>3, <4>2
      <4>3. CASE ~(n \in 1 .. emitted[g])
        <5>1. g = h /\ n = emitted[h] + 1
          BY <1>1, <2>1, <3>1, <4>3
        <5>2. <<g, n>> = e
          BY <3>2, <5>1
        <5>3. QED
          BY <3>4, <3>5, <5>2
      <4>4. QED
        BY <4>2, <4>3
    <3>7. PresentIsUnderWay'
      BY <2>4, <3>1 DEF PresentIsUnderWay
    <3>8. QED
      BY <3>6, <3>7
  <2>9. QED
    BY <2>7, <2>8
<1>5. ASSUME Restart PROVE Remains
  <2>1. UNCHANGED <<emitted, file, datagrams, warned>>
    BY <1>5 DEF Restart
  <2>2. ASSUME NEW h \in Handlers
        PROVE  /\ at'[h] \in {"jsonl", "gone"}
               /\ emitted[h] # 0 => at'[h] = "gone"
    BY <1>5 DEF Restart
  <2>3. PresentIsUnderWay'
    BY <2>2 DEF PresentIsUnderWay
  <2>4. ASSUME NEW h \in Handlers, NEW n \in 1 .. emitted[h]
        PROVE  Filed(<<h, n>>)' /\ Sent(<<h, n>>)' /\ at'[h] = "gone"
    <3>1. emitted[h] # 0
      BY <1>1
    <3>2. QED
      BY <1>2, <2>2, <3>1 DEF FInv, PastIsDelivered
  <2>5. PastIsDelivered'
    BY <2>1, <2>4 DEF PastIsDelivered
  <2>6. QED
    BY <2>3, <2>5
<1>6. Remains
  <2>1. CASE Restart
    BY <1>5, <2>1
  <2>2. CASE ~Restart /\ (ExporterStep \/ Answer \/ UNCHANGED vars)
    <3>1. UNCHANGED handlerVars
      BY <2>2 DEF ExporterStep, ReceiveFirst, ReceiveMore, StartPost, Answer, PostStored,
                  PostFails, PostRejected, vars
    <3>2. QED
      BY <1>3, <2>2, <3>1
  <2>3. CASE ~Restart /\ (\E h \in Handlers : EmitStep(h))
    BY <1>4, <2>3
  <2>4. QED
    BY <2>1, <2>2, <2>3 DEF Next
<1>7. QED
  BY <1>0, <1>6 DEF FInv

(* The failure of one sink costs no other sink an event: what a handler is *)
(* through with was given to each of them, or its failure was logged.      *)
THEOREM EverySinkIsGivenEveryEvent == Spec => []EverySinkIsOffered
<1>1. FInv => EverySinkIsOffered
  <2>1. SUFFICES ASSUME FInv PROVE EverySinkIsOffered
    OBVIOUS
  <2>2. ToSet(Exported) = ToSet(stored) \cup ToSet(batch) \cup ToSet(queue)
    <3>1. /\ queue \in Seq(AllEvents) /\ batch \in Seq(AllEvents) /\ stored \in Seq(AllEvents)
          /\ stored \o batch \in Seq(AllEvents)
      BY <2>1, ConcatProperties DEF FInv, OInv, Sound
    <3>2. ToSet((stored \o batch) \o queue) = ToSet(stored \o batch) \cup ToSet(queue)
      BY ZenonT(90), <3>1, ElementsOfConcat
    <3>3. ToSet(stored \o batch) = ToSet(stored) \cup ToSet(batch)
      BY <3>1, ElementsOfConcat
    <3>4. QED
      BY <3>2, <3>3 DEF Exported
  <2>3. QED
    BY <2>1, <2>2 DEF FInv, PastIsDelivered, Filed, Sent, HandedOver, EverySinkIsOffered
<1>2. QED
  BY <1>1, FInvAtFirst, FInvIsKept, PTL DEF Spec
-----------------------------------------------------------------------------
(* Lines.  Who writes holds the lock, and what is written is whole, or is  *)
(* the last thing in the file and its writer about to end it.              *)
WriterHoldsTheLock == \A h \in Handlers : at[h] \in {"line", "newline"} => lock = {h}
BeingWritten(i) ==
    i = Len(file) /\ \E h \in Handlers : at[h] = "newline" /\ file[i] = Event(h)
GivenUp(i) ==
    \/ <<"jsonl", SubSeq(file[i], 1, 2)>> \in warned
    \/ file[i][1] \in Handlers /\ at[file[i][1]] = "gone"
Settled(i) == GivenUp(i) \/ (i < Len(file) /\ file[i + 1] = LineEnd)
LinesAreWhole ==
    \A i \in 1 .. Len(file) : file[i] # LineEnd => Settled(i) \/ BeingWritten(i)
LInv == Sound /\ WriterHoldsTheLock /\ LinesAreWhole

LEMMA FirstTwo ==
    ASSUME NEW e \in AllEvents
    PROVE  SubSeq(e, 1, 2) = e /\ SubSeq(Torn(e), 1, 2) = e
<1>1. PICK h \in Handlers, n \in Nat : e = <<h, n>>
  BY DEF AllEvents
<1> DEFINE S == {h, n, "torn"}
<1>2. <<h, n>> \in Seq(S) /\ Len(<<h, n>>) = 2 /\ "torn" \in S
  OBVIOUS
<1> DEFINE pair == <<h, n>>
<1> HIDE DEF S, pair
<1>3. pair \in Seq(S) /\ Len(pair) = 2 /\ "torn" \in S
  BY <1>2 DEF pair
<1>4. SubSeq(pair, 1, 2) = pair
  BY <1>3, SubSeqFull
<1>5. SubSeq(Append(pair, "torn"), 1, 2) = pair
  <2>1. Append(pair, "torn") = pair \o <<"torn">> /\ <<"torn">> \in Seq(S)
    BY <1>3, AppendIsConcat
  <2>2. 1 \in 1 .. Len(pair) /\ 2 \in 1 .. Len(pair)
    BY <1>3
  <2>3. SubSeq(pair \o <<"torn">>, 1, 2) = SubSeq(pair, 1, 2)
    BY <1>3, <2>1, <2>2, SubSeqOfConcat1
  <2>4. QED
    BY <1>4, <2>1, <2>3
<1>6. QED
  BY <1>1, <1>4, <1>5 DEF Torn, pair

(* An entry that is settled stays so, whatever is appended.                *)
LEMMA SettledStays ==
    ASSUME Sound, [Next]_vars, NEW i \in 1 .. Len(file), Settled(i)
    PROVE  Settled(i)'
<1>1. /\ Len(file) \in Nat /\ Len(file') \in Nat /\ Len(file') >= Len(file)
      /\ \A j \in 1 .. Len(file) : file'[j] = file[j]
  <2>1. CASE UNCHANGED file
    BY <2>1, LenProperties DEF Sound
  <2>2. ASSUME NEW e \in Entries, file' = Append(file, e)
        PROVE  /\ Len(file) \in Nat /\ Len(file') = Len(file) + 1
               /\ \A j \in 1 .. Len(file) : file'[j] = file[j]
    BY <2>2, LenProperties, AppendProperties DEF Sound
  <2>3. QED
    BY <2>1, <2>2, FileIsAppendedTo
<1>2. warned \subseteq warned'
  BY SinksKeepWhatTheyHave
<1>3. ASSUME NEW h \in Handlers, at[h] = "gone" PROVE at'[h] = "gone"
  BY <1>3 DEF Sound, Next, vars, handlerVars, EmitStep, Lock, WriteLine, WriteLineEnd, WriteFails,
       SendDatagram, Enqueue, MoveTo, ExporterStep, ReceiveFirst, ReceiveMore, StartPost,
       Answer, PostStored, PostFails, PostRejected, Restart
<1>4. CASE GivenUp(i)
  BY <1>1, <1>2, <1>3, <1>4 DEF Settled, GivenUp
<1>5. CASE i < Len(file) /\ file[i + 1] = LineEnd
  <2>1. i < Len(file') /\ file'[i + 1] = LineEnd
    BY <1>1, <1>5
  <2>2. QED
    BY <2>1 DEF Settled, LineEnd
<1>6. QED
  BY <1>4, <1>5 DEF Settled

LEMMA LInvAtFirst == Init => LInv
BY SoundAtFirst DEF Init, LInv, WriterHoldsTheLock, LinesAreWhole

LEMMA LockIsKept ==
    ASSUME Sound, WriterHoldsTheLock, [Next]_vars
    PROVE  WriterHoldsTheLock'
<1>1. ASSUME NEW h \in Handlers, EmitStep(h) PROVE WriterHoldsTheLock'
  <2>1. ASSUME NEW g \in Handlers \ {h} PROVE at'[g] = at[g]
    BY <1>1 DEF EmitStep, Lock, WriteLine, WriteLineEnd, WriteFails, SendDatagram, Enqueue,
                MoveTo, Sound
  <2>2. CASE Lock(h)
    <3>1. lock = {} /\ lock' = {h}
      BY <2>2 DEF Lock
    <3>2. \A g \in Handlers \ {h} : at'[g] \notin {"line", "newline"}
      BY <2>1, <3>1 DEF WriterHoldsTheLock
    <3>3. QED
      BY <3>1, <3>2 DEF WriterHoldsTheLock
  <2>3. CASE WriteLine(h)
    <3>1. at[h] = "line" /\ lock' = lock
      BY <2>3 DEF WriteLine
    <3>2. QED
      BY <2>1, <3>1 DEF WriterHoldsTheLock
  <2>4. CASE WriteLineEnd(h) \/ WriteFails(h)
    <3>1. at[h] \in {"line", "newline"} /\ at'[h] = "syslog"
      BY <2>4 DEF WriteLineEnd, WriteFails, MoveTo, Sound
    <3>2. \A g \in Handlers \ {h} : at[g] \notin {"line", "newline"}
      BY <3>1 DEF WriterHoldsTheLock
    <3>3. QED
      BY <2>1, <3>1, <3>2 DEF WriterHoldsTheLock
  <2>5. CASE SendDatagram(h) \/ Enqueue(h)
    <3>1. lock' = lock /\ at'[h] \notin {"line", "newline"}
      BY <2>5 DEF SendDatagram, Enqueue, MoveTo, Sound, fileVars
    <3>2. QED
      BY <2>1, <3>1 DEF WriterHoldsTheLock
  <2>6. QED
    BY <1>1, <2>2, <2>3, <2>4, <2>5 DEF EmitStep
<1>2. ASSUME UNCHANGED <<at, lock>> PROVE WriterHoldsTheLock'
  BY <1>2 DEF WriterHoldsTheLock
<1>3. CASE ExporterStep \/ Answer \/ UNCHANGED vars
  BY <1>2, <1>3 DEF ExporterStep, ReceiveFirst, ReceiveMore, StartPost, Answer, PostStored,
              PostFails, PostRejected, vars, fileVars, handlerVars
<1>4. CASE Restart
  BY <1>4 DEF Restart, WriterHoldsTheLock
<1>5. QED
  BY <1>1, <1>3, <1>4 DEF Next

LEMMA LInvIsKept == LInv /\ [Next]_vars => LInv'
<1> SUFFICES ASSUME LInv, [Next]_vars PROVE LInv'
  OBVIOUS
<1>1. Sound /\ Sound' /\ WriterHoldsTheLock /\ WriterHoldsTheLock'
  BY SoundIsKept, LockIsKept DEF LInv
<1>2. /\ at \in [Handlers -> Places] /\ emitted \in [Handlers -> Nat]
      /\ Len(file) \in Nat
  BY <1>1, LenProperties DEF Sound
<1>3. ASSUME NEW e \in Entries
      PROVE  /\ Len(Append(file, e)) = Len(file) + 1
             /\ \A i \in 1 .. Len(file) : Append(file, e)[i] = file[i]
             /\ Append(file, e)[Len(file) + 1] = e
  BY <1>1, AppendProperties DEF Sound
\* What was in the file.
<1>4. ASSUME NEW i \in 1 .. Len(file), file[i] # LineEnd
      PROVE  file'[i] # LineEnd => Settled(i)' \/ BeingWritten(i)'
  <2>1. CASE Settled(i)
    BY <1>1, <2>1, SettledStays
  <2>2. ASSUME NEW w \in Handlers, at[w] = "newline", file[i] = Event(w), i = Len(file)
        PROVE  Settled(i)' \/ BeingWritten(i)'
    <3>1. lock = {w} /\ Event(w) \in AllEvents /\ Event(w)[1] = w
      BY <1>1, <2>2, EventIsAMark DEF WriterHoldsTheLock
    <3>2. ASSUME UNCHANGED file, at'[w] = at[w], emitted'[w] = emitted[w]
          PROVE  BeingWritten(i)'
      BY <2>2, <3>2 DEF BeingWritten, Event
    <3>3. ASSUME NEW h \in Handlers, EmitStep(h)
          PROVE  Settled(i)' \/ BeingWritten(i)'
      <4>1. CASE Lock(h)
        BY <3>1, <4>1 DEF Lock
      <4>2. CASE WriteLine(h)
        BY <1>1, <2>2, <3>1, <4>2 DEF WriteLine, WriterHoldsTheLock
      <4>3. CASE WriteLineEnd(h)
        <5>1. LineEnd \in Entries /\ file' = Append(file, LineEnd)
          BY <1>1, <4>3, EventIsAMark DEF WriteLineEnd
        <5>2. i < Len(file') /\ file'[i + 1] = LineEnd
          BY <1>2, <1>3, <2>2, <5>1
        <5>3. QED
          BY <5>2 DEF Settled, LineEnd
      <4>4. CASE WriteFails(h)
        <5>1. h = w
          BY <1>1, <3>1, <4>4 DEF WriteFails, WriterHoldsTheLock
        <5>2. file' = file /\ warned' = warned \cup ({"jsonl"} \X {Event(w)})
          BY <2>2, <4>4, <5>1 DEF WriteFails, Warn
        <5>3. SubSeq(file'[i], 1, 2) = Event(w)
          BY <2>2, <3>1, <5>2, FirstTwo
        <5>4. <<"jsonl", SubSeq(file'[i], 1, 2)>> \in warned'
          BY <5>2, <5>3
        <5>5. QED
          BY <5>4 DEF Settled, GivenUp
      <4>5. CASE SendDatagram(h) \/ Enqueue(h)
        <5>1. h # w
          BY <2>2, <4>5 DEF SendDatagram, Enqueue
        <5>2. UNCHANGED file /\ at'[w] = at[w] /\ emitted'[w] = emitted[w]
          BY <1>2, <4>5, <5>1 DEF SendDatagram, Enqueue, MoveTo, fileVars
        <5>3. QED
          BY <3>2, <5>2
      <4>6. QED
        BY <3>3, <4>1, <4>2, <4>3, <4>4, <4>5 DEF EmitStep
    <3>4. CASE ExporterStep \/ Answer \/ UNCHANGED vars
      <4>1. UNCHANGED <<at, emitted, file>>
        BY <3>4 DEF ExporterStep, ReceiveFirst, ReceiveMore, StartPost, Answer, PostStored,
                    PostFails, PostRejected, vars, fileVars, handlerVars
      <4>2. QED
        BY <3>2, <4>1
    <3>5. CASE Restart
      <4>1. at'[w] = "gone" /\ file' = file
        BY <2>2, <3>5 DEF Restart
      <4>2. file'[i][1] = w
        BY <2>2, <3>1, <4>1
      <4>3. QED
        BY <4>1, <4>2 DEF Settled, GivenUp
    <3>6. QED
      BY <3>3, <3>4, <3>5 DEF Next
  <2>3. QED
    BY <1>4, <2>1, <2>2 DEF LInv, LinesAreWhole, BeingWritten
\* What the step writes.
<1>5. ASSUME NEW i, i = Len(file) + 1, i = Len(file'), file'[i] # LineEnd
      PROVE  Settled(i)' \/ BeingWritten(i)'
  <2>1. ASSUME UNCHANGED file PROVE FALSE
    BY <1>2, <1>5, <2>1
  <2>2. ASSUME NEW h \in Handlers, EmitStep(h)
        PROVE  Settled(i)' \/ BeingWritten(i)'
    <3>1. /\ Event(h) \in AllEvents /\ Event(h) \in Entries
          /\ LineEnd \in Entries /\ Torn(Event(h)) \in Entries
      BY <1>1, EventIsAMark
    <3>2. CASE WriteLine(h)
      <4>1. file' = Append(file, Event(h)) /\ at'[h] = "newline" /\ emitted' = emitted
        BY <1>2, <3>2 DEF WriteLine, MoveTo
      <4>2. file'[i] = Event(h) /\ Event(h)' = Event(h)
        BY <1>3, <1>5, <3>1, <4>1 DEF Event
      <4>3. QED
        BY <1>5, <4>1, <4>2 DEF BeingWritten
    <3>3. CASE WriteLineEnd(h)
      BY <1>3, <1>5, <3>1, <3>3 DEF WriteLineEnd
    <3>4. CASE WriteFails(h)
      <4>1. file' = Append(file, Torn(Event(h)))
            /\ warned' = warned \cup ({"jsonl"} \X {Event(h)})
        BY <2>1, <3>4 DEF WriteFails, Warn
      <4>2. file'[i] = Torn(Event(h))
        BY <1>3, <1>5, <3>1, <4>1
      <4>3. SubSeq(file'[i], 1, 2) = Event(h)
        BY <3>1, <4>2, FirstTwo
      <4>4. <<"jsonl", SubSeq(file'[i], 1, 2)>> \in warned'
        BY <4>1, <4>3
      <4>5. QED
        BY <1>5, <4>4 DEF Settled, GivenUp
    <3>5. CASE Lock(h) \/ SendDatagram(h) \/ Enqueue(h)
      BY <2>1, <3>5 DEF Lock, SendDatagram, Enqueue, fileVars
    <3>6. QED
      BY <2>2, <3>2, <3>3, <3>4, <3>5 DEF EmitStep
  <2>3. CASE ExporterStep \/ Answer \/ Restart \/ UNCHANGED vars
    BY <2>1, <2>3 DEF ExporterStep, ReceiveFirst, ReceiveMore, StartPost, Answer, PostStored,
                PostFails, PostRejected, Restart, vars, fileVars
  <2>4. QED
    BY <2>2, <2>3 DEF Next
<1>6. LinesAreWhole'
  <2>1. SUFFICES ASSUME NEW i \in 1 .. Len(file'), file'[i] # LineEnd
                 PROVE  Settled(i)' \/ BeingWritten(i)'
    BY DEF LinesAreWhole, LineEnd
  <2>2. /\ Len(file') \in {Len(file), Len(file) + 1}
        /\ \A j \in 1 .. Len(file) : file'[j] = file[j]
    <3>1. CASE UNCHANGED file
      BY <3>1
    <3>2. ASSUME NEW e \in Entries, file' = Append(file, e)
          PROVE  Len(file') = Len(file) + 1 /\ \A j \in 1 .. Len(file) : file'[j] = file[j]
      BY <1>3, <3>2
    <3>3. QED
      BY <1>1, <3>1, <3>2, FileIsAppendedTo
  <2>3. CASE i \in 1 .. Len(file)
    BY <1>4, <2>1, <2>2, <2>3
  <2>4. CASE i \notin 1 .. Len(file)
    <3>1. i = Len(file) + 1 /\ Len(file') = Len(file) + 1
      BY <1>2, <2>2, <2>4
    <3>2. QED
      BY <1>5, <2>1, <3>1
  <2>5. QED
    BY <2>3, <2>4
<1>7. QED
  BY <1>1, <1>6 DEF LInv

(* However handlers run, and whatever writes fail, no handler writes into  *)
(* the line of another.                                                    *)
THEOREM LinesAreNotMixed == Spec => []LinesDoNotInterleave
<1>1. LInv => LinesDoNotInterleave
  <2>1. SUFFICES ASSUME LInv, NEW i \in 1 .. Len(file), file[i] # LineEnd
                 PROVE  \/ i < Len(file) /\ file[i + 1] = LineEnd
                        \/ i = Len(file) /\ lock = {file[i][1]}
                        \/ <<"jsonl", SubSeq(file[i], 1, 2)>> \in warned
                        \/ at[file[i][1]] = "gone"
    <3>1. ASSUME LInv PROVE DOMAIN file = 1 .. Len(file)
      BY <3>1, LenProperties DEF LInv, Sound
    <3>2. QED
      BY <3>1 DEF LinesDoNotInterleave
  <2>2. CASE Settled(i)
    BY <2>2 DEF Settled, GivenUp
  <2>3. ASSUME NEW h \in Handlers, at[h] = "newline", file[i] = Event(h), i = Len(file)
        PROVE  lock = {file[i][1]}
    <3>1. file[i][1] = h
      BY <2>1, <2>3, EventIsAMark DEF LInv
    <3>2. QED
      BY <2>1, <2>3, <3>1 DEF LInv, WriterHoldsTheLock
  <2>4. QED
    BY SMTT(60), <2>1, <2>2, <2>3 DEF LInv, LinesAreWhole, BeingWritten
<1>2. QED
  BY <1>1, LInvAtFirst, LInvIsKept, PTL DEF Spec

-----------------------------------------------------------------------------
(* A tally is a function to numbers; adding to it in either order is the    *)
(* same, and so is adding nothing.                                          *)
IsTally(t) == t = [e \in DOMAIN t |-> t[e]] /\ \A e \in DOMAIN t : t[e] \in Nat

LEMMA BagOfSet == ASSUME NEW S PROVE IsTally(SetToBag(S)) /\ DOMAIN SetToBag(S) = S
BY DEF SetToBag, IsTally

LEMMA BagSum ==
    ASSUME NEW t, NEW u, IsTally(t), IsTally(u)
    PROVE  IsTally(t (+) u) /\ DOMAIN (t (+) u) = DOMAIN t \cup DOMAIN u
<1> DEFINE v == t (+) u
<1>1. DOMAIN v = DOMAIN t \cup DOMAIN u
  BY DEF (+)
<1>2. v = [e \in DOMAIN v |-> v[e]]
  BY DEF (+)
<1>3. ASSUME NEW e \in DOMAIN v PROVE v[e] \in Nat
  <2>1. v[e] = (IF e \in DOMAIN t THEN t[e] ELSE 0) + (IF e \in DOMAIN u THEN u[e] ELSE 0)
    BY <1>1 DEF (+)
  <2> HIDE DEF v
  <2> QED BY <2>1 DEF IsTally
<1> QED BY <1>1, <1>2, <1>3 DEF IsTally

LEMMA SumIsTally == ASSUME NEW t, IsTally(t), NEW S PROVE IsTally(t (+) SetToBag(S))
BY BagOfSet, BagSum

LEMMA BagPlusNothing ==
    ASSUME NEW t, IsTally(t) PROVE t (+) SetToBag({}) = t
<1> DEFINE v == t (+) SetToBag({})
<1>1. DOMAIN SetToBag({}) = {}
  BY BagOfSet
<1>2. DOMAIN v = DOMAIN t /\ v = [e \in DOMAIN t |-> v[e]]
  BY <1>1 DEF (+)
<1>3. ASSUME NEW e \in DOMAIN t PROVE v[e] = t[e]
  <2>1. v[e] = t[e] + 0
    BY <1>1 DEF (+)
  <2> HIDE DEF v
  <2> QED BY <2>1 DEF IsTally
<1>4. v = [e \in DOMAIN t |-> t[e]]
  BY <1>2, <1>3
<1> QED BY <1>4 DEF IsTally

LEMMA BagSumCommutes ==
    ASSUME NEW t, NEW u, NEW v, IsTally(t), IsTally(u), IsTally(v)
    PROVE  (t (+) u) (+) v = (t (+) v) (+) u
<1> DEFINE a == t (+) u
           b == t (+) v
           of(f, e) == IF e \in DOMAIN f THEN f[e] ELSE 0
<1>1. /\ IsTally(a) /\ DOMAIN a = DOMAIN t \cup DOMAIN u
      /\ IsTally(b) /\ DOMAIN b = DOMAIN t \cup DOMAIN v
  BY BagSum
<1>2. ASSUME NEW e PROVE of(a, e) = of(t, e) + of(u, e) /\ of(b, e) = of(t, e) + of(v, e)
  <2>1. /\ e \in DOMAIN a => a[e] = of(t, e) + of(u, e)
        /\ e \in DOMAIN b => b[e] = of(t, e) + of(v, e)
    BY <1>1 DEF (+)
  <2>2. /\ e \notin DOMAIN a => of(a, e) = 0 /\ of(t, e) = 0 /\ of(u, e) = 0
        /\ e \notin DOMAIN b => of(b, e) = 0 /\ of(t, e) = 0 /\ of(v, e) = 0
    BY <1>1
  <2>3. e \in DOMAIN a => of(a, e) = a[e]
    OBVIOUS
  <2>4. e \in DOMAIN b => of(b, e) = b[e]
    OBVIOUS
  <2>5. 0 = 0 + 0
    OBVIOUS
  <2> HIDE DEF of, a, b
  <2> QED BY <2>1, <2>2, <2>3, <2>4, <2>5
<1>3. ASSUME NEW e PROVE of(t, e) \in Nat /\ of(u, e) \in Nat /\ of(v, e) \in Nat
  BY DEF IsTally
<1>4. (t (+) u) (+) v = [e \in DOMAIN a \cup DOMAIN v |-> of(a, e) + of(v, e)]
  BY DEF (+)
<1>5. (t (+) v) (+) u = [e \in DOMAIN b \cup DOMAIN u |-> of(b, e) + of(u, e)]
  BY DEF (+)
<1>6. DOMAIN a \cup DOMAIN v = DOMAIN b \cup DOMAIN u
  BY <1>1
<1> HIDE DEF of, a, b
<1>7. ASSUME NEW e PROVE of(a, e) + of(v, e) = of(b, e) + of(u, e)
  BY <1>2, <1>3
<1>8. QED
  BY <1>4, <1>5, <1>6, <1>7

-----------------------------------------------------------------------------
(* What one event adds to each tally: one value, or nothing.               *)
Value(option) == IF option \in {<<>>, <<EmptyText>>} THEN {} ELSE {option[1]}

LEMMA BumpAddsAValue ==
    ASSUME NEW t, IsTally(t), NEW option
    PROVE  Bump(t, option) = t (+) SetToBag(Value(option))
BY BagPlusNothing DEF Bump, Value

Tallied == {"detectors", "decisions", "devices", "models", "providers", "callers", "sources",
            "attachment_kinds", "daily"}
(* The fields of a report, and that it has no others.                      *)
FieldNames ==
    {"events", "malformed", "first_ts", "last_ts", "detectors", "decisions", "devices", "models",
     "providers", "callers", "sources", "attachment_kinds", "daily", "blocked", "masked", "digests",
     "skipped_attachments"}
Shape(r) == DOMAIN r = FieldNames /\ r = [n \in DOMAIN r |-> r[n]]
IsReport(r) ==
    /\ Shape(r)
    /\ r.events \in Nat /\ r.malformed \in Nat /\ r.first_ts \in Nat /\ r.last_ts \in Nat
    /\ r.blocked \in Nat /\ r.masked \in Nat /\ r.skipped_attachments \in Nat
    /\ IsTally(r.detectors) /\ IsTally(r.decisions) /\ IsTally(r.devices) /\ IsTally(r.models)
    /\ IsTally(r.providers) /\ IsTally(r.callers) /\ IsTally(r.sources)
    /\ IsTally(r.attachment_kinds) /\ IsTally(r.daily)

IsFinding(x) == Kind(x) = "pii_detected"
IsSkip(x) == Kind(x) = "attachment_skipped"
Sourced(x) == IF Field(x, "source") = <<>> THEN <<<<"prompt">>>> ELSE Field(x, "source")
Only(condition, S) == IF condition THEN S ELSE {}
Earlier(first, ts) == IF ts = 0 THEN first ELSE IF first = 0 \/ ts < first THEN ts ELSE first
Later(last, ts) == IF ts = 0 THEN last ELSE IF ts > last THEN ts ELSE last

(* Counted, field by field.                                                *)
Made(r, x) ==
    [events |-> r.events + 1, malformed |-> r.malformed,
     first_ts |-> Earlier(r.first_ts, Time(x)), last_ts |-> Later(r.last_ts, Time(x)),
     detectors |-> r.detectors (+) SetToBag(Only(IsFinding(x), Value(Field(x, "detector")))),
     decisions |-> r.decisions (+) SetToBag(Only(IsFinding(x), Value(Field(x, "decision")))),
     devices |-> r.devices (+) SetToBag(Only(IsFinding(x), Value(Field(x, "device")))),
     models |-> r.models (+) SetToBag(Value(Field(x, "upstream_model"))),
     providers |-> r.providers (+) SetToBag(Value(Field(x, "provider"))),
     callers |-> r.callers (+) SetToBag(Value(Field(x, "client_addr"))),
     sources |-> r.sources (+) SetToBag(Only(IsFinding(x), Value(Sourced(x)))),
     attachment_kinds |-> r.attachment_kinds (+)
         SetToBag(Only(IsFinding(x) \/ IsSkip(x), Value(Field(x, "attachment_kind")))),
     daily |-> r.daily (+) SetToBag(Only(IsFinding(x) /\ Time(x) # 0, {Time(x) \div DayLength})),
     blocked |-> r.blocked + One(IsFinding(x) /\ Field(x, "decision") = <<<<"blocked">>>>),
     masked |-> r.masked + One(IsFinding(x) /\ Field(x, "decision") = <<<<"masked">>>>),
     digests |-> r.digests \cup Only(IsFinding(x), ToSet(Field(x, "attachment_sha256"))),
     skipped_attachments |-> r.skipped_attachments + One(IsSkip(x))]

LEMMA OnlyIs ==
    /\ \A S : Only(TRUE, S) = S /\ Only(FALSE, S) = {}
    /\ One(TRUE) = 1 /\ One(FALSE) = 0
BY DEF Only, One

LEMMA SameReport ==
    ASSUME NEW r, Shape(r), NEW q, Shape(q),
           r.events = q.events, r.malformed = q.malformed, r.first_ts = q.first_ts, r.last_ts = q.last_ts,
           r.detectors = q.detectors, r.decisions = q.decisions, r.devices = q.devices, r.models = q.models,
           r.providers = q.providers, r.callers = q.callers, r.sources = q.sources,
           r.attachment_kinds = q.attachment_kinds, r.daily = q.daily,
           r.blocked = q.blocked, r.masked = q.masked, r.digests = q.digests,
           r.skipped_attachments = q.skipped_attachments
    PROVE  r = q
<1>1. \A n \in FieldNames : r[n] = q[n]
  BY DEF FieldNames
<1> QED BY <1>1 DEF Shape

LEMMA RecordShape ==
    ASSUME NEW a, NEW b, NEW c, NEW d, NEW e, NEW f, NEW g, NEW h, NEW i, NEW j, NEW k, NEW l, NEW m,
           NEW n, NEW o, NEW p, NEW q
    PROVE  Shape([events |-> a, malformed |-> b, first_ts |-> c, last_ts |-> d, detectors |-> e,
                  decisions |-> f, devices |-> g, models |-> h, providers |-> i, callers |-> j,
                  sources |-> k, attachment_kinds |-> l, daily |-> m, blocked |-> n, masked |-> o,
                  digests |-> p, skipped_attachments |-> q])
BY DEF Shape, FieldNames

LEMMA MadeShape == ASSUME NEW r, NEW x PROVE Shape(Made(r, x))
BY SMT, RecordShape DEF Made

DatedMade(r, x) ==
    [r EXCEPT !.events = @ + 1, !.first_ts = Earlier(@, Time(x)), !.last_ts = Later(@, Time(x))]

LEMMA DatedIs ==
    ASSUME NEW r, Shape(r), NEW x
    PROVE  Dated([r EXCEPT !.events = @ + 1], Time(x)) = DatedMade(r, x)
BY DEF Dated, DatedMade, Earlier, Later, Shape, FieldNames

NumbersOf(m, r, x) ==
    /\ m.events = r.events + 1 /\ m.malformed = r.malformed
    /\ m.first_ts = Earlier(r.first_ts, Time(x)) /\ m.last_ts = Later(r.last_ts, Time(x))
    /\ m.blocked = r.blocked + One(IsFinding(x) /\ Field(x, "decision") = <<<<"blocked">>>>)
    /\ m.masked = r.masked + One(IsFinding(x) /\ Field(x, "decision") = <<<<"masked">>>>)
    /\ m.skipped_attachments = r.skipped_attachments + One(IsSkip(x))
    /\ m.digests = r.digests \cup Only(IsFinding(x), ToSet(Field(x, "attachment_sha256")))
TalliesOf(m, r, x) ==
    /\ m.detectors = r.detectors (+) SetToBag(Only(IsFinding(x), Value(Field(x, "detector"))))
    /\ m.decisions = r.decisions (+) SetToBag(Only(IsFinding(x), Value(Field(x, "decision"))))
    /\ m.devices = r.devices (+) SetToBag(Only(IsFinding(x), Value(Field(x, "device"))))
    /\ m.models = r.models (+) SetToBag(Value(Field(x, "upstream_model")))
    /\ m.providers = r.providers (+) SetToBag(Value(Field(x, "provider")))
    /\ m.callers = r.callers (+) SetToBag(Value(Field(x, "client_addr")))
    /\ m.sources = r.sources (+) SetToBag(Only(IsFinding(x), Value(Sourced(x))))
    /\ m.attachment_kinds = r.attachment_kinds (+)
          SetToBag(Only(IsFinding(x) \/ IsSkip(x), Value(Field(x, "attachment_kind"))))
    /\ m.daily = r.daily (+) SetToBag(Only(IsFinding(x) /\ Time(x) # 0, {Time(x) \div DayLength}))

LEMMA MadeFields ==
    ASSUME NEW r, Shape(r), NEW x
    PROVE  /\ Shape(Made(r, x))
           /\ NumbersOf(Made(r, x), r, x)
           /\ TalliesOf(Made(r, x), r, x)
<1>1. NumbersOf(Made(r, x), r, x)
  BY DEF Made, Shape, FieldNames, NumbersOf
<1>2. TalliesOf(Made(r, x), r, x)
  BY DEF Made, Shape, FieldNames, TalliesOf
<1> QED BY <1>1, <1>2, MadeShape

LEMMA CountedFinding ==
    ASSUME NEW r, IsReport(r), NEW x, IsFinding(x)
    PROVE  Counted(r, x) = Made(r, x)
<1> DEFINE d == DatedMade(r, x)
           f == Finding(d, x)
           c == [f EXCEPT !.models = Bump(@, Field(x, "upstream_model")),
                     !.providers = Bump(@, Field(x, "provider")),
                     !.callers = Bump(@, Field(x, "client_addr"))]
           m == Made(r, x)
<1>1. ~IsSkip(x)
  BY DEF IsFinding, IsSkip
<1>2. Counted(r, x) = c
  BY DatedIs DEF Counted, IsFinding, IsReport
<1>3. Shape(d)
  BY DEF DatedMade, IsReport, Shape
<1>4. /\ d.events = r.events + 1 /\ d.malformed = r.malformed
      /\ d.first_ts = Earlier(r.first_ts, Time(x)) /\ d.last_ts = Later(r.last_ts, Time(x))
      /\ d.detectors = r.detectors /\ d.decisions = r.decisions /\ d.devices = r.devices
      /\ d.sources = r.sources /\ d.attachment_kinds = r.attachment_kinds /\ d.daily = r.daily
  BY DEF DatedMade, IsReport, Shape, FieldNames
<1>5. /\ d.models = r.models /\ d.providers = r.providers /\ d.callers = r.callers
      /\ d.blocked = r.blocked /\ d.masked = r.masked /\ d.digests = r.digests
      /\ d.skipped_attachments = r.skipped_attachments
  BY DEF DatedMade, IsReport, Shape, FieldNames
<1> HIDE DEF d
<1>6. Shape(f)
  BY ZenonT(90), <1>3 DEF Finding, Shape
<1>7. /\ f.events = d.events /\ f.malformed = d.malformed /\ f.first_ts = d.first_ts /\ f.last_ts = d.last_ts
      /\ f.models = d.models /\ f.providers = d.providers /\ f.callers = d.callers
      /\ f.skipped_attachments = d.skipped_attachments
  BY <1>3 DEF Finding, Shape, FieldNames
<1>8. /\ f.detectors = Bump(d.detectors, Field(x, "detector"))
      /\ f.decisions = Bump(d.decisions, Field(x, "decision"))
      /\ f.devices = Bump(d.devices, Field(x, "device"))
      /\ f.sources = Bump(d.sources, Sourced(x))
      /\ f.attachment_kinds = Bump(d.attachment_kinds, Field(x, "attachment_kind"))
      /\ f.daily = IF Time(x) = 0 THEN d.daily ELSE d.daily (+) SetToBag({Time(x) \div DayLength})
  BY <1>3 DEF Finding, Shape, FieldNames, Sourced
<1>9. /\ f.digests = d.digests \cup ToSet(Field(x, "attachment_sha256"))
      /\ f.blocked = d.blocked + One(Field(x, "decision") = <<<<"blocked">>>>)
      /\ f.masked = d.masked + One(Field(x, "decision") = <<<<"masked">>>>)
  BY <1>3 DEF Finding, Shape, FieldNames
<1> HIDE DEF f
<1>10. Shape(c)
  BY <1>6 DEF Shape
<1>11. /\ c.events = f.events /\ c.malformed = f.malformed /\ c.first_ts = f.first_ts /\ c.last_ts = f.last_ts
       /\ c.detectors = f.detectors /\ c.decisions = f.decisions /\ c.devices = f.devices
       /\ c.sources = f.sources /\ c.attachment_kinds = f.attachment_kinds /\ c.daily = f.daily
       /\ c.blocked = f.blocked /\ c.masked = f.masked /\ c.digests = f.digests
       /\ c.skipped_attachments = f.skipped_attachments
  BY <1>6 DEF Shape, FieldNames
<1>12. /\ c.models = Bump(f.models, Field(x, "upstream_model"))
       /\ c.providers = Bump(f.providers, Field(x, "provider"))
       /\ c.callers = Bump(f.callers, Field(x, "client_addr"))
  BY <1>6 DEF Shape, FieldNames
<1> HIDE DEF c
<1>18. Shape(m) /\ NumbersOf(m, r, x) /\ TalliesOf(m, r, x)
  BY MadeFields DEF IsReport
<1> HIDE DEF m
<1>13. c.events = m.events /\ c.malformed = m.malformed /\ c.first_ts = m.first_ts /\ c.last_ts = m.last_ts
  BY <1>18, <1>4, <1>7, <1>11 DEF NumbersOf, IsReport
<1>14. c.detectors = m.detectors /\ c.decisions = m.decisions /\ c.devices = m.devices /\ c.sources = m.sources
  BY <1>18, <1>4, <1>8, <1>11, BumpAddsAValue, OnlyIs DEF TalliesOf, IsReport, Only
<1>15. c.attachment_kinds = m.attachment_kinds /\ c.daily = m.daily
  BY <1>18, <1>4, <1>8, <1>11, BumpAddsAValue, BagPlusNothing, OnlyIs DEF TalliesOf, IsReport, Only
<1>16. c.models = m.models /\ c.providers = m.providers /\ c.callers = m.callers
  BY <1>18, <1>5, <1>7, <1>12, BumpAddsAValue DEF TalliesOf, IsReport
<1>17. /\ c.blocked = m.blocked /\ c.masked = m.masked /\ c.digests = m.digests
       /\ c.skipped_attachments = m.skipped_attachments
  BY <1>18, <1>1, <1>5, <1>7, <1>9, <1>11, OnlyIs DEF NumbersOf, IsReport, Only, One
<1>19. c = m
  BY <1>10, <1>13, <1>14, <1>15, <1>16, <1>17, <1>18, SameReport
<1> QED BY <1>2, <1>19 DEF m

LEMMA CountedOther ==
    ASSUME NEW r, IsReport(r), NEW x, ~IsFinding(x)
    PROVE  Counted(r, x) = Made(r, x)
<1> DEFINE d == DatedMade(r, x)
           f == IF IsSkip(x) THEN Skipped(d, x) ELSE d
           c == [f EXCEPT !.models = Bump(@, Field(x, "upstream_model")),
                     !.providers = Bump(@, Field(x, "provider")),
                     !.callers = Bump(@, Field(x, "client_addr"))]
           m == Made(r, x)
<1>2. Counted(r, x) = c
  BY DatedIs DEF Counted, IsFinding, IsSkip, IsReport
<1>3. Shape(d)
  BY DEF DatedMade, IsReport, Shape
<1>4. /\ d.events = r.events + 1 /\ d.malformed = r.malformed
      /\ d.first_ts = Earlier(r.first_ts, Time(x)) /\ d.last_ts = Later(r.last_ts, Time(x))
      /\ d.detectors = r.detectors /\ d.decisions = r.decisions /\ d.devices = r.devices
      /\ d.sources = r.sources /\ d.attachment_kinds = r.attachment_kinds /\ d.daily = r.daily
  BY DEF DatedMade, IsReport, Shape, FieldNames
<1>5. /\ d.models = r.models /\ d.providers = r.providers /\ d.callers = r.callers
      /\ d.blocked = r.blocked /\ d.masked = r.masked /\ d.digests = r.digests
      /\ d.skipped_attachments = r.skipped_attachments
  BY DEF DatedMade, IsReport, Shape, FieldNames
<1> HIDE DEF d
<1>6. Shape(f)
  BY <1>3 DEF Skipped, Shape
<1>7. /\ f.events = d.events /\ f.malformed = d.malformed /\ f.first_ts = d.first_ts /\ f.last_ts = d.last_ts
      /\ f.models = d.models /\ f.providers = d.providers /\ f.callers = d.callers
      /\ f.detectors = d.detectors /\ f.decisions = d.decisions /\ f.devices = d.devices
      /\ f.sources = d.sources /\ f.daily = d.daily
      /\ f.blocked = d.blocked /\ f.masked = d.masked /\ f.digests = d.digests
  BY <1>3 DEF Skipped, Shape, FieldNames
<1>8. /\ f.attachment_kinds = IF IsSkip(x) THEN Bump(d.attachment_kinds, Field(x, "attachment_kind"))
                              ELSE d.attachment_kinds
      /\ f.skipped_attachments = IF IsSkip(x) THEN d.skipped_attachments + 1 ELSE d.skipped_attachments
  BY <1>3 DEF Skipped, Shape, FieldNames
<1> HIDE DEF f
<1>10. Shape(c)
  BY <1>6 DEF Shape
<1>11. /\ c.events = f.events /\ c.malformed = f.malformed /\ c.first_ts = f.first_ts /\ c.last_ts = f.last_ts
       /\ c.detectors = f.detectors /\ c.decisions = f.decisions /\ c.devices = f.devices
       /\ c.sources = f.sources /\ c.attachment_kinds = f.attachment_kinds /\ c.daily = f.daily
       /\ c.blocked = f.blocked /\ c.masked = f.masked /\ c.digests = f.digests
       /\ c.skipped_attachments = f.skipped_attachments
  BY <1>6 DEF Shape, FieldNames
<1>12. /\ c.models = Bump(f.models, Field(x, "upstream_model"))
       /\ c.providers = Bump(f.providers, Field(x, "provider"))
       /\ c.callers = Bump(f.callers, Field(x, "client_addr"))
  BY <1>6 DEF Shape, FieldNames
<1> HIDE DEF c
<1>18. Shape(m) /\ NumbersOf(m, r, x) /\ TalliesOf(m, r, x)
  BY MadeFields DEF IsReport
<1> HIDE DEF m
<1>13. c.events = m.events /\ c.malformed = m.malformed /\ c.first_ts = m.first_ts /\ c.last_ts = m.last_ts
  BY <1>18, <1>4, <1>7, <1>11 DEF NumbersOf, IsReport
<1>14. c.detectors = m.detectors /\ c.decisions = m.decisions /\ c.devices = m.devices /\ c.sources = m.sources
  BY <1>18, <1>4, <1>7, <1>11, BagPlusNothing, OnlyIs DEF TalliesOf, IsReport, Only
<1>15. c.attachment_kinds = m.attachment_kinds /\ c.daily = m.daily
  BY <1>18, <1>4, <1>7, <1>8, <1>11, BumpAddsAValue, BagPlusNothing, OnlyIs DEF TalliesOf, IsReport, Only
<1>16. c.models = m.models /\ c.providers = m.providers /\ c.callers = m.callers
  BY <1>18, <1>5, <1>7, <1>12, BumpAddsAValue DEF TalliesOf, IsReport
<1>17. /\ c.blocked = m.blocked /\ c.masked = m.masked /\ c.digests = m.digests
       /\ c.skipped_attachments = m.skipped_attachments
  BY <1>18, <1>5, <1>7, <1>8, <1>11, OnlyIs DEF NumbersOf, IsReport, Only, One
<1>19. c = m
  BY <1>10, <1>13, <1>14, <1>15, <1>16, <1>17, <1>18, SameReport
<1> QED BY <1>2, <1>19 DEF m

LEMMA CountedIsMade ==
    ASSUME NEW r, IsReport(r), NEW x
    PROVE  Counted(r, x) = Made(r, x)
BY CountedFinding, CountedOther

(* What is made of a report is one, and events may be counted in either    *)
(* order.                                                                  *)
LEMMA MadeType ==
    ASSUME NEW r, IsReport(r), NEW x, Time(x) \in Nat
    PROVE  IsReport(Made(r, x))
<1> DEFINE m == Made(r, x)
<1>1. Shape(m) /\ NumbersOf(m, r, x) /\ TalliesOf(m, r, x)
  BY MadeFields DEF IsReport
<1> HIDE DEF m
<1>2. /\ m.events \in Nat /\ m.malformed \in Nat /\ m.first_ts \in Nat /\ m.last_ts \in Nat
      /\ m.blocked \in Nat /\ m.masked \in Nat /\ m.skipped_attachments \in Nat
  BY <1>1 DEF NumbersOf, IsReport, Earlier, Later, One
<1>3. /\ IsTally(m.detectors) /\ IsTally(m.decisions) /\ IsTally(m.devices) /\ IsTally(m.models)
      /\ IsTally(m.providers) /\ IsTally(m.callers) /\ IsTally(m.sources)
      /\ IsTally(m.attachment_kinds) /\ IsTally(m.daily)
  BY <1>1, SumIsTally DEF TalliesOf, IsReport
<1>4. IsReport(m)
  BY <1>1, <1>2, <1>3 DEF IsReport
<1> QED BY <1>4 DEF m

LEMMA SetsCommute ==
    ASSUME NEW t, IsTally(t), NEW S, NEW U
    PROVE  (t (+) SetToBag(S)) (+) SetToBag(U) = (t (+) SetToBag(U)) (+) SetToBag(S)
BY BagOfSet, BagSumCommutes

LEMMA MadeCommutes ==
    ASSUME NEW r, IsReport(r), NEW x, Time(x) \in Nat, NEW y, Time(y) \in Nat
    PROVE  Made(Made(r, x), y) = Made(Made(r, y), x)
<1> DEFINE a == Made(r, x)
           b == Made(r, y)
<1>1. IsReport(r) /\ IsReport(a) /\ IsReport(b) /\ a = Made(r, x) /\ b = Made(r, y)
  BY MadeType
<1> HIDE DEF a, b
<1> DEFINE p == Made(a, y)
           q == Made(b, x)
<1>2. Shape(p) /\ Shape(q) /\ p = Made(a, y) /\ q = Made(b, x)
  BY <1>1, MadeShape DEF IsReport
<1> HIDE DEF p, q
<1>3. /\ NumbersOf(a, r, x) /\ NumbersOf(b, r, y) /\ NumbersOf(p, a, y) /\ NumbersOf(q, b, x)
      /\ TalliesOf(a, r, x) /\ TalliesOf(b, r, y) /\ TalliesOf(p, a, y) /\ TalliesOf(q, b, x)
  BY <1>1, <1>2, MadeFields DEF IsReport
<1>4. p.events = q.events /\ p.malformed = q.malformed /\ p.digests = q.digests
  BY <1>1, <1>3 DEF NumbersOf, IsReport
<1>5. p.first_ts = q.first_ts /\ p.last_ts = q.last_ts
  BY <1>1, <1>3 DEF NumbersOf, IsReport, Earlier, Later
<1>6. p.blocked = q.blocked /\ p.masked = q.masked /\ p.skipped_attachments = q.skipped_attachments
  BY <1>1, <1>3 DEF NumbersOf, IsReport, One
<1>7. p.detectors = q.detectors /\ p.decisions = q.decisions /\ p.devices = q.devices
  BY <1>1, <1>3, SetsCommute DEF TalliesOf, IsReport
<1>8. p.models = q.models /\ p.providers = q.providers /\ p.callers = q.callers
  BY <1>1, <1>3, SetsCommute DEF TalliesOf, IsReport
<1>9. p.sources = q.sources /\ p.attachment_kinds = q.attachment_kinds /\ p.daily = q.daily
  BY <1>1, <1>3, SetsCommute DEF TalliesOf, IsReport
<1>10. p = q
  BY <1>2, <1>4, <1>5, <1>6, <1>7, <1>8, <1>9, SameReport
<1> QED BY <1>1, <1>2, <1>10

-----------------------------------------------------------------------------
(* Lines the report reads, and what AddLine does with one.                 *)
IsText(line) == IsLine(line) /\ line.is # NotUtf8

LEMMA EmptyIsReport == IsReport(EmptyReport)
<1> DEFINE e == EmptyReport
<1>1. Shape(e)
  BY DEF EmptyReport, Shape, FieldNames
<1>2. IsTally(EmptyBag)
  BY BagOfSet DEF EmptyBag
<1>3. IsReport(e)
  BY <1>1, <1>2 DEF EmptyReport, IsReport
<1> QED BY <1>3

Malformed(r) == [r EXCEPT !.malformed = @ + 1]
SameBesides(b, r) ==
    /\ b.events = r.events /\ b.first_ts = r.first_ts /\ b.last_ts = r.last_ts
    /\ b.detectors = r.detectors /\ b.decisions = r.decisions /\ b.devices = r.devices
    /\ b.models = r.models /\ b.providers = r.providers /\ b.callers = r.callers
    /\ b.sources = r.sources /\ b.attachment_kinds = r.attachment_kinds /\ b.daily = r.daily
    /\ b.blocked = r.blocked /\ b.masked = r.masked /\ b.digests = r.digests
    /\ b.skipped_attachments = r.skipped_attachments

LEMMA MalformedFields ==
    ASSUME NEW r, IsReport(r)
    PROVE  /\ IsReport(Malformed(r))
           /\ SameBesides(Malformed(r), r)
           /\ Malformed(r).malformed = r.malformed + 1
<1> DEFINE m == Malformed(r)
<1>1. Shape(r) /\ r.malformed \in Nat
  BY DEF IsReport
<1>2. Shape(m)
  BY <1>1 DEF Malformed, Shape
<1>3. m.malformed = r.malformed + 1 /\ SameBesides(m, r)
  BY <1>1 DEF Malformed, Shape, FieldNames, SameBesides
<1> HIDE DEF m
<1>4. IsReport(m)
  BY <1>1, <1>2, <1>3 DEF IsReport, SameBesides
<1> QED BY <1>3, <1>4 DEF m

LEMMA AddLineIs ==
    ASSUME NEW r, IsReport(r), NEW line, IsText(line)
    PROVE  /\ line.is = Blank => AddLine(r, line) = r
           /\ line.is = Broken => AddLine(r, line) = Malformed(r)
           /\ line.is = "event" => AddLine(r, line) = Made(r, line.record) /\ Time(line.record) \in Nat
           /\ line.is \in {Blank, Broken, "event"}
           /\ IsReport(AddLine(r, line))
<1>1. line.is \in {Blank, Broken, "event"}
  BY DEF IsText, IsLine
<1>2. CASE line.is = Blank
  BY <1>2 DEF AddLine, Blank, Broken
<1>3. CASE line.is = Broken
  BY <1>3, MalformedFields DEF AddLine, Blank, Broken, Malformed
<1>4. CASE line.is = "event"
  <2>1. Time(line.record) \in Nat
    BY <1>4 DEF IsText, IsLine, Blank, Broken, NotUtf8
  <2>2. AddLine(r, line) = Counted(r, line.record)
    BY <1>4 DEF AddLine, Blank, Broken
  <2> QED BY <1>4, <2>1, <2>2, CountedIsMade, MadeType DEF Blank, Broken
<1> QED BY <1>1, <1>2, <1>3, <1>4

LEMMA MalformedAndMade ==
    ASSUME NEW r, IsReport(r), NEW x, Time(x) \in Nat
    PROVE  Malformed(Made(r, x)) = Made(Malformed(r), x)
<1> DEFINE a == Made(r, x)
           b == Malformed(r)
           p == Malformed(a)
           q == Made(b, x)
<1>1. IsReport(a) /\ IsReport(b) /\ IsReport(p) /\ IsReport(q)
  BY MadeType, MalformedFields
<1>2. NumbersOf(a, r, x) /\ NumbersOf(q, b, x) /\ TalliesOf(a, r, x) /\ TalliesOf(q, b, x)
  BY <1>1, MadeFields DEF IsReport
<1>3. /\ SameBesides(b, r) /\ SameBesides(p, a)
      /\ b.malformed = r.malformed + 1 /\ p.malformed = a.malformed + 1
  BY <1>1, MalformedFields
<1>4. Shape(p) /\ Shape(q)
  BY <1>1 DEF IsReport
<1> HIDE DEF a, b, p, q
<1>5. /\ p.events = q.events /\ p.malformed = q.malformed
      /\ p.first_ts = q.first_ts /\ p.last_ts = q.last_ts
      /\ p.blocked = q.blocked /\ p.masked = q.masked /\ p.digests = q.digests
      /\ p.skipped_attachments = q.skipped_attachments
  BY <1>2, <1>3 DEF SameBesides, NumbersOf
<1>6. /\ p.detectors = q.detectors /\ p.decisions = q.decisions /\ p.devices = q.devices
      /\ p.models = q.models /\ p.providers = q.providers /\ p.callers = q.callers
      /\ p.sources = q.sources /\ p.attachment_kinds = q.attachment_kinds /\ p.daily = q.daily
  BY <1>2, <1>3 DEF SameBesides, TalliesOf
<1>7. p = q
  BY <1>4, <1>5, <1>6, SameReport
<1> QED BY <1>7 DEF a, b, p, q

(* Two lines may be read in either order.                                  *)
LEMMA LinesCommute ==
    ASSUME NEW r, IsReport(r), NEW a, IsText(a), NEW b, IsText(b)
    PROVE  AddLine(AddLine(r, a), b) = AddLine(AddLine(r, b), a)
<1>1. IsReport(AddLine(r, a)) /\ IsReport(AddLine(r, b))
  BY AddLineIs
<1>2. CASE a.is = Blank \/ b.is = Blank
  BY <1>1, <1>2, AddLineIs
<1>3. CASE a.is = Broken /\ b.is = Broken
  BY <1>1, <1>3, AddLineIs
<1>4. CASE a.is = Broken /\ b.is = "event"
  BY <1>1, <1>4, AddLineIs, MalformedAndMade
<1>5. CASE a.is = "event" /\ b.is = Broken
  BY <1>1, <1>5, AddLineIs, MalformedAndMade
<1>6. CASE a.is = "event" /\ b.is = "event"
  BY <1>1, <1>6, AddLineIs, MadeCommutes
<1>7. a.is \in {Blank, Broken, "event"} /\ b.is \in {Blank, Broken, "event"}
  BY AddLineIs
<1> QED BY <1>2, <1>3, <1>4, <1>5, <1>6, <1>7

-----------------------------------------------------------------------------
\* What FromJsonl computes on its way: the report of any of the lines.
Reads(f, lines, n) ==
    f = [S \in SUBSET (1 .. n) |-> IF S = {} THEN EmptyReport
                                  ELSE AddLine(f[S \ {Max(S)}], lines[Max(S)])]

LEMMA ReadsExists == ASSUME NEW v PROVE \A n \in Nat : \E f : Reads(f, v, n)
<1> DEFINE T == {n \in Nat : \E f : Reads(f, v, n)}
<1>1. 0 \in T
  <2>0. \A S \in SUBSET (1 .. 0) : S = {}
    OBVIOUS
  <2>1. Reads([S \in SUBSET (1 .. 0) |-> EmptyReport], v, 0)
    BY <2>0 DEF Reads
  <2> QED BY <2>1
<1>2. ASSUME NEW n \in Nat, n \in T PROVE n + 1 \in T
  <2>1. PICK f : Reads(f, v, n)
    BY <1>2
  <2> DEFINE g == [S \in SUBSET (1 .. n + 1) |-> IF n + 1 \in S THEN AddLine(f[S \ {n + 1}], v[n + 1])
                                                ELSE f[S]]
  <2>2. ASSUME NEW S \in SUBSET (1 .. n + 1)
        PROVE  g[S] = IF S = {} THEN EmptyReport ELSE AddLine(g[S \ {Max(S)}], v[Max(S)])
    <3>1. CASE n + 1 \in S
      <4>1. S \in SUBSET (0 .. n + 1) /\ S # {} /\ n + 1 \in Nat
        BY <3>1
      <4>2. Max(S) \in S /\ \A y \in S : y <= Max(S)
        BY <4>1, MaxOfBounded
      <4>3. Max(S) = n + 1
        <5> HIDE DEF g
        <5>1. n + 1 <= Max(S) /\ Max(S) \in 1 .. n + 1
          BY <3>1, <4>2
        <5> QED BY <5>1
      <4>4. S \ {n + 1} \in SUBSET (1 .. n + 1) /\ n + 1 \notin S \ {n + 1}
        OBVIOUS
      <4>5. g[S \ {n + 1}] = f[S \ {n + 1}] /\ g[S] = AddLine(f[S \ {n + 1}], v[n + 1])
        BY <3>1, <4>4
      <4> HIDE DEF g
      <4> QED BY <3>1, <4>3, <4>5
    <3>2. CASE n + 1 \notin S
      <4>1. S \in SUBSET (1 .. n) /\ S \in SUBSET (0 .. n)
        BY <3>2
      <4>2. g[S] = f[S] /\ g[S \ {Max(S)}] = f[S \ {Max(S)}]
        BY <3>2
      <4>3. f[S] = IF S = {} THEN EmptyReport ELSE AddLine(f[S \ {Max(S)}], v[Max(S)])
        BY <2>1, <4>1 DEF Reads
      <4> HIDE DEF g
      <4> QED BY <4>2, <4>3
    <3> QED BY <3>1, <3>2
  <2>3. g = [S \in SUBSET (1 .. n + 1) |-> g[S]]
    OBVIOUS
  <2> HIDE DEF g
  <2>4. Reads(g, v, n + 1)
    BY <2>2, <2>3 DEF Reads
  <2> QED BY <2>4
<1> HIDE DEF T
<1>3. \A n \in Nat : n \in T
  BY <1>1, <1>2, NatSetInduction
<1> QED BY <1>3 DEF T

(* FromJsonl is the last of the reports of the first so many lines.        *)
LEMMA ReportByLine ==
    ASSUME NEW n \in Nat, NEW v, DOMAIN v = 1 .. n
    PROVE  \E p : /\ p[0] = EmptyReport /\ p[n] = FromJsonl(v)
                 /\ \A i \in 1 .. n : p[i] = AddLine(p[i - 1], v[i])
<1> DEFINE F == CHOOSE f : Reads(f, v, n)
<1>1. Reads(F, v, n)
  BY ReadsExists
<1>2. FromJsonl(v) = F[1 .. n]
  BY DEF FromJsonl, FoldLeft, MapThenFoldSet, Reads
<1> HIDE DEF F
<1> DEFINE p == [i \in 0 .. n |-> F[1 .. i]]
<1>3. p[0] = EmptyReport /\ p[n] = FromJsonl(v)
  <2>1. 1 .. 0 = {} /\ {} \in SUBSET (1 .. n)
    OBVIOUS
  <2>2. F[{}] = EmptyReport
    BY <1>1, <2>1 DEF Reads
  <2> QED BY <1>2, <2>1, <2>2
<1>4. ASSUME NEW i \in 1 .. n PROVE p[i] = AddLine(p[i - 1], v[i])
  <2>1. i \in 0 .. n /\ i - 1 \in 0 .. n /\ i \in Nat \ {0} /\ 1 .. i \in SUBSET (1 .. n)
    OBVIOUS
  <2>2. Max(1 .. i) = i /\ (1 .. i) \ {i} = 1 .. i - 1 /\ 1 .. i # {}
    BY <2>1, UpTo
  <2>3. F[1 .. i] = IF 1 .. i = {} THEN EmptyReport
                    ELSE AddLine(F[(1 .. i) \ {Max(1 .. i)}], v[Max(1 .. i)])
    BY <1>1, <2>1 DEF Reads
  <2>4. F[1 .. i] = AddLine(F[1 .. i - 1], v[i])
    BY <2>2, <2>3
  <2> QED BY <2>1, <2>4
<1> QED BY <1>3, <1>4

LEMMA ReportOfNone == FromJsonl(<<>>) = EmptyReport
<1>1. DOMAIN <<>> = 1 .. 0 /\ 0 \in Nat
  OBVIOUS
<1>2. \E p : p[0] = EmptyReport /\ p[0] = FromJsonl(<<>>)
  BY <1>1, ReportByLine
<1> QED BY <1>2

LEMMA ReportOfAppend ==
    ASSUME NEW E, NEW l \in Seq(E), NEW x \in E
    PROVE  FromJsonl(Append(l, x)) = AddLine(FromJsonl(l), x)
<1> DEFINE n == Len(l)
           a == Append(l, x)
           N == n + 1
<1>1. /\ n \in Nat /\ DOMAIN l = 1 .. n /\ DOMAIN a = 1 .. N /\ N \in Nat /\ N = n + 1
      /\ a[N] = x /\ \A i \in 1 .. n : a[i] = l[i]
  BY AppendProperties, LenProperties
<1> HIDE DEF n, a, N
<1>2. PICK p : /\ p[0] = EmptyReport /\ p[n] = FromJsonl(l)
               /\ \A i \in 1 .. n : p[i] = AddLine(p[i - 1], l[i])
  BY <1>1, ReportByLine
<1>3. PICK q : /\ q[0] = EmptyReport /\ q[N] = FromJsonl(a)
               /\ \A i \in 1 .. N : q[i] = AddLine(q[i - 1], a[i])
  BY <1>1, ReportByLine
<1> DEFINE T == {j \in Nat : j \in 0 .. n => q[j] = p[j]}
<1>4. 0 \in T
  BY <1>2, <1>3
<1>5. ASSUME NEW j \in Nat, j \in T PROVE j + 1 \in T
  <2> SUFFICES ASSUME j + 1 \in 0 .. n PROVE q[j + 1] = p[j + 1]
    OBVIOUS
  <2>1. j + 1 \in 1 .. n /\ j + 1 \in 1 .. N /\ j \in 0 .. n /\ (j + 1) - 1 = j
    BY <1>1
  <2>2. q[j + 1] = AddLine(q[j], a[j + 1]) /\ p[j + 1] = AddLine(p[j], l[j + 1]) /\ a[j + 1] = l[j + 1]
    BY <1>1, <1>2, <1>3, <2>1
  <2> QED BY <1>5, <2>1, <2>2
<1> HIDE DEF T
<1>6. \A j \in Nat : j \in T
  BY <1>4, <1>5, NatSetInduction
<1>7. n \in T /\ n \in 0 .. n /\ N \in 1 .. N /\ N - 1 = n
  BY <1>1, <1>6
<1>8. q[n] = p[n]
  BY <1>7 DEF T
<1>9. q[N] = AddLine(q[n], a[N])
  BY <1>3, <1>7
<1> QED BY <1>1, <1>2, <1>3, <1>8, <1>9 DEF a

-----------------------------------------------------------------------------
(* What the property says of one trail, part by part.                      *)
NotBlank(l) == {i \in DOMAIN l : l[i].is # Blank}
EventsOf(l) == {i \in DOMAIN l : l[i].is = "event"}
TimesOf(l) == {Time(l[i].record) : i \in EventsOf(l)} \ {0}

Covers(r, times) ==
    /\ {r.first_ts, r.last_ts} \subseteq times \cup {0}
    /\ \A ts \in times : r.first_ts <= ts /\ ts <= r.last_ts /\ r.first_ts > 0

LEMMA LinesOfAppend ==
    ASSUME NEW E, NEW l \in Seq(E), NEW x \in E
    PROVE  /\ NotBlank(Append(l, x)) = NotBlank(l) \cup (IF x.is # Blank THEN {Len(l) + 1} ELSE {})
           /\ Len(l) + 1 \notin NotBlank(l)
           /\ TimesOf(Append(l, x)) =
                 TimesOf(l) \cup (IF x.is = "event" THEN {Time(x.record)} \ {0} ELSE {})
<1> DEFINE n == Len(l)
           a == Append(l, x)
<1>1. /\ n \in Nat /\ DOMAIN l = 1 .. n /\ DOMAIN a = 1 .. n + 1
      /\ a[n + 1] = x /\ \A i \in 1 .. n : a[i] = l[i]
  BY AppendProperties, LenProperties
<1>2. \A i : i \in 1 .. n + 1 <=> i \in 1 .. n \/ i = n + 1
  BY <1>1
<1>3. n + 1 \notin 1 .. n
  BY <1>1
<1> HIDE DEF n, a
<1>4. NotBlank(a) = NotBlank(l) \cup (IF x.is # Blank THEN {n + 1} ELSE {})
  BY <1>1, <1>2 DEF NotBlank
<1>5. n + 1 \notin NotBlank(l)
  BY <1>1, <1>3 DEF NotBlank
<1>6. EventsOf(a) = EventsOf(l) \cup (IF x.is = "event" THEN {n + 1} ELSE {})
  BY <1>1, <1>2 DEF EventsOf
<1>7. \A i \in EventsOf(l) : a[i] = l[i]
  BY <1>1 DEF EventsOf
<1>8. TimesOf(a) = TimesOf(l) \cup (IF x.is = "event" THEN {Time(x.record)} \ {0} ELSE {})
  BY <1>1, <1>6, <1>7 DEF TimesOf
<1> QED BY <1>4, <1>5, <1>8 DEF n, a

LEMMA DatingCovers ==
    ASSUME NEW r, r.first_ts \in Nat, r.last_ts \in Nat,
           NEW times \in SUBSET Nat, 0 \notin times, Covers(r, times),
           NEW ts \in Nat,
           NEW q, q.first_ts = Earlier(r.first_ts, ts), q.last_ts = Later(r.last_ts, ts)
    PROVE  Covers(q, times \cup ({ts} \ {0}))
<1> DEFINE f == r.first_ts
           l == r.last_ts
           g == q.first_ts
           m == q.last_ts
           all == times \cup ({ts} \ {0})
<1>0. /\ f \in Nat /\ l \in Nat /\ {f, l} \subseteq times \cup {0}
      /\ \A t \in times : f <= t /\ t <= l /\ f > 0
      /\ g = Earlier(f, ts) /\ m = Later(l, ts)
  BY DEF Covers
<1> HIDE DEF f, l, g, m
<1>1. CASE ts = 0
  <2>1. g = f /\ m = l /\ all = times
    BY <1>0, <1>1 DEF Earlier, Later
  <2> QED BY <1>0, <2>1 DEF Covers, f, l, g, m
<1>2. CASE ts # 0 /\ f = 0
  <2>1. times = {}
    BY <1>0, <1>2
  <2>2. l = 0
    BY <1>0, <2>1
  <2>3. g = ts /\ m = ts /\ all = {ts}
    BY <1>0, <1>2, <2>1, <2>2 DEF Earlier, Later
  <2> QED BY <1>2, <2>3 DEF Covers, g, m
<1>3. CASE ts # 0 /\ f # 0
  <2>1. f \in times /\ l # 0 /\ l \in times
    BY <1>0, <1>3
  <2>2. /\ g \in {f, ts} /\ g <= f /\ g <= ts /\ g > 0
        /\ m \in {l, ts} /\ l <= m /\ ts <= m
    BY <1>0, <1>3 DEF Earlier, Later
  <2>3. g \in all /\ m \in all /\ g \in Nat /\ m \in Nat
    BY <1>0, <1>3, <2>1, <2>2
  <2>4. \A t \in all : g <= t /\ t <= m
    BY <1>0, <2>2, <2>3
  <2> QED BY <2>2, <2>3, <2>4 DEF Covers, g, m
<1> QED BY <1>1, <1>2, <1>3

\* All that holds of the report of a sequence of texts.
Told(l) ==
    LET r == FromJsonl(l)
    IN  /\ IsReport(r)
        /\ IsFiniteSet(NotBlank(l)) /\ r.events + r.malformed = Cardinality(NotBlank(l))
        /\ TimesOf(l) \in SUBSET Nat /\ 0 \notin TimesOf(l) /\ Covers(r, TimesOf(l))

LEMMA ReportTells ==
    ASSUME NEW E, \A x \in E : IsText(x), NEW lines \in Seq(E)
    PROVE  Told(lines)
<1> DEFINE T == {l \in Seq(E) : Told(l)}
<1>1. <<>> \in T
  <2>1. NotBlank(<<>>) = {} /\ TimesOf(<<>>) = {}
    BY DEF NotBlank, TimesOf, EventsOf
  <2> DEFINE r == EmptyReport
  <2>2. r.events = 0 /\ r.malformed = 0 /\ r.first_ts = 0 /\ r.last_ts = 0
    BY DEF EmptyReport
  <2>3. IsReport(r) /\ r = FromJsonl(<<>>)
    BY ReportOfNone, EmptyIsReport
  <2> HIDE DEF r
  <2>4. Covers(r, {})
    BY <2>2 DEF Covers
  <2>5. IsFiniteSet({}) /\ Cardinality({}) = 0 /\ 0 + 0 = 0
    BY FS_EmptySet
  <2>6. Told(<<>>)
    BY <2>1, <2>2, <2>3, <2>4, <2>5 DEF Told
  <2>7. <<>> \in Seq(E)
    OBVIOUS
  <2> QED BY <2>6, <2>7
<1>2. ASSUME NEW l \in Seq(E), NEW x \in E, l \in T PROVE Append(l, x) \in T
  <2> DEFINE r == FromJsonl(l)
             a == Append(l, x)
             q == FromJsonl(a)
  <2>1. /\ IsReport(r)
        /\ IsFiniteSet(NotBlank(l)) /\ r.events + r.malformed = Cardinality(NotBlank(l))
        /\ TimesOf(l) \in SUBSET Nat /\ 0 \notin TimesOf(l) /\ Covers(r, TimesOf(l))
    BY <1>2 DEF Told
  <2>2. q = AddLine(r, x) /\ a \in Seq(E) /\ IsText(x)
    BY ReportOfAppend, AppendProperties
  <2>3. /\ NotBlank(a) = NotBlank(l) \cup (IF x.is # Blank THEN {Len(l) + 1} ELSE {})
        /\ Len(l) + 1 \notin NotBlank(l)
        /\ TimesOf(a) = TimesOf(l) \cup (IF x.is = "event" THEN {Time(x.record)} \ {0} ELSE {})
    BY LinesOfAppend
  <2>4. /\ x.is = Blank => q = r
        /\ x.is = Broken => q = Malformed(r)
        /\ x.is = "event" => q = Made(r, x.record) /\ Time(x.record) \in Nat
        /\ x.is \in {Blank, Broken, "event"}
        /\ IsReport(q)
    BY <2>1, <2>2, AddLineIs
  <2> HIDE DEF q, r, a, T
  <2>5. /\ IsFiniteSet(NotBlank(a))
        /\ Cardinality(NotBlank(a)) = IF x.is = Blank THEN Cardinality(NotBlank(l))
                                      ELSE Cardinality(NotBlank(l)) + 1
    <3>1. CASE x.is = Blank
      BY <2>1, <2>3, <3>1
    <3>2. CASE x.is # Blank
      BY <2>1, <2>3, <3>2, FS_AddElement
    <3> QED BY <3>1, <3>2
  <2>6. CASE x.is = Blank
    <3>1. q = r /\ TimesOf(a) = TimesOf(l)
      BY <2>3, <2>4, <2>6 DEF Blank
    <3>2. Told(a)
      BY <2>1, <2>5, <2>6, <3>1 DEF Told, q
    <3> QED BY <2>2, <3>2 DEF T, a
  <2>7. CASE x.is = Broken
    <3>1. /\ TimesOf(a) = TimesOf(l) /\ SameBesides(q, r) /\ q.malformed = r.malformed + 1
      BY <2>1, <2>3, <2>4, <2>7, MalformedFields DEF Broken
    <3>2. q.events + q.malformed = Cardinality(NotBlank(a))
      BY <2>1, <2>5, <2>7, <3>1 DEF SameBesides, IsReport, Blank, Broken
    <3>3. Covers(q, TimesOf(a))
      BY <2>1, <3>1 DEF SameBesides, Covers
    <3>4. Told(a)
      BY <2>1, <2>4, <2>5, <3>1, <3>2, <3>3 DEF Told, q
    <3> QED BY <2>2, <3>4 DEF T, a
  <2>8. CASE x.is = "event"
    <3>1. /\ TimesOf(a) = TimesOf(l) \cup ({Time(x.record)} \ {0})
          /\ NumbersOf(q, r, x.record) /\ Time(x.record) \in Nat
      BY <2>1, <2>3, <2>4, <2>8, MadeFields DEF IsReport
    <3>2. q.events + q.malformed = Cardinality(NotBlank(a))
      BY <2>1, <2>5, <2>8, <3>1 DEF NumbersOf, IsReport, Blank
    <3>3. Covers(q, TimesOf(a))
      <4>1. /\ r.first_ts \in Nat /\ r.last_ts \in Nat
            /\ q.first_ts = Earlier(r.first_ts, Time(x.record))
            /\ q.last_ts = Later(r.last_ts, Time(x.record))
        BY <2>1, <3>1 DEF NumbersOf, IsReport
      <4> DEFINE ts == Time(x.record)
      <4>2. ts \in Nat /\ q.first_ts = Earlier(r.first_ts, ts) /\ q.last_ts = Later(r.last_ts, ts)
        BY <3>1, <4>1
      <4> HIDE DEF ts
      <4>3. Covers(q, TimesOf(l) \cup ({ts} \ {0}))
        BY <2>1, <4>1, <4>2, DatingCovers
      <4> QED BY <3>1, <4>3 DEF ts
    <3>4. TimesOf(a) \in SUBSET Nat /\ 0 \notin TimesOf(a)
      BY <2>1, <3>1
    <3>5. Told(a)
      BY <2>4, <2>5, <3>2, <3>3, <3>4 DEF Told, q
    <3> QED BY <2>2, <3>5 DEF T, a
  <2> QED BY <2>4, <2>6, <2>7, <2>8 DEF a
<1> HIDE DEF T
<1>3. Seq(E) \subseteq T
  BY <1>1, <1>2, SeqInduction
<1> QED BY <1>3 DEF T

(* A line in front is read as one behind.                                  *)
LEMMA ReportOfPrepend ==
    ASSUME NEW E, \A x \in E : IsText(x), NEW x \in E, NEW lines \in Seq(E)
    PROVE  FromJsonl(<<x>> \o lines) = AddLine(FromJsonl(lines), x)
<1> DEFINE T == {l \in Seq(E) : FromJsonl(<<x>> \o l) = AddLine(FromJsonl(l), x)}
<1>0. <<x>> \in Seq(E) /\ <<>> \in Seq(E) /\ <<x>> = Append(<<>>, x) /\ <<x>> \o <<>> = <<x>>
  OBVIOUS
<1>1. <<>> \in T
  BY <1>0, ReportOfAppend
<1>2. ASSUME NEW l \in Seq(E), NEW y \in E, l \in T PROVE Append(l, y) \in T
  <2>1. /\ <<x>> \o Append(l, y) = Append(<<x>> \o l, y) /\ <<x>> \o l \in Seq(E)
        /\ Append(l, y) \in Seq(E)
    BY <1>0, ConcatAppend, ConcatProperties, AppendProperties
  <2>2. FromJsonl(<<x>> \o Append(l, y)) = AddLine(FromJsonl(<<x>> \o l), y)
    BY <2>1, ReportOfAppend
  <2>3. FromJsonl(<<x>> \o l) = AddLine(FromJsonl(l), x)
    BY <1>2
  <2>4. FromJsonl(Append(l, y)) = AddLine(FromJsonl(l), y)
    BY ReportOfAppend
  <2>5. IsReport(FromJsonl(l)) /\ IsText(x) /\ IsText(y)
    BY ReportTells DEF Told
  <2>6. AddLine(AddLine(FromJsonl(l), x), y) = AddLine(AddLine(FromJsonl(l), y), x)
    BY <2>5, LinesCommute
  <2> QED BY <2>1, <2>2, <2>3, <2>4, <2>6
<1> HIDE DEF T
<1>3. Seq(E) \subseteq T
  BY <1>1, <1>2, SeqInduction
<1> QED BY <1>3 DEF T

LEMMA ReverseOfAppend ==
    ASSUME NEW E, NEW l \in Seq(E), NEW x \in E
    PROVE  Reverse(Append(l, x)) = <<x>> \o Reverse(l) /\ Reverse(l) \in Seq(E)
<1> DEFINE n == Len(l)
           a == Append(l, x)
           b == Reverse(l)
           c == <<x>> \o b
<1>1. /\ n \in Nat /\ a \in Seq(E) /\ Len(a) = n + 1 /\ a[n + 1] = x
      /\ \A i \in 1 .. n : a[i] = l[i] /\ l[i] \in E
  BY AppendProperties, LenProperties, ElementOfSeq
<1>2. \A i \in 1 .. n : n - i + 1 \in 1 .. n
  BY <1>1
<1>3. b \in Seq(E) /\ Len(b) = n /\ \A i \in 1 .. n : b[i] = l[n - i + 1]
  BY <1>1, <1>2 DEF Reverse
<1>4. ASSUME NEW i \in 1 .. n + 1
      PROVE  /\ (n + 1) - i + 1 \in 1 .. n + 1
             /\ i = 1 => (n + 1) - i + 1 = n + 1
             /\ i # 1 => i - 1 \in 1 .. n /\ (n + 1) - i + 1 \in 1 .. n
             /\ n - (i - 1) + 1 = (n + 1) - i + 1
  BY <1>1
<1>5. /\ Reverse(a) \in Seq(E) /\ Len(Reverse(a)) = n + 1
      /\ \A i \in 1 .. n + 1 : Reverse(a)[i] = a[(n + 1) - i + 1]
  <2>1. \A i \in 1 .. n + 1 : a[(n + 1) - i + 1] \in E
    BY <1>1, <1>4, ElementOfSeq
  <2> HIDE DEF a
  <2> QED BY <1>1, <2>1 DEF Reverse
<1> HIDE DEF n, a, b
<1>6. <<x>> \in Seq(E) /\ Len(<<x>>) = 1 /\ <<x>>[1] = x
  OBVIOUS
<1>7. /\ c \in Seq(E) /\ Len(c) = 1 + n
      /\ \A i \in 1 .. 1 + n : c[i] = IF i <= 1 THEN <<x>>[i] ELSE b[i - 1]
  <2>1. /\ c \in Seq(E) /\ Len(c) = Len(<<x>>) + Len(b)
        /\ \A i \in 1 .. Len(<<x>>) + Len(b) :
              c[i] = IF i <= Len(<<x>>) THEN <<x>>[i] ELSE b[i - Len(<<x>>)]
    BY <1>3, <1>6, ConcatProperties
  <2> HIDE DEF c
  <2> QED BY <1>3, <1>6, <2>1
<1> HIDE DEF c
<1>8. \A i \in 1 .. n + 1 : c[i] = Reverse(a)[i]
  <2> SUFFICES ASSUME NEW i \in 1 .. n + 1 PROVE c[i] = Reverse(a)[i]
    OBVIOUS
  <2>1. CASE i = 1
    BY <1>1, <1>4, <1>5, <1>6, <1>7, <2>1
  <2>2. CASE i # 1
    <3>1. /\ i - 1 \in 1 .. n /\ (n + 1) - i + 1 \in 1 .. n /\ n - (i - 1) + 1 = (n + 1) - i + 1
          /\ i \in 1 .. 1 + n /\ ~(i <= 1)
      BY <1>1, <1>4, <2>2
    <3>2. c[i] = b[i - 1]
      BY <1>7, <3>1
    <3>3. b[i - 1] = l[(n + 1) - i + 1]
      BY <1>3, <3>1
    <3>4. Reverse(a)[i] = l[(n + 1) - i + 1]
      BY <1>1, <1>5, <3>1
    <3> QED BY <3>2, <3>3, <3>4
  <2> QED BY <2>1, <2>2
<1>9. c = Reverse(a)
  <2>1. 1 + n = n + 1
    BY <1>1
  <2> QED BY <1>5, <1>7, <1>8, <2>1, SeqEqual
<1> QED BY <1>3, <1>9 DEF a, b, c

LEMMA ReportOfReverse ==
    ASSUME NEW E, \A x \in E : IsText(x), NEW lines \in Seq(E)
    PROVE  FromJsonl(Reverse(lines)) = FromJsonl(lines)
<1> DEFINE T == {l \in Seq(E) : FromJsonl(Reverse(l)) = FromJsonl(l)}
<1>1. <<>> \in T
  <2>1. Reverse(<<>>) = <<>>
    BY DEF Reverse
  <2> QED BY <2>1
<1>2. ASSUME NEW l \in Seq(E), NEW x \in E, l \in T PROVE Append(l, x) \in T
  <2>1. Reverse(Append(l, x)) = <<x>> \o Reverse(l) /\ Reverse(l) \in Seq(E)
    BY ReverseOfAppend
  <2>2. FromJsonl(Reverse(Append(l, x))) = AddLine(FromJsonl(Reverse(l)), x)
    BY <2>1, ReportOfPrepend
  <2>3. FromJsonl(Append(l, x)) = AddLine(FromJsonl(l), x)
    BY ReportOfAppend
  <2> QED BY <1>2, <2>2, <2>3, AppendProperties
<1> HIDE DEF T
<1>3. Seq(E) \subseteq T
  BY <1>1, <1>2, SeqInduction
<1> QED BY <1>3 DEF T

-----------------------------------------------------------------------------
(* What a trail can hold.                                                  *)
AllLines == LineKinds \cup UNION {ToSet(lines) : lines \in Archived}
TrailsHoldLines ==
    /\ DOMAIN trail = Trails
    /\ \A t \in Trails : trail[t] = Missing \/ trail[t] \in Seq(AllLines)

LEMMA LinesAreLines ==
    /\ \A line \in AllLines : IsLine(line)
    /\ \A lines \in Archived : lines \in Seq(AllLines)
<1>1. \A line \in AllLines : IsLine(line)
  BY LinesAssumption DEF AllLines
<1>2. ASSUME NEW lines \in Archived PROVE lines \in Seq(AllLines)
  <2>1. lines \in Seq(ToSet(lines)) /\ ToSet(lines) \subseteq AllLines
    BY LinesAssumption DEF AllLines
  <2>2. \A i \in 1 .. Len(lines) : lines[i] \in AllLines
    BY <2>1, ElementOfSeq
  <2> QED BY <2>1, <2>2, SeqNarrows
<1> QED BY <1>1, <1>2

LEMMA TrailsAtFirst == ReportInit => TrailsHoldLines
<1>1. <<>> \in Seq(AllLines)
  OBVIOUS
<1> QED BY <1>1 DEF ReportInit, TrailsHoldLines

LEMMA TrailsAreKept == TrailsHoldLines /\ [ReportNext]_reportVars => TrailsHoldLines'
<1> SUFFICES ASSUME TrailsHoldLines, [ReportNext]_reportVars PROVE TrailsHoldLines'
  OBVIOUS
<1>1. CASE UNCHANGED trail
  BY <1>1 DEF TrailsHoldLines
<1>2. ASSUME NEW line \in LineKinds, AppendLine(line) PROVE TrailsHoldLines'
  <2>1. line \in AllLines
    BY DEF AllLines
  <2>2. trail' = [trail EXCEPT ![Live] = Append(trail[Live], line)] /\ trail[Live] # Missing
    BY <1>2 DEF AppendLine
  <2>3. Live \in Trails => Append(trail[Live], line) \in Seq(AllLines)
    BY <2>1, <2>2, AppendProperties DEF TrailsHoldLines
  <2> QED BY <2>2, <2>3 DEF TrailsHoldLines
<1>3. ASSUME NEW t \in Trails, ReplaceTrail(t) PROVE TrailsHoldLines'
  <2>1. PICK lines \in {Missing} \cup Archived : trail' = [trail EXCEPT ![t] = lines]
    BY <1>3 DEF ReplaceTrail
  <2>2. lines = Missing \/ lines \in Seq(AllLines)
    BY LinesAreLines
  <2> QED BY <2>1, <2>2 DEF TrailsHoldLines
<1>4. CASE BuildReport \/ SwitchLanguage \/ \E t \in Trails : EditPath(t)
  BY <1>1, <1>4 DEF BuildReport, SwitchLanguage, EditPath, files
<1>5. CASE UNCHANGED reportVars
  BY <1>1, <1>5 DEF reportVars, files
<1> QED BY <1>2, <1>3, <1>4, <1>5 DEF ReportNext

(* The report is of the whole trail, for any lines, of whatever schema and *)
(* in whatever order: every line that is not blank is in it as an event or *)
(* as malformed, the period covers every event that has a time, and lines  *)
(* written in the opposite order give the same report (from_jsonl).        *)
THEOREM WholeTrailIsReported == ReportSpec => []TheReportIsOfTheWholeTrail
<1>1. ASSUME TrailsHoldLines, NEW t \in Trails, Readable(trail[t])
      PROVE  LET lines == trail[t]
                 report == FromJsonl(lines)
             IN  /\ report.events + report.malformed = Cardinality(NotBlank(lines))
                 /\ Covers(report, TimesOf(lines))
                 /\ FromJsonl(Reverse(lines)) = report
  <2> DEFINE lines == trail[t]
             Texts == {line \in AllLines : line.is # NotUtf8}
  <2>1. lines \in Seq(AllLines) /\ DOMAIN lines = 1 .. Len(lines)
    BY <1>1, LenProperties DEF TrailsHoldLines, Readable
  <2>2. \A i \in 1 .. Len(lines) : lines[i] \in Texts
    BY <1>1, <2>1, ElementOfSeq DEF Readable
  <2>3. \A line \in Texts : IsText(line)
    BY LinesAreLines DEF IsText
  <2> HIDE DEF lines, Texts
  <2>4. lines \in Seq(Texts)
    BY <2>1, <2>2, SeqNarrows
  <2>5. Told(lines) /\ FromJsonl(Reverse(lines)) = FromJsonl(lines)
    BY <2>3, <2>4, ReportTells, ReportOfReverse
  <2> QED BY <2>5 DEF Told, lines
<1>2. TrailsHoldLines => TheReportIsOfTheWholeTrail
  BY <1>1 DEF TheReportIsOfTheWholeTrail, NotBlank, TimesOf, EventsOf, Covers
<1> QED BY <1>2, TrailsAtFirst, TrailsAreKept, PTL DEF ReportSpec

-----------------------------------------------------------------------------
(* The report tab.  What it offers is a place reports go to.               *)
OffersAPlace ==
    /\ audit_path \in Trails
    /\ DOMAIN html = ToSet(OutOf)
    /\ report_path # Absent => \E place \in ToSet(OutOf) : report_path = <<place>>

RInv == OffersAPlace /\ TheReportOfferedIsTheOneShown

LEMMA RInvAtFirst == ReportInit => RInv
BY DEF ReportInit, RInv, OffersAPlace, TheReportOfferedIsTheOneShown

(* A build leaves the old offer as it was, or offers what it wrote.        *)
LEMMA BuildOffersWhatItWrote ==
    ASSUME NEW path, NEW summary, RInv, Build(lang', path, summary),
           UNCHANGED <<trail, audit_path>>,
           \/ path = Absent /\ summary = Absent
           \/ path = report_path /\ summary = report_summary /\ UNCHANGED lang
    PROVE  RInv'
<1> DEFINE report == FromJsonl(trail[audit_path])
           out == OutOf[audit_path]
           page == Page(report, lang', audit_path)
<1>0. out \in ToSet(OutOf) /\ out \in DOMAIN html
  BY OutOfAssumption DEF RInv, OffersAPlace, ToSet
<1>1. CASE UNCHANGED html /\ report_path' = path /\ report_summary' \in {summary, Absent}
  BY <1>1 DEF RInv, OffersAPlace, TheReportOfferedIsTheOneShown
<1>2. CASE html' = [html EXCEPT ![out] = Partial] /\ report_path' = path /\ report_summary' = summary
  BY <1>0, <1>2 DEF RInv, OffersAPlace, TheReportOfferedIsTheOneShown, Partial, Absent
<1>3. CASE /\ html' = [html EXCEPT ![out] = Whole(page)]
           /\ report_path' = <<out>> /\ report_summary' = <<report>>
  <2>1. html'[out] = Whole(page) /\ DOMAIN html' = DOMAIN html
    BY <1>0, <1>3
  <2>2. OffersAPlace'
    BY <1>0, <1>3, <2>1 DEF RInv, OffersAPlace
  <2>3. page.lang = lang'
    BY DEF Page
  <2>4. audit_path \in Trails
    BY DEF RInv, OffersAPlace
  <2> HIDE DEF page, report, out
  <2>5. html'[report_path'[1]] = <<[whole |-> TRUE, page |-> page]>> /\ report_summary'[1] = report
    BY <1>3, <2>1 DEF Whole
  <2>6. page = Page(report_summary'[1], lang', audit_path)
    BY <2>5 DEF page
  <2> QED BY <1>3, <2>2, <2>3, <2>4, <2>5, <2>6
          DEF RInv, TheReportOfferedIsTheOneShown, Absent
<1> QED BY <1>1, <1>2, <1>3 DEF Build

LEMMA RInvIsKept == RInv /\ [ReportNext]_reportVars => RInv'
<1> SUFFICES ASSUME RInv, [ReportNext]_reportVars PROVE RInv'
  OBVIOUS
<1>1. CASE UNCHANGED <<html, lang, report_path, report_summary>> /\ audit_path' \in Trails
  BY <1>1 DEF RInv, OffersAPlace, TheReportOfferedIsTheOneShown
<1>2. CASE BuildReport
  <2>1. Build(lang', report_path, report_summary) /\ UNCHANGED <<trail, audit_path, lang>>
    BY <1>2 DEF BuildReport
  <2> QED BY <2>1, BuildOffersWhatItWrote
<1>3. CASE SwitchLanguage
  <2>1. CASE report_path = Absent
    BY <1>3, <2>1 DEF SwitchLanguage, RInv, OffersAPlace, TheReportOfferedIsTheOneShown
  <2>2. CASE report_path # Absent
    <3>1. Build(lang', Absent, Absent) /\ UNCHANGED <<trail, audit_path>>
      BY <1>3, <2>2 DEF SwitchLanguage
    <3> QED BY <3>1, BuildOffersWhatItWrote
  <2> QED BY <2>1, <2>2
<1>4. CASE UNCHANGED reportVars
  BY <1>1, <1>4 DEF reportVars, files, console, RInv, OffersAPlace
<1>5. ASSUME NEW line \in LineKinds, AppendLine(line) PROVE RInv'
  BY <1>1, <1>5 DEF AppendLine, console, RInv, OffersAPlace
<1>6. ASSUME NEW t \in Trails, ReplaceTrail(t) \/ EditPath(t) PROVE RInv'
  BY <1>1, <1>6 DEF ReplaceTrail, EditPath, console, files, RInv, OffersAPlace
<1> QED BY <1>2, <1>3, <1>4, <1>5, <1>6 DEF ReportNext

(* The report the console offers to open is one it wrote in the language   *)
(* it is showing, and the numbers it shows are those of that file: unless  *)
(* a write since has failed, whatever became of the trail meanwhile        *)
(* (build_report, switch_language).                                        *)
THEOREM WhatIsOfferedIsShown == ReportSpec => []TheReportOfferedIsTheOneShown
<1>1. RInv => TheReportOfferedIsTheOneShown
  BY DEF RInv
<1> QED BY <1>1, RInvAtFirst, RInvIsKept, PTL DEF ReportSpec

-----------------------------------------------------------------------------
(* Adding up the numbers of a tally, which goes through its values in an   *)
(* order nobody knows: the sum does not depend on it.                      *)
SumOf(t) == MapThenSumSet(LAMBDA kind : t[kind], DOMAIN t)
Some(S) == CHOOSE x \in S : TRUE
\* What it computes on its way, for sets of at most n values.
Small(D, n) == {S \in SUBSET D : Cardinality(S) <= n}
SumsUpTo(f, t, D, n) ==
    f = [S \in Small(D, n) |-> IF S = {} THEN 0 ELSE t[Some(S)] + f[S \ {Some(S)}]]
Sums(f, t, D) == f = [S \in SUBSET D |-> IF S = {} THEN 0 ELSE t[Some(S)] + f[S \ {Some(S)}]]

LEMMA OneLess ==
    ASSUME NEW D, IsFiniteSet(D), NEW S \in SUBSET D, NEW x \in S
    PROVE  /\ IsFiniteSet(S) /\ Cardinality(S) \in Nat /\ Cardinality(S) > 0
           /\ Cardinality(S \ {x}) = Cardinality(S) - 1
<1>1. IsFiniteSet(S)
  BY FS_Subset
<1>2. Cardinality(S \ {x}) = Cardinality(S) - 1 /\ Cardinality(S) \in Nat /\ Cardinality(S \ {x}) \in Nat
  BY <1>1, FS_RemoveElement, FS_CardinalityType
<1>3. QED
  BY <1>1, <1>2

LEMMA SomeIsIn == ASSUME NEW S, S # {} PROVE Some(S) \in S
BY DEF Some

LEMMA SumExists ==
    ASSUME NEW D, IsFiniteSet(D), NEW t
    PROVE  \A n \in Nat : \E f : SumsUpTo(f, t, D, n)
<1> DEFINE T == {n \in Nat : \E f : SumsUpTo(f, t, D, n)}
<1>1. 0 \in T
  <2>1. ASSUME NEW S \in Small(D, 0) PROVE S = {}
    <3>1. ASSUME S # {} PROVE FALSE
      <4>1. PICK x \in S : TRUE
        BY <3>1
      <4>2. S \in SUBSET D /\ Cardinality(S) <= 0
        BY DEF Small
      <4>3. Cardinality(S) \in Nat /\ Cardinality(S) > 0
        BY <4>1, <4>2, OneLess
      <4>4. QED
        BY <4>2, <4>3
    <3>2. QED
      BY <3>1
  <2>2. SumsUpTo([S \in Small(D, 0) |-> 0], t, D, 0)
    BY <2>1 DEF SumsUpTo
  <2>3. QED
    BY <2>2
<1>2. ASSUME NEW n \in Nat, n \in T PROVE n + 1 \in T
  <2>1. PICK f : SumsUpTo(f, t, D, n)
    BY <1>2
  <2> DEFINE g == [S \in Small(D, n + 1) |->
                      IF S \in Small(D, n) THEN f[S] ELSE t[Some(S)] + f[S \ {Some(S)}]]
  <2>2. ASSUME NEW S \in Small(D, n + 1)
        PROVE  g[S] = IF S = {} THEN 0 ELSE t[Some(S)] + g[S \ {Some(S)}]
    <3>1. CASE S = {}
      <4>1. S \in Small(D, n)
        BY <3>1, FS_EmptySet DEF Small
      <4>2. QED
        BY <2>1, <3>1, <4>1 DEF SumsUpTo
    <3>2. CASE S # {}
      <4> DEFINE R == S \ {Some(S)}
      <4>1. S \in SUBSET D /\ Cardinality(S) <= n + 1 /\ Some(S) \in S
        BY <3>2, SomeIsIn DEF Small
      <4>2. R \in SUBSET D /\ Cardinality(R) = Cardinality(S) - 1 /\ Cardinality(S) \in Nat
        BY <4>1, OneLess
      <4>3. R \in Small(D, n) /\ R \in Small(D, n + 1)
        <5>1. Cardinality(R) <= n /\ Cardinality(R) <= n + 1
          BY <4>1, <4>2
        <5> HIDE DEF R
        <5>2. QED
          BY <4>2, <5>1 DEF Small
      <4>4. g[R] = f[R]
        BY <4>3
      <4>5. CASE S \in Small(D, n)
        BY <2>1, <3>2, <4>4, <4>5 DEF SumsUpTo
      <4>6. CASE S \notin Small(D, n)
        BY <3>2, <4>4, <4>6
      <4>7. QED
        BY <4>5, <4>6
    <3>3. QED
      BY <3>1, <3>2
  <2>3. g = [S \in Small(D, n + 1) |-> g[S]]
    OBVIOUS
  <2> HIDE DEF g
  <2>4. SumsUpTo(g, t, D, n + 1)
    BY <2>2, <2>3 DEF SumsUpTo
  <2>5. QED
    BY <2>4
<1> HIDE DEF T
<1>3. \A n \in Nat : n \in T
  BY <1>1, <1>2, NatSetInduction
<1>4. QED
  BY <1>3 DEF T

LEMMA SumIsComputed ==
    ASSUME NEW t, IsFiniteSet(DOMAIN t)
    PROVE  \E f : Sums(f, t, DOMAIN t) /\ SumOf(t) = f[DOMAIN t]
<1> DEFINE F == CHOOSE f : Sums(f, t, DOMAIN t)
<1>1. \E f : Sums(f, t, DOMAIN t)
  <2>1. Cardinality(DOMAIN t) \in Nat
    BY FS_CardinalityType
  <2>2. PICK f : SumsUpTo(f, t, DOMAIN t, Cardinality(DOMAIN t))
    BY <2>1, SumExists
  <2>3. \A S \in SUBSET DOMAIN t : Cardinality(S) <= Cardinality(DOMAIN t)
    BY FS_Subset
  <2>4. Small(DOMAIN t, Cardinality(DOMAIN t)) = SUBSET DOMAIN t
    BY <2>3 DEF Small
  <2>5. QED
    BY <2>2, <2>4 DEF SumsUpTo, Sums
<1>2. Sums(F, t, DOMAIN t)
  BY <1>1
<1>3. SumOf(t) = F[DOMAIN t]
  BY DEF SumOf, MapThenSumSet, MapThenFoldSet, Sums, Some
<1>4. QED
  BY <1>2, <1>3

(* Any value may be the one that is added first.                           *)
FirstIsAny(f, t, S) == f[S] \in Nat /\ \A x \in S : f[S] = t[x] + f[S \ {x}]

LEMMA AnyOrder ==
    ASSUME NEW D, IsFiniteSet(D), NEW t, \A x \in D : t[x] \in Nat, NEW f, Sums(f, t, D)
    PROVE  \A S \in SUBSET D : FirstIsAny(f, t, S)
<1> DEFINE T == {n \in Nat : \A S \in SUBSET D : Cardinality(S) <= n => FirstIsAny(f, t, S)}
<1>1. /\ f[{}] = 0
      /\ \A S \in SUBSET D : S # {} => Some(S) \in S /\ f[S] = t[Some(S)] + f[S \ {Some(S)}]
  BY SomeIsIn DEF Sums
<1>2. FirstIsAny(f, t, {})
  BY <1>1 DEF FirstIsAny
<1>3. 0 \in T
  <2>1. ASSUME NEW S \in SUBSET D, Cardinality(S) <= 0 PROVE S = {}
    <3>1. ASSUME NEW x \in S PROVE FALSE
      <4>1. Cardinality(S) > 0 /\ Cardinality(S) \in Nat
        BY OneLess
      <4>2. QED
        BY <2>1, <4>1
    <3>2. QED
      BY <3>1
  <2>2. QED
    BY <1>2, <2>1
<1>4. ASSUME NEW n \in Nat, n \in T PROVE n + 1 \in T
  <2>1. ASSUME NEW S \in SUBSET D, Cardinality(S) <= n + 1, S # {} PROVE FirstIsAny(f, t, S)
    <3> DEFINE c == Some(S)  R == S \ {c}
    <3>1. c \in S /\ f[S] = t[c] + f[R] /\ t[c] \in Nat
      BY <1>1, <2>1
    <3>2. ASSUME NEW x \in S PROVE S \ {x} \in SUBSET D /\ FirstIsAny(f, t, S \ {x})
      <4>1. Cardinality(S \ {x}) = Cardinality(S) - 1 /\ Cardinality(S) \in Nat
        BY OneLess
      <4>2. Cardinality(S \ {x}) <= n
        BY <2>1, <4>1
      <4>3. QED
        BY <1>4, <4>2
    <3>3. FirstIsAny(f, t, R) /\ f[R] \in Nat
      BY <3>1, <3>2 DEF FirstIsAny
    <3>4. f[S] \in Nat
      BY <3>1, <3>3
    <3>5. ASSUME NEW x \in S PROVE f[S] = t[x] + f[S \ {x}]
      <4>1. CASE x = c
        BY <3>1, <4>1
      <4>2. CASE x # c
        <5> DEFINE Q == S \ {x}  both == R \ {x}
        <5>1. x \in R /\ c \in Q /\ Q \ {c} = both /\ c \in D /\ x \in D /\ R \in SUBSET D
          BY <3>1, <4>2
        <5>2. f[R] = t[x] + f[both] /\ f[Q] = t[c] + f[both]
          BY <3>2, <3>3, <5>1 DEF FirstIsAny
        <5>3. FirstIsAny(f, t, both)
          <6>1. Cardinality(both) = Cardinality(R) - 1 /\ Cardinality(R) \in Nat
            BY <5>1, OneLess
          <6>2. Cardinality(R) = Cardinality(S) - 1 /\ Cardinality(S) \in Nat
            BY <3>1, OneLess
          <6>3. Cardinality(both) <= n
            BY <2>1, <6>1, <6>2
          <6>4. both \in SUBSET D
            BY <5>1
          <6>5. QED
            BY <1>4, <6>3, <6>4
        <5>4. t[c] \in Nat /\ t[x] \in Nat /\ f[both] \in Nat
          BY <5>1, <5>3 DEF FirstIsAny
        <5> HIDE DEF Q, both, R, c
        <5>5. f[S] = t[x] + f[Q]
          BY <3>1, <5>2, <5>4
        <5>6. QED
          BY <5>5 DEF Q
      <4>3. QED
        BY <4>1, <4>2
    <3>6. QED
      BY <3>4, <3>5 DEF FirstIsAny
  <2>2. \A S \in SUBSET D : Cardinality(S) <= n + 1 => FirstIsAny(f, t, S)
    BY <1>2, <2>1
  <2>3. QED
    BY <2>2
<1> HIDE DEF T
<1>5. \A n \in Nat : n \in T
  BY <1>3, <1>4, NatSetInduction
<1>6. ASSUME NEW S \in SUBSET D PROVE FirstIsAny(f, t, S)
  <2>1. Cardinality(S) \in Nat
    BY FS_Subset, FS_CardinalityType
  <2>2. Cardinality(S) \in T
    BY <1>5, <2>1
  <2>3. Cardinality(S) <= Cardinality(S)
    BY <2>1
  <2>4. QED
    BY <2>2, <2>3 DEF T
<1>7. QED
  BY <1>6

LEMMA SameSums ==
    ASSUME NEW D, IsFiniteSet(D), NEW t, NEW f, Sums(f, t, D),
           NEW E, IsFiniteSet(E), NEW u, NEW g, Sums(g, u, E),
           \A x \in D \cap E : u[x] = t[x]
    PROVE  \A S \in SUBSET (D \cap E) : g[S] = f[S]
<1> DEFINE T == {n \in Nat : \A S \in SUBSET (D \cap E) : Cardinality(S) <= n => g[S] = f[S]}
<1>1. /\ f[{}] = 0 /\ g[{}] = 0
      /\ \A S \in SUBSET (D \cap E) : S # {} =>
            /\ Some(S) \in S
            /\ f[S] = t[Some(S)] + f[S \ {Some(S)}] /\ g[S] = u[Some(S)] + g[S \ {Some(S)}]
  BY SomeIsIn DEF Sums
<1>2. 0 \in T
  <2>1. ASSUME NEW S \in SUBSET (D \cap E), Cardinality(S) <= 0 PROVE S = {}
    <3>1. ASSUME NEW x \in S PROVE FALSE
      <4>1. S \in SUBSET D
        OBVIOUS
      <4>2. Cardinality(S) > 0 /\ Cardinality(S) \in Nat
        BY <4>1, OneLess
      <4>3. QED
        BY <2>1, <4>2
    <3>2. QED
      BY <3>1
  <2>2. QED
    BY <1>1, <2>1
<1>3. ASSUME NEW n \in Nat, n \in T PROVE n + 1 \in T
  <2>1. ASSUME NEW S \in SUBSET (D \cap E), Cardinality(S) <= n + 1, S # {} PROVE g[S] = f[S]
    <3> DEFINE c == Some(S)  R == S \ {c}
    <3>1. /\ c \in S /\ S \in SUBSET D /\ R \in SUBSET (D \cap E)
          /\ f[S] = t[c] + f[R] /\ g[S] = u[c] + g[R]
      BY <1>1, <2>1
    <3>2. Cardinality(R) = Cardinality(S) - 1 /\ Cardinality(S) \in Nat
      BY <3>1, OneLess
    <3>3. Cardinality(R) <= n
      BY <2>1, <3>2
    <3>4. g[R] = f[R] /\ u[c] = t[c]
      BY <1>3, <3>1, <3>3
    <3>5. QED
      BY <3>1, <3>4
  <2>2. \A S \in SUBSET (D \cap E) : Cardinality(S) <= n + 1 => g[S] = f[S]
    BY <1>1, <2>1
  <2>3. QED
    BY <2>2
<1> HIDE DEF T
<1>4. \A n \in Nat : n \in T
  BY <1>2, <1>3, NatSetInduction
<1>5. ASSUME NEW S \in SUBSET (D \cap E) PROVE g[S] = f[S]
  <2>1. S \in SUBSET D
    OBVIOUS
  <2>2. Cardinality(S) \in Nat
    BY <2>1, FS_Subset, FS_CardinalityType
  <2>3. Cardinality(S) \in T /\ Cardinality(S) <= Cardinality(S)
    BY <1>4, <2>2
  <2>4. QED
    BY <2>3 DEF T
<1>6. QED
  BY <1>5

(* A value more in a tally is one more in the sum of its numbers.          *)
LEMMA SumOfOneMore ==
    ASSUME NEW t, IsTally(t), IsFiniteSet(DOMAIN t), NEW v
    PROVE  LET u == t (+) SetToBag({v}) IN
           /\ IsTally(u) /\ IsFiniteSet(DOMAIN u)
           /\ SumOf(t) \in Nat /\ SumOf(u) = SumOf(t) + 1
<1> DEFINE one == SetToBag({v})
           u == t (+) one
           D == DOMAIN t
           E == DOMAIN u
           W == E \ {v}
<1>1. /\ IsTally(u) /\ E = D \cup {v} /\ IsTally(one) /\ DOMAIN one = {v} /\ one[v] = 1
  BY BagOfSet, BagSum DEF SetToBag
<1>2. IsFiniteSet(E)
  BY <1>1, FS_AddElement
<1>3. PICK f : Sums(f, t, D) /\ SumOf(t) = f[D]
  BY SumIsComputed
<1>4. PICK g : Sums(g, u, E) /\ SumOf(u) = g[E]
  BY <1>2, SumIsComputed
<1>5. \A x \in E : u[x] = (IF x \in D THEN t[x] ELSE 0) + (IF x \in {v} THEN one[x] ELSE 0)
  BY <1>1 DEF (+)
<1>6. (\A x \in D : t[x] \in Nat) /\ (\A x \in E : u[x] \in Nat)
  BY <1>1 DEF IsTally
<1>7. \A x \in W : x \in D /\ t[x] \in Nat /\ u[x] = t[x]
  <2>1. ASSUME NEW x \in W PROVE x \in D /\ t[x] \in Nat /\ u[x] = t[x]
    <3> HIDE DEF one
    <3>1. x \in D /\ x \notin {v} /\ t[x] \in Nat /\ x \in E
      BY <1>1, <1>6
    <3>2. u[x] = t[x] + 0
      BY <1>5, <3>1
    <3> HIDE DEF u
    <3>3. QED
      BY <3>1, <3>2
  <2>2. QED
    BY <2>1
<1>8. \A S \in SUBSET D : FirstIsAny(f, t, S)
  BY <1>3, <1>6, AnyOrder
<1>9. \A S \in SUBSET E : FirstIsAny(g, u, S)
  BY <1>2, <1>4, <1>6, AnyOrder
<1> HIDE DEF u, one, D, E
<1>10. W \in SUBSET D /\ W \in SUBSET E /\ D \in SUBSET D /\ E \in SUBSET E /\ v \in E
  BY <1>1, <1>7
<1>11. g[W] = f[W] /\ f[W] \in Nat
  <2>1. PICK w : Sums(w, [x \in W |-> t[x]], W)
    <3>1. DOMAIN [x \in W |-> t[x]] = W /\ IsFiniteSet(W)
      BY <1>2, <1>10, FS_Subset
    <3>2. QED
      BY <3>1, SumIsComputed
  <2>2. IsFiniteSet(W) /\ IsFiniteSet(D)
    BY <1>2, <1>10, FS_Subset DEF D
  <2> DEFINE part == [x \in W |-> t[x]]
  <2>3. \A x \in W : part[x] = t[x] /\ part[x] = u[x]
    BY <1>7
  <2>4. D \cap W = W /\ E \cap W = W
    BY <1>10
  <2> HIDE DEF part, W
  <2>5. \A S \in SUBSET W : w[S] = f[S]
    BY <1>3, <2>1, <2>2, <2>3, <2>4, SameSums DEF part
  <2>6. \A S \in SUBSET W : w[S] = g[S]
    BY <1>2, <1>4, <2>1, <2>2, <2>3, <2>4, SameSums DEF part
  <2>7. FirstIsAny(f, t, W)
    BY <1>8, <1>10
  <2>8. QED
    BY <2>5, <2>6, <2>7 DEF FirstIsAny
<1>12. g[E] = u[v] + g[W]
  BY <1>9, <1>10 DEF FirstIsAny
<1>13. u[v] = (IF v \in D THEN t[v] ELSE 0) + 1
  BY <1>1, <1>5
<1>14. CASE v \in D
  <2>1. W = D \ {v} /\ t[v] \in Nat
    BY <1>1, <1>6, <1>14
  <2>2. f[D] = t[v] + f[W] /\ f[D] \in Nat
    BY <1>8, <1>10, <1>14, <2>1 DEF FirstIsAny
  <2>3. g[E] = f[D] + 1
    BY <1>11, <1>12, <1>13, <1>14, <2>1, <2>2
  <2>4. QED
    BY <1>1, <1>2, <1>3, <1>4, <2>2, <2>3 DEF u, one, E
<1>15. CASE v \notin D
  <2>1. W = D
    BY <1>1, <1>15
  <2>2. f[D] \in Nat /\ u[v] = 0 + 1
    BY <1>8, <1>10, <1>13, <1>15 DEF FirstIsAny
  <2>3. g[E] = f[D] + 1
    BY <1>11, <1>12, <2>1, <2>2
  <2>4. QED
    BY <1>1, <1>2, <1>3, <1>4, <2>2, <2>3 DEF u, one, E
<1>16. QED
  BY <1>14, <1>15

LEMMA SumOfNone == SumOf(EmptyBag) = 0 /\ IsTally(EmptyBag) /\ IsFiniteSet(DOMAIN EmptyBag)
<1>1. DOMAIN EmptyBag = {} /\ IsTally(EmptyBag)
  BY BagOfSet DEF EmptyBag
<1>2. IsFiniteSet(DOMAIN EmptyBag)
  BY <1>1, FS_EmptySet
<1>3. PICK f : Sums(f, EmptyBag, {}) /\ SumOf(EmptyBag) = f[{}]
  BY <1>1, <1>2, SumIsComputed
<1>4. f[{}] = 0
  BY <1>3 DEF Sums
<1>5. QED
  BY <1>1, <1>2, <1>3, <1>4

-----------------------------------------------------------------------------
(* What an event of a request says, as far as the report counts it.        *)
LEMMA Merged ==
    ASSUME NEW p, NEW q, NEW n
    PROVE  n \in DOMAIN (p ++ q) <=> n \in DOMAIN p \/ n \in DOMAIN q
BY DEF ++
LEMMA MergedKeeps ==
    ASSUME NEW p, NEW q, NEW n \in DOMAIN p, n \notin DOMAIN q PROVE (p ++ q)[n] = p[n]
BY DEF ++
LEMMA MergedAdds == ASSUME NEW p, NEW q, NEW n \in DOMAIN q PROVE (p ++ q)[n] = q[n]
BY DEF ++

Counts(x) ==
    /\ Time(x) \in Nat
    /\ Kind(x) = x.event
    /\ IsFinding(x) => \E v : Value(Field(x, "detector")) = {v}

Starts(x, ts, kind) ==
    /\ "ts" \in DOMAIN x /\ "event" \in DOMAIN x
    /\ x["ts"] = ts /\ x["event"] = kind

LEMMA NewStarts == ASSUME NEW ts, NEW kind PROVE Starts(New(ts, kind), ts, kind)
BY DEF Starts, New
\* The fields that are set when the event is made are not set again.
Silent(b) == "ts" \notin DOMAIN b /\ "event" \notin DOMAIN b
NoDetector(b) == "detector" \notin DOMAIN b

LEMMA MergedStarts ==
    ASSUME NEW ts, NEW kind, NEW x, Starts(x, ts, kind), NEW b, Silent(b)
    PROVE  Starts(x ++ b, ts, kind)
BY Merged, MergedKeeps DEF Starts, Silent

LEMMA GivenFields ==
    ASSUME NEW name, name \notin {"ts", "event", "detector"}, NEW option
    PROVE  Silent(Given(name, option)) /\ NoDetector(Given(name, option))
BY DEF Given, Silent, NoDetector

LEMMA OtherFields ==
    ASSUME NEW i, NEW c, NEW option
    PROVE  /\ Silent(Destination(i, c)) /\ NoDetector(Destination(i, c))
           /\ Silent(Attachment(option)) /\ NoDetector(Attachment(option))
           /\ Silent(Caller(c)) /\ NoDetector(Caller(c))
           /\ Silent(Device(c)) /\ NoDetector(Device(c))
<1>1. Silent(Caller(c)) /\ NoDetector(Caller(c))
  <2>1. /\ Silent(Given("client_addr", c.client_addr)) /\ NoDetector(Given("client_addr", c.client_addr))
        /\ Silent(Given("upstream_model", c.upstream_model))
        /\ NoDetector(Given("upstream_model", c.upstream_model))
    BY GivenFields
  <2>2. QED
    BY <2>1, Merged DEF Silent, NoDetector, Caller
<1>2. Silent(Destination(i, c)) /\ NoDetector(Destination(i, c))
  BY DEF Silent, NoDetector, Destination
<1>3. Silent(Attachment(option)) /\ NoDetector(Attachment(option))
  BY DEF Silent, NoDetector, Attachment
<1>4. Silent(Device(c)) /\ NoDetector(Device(c))
  BY DEF Silent, NoDetector, Device
<1>5. QED
  BY <1>1, <1>2, <1>3, <1>4

LEMMA StartsCounts ==
    ASSUME NEW ts \in Nat, NEW kind, kind # "pii_detected", NEW x, Starts(x, ts, kind)
    PROVE  Counts(x)
BY DEF Starts, Counts, Time, Kind, IsFinding

LEMMA FindingCounts ==
    ASSUME NEW ts \in Nat, NEW f, f.kind # EmptyText, NEW i, NEW c
    PROVE  Counts(PiiDetected(f, i, c, ts))
<1> DEFINE b == New(ts, "pii_detected") ++ Destination(i, c) ++ Attachment(f.attachment) ++ Caller(c)
           mine == [detector |-> f.kind, data_type |-> f.kind, decision |-> f.decision,
                    source |-> f.source]
           d == b ++ mine
           e == d ++ Given("model_id", c.model_id)
           x == e ++ Device(c)
<1>1. "detector" \in DOMAIN mine /\ mine["detector"] = f.kind /\ Silent(mine)
  BY DEF Silent
<1>2. Starts(b, ts, "pii_detected")
  BY NewStarts, MergedStarts, OtherFields
<1>3. /\ Silent(Given("model_id", c.model_id)) /\ NoDetector(Given("model_id", c.model_id))
      /\ Silent(Device(c)) /\ NoDetector(Device(c))
  BY GivenFields, OtherFields
<1> HIDE DEF b, mine
<1>4. "detector" \in DOMAIN d /\ d["detector"] = f.kind /\ Starts(d, ts, "pii_detected")
  BY <1>1, <1>2, Merged, MergedAdds, MergedStarts
<1> HIDE DEF d
<1>5. "detector" \in DOMAIN e /\ e["detector"] = f.kind /\ Starts(e, ts, "pii_detected")
  BY <1>3, <1>4, Merged, MergedKeeps, MergedStarts DEF NoDetector
<1> HIDE DEF e
<1>6. "detector" \in DOMAIN x /\ x["detector"] = f.kind /\ Starts(x, ts, "pii_detected")
  BY <1>3, <1>5, Merged, MergedKeeps, MergedStarts DEF NoDetector
<1>7. x = PiiDetected(f, i, c, ts)
  BY DEF PiiDetected, b, d, e, mine
<1> HIDE DEF x
<1>8. Field(x, "detector") = <<f.kind>>
  BY <1>6 DEF Field
<1>9. Value(Field(x, "detector")) = {f.kind}
  BY <1>8 DEF Value
<1>10. Counts(x)
  BY <1>6, <1>9 DEF Counts, Starts, Time, Kind
<1>11. QED
  BY <1>7, <1>10

LEMMA RecordCounts ==
    ASSUME NEW h \in Handlers, NEW n \in 1 .. Events[h]
    PROVE  Counts(Content(<<h, n>>))
<1> DEFINE i == Inspection[h]
           c == Context[h]
           ts == Clock[h]
           found == [k \in DOMAIN i.findings |-> PiiDetected(i.findings[k], i, c, ts)]
           made == IF i.findings = <<>> THEN <<>> ELSE <<DecisionMade(i, c, ts)>>
           left == [k \in DOMAIN i.unread |-> AttachmentSkipped(i.unread[k], i, c, ts)]
           late == IF i.ner_skipped = <<>> THEN <<>> ELSE <<InspectionTimeout(i, c, ts)>>
           E == ToSet(found) \cup ToSet(made) \cup ToSet(left) \cup ToSet(late)
<1>1. /\ ts \in Nat /\ i.findings \in Seq(ToSet(i.findings)) /\ i.unread \in Seq(ToSet(i.unread))
      /\ \A finding \in ToSet(i.findings) : finding.kind # EmptyText
  BY InspectionAssumption
<1>2. DOMAIN i.findings = 1 .. Len(i.findings) /\ Len(i.findings) \in Nat
      /\ DOMAIN i.unread = 1 .. Len(i.unread) /\ Len(i.unread) \in Nat
  BY <1>1, LenProperties
<1>3. \A x \in ToSet(found) : Counts(x)
  <2>1. ASSUME NEW k \in DOMAIN i.findings PROVE Counts(PiiDetected(i.findings[k], i, c, ts))
    <3>1. i.findings[k].kind # EmptyText
      BY <1>1 DEF ToSet
    <3>2. QED
      BY <1>1, <3>1, FindingCounts
  <2>2. QED
    BY <2>1 DEF ToSet
<1>4. \A x \in ToSet(made) : Counts(x)
  <2>1. Starts(DecisionMade(i, c, ts), ts, "decision_made")
    <3>1. Silent([decision |-> i.decision, detail |-> [findings |-> <<ToString(Len(i.findings))>>]])
      BY DEF Silent
    <3>2. QED
      BY <3>1, NewStarts, MergedStarts, OtherFields DEF DecisionMade
  <2>2. Counts(DecisionMade(i, c, ts))
    BY <1>1, <2>1, StartsCounts
  <2>3. QED
    BY <2>2, ElementsOfOne, EmptyHasNothing
<1>5. \A x \in ToSet(left) : Counts(x)
  <2>1. ASSUME NEW k \in DOMAIN i.unread PROVE Counts(AttachmentSkipped(i.unread[k], i, c, ts))
    <3>1. Starts(AttachmentSkipped(i.unread[k], i, c, ts), ts, "attachment_skipped")
      <4>1. Silent([source |-> <<"attachment">>, detail |-> [reason |-> i.unread[k].reason]])
        BY DEF Silent
      <4>2. QED
        BY <4>1, NewStarts, MergedStarts, OtherFields DEF AttachmentSkipped
    <3>2. QED
      BY <1>1, <3>1, StartsCounts
  <2>2. QED
    BY <2>1 DEF ToSet
<1>6. \A x \in ToSet(late) : Counts(x)
  <2>1. Starts(InspectionTimeout(i, c, ts), ts, "inspection_timeout")
    <3>1. Silent([target_host |-> c.target_host, content_sha256 |-> i.digest,
                  detail |-> [reason |-> i.ner_skipped[1], layer |-> <<"ner">>]])
      BY DEF Silent
    <3>2. QED
      BY <3>1, NewStarts, MergedStarts DEF InspectionTimeout
  <2>2. Counts(InspectionTimeout(i, c, ts))
    BY <1>1, <2>1, StartsCounts
  <2>3. QED
    BY <2>2, ElementsOfOne, EmptyHasNothing
<1>7. \A x \in E : Counts(x)
  BY <1>3, <1>4, <1>5, <1>6
<1>8. Recorded(h) = found \o made \o left \o late
  BY DEF Recorded, RecordRequest
<1> HIDE DEF i, c, ts
<1>9. found \in Seq(E) /\ left \in Seq(E)
  <2>1. \A k \in DOMAIN found : found[k] \in E
    BY DEF ToSet
  <2>2. \A k \in DOMAIN left : left[k] \in E
    BY DEF ToSet
  <2>3. DOMAIN found = 1 .. Len(i.findings) /\ found = [k \in DOMAIN found |-> found[k]]
    BY <1>2
  <2>4. DOMAIN left = 1 .. Len(i.unread) /\ left = [k \in DOMAIN left |-> left[k]]
    BY <1>2
  <2> HIDE DEF found, left, E
  <2>5. QED
    BY SMTT(60), <1>2, <2>1, <2>2, <2>3, <2>4
<1>10. made \in Seq(E)
  <2>1. CASE i.findings = <<>>
    BY <2>1, EmptySeq
  <2>2. CASE i.findings # <<>>
    <3>1. DecisionMade(i, c, ts) \in E
      BY <2>2, ElementsOfOne
    <3> HIDE DEF E
    <3>2. QED
      BY <2>2, <3>1
  <2>3. QED
    BY <2>1, <2>2
<1>11. late \in Seq(E)
  <2>1. CASE i.ner_skipped = <<>>
    BY <2>1, EmptySeq
  <2>2. CASE i.ner_skipped # <<>>
    <3>1. InspectionTimeout(i, c, ts) \in E
      BY <2>2, ElementsOfOne
    <3> HIDE DEF E
    <3>2. QED
      BY <2>2, <3>1
  <2>3. QED
    BY <2>1, <2>2
<1> HIDE DEF found, made, left, late, E
<1>12. Recorded(h) \in Seq(E) /\ Len(Recorded(h)) = Events[h]
  <2>1. found \o made \in Seq(E)
    BY <1>9, <1>10, ConcatElements
  <2>2. found \o made \o left \in Seq(E)
    BY <1>9, <2>1, ConcatElements
  <2>3. found \o made \o left \o late \in Seq(E)
    BY <1>11, <2>2, ConcatElements
  <2>4. QED
    BY <1>8, <2>3, EventsAreRecorded
<1>13. Recorded(h)[n] \in E
  BY <1>12, ElementOfSeq
<1>14. QED
  BY <1>7, <1>13 DEF Content

-----------------------------------------------------------------------------
(* The file holds only events that were recorded, whole or torn.           *)
Parts == AuditEvents \cup {LineEnd} \cup {Torn(e) : e \in AuditEvents}
MInv ==
    /\ Sound
    /\ \A h \in Handlers : at[h] \in {"line", "newline", "syslog", "otlp"} => Busy(h)
    /\ file \in Seq(Parts)

LEMMA MInvAtFirst == Init => MInv
BY SoundAtFirst, EmptySeq DEF Init, MInv

LEMMA MInvIsKept == MInv /\ [Next]_vars => MInv'
<1> SUFFICES ASSUME MInv, [Next]_vars PROVE MInv'
  OBVIOUS
<1>1. Sound /\ Sound'
  BY SoundIsKept DEF MInv
<1>2. ASSUME NEW h \in Handlers, EmitStep(h)
      PROVE  MInv'
  <2>1. ASSUME NEW k \in Handlers, at'[k] \in {"line", "newline", "syslog", "otlp"}
        PROVE  emitted'[k] < Events[k]
    <3>1. CASE k = h
      BY <1>1, <1>2, <2>1, <3>1 DEF EmitStep, Lock, WriteLine, WriteLineEnd, WriteFails,
         SendDatagram, Enqueue, MoveTo, MInv, Busy, Sound
    <3>2. CASE k # h
      <4>1. at'[k] = at[k] /\ emitted'[k] = emitted[k]
        BY <1>1, <1>2, <3>2 DEF EmitStep, Lock, WriteLine, WriteLineEnd, WriteFails,
           SendDatagram, Enqueue, MoveTo, Sound
      <4>2. QED
        BY <2>1, <4>1 DEF MInv, Busy
    <3>3. QED
      BY <3>1, <3>2
  <2>2. CASE UNCHANGED file
    BY <1>1, <2>1, <2>2 DEF MInv, Busy
  <2>3. CASE at[h] \in {"line", "newline"} /\ ~UNCHANGED file
    <3>1. Event(h) \in AuditEvents
      BY <1>1, <2>3, EventsAssumption DEF MInv, Busy, Event, AuditEvents, Sound
    <3>2. Event(h) \in Parts /\ Torn(Event(h)) \in Parts /\ LineEnd \in Parts
      BY <3>1 DEF Parts
    <3>3. file' \in {Append(file, Event(h)), Append(file, Torn(Event(h))), Append(file, LineEnd)}
      BY <1>2, <2>3 DEF EmitStep, Lock, WriteLine, WriteLineEnd, WriteFails,
           SendDatagram, Enqueue, fileVars
    <3>4. file' \in Seq(Parts)
      BY SMTT(60), <3>2, <3>3, AppendProperties DEF MInv
    <3>5. QED
      BY <1>1, <2>1, <3>4 DEF MInv, Busy
  <2>4. QED
    BY <1>2, <2>2, <2>3 DEF EmitStep, Lock, WriteLine, WriteLineEnd, WriteFails,
       SendDatagram, Enqueue, fileVars
<1>3. CASE Restart
  <2>1. \A h \in Handlers : at'[h] \in {"jsonl", "gone"}
    BY <1>3 DEF Restart
  <2>2. UNCHANGED file
    BY <1>3 DEF Restart
  <2>3. QED
    BY <1>1, <2>1, <2>2 DEF MInv
<1>4. CASE ExporterStep \/ Answer \/ UNCHANGED vars
  <2>1. UNCHANGED <<at, emitted, file>>
    BY <1>4 DEF ExporterStep, ReceiveFirst, ReceiveMore, StartPost, Answer, PostStored,
                PostFails, PostRejected, vars, fileVars, handlerVars
  <2>2. QED
    BY <1>1, <2>1 DEF MInv, Busy
<1>5. QED
  BY <1>2, <1>3, <1>4 DEF Next

-----------------------------------------------------------------------------
(* Cutting a file into lines, one part after the other.                    *)
NothingRead == [lines |-> <<>>, rest |-> <<>>]
Cut(f) == FoldLeft(Read, NothingRead, f)
Cuts(g, f, n) ==
    g = [S \in SUBSET (1 .. n) |-> IF S = {} THEN NothingRead ELSE Read(g[S \ {Max(S)}], f[Max(S)])]

LEMMA CutsExist == ASSUME NEW v PROVE \A n \in Nat : \E g : Cuts(g, v, n)
<1> DEFINE T == {n \in Nat : \E f : Cuts(f, v, n)}
<1>1. 0 \in T
  <2>1. \A S \in SUBSET (1 .. 0) : S = {}
    OBVIOUS
  <2>2. Cuts([S \in SUBSET (1 .. 0) |-> NothingRead], v, 0)
    BY <2>1 DEF Cuts
  <2>3. QED
    BY <2>2
<1>2. ASSUME NEW n \in Nat, n \in T PROVE n + 1 \in T
  <2>1. PICK f : Cuts(f, v, n)
    BY <1>2
  <2> DEFINE g == [S \in SUBSET (1 .. n + 1) |-> IF n + 1 \in S THEN Read(f[S \ {n + 1}], v[n + 1])
                                                ELSE f[S]]
  <2>2. ASSUME NEW S \in SUBSET (1 .. n + 1)
        PROVE  g[S] = IF S = {} THEN NothingRead ELSE Read(g[S \ {Max(S)}], v[Max(S)])
    <3>1. CASE n + 1 \in S
      <4>1. S \in SUBSET (0 .. n + 1) /\ S # {} /\ n + 1 \in Nat
        BY <3>1
      <4>2. Max(S) \in S /\ \A y \in S : y <= Max(S)
        BY <4>1, MaxOfBounded
      <4>3. Max(S) = n + 1
        <5> HIDE DEF g
        <5>1. n + 1 <= Max(S) /\ Max(S) \in 1 .. n + 1
          BY <3>1, <4>2
        <5>2. QED
          BY <5>1
      <4>4. S \ {n + 1} \in SUBSET (1 .. n + 1) /\ n + 1 \notin S \ {n + 1}
        OBVIOUS
      <4>5. g[S \ {n + 1}] = f[S \ {n + 1}] /\ g[S] = Read(f[S \ {n + 1}], v[n + 1])
        BY <3>1, <4>4
      <4> HIDE DEF g
      <4>6. QED
        BY <3>1, <4>3, <4>5
    <3>2. CASE n + 1 \notin S
      <4>1. S \in SUBSET (1 .. n) /\ S \in SUBSET (0 .. n)
        BY <3>2
      <4>2. g[S] = f[S] /\ g[S \ {Max(S)}] = f[S \ {Max(S)}]
        BY <3>2
      <4>3. f[S] = IF S = {} THEN NothingRead ELSE Read(f[S \ {Max(S)}], v[Max(S)])
        BY <2>1, <4>1 DEF Cuts
      <4> HIDE DEF g
      <4>4. QED
        BY <4>2, <4>3
    <3>3. QED
      BY <3>1, <3>2
  <2>3. g = [S \in SUBSET (1 .. n + 1) |-> g[S]]
    OBVIOUS
  <2> HIDE DEF g
  <2>4. Cuts(g, v, n + 1)
    BY <2>2, <2>3 DEF Cuts
  <2>5. QED
    BY <2>4
<1> HIDE DEF T
<1>3. \A n \in Nat : n \in T
  BY <1>1, <1>2, NatSetInduction
<1>4. QED
  BY <1>3 DEF T

LEMMA CutByPart ==
    ASSUME NEW n \in Nat, NEW v, DOMAIN v = 1 .. n
    PROVE  \E p : /\ p[0] = NothingRead /\ p[n] = Cut(v)
                 /\ \A i \in 1 .. n : p[i] = Read(p[i - 1], v[i])
<1> DEFINE F == CHOOSE f : Cuts(f, v, n)
<1>1. Cuts(F, v, n)
  BY CutsExist
<1>2. Cut(v) = F[1 .. n]
  BY DEF Cut, FoldLeft, MapThenFoldSet, Cuts
<1> HIDE DEF F
<1> DEFINE p == [i \in 0 .. n |-> F[1 .. i]]
<1>3. p[0] = NothingRead /\ p[n] = Cut(v)
  <2>1. 1 .. 0 = {} /\ {} \in SUBSET (1 .. n)
    OBVIOUS
  <2>2. F[{}] = NothingRead
    BY <1>1, <2>1 DEF Cuts
  <2>3. QED
    BY <1>2, <2>1, <2>2
<1>4. ASSUME NEW i \in 1 .. n PROVE p[i] = Read(p[i - 1], v[i])
  <2>1. i \in 0 .. n /\ i - 1 \in 0 .. n /\ i \in Nat \ {0} /\ 1 .. i \in SUBSET (1 .. n)
    OBVIOUS
  <2>2. Max(1 .. i) = i /\ (1 .. i) \ {i} = 1 .. i - 1 /\ 1 .. i # {}
    BY <2>1, UpTo
  <2>3. F[1 .. i] = IF 1 .. i = {} THEN NothingRead
                    ELSE Read(F[(1 .. i) \ {Max(1 .. i)}], v[Max(1 .. i)])
    BY <1>1, <2>1 DEF Cuts
  <2>4. F[1 .. i] = Read(F[1 .. i - 1], v[i])
    BY <2>2, <2>3
  <2>5. QED
    BY <2>1, <2>4
<1>5. QED
  BY <1>3, <1>4

LEMMA CutOfNone == Cut(<<>>) = NothingRead
<1>1. DOMAIN <<>> = 1 .. 0 /\ 0 \in Nat
  OBVIOUS
<1>2. \E p : p[0] = NothingRead /\ p[0] = Cut(<<>>)
  BY <1>1, CutByPart
<1>3. QED
  BY <1>2

LEMMA CutOfAppend ==
    ASSUME NEW E, NEW l \in Seq(E), NEW x \in E
    PROVE  Cut(Append(l, x)) = Read(Cut(l), x)
<1> DEFINE n == Len(l)
           a == Append(l, x)
           N == n + 1
<1>1. /\ n \in Nat /\ DOMAIN l = 1 .. n /\ DOMAIN a = 1 .. N /\ N \in Nat /\ N = n + 1
      /\ a[N] = x /\ \A i \in 1 .. n : a[i] = l[i]
  BY AppendProperties, LenProperties
<1> HIDE DEF n, a, N
<1>2. PICK p : /\ p[0] = NothingRead /\ p[n] = Cut(l)
               /\ \A i \in 1 .. n : p[i] = Read(p[i - 1], l[i])
  BY <1>1, CutByPart
<1>3. PICK q : /\ q[0] = NothingRead /\ q[N] = Cut(a)
               /\ \A i \in 1 .. N : q[i] = Read(q[i - 1], a[i])
  BY <1>1, CutByPart
<1> DEFINE T == {j \in Nat : j \in 0 .. n => q[j] = p[j]}
<1>4. 0 \in T
  BY <1>2, <1>3
<1>5. ASSUME NEW j \in Nat, j \in T PROVE j + 1 \in T
  <2> SUFFICES ASSUME j + 1 \in 0 .. n PROVE q[j + 1] = p[j + 1]
    OBVIOUS
  <2>1. j + 1 \in 1 .. n /\ j + 1 \in 1 .. N /\ j \in 0 .. n /\ (j + 1) - 1 = j
    BY <1>1
  <2>2. q[j + 1] = Read(q[j], a[j + 1]) /\ p[j + 1] = Read(p[j], l[j + 1]) /\ a[j + 1] = l[j + 1]
    BY <1>1, <1>2, <1>3, <2>1
  <2>3. QED
    BY <1>5, <2>1, <2>2
<1> HIDE DEF T
<1>6. \A j \in Nat : j \in T
  BY <1>4, <1>5, NatSetInduction
<1>7. n \in T /\ n \in 0 .. n /\ N \in 1 .. N /\ N - 1 = n
  BY <1>1, <1>6
<1>8. q[n] = p[n]
  BY <1>7 DEF T
<1>9. q[N] = Read(q[n], a[N])
  BY <1>3, <1>7
<1>10. QED
  BY <1>1, <1>2, <1>3, <1>8, <1>9 DEF a

-----------------------------------------------------------------------------
(* What the lines that have ended amount to, position by position.         *)
Alone(f) ==
    {i \in DOMAIN f : /\ IsWhole(f[i]) /\ (i = 1 \/ f[i - 1] = LineEnd)
                      /\ i + 1 \in DOMAIN f /\ f[i + 1] = LineEnd}
Detected(f) == {i \in Alone(f) : Content(f[i]).event = "pii_detected"}
Behind(f) == Len(f) - Len(Cut(f).rest)
Spoiled(f) == {i \in 1 .. Behind(f) : f[i] # LineEnd /\ i \notin Alone(f)}
Parse(lines) == [n \in DOMAIN lines |-> Parsed(lines[n])]
ReportOf(f) == FromJsonl(Parse(Cut(f).lines))

CutInto(f) ==
    /\ Cut(f).lines \in Seq(Seq(Parts)) /\ Cut(f).rest \in Seq(Parts)
    /\ Behind(f) \in 0 .. Len(f) /\ (Behind(f) = 0 \/ f[Behind(f)] = LineEnd)
    /\ \A j \in 1 .. Len(Cut(f).rest) :
          Cut(f).rest[j] = f[Behind(f) + j] /\ Cut(f).rest[j] # LineEnd

LEMMA NothingIsCut == CutInto(<<>>)
<1>1. Cut(<<>>).lines = <<>> /\ Cut(<<>>).rest = <<>>
  BY CutOfNone DEF NothingRead
<1>2. Behind(<<>>) = 0
  BY <1>1 DEF Behind
<1>3. <<>> \in Seq(Parts) /\ <<>> \in Seq(Seq(Parts)) /\ Len(<<>>) = 0 /\ 1 .. 0 = {} /\ 0 \in 0 .. 0
  BY EmptySeq
<1>4. \A j \in 1 .. Len(Cut(<<>>).rest) : FALSE
  BY <1>1, <1>3
<1>5. QED
  BY <1>1, <1>2, <1>3, <1>4 DEF CutInto

LEMMA CutGoesOn ==
    ASSUME NEW f \in Seq(Parts), CutInto(f), NEW x \in Parts
    PROVE  LET a == Append(f, x) IN
           /\ CutInto(a)
           /\ x # LineEnd => Cut(a).lines = Cut(f).lines /\ Behind(a) = Behind(f)
           /\ x = LineEnd => /\ Cut(a).lines = Append(Cut(f).lines, Cut(f).rest)
                             /\ Behind(a) = Len(f) + 1
<1> DEFINE a == Append(f, x)
           k == Len(f)
           lines == Cut(f).lines
           rest == Cut(f).rest
           b == Behind(f)
<1>1. /\ a \in Seq(Parts) /\ Len(a) = k + 1 /\ k \in Nat
      /\ a[k + 1] = x /\ \A i \in 1 .. k : a[i] = f[i]
  BY AppendProperties, LenProperties
<1>2. Cut(a) = Read(Cut(f), x)
  BY CutOfAppend
<1>3. /\ lines \in Seq(Seq(Parts)) /\ rest \in Seq(Parts) /\ Len(rest) \in Nat
      /\ b \in 0 .. k /\ b = k - Len(rest) /\ (b = 0 \/ f[b] = LineEnd)
      /\ \A j \in 1 .. Len(rest) : rest[j] = f[b + j] /\ rest[j] # LineEnd
  BY LenProperties DEF CutInto, Behind
<1>4. CASE x = LineEnd
  <2>1. Cut(a).lines = Append(lines, rest) /\ Cut(a).rest = <<>>
    BY <1>2, <1>4 DEF Read
  <2> HIDE DEF a, lines, rest, k, b
  <2>2. Cut(a).lines \in Seq(Seq(Parts)) /\ Cut(a).rest \in Seq(Parts) /\ Len(Cut(a).rest) = 0
    BY <1>3, <2>1, AppendProperties, EmptySeq
  <2>3. Behind(a) = k + 1
    BY <1>1, <2>2 DEF Behind
  <2>4. CutInto(a)
    BY <1>1, <1>4, <2>2, <2>3 DEF CutInto
  <2>5. QED
    BY <1>4, <2>1, <2>3, <2>4 DEF a, lines, rest, k
<1>5. CASE x # LineEnd
  <2> DEFINE more == Append(rest, x)
  <2>1. Cut(a).lines = lines /\ Cut(a).rest = more
    BY <1>2, <1>5 DEF Read
  <2> HIDE DEF a, lines, rest, k, b
  <2>2. /\ more \in Seq(Parts) /\ Len(more) = Len(rest) + 1
        /\ more[Len(rest) + 1] = x /\ \A j \in 1 .. Len(rest) : more[j] = rest[j]
    BY <1>3, AppendProperties
  <2> HIDE DEF more
  <2>3. Behind(a) = b
    BY <1>1, <1>3, <2>1, <2>2 DEF Behind
  <2>4. b \in 0 .. Len(a) /\ (b = 0 \/ a[b] = LineEnd)
    BY <1>1, <1>3
  <2>5. ASSUME NEW j \in 1 .. Len(more) PROVE more[j] = a[b + j] /\ more[j] # LineEnd
    <3>1. CASE j \in 1 .. Len(rest)
      <4>1. b + j \in 1 .. k
        <5>1. b \in Nat /\ k \in Nat /\ Len(rest) \in Nat /\ b = k - Len(rest)
          BY <1>1, <1>3
        <5>2. QED
          BY <3>1, <5>1
      <4>2. QED
        BY <1>1, <1>3, <2>2, <3>1, <4>1
    <3>2. CASE j = Len(rest) + 1
      <4>1. b + j = k + 1
        BY <1>1, <1>3, <3>2
      <4>2. QED
        BY <1>1, <1>5, <2>2, <3>2, <4>1
    <3>3. QED
      BY <1>3, <2>2, <3>1, <3>2
  <2>6. CutInto(a)
    BY <1>3, <2>1, <2>2, <2>3, <2>4, <2>5 DEF CutInto
  <2>7. QED
    BY <1>5, <2>1, <2>3, <2>6 DEF a, lines, b
<1>6. QED
  BY <1>4, <1>5

LEMMA AloneIsFinite ==
    ASSUME NEW f \in Seq(Parts)
    PROVE  IsFiniteSet(Alone(f)) /\ IsFiniteSet(Detected(f)) /\ Len(f) \notin Alone(f)
<1>1. DOMAIN f = 1 .. Len(f) /\ Len(f) \in Nat
  BY LenProperties
<1>2. IsFiniteSet(1 .. Len(f))
  BY <1>1, FS_Interval
<1>3. Alone(f) \in SUBSET (1 .. Len(f)) /\ Detected(f) \in SUBSET (1 .. Len(f))
  BY <1>1 DEF Alone, Detected
<1>4. Len(f) \notin Alone(f)
  BY <1>1 DEF Alone
<1>5. QED
  BY <1>2, <1>3, <1>4, FS_Subset

\* The line that is being ended is one whole event, and nothing else.
OneEvent(f) == Len(Cut(f).rest) = 1 /\ IsWhole(f[Len(f)])

LEMMA PartsGrow ==
    ASSUME NEW f \in Seq(Parts), CutInto(f), NEW x \in Parts
    PROVE  LET a == Append(f, x) IN
           /\ x # LineEnd => Alone(a) = Alone(f) /\ Spoiled(a) = Spoiled(f)
           /\ x = LineEnd =>
                 /\ Alone(a) = Alone(f) \cup (IF OneEvent(f) THEN {Len(f)} ELSE {})
                 /\ Cut(f).rest = <<>> \/ OneEvent(f) => Spoiled(a) = Spoiled(f)
                 /\ Cut(f).rest # <<>> /\ ~OneEvent(f) => Spoiled(a) # {}
<1> DEFINE a == Append(f, x)
           k == Len(f)
           rest == Cut(f).rest
           b == Behind(f)
<1>1. /\ a \in Seq(Parts) /\ Len(a) = k + 1 /\ k \in Nat
      /\ a[k + 1] = x /\ \A i \in 1 .. k : a[i] = f[i]
      /\ DOMAIN a = 1 .. k + 1 /\ DOMAIN f = 1 .. k
  BY AppendProperties, LenProperties
<1>2. /\ rest \in Seq(Parts) /\ Len(rest) \in Nat
      /\ b \in 0 .. k /\ b = k - Len(rest) /\ (b = 0 \/ f[b] = LineEnd)
      /\ \A j \in 1 .. Len(rest) : rest[j] = f[b + j] /\ rest[j] # LineEnd
      /\ rest = <<>> <=> Len(rest) = 0
  BY LenProperties, EmptySeq DEF CutInto, Behind
<1>3. /\ x # LineEnd => Behind(a) = b
      /\ x = LineEnd => Behind(a) = k + 1
  BY CutGoesOn
<1>4. ASSUME NEW i PROVE i \in Alone(a) <=> i \in Alone(f) \/ (i = k /\ i \in Alone(a))
  <2>1. i \in Alone(a) => i \in 1 .. k
    BY <1>1 DEF Alone
  <2>2. i \in Alone(f) => i \in 1 .. k /\ i # k
    BY <1>1 DEF Alone
  <2>3. ASSUME i \in 1 .. k, i # k PROVE i \in Alone(a) <=> i \in Alone(f)
    <3>1. i \in 1 .. k + 1 /\ i + 1 \in 1 .. k /\ i + 1 \in 1 .. k + 1 /\ (i = 1 \/ i - 1 \in 1 .. k)
      <4>1. k \in Nat
        BY <1>1
      <4> HIDE DEF k
      <4>2. QED
        BY <2>3, <4>1
    <3>2. a[i] = f[i] /\ a[i + 1] = f[i + 1] /\ (i = 1 \/ a[i - 1] = f[i - 1])
      BY <1>1, <2>3, <3>1
    <3> HIDE DEF a, k
    <3>3. QED
      BY <1>1, <2>3, <3>1, <3>2 DEF Alone
  <2>4. QED
    BY <2>1, <2>2, <2>3
<1>5. k \in Alone(a) <=> x = LineEnd /\ OneEvent(f)
  <2>1. CASE k = 0
    <3>1. k \notin Alone(a) /\ Len(rest) = 0
      BY <1>1, <1>2, <2>1 DEF Alone
    <3>2. QED
      BY <3>1 DEF OneEvent
  <2>2. CASE k # 0
    <3>1. k \in 1 .. k + 1 /\ k \in 1 .. k /\ k + 1 \in 1 .. k + 1 /\ (k = 1 \/ k - 1 \in 1 .. k)
      BY SMTT(60), <1>1, <2>2
    <3>2. a[k] = f[k] /\ a[k + 1] = x /\ (k = 1 \/ a[k - 1] = f[k - 1])
      BY <1>1, <3>1
    <3> HIDE DEF a, k, b, rest
    <3>3. k \in Alone(a) <=> IsWhole(f[k]) /\ (k = 1 \/ f[k - 1] = LineEnd) /\ x = LineEnd
      BY <1>1, <3>1, <3>2 DEF Alone
    <3>4. ASSUME IsWhole(f[k])
          PROVE  (k = 1 \/ f[k - 1] = LineEnd) <=> Len(rest) = 1
      <4>1. f[k] # LineEnd
        BY <3>4 DEF IsWhole
      <4>2. Len(rest) # 0
        BY <1>1, <1>2, <2>2, <4>1
      <4>3. CASE Len(rest) = 1
        <5>1. b = k - 1
          BY <1>2, <4>3
        <5>2. k - 1 = 0 \/ f[k - 1] = LineEnd
          BY <1>2, <5>1
        <5>3. QED
          BY <1>1, <4>3, <5>2
      <4>4. CASE Len(rest) # 1
        <5>1. Len(rest) - 1 \in 1 .. Len(rest) /\ b + (Len(rest) - 1) = k - 1 /\ k # 1
          <6> DEFINE m == Len(rest)
          <6>1. k \in Nat /\ b \in Nat /\ m \in Nat /\ b = k - m /\ m # 0 /\ m # 1
            BY <1>1, <1>2, <4>2, <4>4
          <6> HIDE DEF m, k, b
          <6>2. m - 1 \in 1 .. m /\ b + (m - 1) = k - 1 /\ k # 1
            BY <6>1
          <6>3. QED
            BY <6>2 DEF m
        <5>2. f[k - 1] # LineEnd
          BY SMTT(60), <1>2, <5>1
        <5>3. QED
          BY <4>4, <5>1, <5>2
      <4>5. QED
        BY <4>3, <4>4
    <3>5. QED
      BY <3>3, <3>4 DEF OneEvent, k, rest
  <2>3. QED
    BY <2>1, <2>2
<1>6. Alone(a) = Alone(f) \cup (IF x = LineEnd /\ OneEvent(f) THEN {k} ELSE {})
  <2> HIDE DEF a, k
  <2>1. QED
    BY <1>4, <1>5
<1>7. CASE x # LineEnd
  <2>1. Alone(a) = Alone(f)
    BY <1>6, <1>7
  <2>2. \A i \in 1 .. b : a[i] = f[i]
    BY <1>1, <1>2
  <2> HIDE DEF a, b
  <2>3. Spoiled(a) = Spoiled(f)
    BY <1>3, <1>7, <2>1, <2>2 DEF Spoiled, b
  <2>4. QED
    BY <1>7, <2>1, <2>3 DEF a
<1>8. CASE x = LineEnd
  <2>1. ASSUME rest = <<>> \/ OneEvent(f), NEW i
        PROVE  i \in Spoiled(a) <=> i \in Spoiled(f)
    <3>1. i \in 1 .. k + 1 => i \in 1 .. b \/ i = k \/ i = k + 1
      <4> DEFINE m == Len(rest)
      <4>1. k \in Nat /\ b \in Nat /\ m \in Nat /\ b = k - m
        BY <1>1, <1>2
      <4>2. m = 0 \/ m = 1
        BY <1>2, <2>1 DEF OneEvent
      <4> HIDE DEF k, b, rest, m
      <4>3. b = k \/ b = k - 1
        BY <4>1, <4>2
      <4>4. QED
        BY <4>1, <4>3
    <3>2. CASE i \in 1 .. b
      <4>1. a[i] = f[i] /\ i \in 1 .. k + 1
        BY <1>1, <1>2, <3>2
      <4>2. i # k \/ k = b
        BY <1>2, <3>2
      <4>3. i \in Alone(a) <=> i \in Alone(f)
        <5>1. CASE i # k
          BY <1>4, <5>1
        <5>2. CASE i = k
          <6>1. ~OneEvent(f)
            <7>1. k \in Nat /\ b \in Nat /\ Len(rest) \in Nat /\ b = k - Len(rest)
              BY <1>1, <1>2
            <7>2. Len(rest) = 0
              BY <3>2, <5>2, <7>1
            <7>3. QED
              BY <7>2 DEF OneEvent
          <6>2. QED
            BY <1>6, <6>1
        <5>3. QED
          BY <5>1, <5>2
      <4> HIDE DEF a, b, k, rest
      <4>4. QED
        BY <1>3, <1>8, <3>2, <4>1, <4>3 DEF Spoiled, b
    <3>3. CASE i \notin 1 .. b
      <4>1. i \notin Spoiled(f)
        BY <3>3 DEF Spoiled
      <4>2. CASE i = k + 1
        BY <1>1, <1>8, <4>1, <4>2 DEF Spoiled
      <4>3. CASE i = k
        <5>1. CASE rest = <<>>
          <6>1. i \notin 1 .. k + 1
            BY <1>1, <1>2, <3>3, <4>3, <5>1
          <6>2. QED
            BY <1>3, <1>8, <4>1, <6>1 DEF Spoiled
        <5>2. CASE OneEvent(f)
          <6>1. i \in Alone(a)
            BY <1>5, <1>8, <4>3, <5>2
          <6>2. QED
            BY <4>1, <6>1 DEF Spoiled
        <5>3. QED
          BY <2>1, <5>1, <5>2
      <4>4. CASE i \notin 1 .. k + 1
        BY <1>3, <1>8, <4>1, <4>4 DEF Spoiled
      <4>5. QED
        BY <3>1, <3>3, <4>2, <4>3, <4>4
    <3>4. QED
      BY <3>2, <3>3
  <2>2. ASSUME rest # <<>>, ~OneEvent(f) PROVE k \in Spoiled(a)
    <3>1. Len(rest) \in 1 .. Len(rest) /\ b + Len(rest) = k /\ k \in 1 .. k + 1 /\ k \in 1 .. k
      BY <1>1, <1>2, <2>2
    <3>2. a[k] = f[k] /\ f[k] # LineEnd
      BY ZenonT(90), <1>1, <1>2, <3>1
    <3>3. k \notin Alone(a)
      BY <1>5, <2>2
    <3>4. QED
      BY <1>3, <1>8, <3>1, <3>2, <3>3 DEF Spoiled
  <2>3. rest = <<>> \/ OneEvent(f) => Spoiled(a) = Spoiled(f)
    <3>1. ASSUME rest = <<>> \/ OneEvent(f) PROVE Spoiled(a) = Spoiled(f)
      <4>1. \A i : i \in Spoiled(a) <=> i \in Spoiled(f)
        BY <2>1, <3>1
      <4>2. QED
        BY <4>1
    <3>2. QED
      BY <3>1
  <2>4. QED
    BY <1>6, <1>8, <2>2, <2>3
<1>9. QED
  BY <1>7, <1>8

LEMMA TornIsLonger == ASSUME NEW e \in AllEvents PROVE Len(Torn(e)) = 3
<1>1. PICK h \in Handlers, n \in Nat : e = <<h, n>>
  BY DEF AllEvents
<1> DEFINE S == {h, n, "torn"}
           pair == <<h, n>>
<1>2. pair \in Seq(S) /\ Len(pair) = 2 /\ "torn" \in S
  OBVIOUS
<1> HIDE DEF S, pair
<1> DEFINE word == "torn"
<1>3. pair \in Seq(S) /\ word \in S /\ Len(pair) = 2
  BY <1>2
<1> HIDE DEF word
<1>4. Len(Append(pair, word)) = Len(pair) + 1
  BY ZenonT(90), <1>3, AppendProperties
<1>5. Len(Append(pair, word)) = 3
  BY <1>3, <1>4
<1>6. QED
  BY <1>1, <1>5 DEF Torn, pair, word

LEMMA WholePartIsAnEvent ==
    ASSUME NEW part \in Parts, IsWhole(part)
    PROVE  Counts(Content(part))
<1>1. \A e \in AuditEvents : e \in AllEvents /\ Len(Torn(e)) = 3
  <2>1. ASSUME NEW e \in AuditEvents PROVE e \in AllEvents /\ Len(Torn(e)) = 3
    <3>1. PICK h \in Handlers : e \in {h} \X (1 .. Events[h])
      BY DEF AuditEvents
    <3>2. e = <<h, e[2]>> /\ e[2] \in 1 .. Events[h] /\ Events[h] \in Nat
      BY <3>1, EventsAssumption
    <3>3. e \in AllEvents
      BY <3>2 DEF AllEvents
    <3>4. Len(Torn(e)) = 3
      BY <3>3, TornIsLonger
    <3>5. QED
      BY <3>3, <3>4
  <2>2. QED
    BY <2>1
<1>2. part \in AuditEvents
  BY <1>1 DEF Parts, IsWhole
<1>3. PICK h \in Handlers : part \in {h} \X (1 .. Events[h])
  BY <1>2 DEF AuditEvents
<1>4. part = <<h, part[2]>> /\ part[2] \in 1 .. Events[h]
  BY <1>3
<1>5. QED
  BY <1>4, RecordCounts

LEMMA LineSays ==
    ASSUME NEW rest \in Seq(Parts), \A j \in 1 .. Len(rest) : rest[j] # LineEnd
    PROVE  /\ IsText(Parsed(rest))
           /\ rest = <<>> => Parsed(rest).is = Blank
           /\ rest # <<>> /\ ~(Len(rest) = 1 /\ IsWhole(rest[1])) => Parsed(rest).is = Broken
           /\ Len(rest) = 1 /\ IsWhole(rest[1]) =>
                 /\ Parsed(rest).is = "event" /\ Parsed(rest).record = Content(rest[1])
                 /\ Counts(Content(rest[1]))
<1>1. CASE rest = <<>>
  <2>1. Parsed(rest).is = Blank /\ ~(Len(rest) = 1)
    BY <1>1 DEF Parsed
  <2>2. QED
    BY <1>1, <2>1 DEF IsText, IsLine, Blank, NotUtf8
<1>2. CASE rest # <<>> /\ ~(Len(rest) = 1 /\ IsWhole(rest[1]))
  <2>1. Parsed(rest).is = Broken
    BY <1>2 DEF Parsed
  <2>2. QED
    BY <1>2, <2>1 DEF IsText, IsLine, Broken, NotUtf8
<1>3. CASE Len(rest) = 1 /\ IsWhole(rest[1])
  <2>1. rest # <<>> /\ rest[1] \in Parts
    BY <1>3, EmptySeq, ElementOfSeq
  <2>2. Parsed(rest).is = "event" /\ Parsed(rest).record = Content(rest[1])
    BY <1>3, <2>1 DEF Parsed
  <2>3. Counts(Content(rest[1])) /\ Time(Content(rest[1])) \in Nat
    BY <1>3, <2>1, WholePartIsAnEvent DEF Counts
  <2>4. QED
    BY <1>3, <2>1, <2>2, <2>3 DEF IsText, IsLine, NotUtf8
<1>4. QED
  BY <1>1, <1>2, <1>3

LEMMA OneMoreLine ==
    ASSUME NEW lines \in Seq(Seq(Parts)), NEW rest \in Seq(Parts)
    PROVE  FromJsonl(Parse(Append(lines, rest))) = AddLine(FromJsonl(Parse(lines)), Parsed(rest))
<1> DEFINE p == [l \in Seq(Parts) |-> Parsed(l)]
           E == {Parsed(l) : l \in Seq(Parts)}
           a == Append(lines, rest)
<1>1. /\ a \in Seq(Seq(Parts)) /\ DOMAIN a = 1 .. Len(a) /\ DOMAIN lines = 1 .. Len(lines)
      /\ Len(lines) \in Nat
  BY AppendProperties, LenProperties
<1>2. (\A n \in DOMAIN a : a[n] \in Seq(Parts)) /\ (\A n \in DOMAIN lines : lines[n] \in Seq(Parts))
  BY <1>1, ElementOfSeq
<1>3. Parse(a) = [n \in DOMAIN a |-> p[a[n]]] /\ Parse(lines) = [n \in DOMAIN lines |-> p[lines[n]]]
  BY <1>2 DEF Parse
<1>4. p[rest] = Parsed(rest) /\ p[rest] \in E
  OBVIOUS
<1>5. \A n \in DOMAIN lines : p[lines[n]] \in E
  BY <1>2
<1> HIDE DEF p, E
<1>6. Parse(a) = Append(Parse(lines), p[rest])
  BY <1>3, MapAppend DEF a
<1>7. Parse(lines) \in Seq(E)
  BY <1>1, <1>3, <1>5
<1>8. QED
  BY <1>4, <1>6, <1>7, ReportOfAppend DEF a

-----------------------------------------------------------------------------
(* The report and the file agree, after every part that is appended.       *)
Accounted(f) ==
    /\ IsReport(ReportOf(f)) /\ IsFiniteSet(DOMAIN ReportOf(f).detectors)
    /\ ReportOf(f).events = Cardinality(Alone(f))
    /\ SumOf(ReportOf(f).detectors) = Cardinality(Detected(f))
    /\ ReportOf(f).malformed > 0 <=> Spoiled(f) # {}
ToldInFull(f) == CutInto(f) /\ Accounted(f)

LEMMA NothingIsInOrder == ToldInFull(<<>>)
<1>1. Cut(<<>>).lines = <<>> /\ Cut(<<>>).rest = <<>>
  BY CutOfNone DEF NothingRead
<1>2. Parse(<<>>) = <<>>
  BY DEF Parse
<1>3. ReportOf(<<>>) = EmptyReport
  BY <1>1, <1>2, ReportOfNone DEF ReportOf
<1>4. Alone(<<>>) = {} /\ Detected(<<>>) = {}
  BY DEF Alone, Detected
<1>5. Behind(<<>>) = 0
  BY <1>1 DEF Behind
<1>6. Spoiled(<<>>) = {}
  BY <1>5 DEF Spoiled
<1>7. /\ EmptyReport.events = 0 /\ EmptyReport.malformed = 0 /\ EmptyReport.detectors = EmptyBag
  BY DEF EmptyReport
<1>8. Cardinality({}) = 0
  BY FS_EmptySet
<1>9. /\ IsReport(ReportOf(<<>>)) /\ IsFiniteSet(DOMAIN ReportOf(<<>>).detectors)
      /\ SumOf(ReportOf(<<>>).detectors) = 0
  BY <1>3, <1>7, EmptyIsReport, SumOfNone
<1>10. ReportOf(<<>>).events = 0 /\ ReportOf(<<>>).malformed = 0
  BY <1>3, <1>7
<1>11. Accounted(<<>>)
  BY SMTT(60), <1>4, <1>6, <1>8, <1>9, <1>10 DEF Accounted
<1>12. QED
  BY <1>11, NothingIsCut DEF ToldInFull

LEMMA OrderIsKept ==
    ASSUME NEW f \in Seq(Parts), ToldInFull(f), NEW x \in Parts
    PROVE  ToldInFull(Append(f, x))
<1> DEFINE a == Append(f, x)
           k == Len(f)
           rest == Cut(f).rest
           r == ReportOf(f)
           q == ReportOf(a)
           c == Content(f[k])
<1>1. CutInto(f) /\ Accounted(f) /\ CutInto(a)
  BY CutGoesOn DEF ToldInFull
<1>2. /\ \A i \in 1 .. k : a[i] = f[i]
      /\ DOMAIN f = 1 .. k /\ k \in Nat /\ a \in Seq(Parts)
  BY AppendProperties, LenProperties
<1>3. /\ IsFiniteSet(Alone(f)) /\ IsFiniteSet(Detected(f)) /\ k \notin Alone(f) /\ k \notin Detected(f)
  BY AloneIsFinite DEF Detected
<1>4. Alone(f) \subseteq 1 .. k
  BY <1>2 DEF Alone
<1>5. CASE x # LineEnd
  <2>1. Alone(a) = Alone(f) /\ Spoiled(a) = Spoiled(f) /\ Cut(a).lines = Cut(f).lines
    BY <1>1, <1>5, PartsGrow, CutGoesOn
  <2>2. Detected(a) = Detected(f)
    <3>1. \A i \in Alone(f) : a[i] = f[i]
      BY <1>2, <1>4
    <3> HIDE DEF a
    <3>2. QED
      BY <2>1, <3>1 DEF Detected
  <2>3. q = r
    BY <2>1 DEF ReportOf
  <2> HIDE DEF a, q, r
  <2>4. QED
    BY <1>1, <2>1, <2>2, <2>3 DEF ToldInFull, Accounted, a, q, r
<1>6. CASE x = LineEnd
  <2>1. /\ rest \in Seq(Parts) /\ Cut(f).lines \in Seq(Seq(Parts))
        /\ \A j \in 1 .. Len(rest) : rest[j] # LineEnd /\ rest[j] = f[Behind(f) + j]
        /\ Len(rest) = 1 => rest[1] = f[k]
    <3>1. /\ rest \in Seq(Parts) /\ Cut(f).lines \in Seq(Seq(Parts)) /\ Behind(f) = k - Len(rest)
          /\ \A j \in 1 .. Len(rest) : rest[j] # LineEnd /\ rest[j] = f[Behind(f) + j]
      BY <1>1 DEF CutInto, Behind
    <3>2. Len(rest) = 1 => 1 \in 1 .. Len(rest) /\ Behind(f) + 1 = k
      BY <1>2, <3>1
    <3>3. QED
      BY <3>1, <3>2
  <2>2. q = AddLine(r, Parsed(rest))
    <3>1. Cut(a).lines = Append(Cut(f).lines, rest)
      BY <1>1, <1>6, CutGoesOn
    <3>2. QED
      BY <2>1, <3>1, OneMoreLine DEF ReportOf
  <2>3. OneEvent(f) <=> Len(rest) = 1 /\ IsWhole(rest[1])
    BY <2>1 DEF OneEvent
  <2>4. /\ IsText(Parsed(rest))
        /\ rest = <<>> => Parsed(rest).is = Blank
        /\ rest # <<>> /\ ~OneEvent(f) => Parsed(rest).is = Broken
        /\ OneEvent(f) => Parsed(rest).is = "event" /\ Parsed(rest).record = c /\ Counts(c)
    BY <2>1, <2>3, LineSays DEF OneEvent
  <2>5. IsReport(r) /\ IsReport(q)
    BY <1>1, <2>2, <2>4, AddLineIs DEF Accounted
  <2>6. /\ Alone(a) = Alone(f) \cup (IF OneEvent(f) THEN {k} ELSE {})
        /\ rest = <<>> \/ OneEvent(f) => Spoiled(a) = Spoiled(f)
        /\ rest # <<>> /\ ~OneEvent(f) => Spoiled(a) # {}
    BY <1>1, <1>6, PartsGrow
  <2>7. Detected(a) =
            Detected(f) \cup (IF OneEvent(f) /\ c.event = "pii_detected" THEN {k} ELSE {})
    <3>1. \A i \in Alone(a) : a[i] = f[i]
      <4>1. OneEvent(f) => k \in 1 .. k
        <5>1. ASSUME OneEvent(f) PROVE k # 0
          <6>1. Len(rest) = 1 /\ Behind(f) \in 0 .. k /\ Behind(f) = k - Len(rest)
            BY <1>1, <5>1 DEF OneEvent, CutInto, Behind
          <6>2. QED
            BY <1>2, <6>1
        <5>2. QED
          BY <1>2, <5>1
      <4> HIDE DEF a, k
      <4>2. QED
        BY <1>2, <1>4, <2>6, <4>1
    <3> HIDE DEF a
    <3>2. QED
      BY <2>6, <3>1 DEF Detected
  <2>8. CASE rest = <<>>
    <3>1. q = r /\ ~OneEvent(f)
      BY <2>2, <2>4, <2>5, <2>8, AddLineIs DEF OneEvent
    <3> HIDE DEF a, q, r, c, k, rest
    <3>2. QED
      BY <1>1, <2>6, <2>7, <2>8, <3>1 DEF ToldInFull, Accounted, a, q, r
  <2>9. CASE rest # <<>> /\ ~OneEvent(f)
    <3>1. q = Malformed(r)
      BY <2>2, <2>4, <2>5, <2>9, AddLineIs
    <3>2. /\ q.events = r.events /\ q.detectors = r.detectors
          /\ q.malformed = r.malformed + 1 /\ r.malformed \in Nat
      BY ZenonT(90), <2>5, <3>1, MalformedFields DEF SameBesides, IsReport
    <3> HIDE DEF a, q, r, c, k, rest
    <3>3. q.malformed > 0
      BY <3>2
    <3>4. QED
      BY <1>1, <2>5, <2>6, <2>7, <2>9, <3>2, <3>3 DEF ToldInFull, Accounted, a, q, r
  <2>10. CASE OneEvent(f)
    <3>1. q = Made(r, c) /\ Counts(c)
      BY <2>2, <2>4, <2>5, <2>10, AddLineIs
    <3>2. NumbersOf(q, r, c) /\ TalliesOf(q, r, c)
      BY <2>5, <3>1, MadeFields DEF IsReport
    <3>3. /\ q.events = r.events + 1 /\ q.malformed = r.malformed
          /\ q.detectors = r.detectors (+) SetToBag(Only(IsFinding(c), Value(Field(c, "detector"))))
      BY <3>2 DEF NumbersOf, TalliesOf
    <3>4. /\ IsTally(r.detectors) /\ IsFiniteSet(DOMAIN r.detectors)
          /\ r.events = Cardinality(Alone(f)) /\ SumOf(r.detectors) = Cardinality(Detected(f))
          /\ r.malformed > 0 <=> Spoiled(f) # {}
      BY <1>1, <2>5 DEF Accounted, IsReport
    <3> HIDE DEF a, q, r, c, k, rest
    <3>5. q.events = Cardinality(Alone(a))
      <4>1. Alone(a) = Alone(f) \cup {k}
        BY <2>6, <2>10
      <4>2. Cardinality(Alone(a)) = Cardinality(Alone(f)) + 1
        BY <1>3, <4>1, FS_AddElement
      <4>3. QED
        BY <3>3, <3>4, <4>2
    <3>6. /\ IsFiniteSet(DOMAIN q.detectors)
          /\ SumOf(q.detectors) = Cardinality(Detected(a))
      <4>1. IsFinding(c) <=> c.event = "pii_detected"
        BY <3>1 DEF Counts, IsFinding
      <4>2. CASE IsFinding(c)
        <5>1. PICK v : Value(Field(c, "detector")) = {v}
          BY <3>1, <4>2 DEF Counts
        <5>2. q.detectors = r.detectors (+) SetToBag({v})
          BY <3>3, <4>2, <5>1 DEF Only
        <5>3. IsFiniteSet(DOMAIN q.detectors) /\ SumOf(q.detectors) = SumOf(r.detectors) + 1
          BY <3>4, <5>2, SumOfOneMore
        <5>4. Detected(a) = Detected(f) \cup {k}
          BY <2>7, <2>10, <4>1, <4>2
        <5>5. Cardinality(Detected(a)) = Cardinality(Detected(f)) + 1
          BY <1>3, <5>4, FS_AddElement
        <5>6. QED
          BY <3>4, <5>3, <5>5
      <4>3. CASE ~IsFinding(c)
        <5>1. q.detectors = r.detectors
          BY <3>3, <3>4, <4>3, BagPlusNothing DEF Only
        <5>2. Detected(a) = Detected(f)
          BY <2>7, <4>1, <4>3
        <5>3. QED
          BY <3>4, <5>1, <5>2
      <4>4. QED
        BY <4>2, <4>3
    <3>7. q.malformed > 0 <=> Spoiled(a) # {}
      BY <2>6, <2>10, <3>3, <3>4
    <3>8. QED
      BY <1>1, <2>5, <3>5, <3>6, <3>7 DEF ToldInFull, Accounted, a, q
  <2>11. QED
    BY <2>8, <2>9, <2>10
<1>7. QED
  BY <1>5, <1>6

LEMMA FilesAreInOrder == \A f \in Seq(Parts) : ToldInFull(f)
<1> DEFINE T == {f \in Seq(Parts) : ToldInFull(f)}
<1>1. <<>> \in T
  BY NothingIsInOrder, EmptySeq
<1>2. \A s \in Seq(Parts) : \A e \in Parts : s \in T => Append(s, e) \in T
  BY OrderIsKept, AppendProperties
<1> HIDE DEF T
<1>3. Seq(Parts) \subseteq T
  BY <1>1, <1>2, SeqInduction
<1>4. QED
  BY <1>3 DEF T

(* A line end more, which str::lines does not need, changes nothing.        *)
LEMMA LastLineNeedsNoEnd ==
    ASSUME file \in Seq(Parts)
    PROVE  TheReport = ReportOf(Append(file, LineEnd))
<1> DEFINE lines == Cut(file).lines
           rest == Cut(file).rest
           a == Append(file, LineEnd)
<1>1. LineEnd \in Parts /\ CutInto(file) /\ Accounted(file)
  BY FilesAreInOrder DEF Parts, ToldInFull
<1>2. Cut(a).lines = Append(lines, rest)
  BY <1>1, CutGoesOn
<1>3. /\ lines \in Seq(Seq(Parts)) /\ rest \in Seq(Parts)
      /\ \A j \in 1 .. Len(rest) : rest[j] # LineEnd
  BY <1>1 DEF CutInto
<1>4. ReportOf(a) = AddLine(ReportOf(file), Parsed(rest))
  BY <1>2, <1>3, OneMoreLine DEF ReportOf
<1>5. Lines = IF rest = <<>> THEN lines ELSE Append(lines, rest)
  BY DEF Lines, Cut, NothingRead
<1>6. TheReport = FromJsonl(Parse(Lines))
  BY DEF TheReport, Parse
<1>7. CASE rest = <<>>
  <2>1. Parsed(rest).is = Blank /\ IsText(Parsed(rest)) /\ IsReport(ReportOf(file))
    BY <1>1, <1>3, <1>7, LineSays DEF Accounted
  <2>2. AddLine(ReportOf(file), Parsed(rest)) = ReportOf(file)
    BY <2>1, AddLineIs
  <2>3. QED
    BY <1>4, <1>5, <1>6, <1>7, <2>2 DEF ReportOf
<1>8. CASE rest # <<>>
  BY <1>2, <1>5, <1>6, <1>8 DEF ReportOf
<1>9. QED
  BY <1>7, <1>8

LEMMA OrderOwnsUp == file \in Seq(Parts) => TheReportOwnsUp
<1> SUFFICES ASSUME file \in Seq(Parts) PROVE TheReportOwnsUp
  OBVIOUS
<1> DEFINE k == Len(file)
           a == Append(file, LineEnd)
           Ends(i) == i \notin DOMAIN file \/ file[i] = LineEnd
           alone == {i \in DOMAIN file : IsWhole(file[i]) /\ Ends(i - 1) /\ Ends(i + 1)}
           detections == {i \in alone : Content(file[i]).event = "pii_detected"}
<1>1. /\ LineEnd \in Parts /\ a \in Seq(Parts) /\ k \in Nat
      /\ DOMAIN file = 1 .. k /\ DOMAIN a = 1 .. k + 1
      /\ a[k + 1] = LineEnd /\ \A i \in 1 .. k : a[i] = file[i]
  BY AppendProperties, LenProperties DEF Parts
<1>2. Accounted(a) /\ Behind(a) = k + 1
  BY <1>1, FilesAreInOrder, CutGoesOn DEF ToldInFull
<1>3. TheReport = ReportOf(a)
  BY LastLineNeedsNoEnd
<1>4. ASSUME NEW i PROVE i \in alone <=> i \in Alone(a)
  <2>1. i \in Alone(a) => i \in 1 .. k
    BY <1>1 DEF Alone, IsWhole
  <2>2. ASSUME i \in 1 .. k PROVE i \in alone <=> i \in Alone(a)
    <3>1. /\ i \in 1 .. k + 1 /\ i + 1 \in 1 .. k + 1 /\ (i = 1 <=> i - 1 \notin 1 .. k)
          /\ i + 1 \notin 1 .. k => i + 1 = k + 1
      BY <1>1, <2>2
    <3>2. a[i] = file[i] /\ (i - 1 \in 1 .. k => a[i - 1] = file[i - 1])
      BY <1>1, <2>2
    <3>3. Ends(i + 1) <=> a[i + 1] = LineEnd
      BY <1>1, <2>2, <3>1
    <3>4. Ends(i - 1) <=> i = 1 \/ a[i - 1] = LineEnd
      BY <1>1, <3>1, <3>2
    <3>5. i \in alone <=> IsWhole(file[i]) /\ Ends(i - 1) /\ Ends(i + 1)
      BY <1>1, <2>2
    <3> HIDE DEF a, alone, Ends, k
    <3>6. QED
      BY <1>1, <2>2, <3>1, <3>2, <3>3, <3>4, <3>5 DEF Alone
  <2>3. i \in alone => i \in 1 .. k
    BY <1>1
  <2>4. QED
    BY <2>1, <2>2, <2>3
<1>5. alone = Alone(a)
  <2> HIDE DEF alone, a
  <2>1. ASSUME NEW i PROVE i \in alone <=> i \in Alone(a)
    BY <1>4
  <2>2. QED
    BY <2>1
<1>6. detections = Detected(a)
  <2>1. \A i \in alone : a[i] = file[i]
    BY <1>1
  <2> HIDE DEF alone, a
  <2>2. QED
    BY <1>5, <2>1 DEF Detected
<1>7. (\E i \in DOMAIN file : file[i] # LineEnd /\ i \notin alone) <=> Spoiled(a) # {}
  <2> HIDE DEF alone, a, k
  <2>1. \A i : i \in 1 .. k + 1 <=> i \in 1 .. k \/ i = k + 1
    BY <1>1
  <2>2. ASSUME NEW i PROVE i \in Spoiled(a) <=> i \in 1 .. k /\ file[i] # LineEnd /\ i \notin alone
    BY <1>1, <1>2, <1>5, <2>1 DEF Spoiled
  <2>3. QED
    BY <1>1, <2>2
<1>8. Findings(TheReport) = SumOf(TheReport.detectors)
  BY DEF Findings, SumOf
<1> HIDE DEF a, alone, detections, k
<1>9. /\ TheReport.events = Cardinality(alone)
      /\ Findings(TheReport) = Cardinality(detections)
      /\ TheReport.malformed > 0 <=> Spoiled(a) # {}
  BY <1>2, <1>3, <1>5, <1>6, <1>8 DEF Accounted
<1>10. QED
  BY <1>7, <1>9 DEF TheReportOwnsUp, alone, detections

(* The console's report of the file, for any handlers, events and          *)
(* failures: it counts the events that have a line of their own, and the   *)
(* warning about unreadable lines is there exactly when the file holds     *)
(* something else.                                                         *)
THEOREM TheReportHidesNothing == Spec => []TheReportOwnsUp
<1>1. MInv => TheReportOwnsUp
  BY OrderOwnsUp DEF MInv
<1>2. QED
  BY <1>1, MInvAtFirst, MInvIsKept, PTL DEF Spec

-----------------------------------------------------------------------------
(* A conforming reader of a datagram, one character after the other.       *)
Scans(g, f, n) ==
    g = [S \in SUBSET (1 .. n) |-> IF S = {} THEN Unread ELSE Unescape(g[S \ {Max(S)}], f[Max(S)])]

LEMMA ScansExist == ASSUME NEW v PROVE \A n \in Nat : \E g : Scans(g, v, n)
<1> DEFINE T == {n \in Nat : \E f : Scans(f, v, n)}
<1>1. 0 \in T
  <2>1. \A S \in SUBSET (1 .. 0) : S = {}
    OBVIOUS
  <2>2. Scans([S \in SUBSET (1 .. 0) |-> Unread], v, 0)
    BY <2>1 DEF Scans
  <2>3. QED
    BY <2>2
<1>2. ASSUME NEW n \in Nat, n \in T PROVE n + 1 \in T
  <2>1. PICK f : Scans(f, v, n)
    BY <1>2
  <2> DEFINE g == [S \in SUBSET (1 .. n + 1) |-> IF n + 1 \in S THEN Unescape(f[S \ {n + 1}], v[n + 1])
                                                ELSE f[S]]
  <2>2. ASSUME NEW S \in SUBSET (1 .. n + 1)
        PROVE  g[S] = IF S = {} THEN Unread ELSE Unescape(g[S \ {Max(S)}], v[Max(S)])
    <3>1. CASE n + 1 \in S
      <4>1. S \in SUBSET (0 .. n + 1) /\ S # {} /\ n + 1 \in Nat
        BY <3>1
      <4>2. Max(S) \in S /\ \A y \in S : y <= Max(S)
        BY <4>1, MaxOfBounded
      <4>3. Max(S) = n + 1
        <5> HIDE DEF g
        <5>1. n + 1 <= Max(S) /\ Max(S) \in 1 .. n + 1
          BY <3>1, <4>2
        <5>2. QED
          BY <5>1
      <4>4. S \ {n + 1} \in SUBSET (1 .. n + 1) /\ n + 1 \notin S \ {n + 1}
        OBVIOUS
      <4>5. g[S \ {n + 1}] = f[S \ {n + 1}] /\ g[S] = Unescape(f[S \ {n + 1}], v[n + 1])
        BY <3>1, <4>4
      <4> HIDE DEF g
      <4>6. QED
        BY <3>1, <4>3, <4>5
    <3>2. CASE n + 1 \notin S
      <4>1. S \in SUBSET (1 .. n) /\ S \in SUBSET (0 .. n)
        BY <3>2
      <4>2. g[S] = f[S] /\ g[S \ {Max(S)}] = f[S \ {Max(S)}]
        BY <3>2
      <4>3. f[S] = IF S = {} THEN Unread ELSE Unescape(f[S \ {Max(S)}], v[Max(S)])
        BY <2>1, <4>1 DEF Scans
      <4> HIDE DEF g
      <4>4. QED
        BY <4>2, <4>3
    <3>3. QED
      BY <3>1, <3>2
  <2>3. g = [S \in SUBSET (1 .. n + 1) |-> g[S]]
    OBVIOUS
  <2> HIDE DEF g
  <2>4. Scans(g, v, n + 1)
    BY <2>2, <2>3 DEF Scans
  <2>5. QED
    BY <2>4
<1> HIDE DEF T
<1>3. \A n \in Nat : n \in T
  BY <1>1, <1>2, NatSetInduction
<1>4. QED
  BY <1>3 DEF T

LEMMA ScanByCharacter ==
    ASSUME NEW n \in Nat, NEW v, DOMAIN v = 1 .. n
    PROVE  \E p : /\ p[0] = Unread /\ p[n] = Scan(v)
                 /\ \A i \in 1 .. n : p[i] = Unescape(p[i - 1], v[i])
<1> DEFINE F == CHOOSE f : Scans(f, v, n)
<1>1. Scans(F, v, n)
  BY ScansExist
<1>2. Scan(v) = F[1 .. n]
  BY DEF Scan, FoldLeft, MapThenFoldSet, Scans
<1> HIDE DEF F
<1> DEFINE p == [i \in 0 .. n |-> F[1 .. i]]
<1>3. p[0] = Unread /\ p[n] = Scan(v)
  <2>1. 1 .. 0 = {} /\ {} \in SUBSET (1 .. n)
    OBVIOUS
  <2>2. F[{}] = Unread
    BY <1>1, <2>1 DEF Scans
  <2>3. QED
    BY <1>2, <2>1, <2>2
<1>4. ASSUME NEW i \in 1 .. n PROVE p[i] = Unescape(p[i - 1], v[i])
  <2>1. i \in 0 .. n /\ i - 1 \in 0 .. n /\ i \in Nat \ {0} /\ 1 .. i \in SUBSET (1 .. n)
    OBVIOUS
  <2>2. Max(1 .. i) = i /\ (1 .. i) \ {i} = 1 .. i - 1 /\ 1 .. i # {}
    BY <2>1, UpTo
  <2>3. F[1 .. i] = IF 1 .. i = {} THEN Unread
                    ELSE Unescape(F[(1 .. i) \ {Max(1 .. i)}], v[Max(1 .. i)])
    BY <1>1, <2>1 DEF Scans
  <2>4. F[1 .. i] = Unescape(F[1 .. i - 1], v[i])
    BY <2>2, <2>3
  <2>5. QED
    BY <2>1, <2>4
<1>5. QED
  BY <1>3, <1>4

LEMMA ScanOfNone == Scan(<<>>) = Unread
<1>1. DOMAIN <<>> = 1 .. 0 /\ 0 \in Nat
  OBVIOUS
<1>2. \E p : p[0] = Unread /\ p[0] = Scan(<<>>)
  BY <1>1, ScanByCharacter
<1>3. QED
  BY <1>2

LEMMA ScanOfAppend ==
    ASSUME NEW E, NEW l \in Seq(E), NEW x \in E
    PROVE  Scan(Append(l, x)) = Unescape(Scan(l), x)
<1> DEFINE n == Len(l)
           a == Append(l, x)
           N == n + 1
<1>1. /\ n \in Nat /\ DOMAIN l = 1 .. n /\ DOMAIN a = 1 .. N /\ N \in Nat /\ N = n + 1
      /\ a[N] = x /\ \A i \in 1 .. n : a[i] = l[i]
  BY AppendProperties, LenProperties
<1> HIDE DEF n, a, N
<1>2. PICK p : /\ p[0] = Unread /\ p[n] = Scan(l)
               /\ \A i \in 1 .. n : p[i] = Unescape(p[i - 1], l[i])
  BY <1>1, ScanByCharacter
<1>3. PICK q : /\ q[0] = Unread /\ q[N] = Scan(a)
               /\ \A i \in 1 .. N : q[i] = Unescape(q[i - 1], a[i])
  BY <1>1, ScanByCharacter
<1> DEFINE T == {j \in Nat : j \in 0 .. n => q[j] = p[j]}
<1>4. 0 \in T
  BY <1>2, <1>3
<1>5. ASSUME NEW j \in Nat, j \in T PROVE j + 1 \in T
  <2> SUFFICES ASSUME j + 1 \in 0 .. n PROVE q[j + 1] = p[j + 1]
    OBVIOUS
  <2>1. j + 1 \in 1 .. n /\ j + 1 \in 1 .. N /\ j \in 0 .. n /\ (j + 1) - 1 = j
    BY <1>1
  <2>2. q[j + 1] = Unescape(q[j], a[j + 1]) /\ p[j + 1] = Unescape(p[j], l[j + 1]) /\ a[j + 1] = l[j + 1]
    BY <1>1, <1>2, <1>3, <2>1
  <2>3. QED
    BY <1>5, <2>1, <2>2
<1> HIDE DEF T
<1>6. \A j \in Nat : j \in T
  BY <1>4, <1>5, NatSetInduction
<1>7. n \in T /\ n \in 0 .. n /\ N \in 1 .. N /\ N - 1 = n
  BY <1>1, <1>6
<1>8. q[n] = p[n]
  BY <1>7 DEF T
<1>9. q[N] = Unescape(q[n], a[N])
  BY <1>3, <1>7
<1>10. QED
  BY <1>1, <1>2, <1>3, <1>8, <1>9 DEF a

\* What the reader has when it is not behind a backslash.
Has(out) == [escape |-> FALSE, out |-> out]
Plain(c) == [char |-> c, mark |-> TRUE]
Escaped(c) == [char |-> IF c = "n" THEN LF ELSE c, mark |-> FALSE]

LEMMA Special ==
    /\ Backslash # Equals /\ Backslash # LF /\ Backslash # CR /\ Backslash # Pipe /\ Backslash # "n"
    /\ Equals # LF /\ Equals # CR /\ Equals # "n" /\ LF # CR /\ LF # "n" /\ CR # "n"
    /\ Pipe # LF /\ Pipe # CR /\ Pipe # "n" /\ Pipe # Equals
BY DEF Backslash, Equals, LF, CR, Pipe

LEMMA PlainIsRead ==
    ASSUME NEW C, NEW s \in Seq(C), NEW out, Scan(s) = Has(out), NEW c \in C, c # Backslash
    PROVE  Scan(Append(s, c)) = Has(Append(out, Plain(c)))
<1>1. Scan(Append(s, c)) = Unescape(Has(out), c)
  BY ScanOfAppend
<1>2. QED
  BY <1>1 DEF Unescape, Has, Plain

LEMMA EscapedIsRead ==
    ASSUME NEW C, NEW s \in Seq(C), NEW out, Scan(s) = Has(out), NEW c \in C, Backslash \in C
    PROVE  Scan(Append(Append(s, Backslash), c)) = Has(Append(out, Escaped(c)))
<1>1. Append(s, Backslash) \in Seq(C)
  BY AppendProperties
<1>2. Scan(Append(Append(s, Backslash), c)) = Unescape(Unescape(Has(out), Backslash), c)
  BY <1>1, ScanOfAppend
<1>3. Unescape(Has(out), Backslash) = [escape |-> TRUE, out |-> out]
  BY DEF Unescape, Has
<1>4. QED
  BY <1>2, <1>3 DEF Unescape, Has, Escaped

-----------------------------------------------------------------------------
(* Replacing a character, one character after the other.                   *)
LEMMA NothingToReplace == \A c, by : Substituted(<<>>, c, by) = <<>>
BY FlattenOfNone DEF Substituted

LEMMA ReplacedGrows ==
    ASSUME NEW C, NEW s \in Seq(C), NEW x \in C, NEW c, NEW by \in Seq(C)
    PROVE  /\ Substituted(s, c, by) \in Seq(C)
           /\ Substituted(Append(s, x), c, by) = Substituted(s, c, by) \o (IF x = c THEN by ELSE <<x>>)
<1> DEFINE f == [y \in C |-> IF y = c THEN by ELSE <<y>>]
           a == Append(s, x)
           m == [i \in DOMAIN s |-> f[s[i]]]
<1>1. /\ a \in Seq(C) /\ DOMAIN s = 1 .. Len(s) /\ DOMAIN a = 1 .. Len(a) /\ Len(s) \in Nat
      /\ (\A i \in DOMAIN s : s[i] \in C) /\ (\A i \in DOMAIN a : a[i] \in C)
  BY AppendProperties, LenProperties, ElementOfSeq
<1>2. \A y \in C : f[y] = (IF y = c THEN by ELSE <<y>>) /\ f[y] \in Seq(C)
  OBVIOUS
<1>3. /\ Substituted(s, c, by) = FlattenSeq(m)
      /\ Substituted(a, c, by) = FlattenSeq([i \in DOMAIN a |-> f[a[i]]])
  BY <1>1, <1>2 DEF Substituted
<1> HIDE DEF f
<1>4. [i \in DOMAIN a |-> f[a[i]]] = Append(m, f[x])
  BY MapAppend
<1>5. m \in Seq(Seq(C))
  <2>1. \A i \in 1 .. Len(s) : f[s[i]] \in Seq(C)
    BY <1>1, <1>2
  <2>2. QED
    BY <1>1, <2>1
<1>6. f[x] \in Seq(C) /\ f[x] = IF x = c THEN by ELSE <<x>>
  BY <1>2
<1> HIDE DEF m, a
<1>7. FlattenSeq(Append(m, f[x])) = FlattenSeq(m) \o f[x] /\ FlattenSeq(m) \in Seq(C)
  BY <1>5, <1>6, FlattenAppend, FlattenType
<1>8. QED
  BY <1>3, <1>4, <1>6, <1>7 DEF a

LEMMA OneStays ==
    ASSUME NEW C, NEW s \in Seq(C), NEW x \in C, NEW c, x # c, NEW by \in Seq(C)
    PROVE  Substituted(Append(s, x), c, by) = Append(Substituted(s, c, by), x)
<1>1. /\ Substituted(s, c, by) \in Seq(C)
      /\ Substituted(Append(s, x), c, by) = Substituted(s, c, by) \o <<x>>
  BY ReplacedGrows
<1>2. QED
  BY <1>1, AppendIsConcat

LEMMA OneIsReplaced ==
    ASSUME NEW C, NEW s \in Seq(C), NEW c \in C, NEW by \in Seq(C)
    PROVE  Substituted(Append(s, c), c, by) = Substituted(s, c, by) \o by
<1> DEFINE f == [y \in C |-> IF y = c THEN by ELSE <<y>>]
           a == Append(s, c)
           m == [i \in DOMAIN s |-> f[s[i]]]
<1>1. /\ a \in Seq(C) /\ DOMAIN s = 1 .. Len(s) /\ DOMAIN a = 1 .. Len(a) /\ Len(s) \in Nat
      /\ (\A i \in DOMAIN s : s[i] \in C) /\ (\A i \in DOMAIN a : a[i] \in C)
  BY AppendProperties, LenProperties, ElementOfSeq
<1>2. \A y \in C : f[y] = (IF y = c THEN by ELSE <<y>>) /\ f[y] \in Seq(C)
  OBVIOUS
<1>3. /\ Substituted(s, c, by) = FlattenSeq(m)
      /\ Substituted(a, c, by) = FlattenSeq([i \in DOMAIN a |-> f[a[i]]])
  BY <1>1, <1>2 DEF Substituted
<1>6. f[c] = by
  BY <1>2
<1> HIDE DEF f
<1>4. [i \in DOMAIN a |-> f[a[i]]] = Append(m, f[c])
  BY MapAppend
<1>5. m \in Seq(Seq(C))
  <2>1. \A i \in 1 .. Len(s) : f[s[i]] \in Seq(C)
    BY <1>1, <1>2
  <2>2. QED
    BY <1>1, <2>1
<1> HIDE DEF m, a
<1>7. FlattenSeq(Append(m, by)) = FlattenSeq(m) \o by /\ FlattenSeq(m) \in Seq(C)
  BY <1>5, FlattenAppend, FlattenType
<1>8. QED
  BY <1>3, <1>4, <1>6, <1>7 DEF a

LEMMA OneIsEscaped ==
    ASSUME NEW C, NEW s \in Seq(C), NEW c \in C, NEW a \in C, NEW b \in C
    PROVE  Substituted(Append(s, c), c, <<a, b>>) = Append(Append(Substituted(s, c, <<a, b>>), a), b)
<1> DEFINE by == <<a, b>>
           t == Substituted(s, c, by)
<1>1. by \in Seq(C)
  OBVIOUS
<1> HIDE DEF by
<1>2. t \in Seq(C)
  BY <1>1, ReplacedGrows
<1>3. Substituted(Append(s, c), c, by) = t \o by
  BY <1>1, OneIsReplaced
<1> HIDE DEF t
<1>4. t \o <<a, b>> = Append(Append(t, a), b)
  BY <1>2
<1>5. QED
  BY <1>3, <1>4 DEF t, by

LEMMA OneIsDropped ==
    ASSUME NEW C, NEW s \in Seq(C), NEW c \in C
    PROVE  Substituted(Append(s, c), c, <<>>) = Substituted(s, c, <<>>)
<1> DEFINE none == <<>>
           t == Substituted(s, c, none)
<1>1. none \in Seq(C)
  BY EmptySeq
<1> HIDE DEF none
<1>2. t \in Seq(C)
  BY <1>1, ReplacedGrows
<1>3. Substituted(Append(s, c), c, none) = t \o none
  BY <1>1, OneIsReplaced
<1> HIDE DEF t
<1>4. t \o <<>> = t
  BY <1>2, ConcatEmptySeq
<1>5. QED
  BY <1>3, <1>4 DEF t, none

LEMMA TwoStay ==
    ASSUME NEW C, NEW s \in Seq(C), NEW x \in C, NEW y \in C, NEW c, x # c, y # c, NEW by \in Seq(C)
    PROVE  Substituted(Append(Append(s, x), y), c, by) = Append(Append(Substituted(s, c, by), x), y)
<1> DEFINE u == Append(s, x)
<1>1. u \in Seq(C)
  BY AppendProperties
<1>2. Substituted(u, c, by) = Append(Substituted(s, c, by), x)
  BY OneStays
<1> HIDE DEF u
<1>3. Substituted(Append(u, y), c, by) = Append(Substituted(u, c, by), y)
  BY <1>1, OneStays
<1>4. QED
  BY <1>2, <1>3 DEF u

LEMMA EqualsIsEscaped ==
    ASSUME NEW C, NEW s \in Seq(C), Equals \in C, Backslash \in C
    PROVE  Substituted(Append(s, Equals), Equals, <<Backslash, Equals>>)
            = Append(Append(Substituted(s, Equals, <<Backslash, Equals>>), Backslash), Equals)
BY SMTT(60), OneIsEscaped

LEMMA FeedIsEscaped ==
    ASSUME NEW C, NEW s \in Seq(C), LF \in C, Backslash \in C, "n" \in C
    PROVE  Substituted(Append(s, LF), LF, <<Backslash, "n">>)
            = Append(Append(Substituted(s, LF, <<Backslash, "n">>), Backslash), "n")
BY SMTT(60), OneIsEscaped

(* A value escaped, one character after the other: the backslashes are     *)
(* doubled before the others put new ones in.                              *)
Characters(C) == {Backslash, Equals, LF, CR, "n"} \subseteq C

LEMMA EscapeGrows ==
    ASSUME NEW C, Characters(C), NEW s \in Seq(C), NEW c \in C
    PROVE  /\ EscapeValue(s) \in Seq(C)
           /\ EscapeValue(Append(s, c)) =
                CASE c \in {Backslash, Equals} -> Append(Append(EscapeValue(s), Backslash), c)
                  [] c = LF -> Append(Append(EscapeValue(s), Backslash), "n")
                  [] c = CR -> EscapeValue(s)
                  [] OTHER -> Append(EscapeValue(s), c)
<1> DEFINE bb == <<Backslash, Backslash>>
           be == <<Backslash, Equals>>
           bn == <<Backslash, "n">>
           no == <<>>
           p == Substituted(s, Backslash, bb)
           q == Substituted(p, Equals, be)
           r == Substituted(q, LF, bn)
           v == Substituted(r, CR, no)
           a == Append(s, c)
           E(t) == Substituted(Substituted(Substituted(Substituted(t,
                        Backslash, bb), Equals, be), LF, bn), CR, no)
<1>1. /\ Backslash \in C /\ Equals \in C /\ LF \in C /\ CR \in C /\ "n" \in C
  BY DEF Characters
<1>2. bb \in Seq(C) /\ be \in Seq(C) /\ bn \in Seq(C) /\ no \in Seq(C)
  BY <1>1, EmptySeq
<1>3. EscapeValue(s) = v /\ EscapeValue(a) = E(a)
  BY DEF EscapeValue
<1> HIDE DEF bb, be, bn, no
<1>4. p \in Seq(C) /\ a \in Seq(C)
  BY <1>1, <1>2, ReplacedGrows, AppendProperties
<1> HIDE DEF p
<1>5. q \in Seq(C)
  BY <1>1, <1>2, <1>4, ReplacedGrows
<1> HIDE DEF q
<1>6. r \in Seq(C)
  BY <1>1, <1>2, <1>5, ReplacedGrows
<1> HIDE DEF r
<1>7. v \in Seq(C)
  BY <1>1, <1>2, <1>6, ReplacedGrows
<1> HIDE DEF v
<1>8. CASE c = Backslash
  <2>1. Substituted(a, Backslash, bb) = Append(Append(p, Backslash), Backslash)
    BY SMTT(60), <1>1, <1>8, OneIsEscaped DEF bb, p
  <2>2. Substituted(Append(Append(p, Backslash), Backslash), Equals, be)
            = Append(Append(q, Backslash), Backslash)
    BY <1>1, <1>2, <1>4, Special, TwoStay DEF q
  <2>3. Substituted(Append(Append(q, Backslash), Backslash), LF, bn)
            = Append(Append(r, Backslash), Backslash)
    BY <1>1, <1>2, <1>5, Special, TwoStay DEF r
  <2>4. Substituted(Append(Append(r, Backslash), Backslash), CR, no)
            = Append(Append(v, Backslash), Backslash)
    BY <1>1, <1>2, <1>6, Special, TwoStay DEF v
  <2>5. E(a) = Append(Append(v, Backslash), c)
    BY <1>8, <2>1, <2>2, <2>3, <2>4
  <2> HIDE DEF E
  <2>6. QED
    BY <1>3, <1>7, <1>8, <2>5, Special DEF a
<1>9. CASE c = Equals
  <2>1. Substituted(a, Backslash, bb) = Append(p, Equals)
    BY <1>1, <1>2, <1>9, Special, OneStays DEF p
  <2>2. Substituted(Append(p, Equals), Equals, be) = Append(Append(q, Backslash), Equals)
    BY <1>1, <1>4, EqualsIsEscaped DEF be, q
  <2>3. Substituted(Append(Append(q, Backslash), Equals), LF, bn)
            = Append(Append(r, Backslash), Equals)
    BY <1>1, <1>2, <1>5, Special, TwoStay DEF r
  <2>4. Substituted(Append(Append(r, Backslash), Equals), CR, no)
            = Append(Append(v, Backslash), Equals)
    BY <1>1, <1>2, <1>6, Special, TwoStay DEF v
  <2>5. E(a) = Append(Append(v, Backslash), c)
    BY <1>9, <2>1, <2>2, <2>3, <2>4
  <2> HIDE DEF E
  <2>6. QED
    BY <1>3, <1>7, <1>9, <2>5, Special DEF a
<1>10. CASE c = LF
  <2>1. Substituted(a, Backslash, bb) = Append(p, LF)
    BY <1>1, <1>2, <1>10, Special, OneStays DEF p
  <2>2. Substituted(Append(p, LF), Equals, be) = Append(q, LF)
    BY <1>1, <1>2, <1>4, Special, OneStays DEF q
  <2>3. Substituted(Append(q, LF), LF, bn) = Append(Append(r, Backslash), "n")
    BY <1>1, <1>5, FeedIsEscaped DEF bn, r
  <2>4. Substituted(Append(Append(r, Backslash), "n"), CR, no) = Append(Append(v, Backslash), "n")
    BY <1>1, <1>2, <1>6, Special, TwoStay DEF v
  <2>5. E(a) = Append(Append(v, Backslash), "n")
    BY <2>1, <2>2, <2>3, <2>4
  <2> HIDE DEF E
  <2>6. QED
    BY <1>3, <1>7, <1>10, <2>5, Special DEF a
<1>11. CASE c = CR
  <2>1. Substituted(a, Backslash, bb) = Append(p, CR)
    BY <1>1, <1>2, <1>11, Special, OneStays DEF p
  <2>2. Substituted(Append(p, CR), Equals, be) = Append(q, CR)
    BY <1>1, <1>2, <1>4, Special, OneStays DEF q
  <2>3. Substituted(Append(q, CR), LF, bn) = Append(r, CR)
    BY <1>1, <1>2, <1>5, Special, OneStays DEF r
  <2>4. Substituted(Append(r, CR), CR, no) = v
    BY <1>1, <1>6, OneIsDropped DEF no, v
  <2>5. E(a) = v
    BY <2>1, <2>2, <2>3, <2>4
  <2> HIDE DEF E
  <2>6. QED
    BY <1>3, <1>7, <1>11, <2>5, Special DEF a
<1>12. CASE c \notin {Backslash, Equals, LF, CR}
  <2>0. c # Backslash /\ c # Equals /\ c # LF /\ c # CR
    BY <1>12
  <2>1. Substituted(a, Backslash, bb) = Append(p, c)
    BY <1>1, <1>2, <2>0, OneStays DEF p
  <2>2. Substituted(Append(p, c), Equals, be) = Append(q, c)
    BY <1>1, <1>2, <1>4, <2>0, OneStays DEF q
  <2>3. Substituted(Append(q, c), LF, bn) = Append(r, c)
    BY <1>1, <1>2, <1>5, <2>0, OneStays DEF r
  <2>4. Substituted(Append(r, c), CR, no) = Append(v, c)
    BY <1>1, <1>2, <1>6, <2>0, OneStays DEF v
  <2>5. E(a) = Append(v, c)
    BY <2>1, <2>2, <2>3, <2>4
  <2> HIDE DEF E
  <2>6. QED
    BY <1>3, <1>7, <2>0, <2>5 DEF a
<1>13. QED
  BY <1>8, <1>9, <1>10, <1>11, <1>12

(* What a value is to a conforming reader once it is escaped: itself       *)
(* without its carriage returns, with no equals sign that would begin      *)
(* another field, on one line.                                             *)
Spelled(out) == [i \in DOMAIN out |-> out[i].char]
ReadChars(C) == [char : C, mark : BOOLEAN]
GoesThrough(C, text) ==
    LET line == EscapeValue(text)
        read == Scan(line)
    IN  /\ read = Has(read.out) /\ read.out \in Seq(ReadChars(C))
        /\ Spelled(read.out) = Substituted(text, CR, <<>>)
        /\ \A i \in 1 .. Len(read.out) : read.out[i] # Plain(Equals)
        /\ \A i \in 1 .. Len(line) : line[i] \notin {LF, CR}

LEMMA NothingIsEscaped == \A C : GoesThrough(C, <<>>)
<1>1. EscapeValue(<<>>) = <<>> /\ Substituted(<<>>, CR, <<>>) = <<>>
  BY NothingToReplace DEF EscapeValue
<1>2. Unread = Has(<<>>) /\ Has(<<>>).out = <<>>
  BY DEF Unread, Has
<1>3. Spelled(<<>>) = <<>> /\ Len(<<>>) = 0
  BY DEF Spelled
<1>4. ASSUME NEW C PROVE GoesThrough(C, <<>>)
  <2>1. <<>> \in Seq(ReadChars(C))
    BY EmptySeq
  <2> DEFINE none == <<>>
  <2>2. /\ EscapeValue(none) = none /\ Scan(none) = Has(none) /\ Has(none).out = none
        /\ none \in Seq(ReadChars(C)) /\ Spelled(none) = none /\ Len(none) = 0
        /\ Substituted(none, CR, <<>>) = none
    BY <1>1, <1>2, <1>3, <2>1, ScanOfNone
  <2> HIDE DEF none
  <2>3. GoesThrough(C, none)
    <3>1. none = Scan(EscapeValue(none)).out
      BY <2>2
    <3>2. \A i \in 1 .. Len(none) : FALSE
      BY <2>2
    <3>3. QED
      BY <2>2, <3>1, <3>2 DEF GoesThrough
  <2>4. QED
    BY <2>3 DEF none
<1>5. QED
  BY <1>4

LEMMA OneMoreRead ==
    ASSUME NEW C, NEW out \in Seq(ReadChars(C)), NEW token \in ReadChars(C)
    PROVE  /\ Append(out, token) \in Seq(ReadChars(C))
           /\ Spelled(Append(out, token)) = Append(Spelled(out), token.char)
<1> DEFINE f == [y \in ReadChars(C) |-> y.char]
           a == Append(out, token)
<1>1. /\ a \in Seq(ReadChars(C)) /\ DOMAIN out = 1 .. Len(out) /\ DOMAIN a = 1 .. Len(a)
      /\ (\A i \in DOMAIN out : out[i] \in ReadChars(C)) /\ (\A i \in DOMAIN a : a[i] \in ReadChars(C))
  BY AppendProperties, LenProperties, ElementOfSeq
<1>2. \A y \in ReadChars(C) : f[y] = y.char
  OBVIOUS
<1>3. Spelled(out) = [i \in DOMAIN out |-> f[out[i]]] /\ Spelled(a) = [i \in DOMAIN a |-> f[a[i]]]
  BY <1>1, <1>2 DEF Spelled
<1> HIDE DEF f
<1>4. [i \in DOMAIN a |-> f[a[i]]] = Append([i \in DOMAIN out |-> f[out[i]]], f[token])
  BY MapAppend
<1>5. QED
  BY <1>1, <1>2, <1>3, <1>4

LEMMA CleanGrows ==
    ASSUME NEW C, NEW l \in Seq(C), \A i \in 1 .. Len(l) : l[i] \notin {LF, CR},
           NEW x \in C, x \notin {LF, CR}
    PROVE  /\ Append(l, x) \in Seq(C)
           /\ \A i \in 1 .. Len(Append(l, x)) : Append(l, x)[i] \notin {LF, CR}
BY AppendProperties

LEMMA EscapeNeverLeaves ==
    ASSUME NEW C, Characters(C), NEW s \in Seq(C)
    PROVE  EscapeValue(s) \in Seq(C)
<1>1. LF \in C
  BY DEF Characters
<1>2. QED
  BY <1>1, EscapeGrows

LEMMA EscapedGoesThrough ==
    ASSUME NEW C, Characters(C), NEW s \in Seq(C), GoesThrough(C, s), NEW c \in C
    PROVE  GoesThrough(C, Append(s, c))
<1> DEFINE e == EscapeValue(s)
           a == Append(s, c)
           l == EscapeValue(a)
           out == Scan(e).out
<1>1. /\ Backslash \in C /\ Equals \in C /\ LF \in C /\ CR \in C /\ "n" \in C
  BY DEF Characters
<1>2. /\ Scan(e) = Has(out) /\ out \in Seq(ReadChars(C))
      /\ Spelled(out) = Substituted(s, CR, <<>>)
      /\ \A i \in 1 .. Len(out) : out[i] # Plain(Equals)
      /\ \A i \in 1 .. Len(e) : e[i] \notin {LF, CR}
  BY DEF GoesThrough
<1>3. e \in Seq(C)
  BY EscapeGrows
<1>4. l = CASE c \in {Backslash, Equals} -> Append(Append(e, Backslash), c)
            [] c = LF -> Append(Append(e, Backslash), "n")
            [] c = CR -> e
            [] OTHER -> Append(e, c)
  BY EscapeGrows
<1>5. c # CR => Substituted(a, CR, <<>>) = Append(Substituted(s, CR, <<>>), c)
  <2> DEFINE none == <<>>
  <2>1. none \in Seq(C)
    BY EmptySeq
  <2> HIDE DEF none
  <2>2. c # CR => Substituted(a, CR, none) = Append(Substituted(s, CR, none), c)
    BY <2>1, OneStays
  <2>3. QED
    BY <2>2 DEF none
<1>6. c = CR => Substituted(a, CR, <<>>) = Substituted(s, CR, <<>>)
  <2> HAVE c = CR
  <2>1. Substituted(Append(s, CR), CR, <<>>) = Substituted(s, CR, <<>>)
    BY <1>1, OneIsDropped
  <2>2. QED
    BY <2>1
<1> HIDE DEF e, out
<1>7. CASE c = CR
  <2>1. l = e
    BY <1>4, <1>7, Special
  <2> HIDE DEF l
  <2>2. Scan(l) = Has(out) /\ Has(out).out = out
    BY <1>2, <2>1 DEF Has
  <2>3. Substituted(a, CR, <<>>) = Spelled(out)
    BY <1>2, <1>6, <1>7
  <2> HIDE DEF a
  <2>4. QED
    BY <1>2, <2>1, <2>2, <2>3 DEF GoesThrough, l, a
<1>8. CASE c # CR
  <2> SUFFICES ASSUME NEW token \in ReadChars(C), token.char = c, token # Plain(Equals),
                      Scan(l) = Has(Append(out, token)),
                      \A i \in 1 .. Len(l) : l[i] \notin {LF, CR}
               PROVE  GoesThrough(C, a)
    <3>1. CASE c \in {Backslash, Equals}
      <4>1. l = Append(Append(e, Backslash), c)
        BY <1>4, <3>1, Special
      <4> HIDE DEF l
      <4>2. Scan(l) = Has(Append(out, Escaped(c)))
        BY <1>1, <1>2, <1>3, <4>1, EscapedIsRead
      <4>3. Escaped(c) \in ReadChars(C) /\ Escaped(c).char = c /\ Escaped(c) # Plain(Equals)
        BY <1>1, <3>1, Special DEF Escaped, ReadChars, Plain
      <4>4. \A i \in 1 .. Len(l) : l[i] \notin {LF, CR}
        BY <1>1, <1>2, <1>3, <3>1, <4>1, Special, CleanGrows, AppendProperties
      <4>5. QED
        BY <4>2, <4>3, <4>4 DEF l
    <3>2. CASE c = LF
      <4>1. l = Append(Append(e, Backslash), "n")
        BY <1>4, <3>2, Special
      <4> HIDE DEF l
      <4>2. Scan(l) = Has(Append(out, Escaped("n")))
        BY <1>1, <1>2, <1>3, <4>1, EscapedIsRead
      <4>3. Escaped("n") \in ReadChars(C) /\ Escaped("n").char = c /\ Escaped("n") # Plain(Equals)
        BY <1>1, <3>2, Special DEF Escaped, ReadChars, Plain
      <4>4. \A i \in 1 .. Len(l) : l[i] \notin {LF, CR}
        BY <1>1, <1>2, <1>3, <4>1, Special, CleanGrows, AppendProperties
      <4>5. QED
        BY <4>2, <4>3, <4>4 DEF l
    <3>3. CASE c \notin {Backslash, Equals, LF}
      <4>1. l = Append(e, c)
        BY <1>4, <1>8, <3>3
      <4> HIDE DEF l
      <4>2. Scan(l) = Has(Append(out, Plain(c)))
        BY <1>1, <1>2, <1>3, <3>3, <4>1, PlainIsRead
      <4>3. Plain(c) \in ReadChars(C) /\ Plain(c).char = c /\ Plain(c) # Plain(Equals)
        BY <1>1, <3>3, Special DEF ReadChars, Plain
      <4>4. \A i \in 1 .. Len(l) : l[i] \notin {LF, CR}
        BY <1>2, <1>3, <1>8, <3>3, <4>1, CleanGrows
      <4>5. QED
        BY <4>2, <4>3, <4>4 DEF l
    <3>4. QED
      BY <3>1, <3>2, <3>3
  <2> DEFINE more == Append(out, token)
  <2>1. more \in Seq(ReadChars(C)) /\ Spelled(more) = Append(Spelled(out), c)
    BY <1>2, OneMoreRead
  <2>2. Scan(l) = Has(more) /\ Has(more).out = more
    BY DEF Has
  <2>3. \A i \in 1 .. Len(more) : more[i] # Plain(Equals)
    BY <1>2, AppendProperties
  <2>4. Substituted(a, CR, <<>>) = Spelled(more)
    BY <1>2, <1>5, <1>8, <2>1
  <2> HIDE DEF more, a, l
  <2>5. QED
    BY <2>1, <2>2, <2>3, <2>4 DEF GoesThrough, l
<1>9. QED
  BY <1>7, <1>8

(* Every value the datagram carries comes back from a conforming reader as *)
(* it was (but for the carriage returns the code drops), whatever it is    *)
(* made of: the reader is left behind no backslash, meets no equals sign   *)
(* of a field, and the value holds no end of a line (escape_value).        *)
THEOREM ValuesReadBack ==
    \A text : \A C : text \in Seq(C) =>
        /\ ~Scan(EscapeValue(text)).escape
        /\ LET tokens == Tokens(EscapeValue(text))
           IN  /\ Spelled(tokens) = NoCR(text)
               /\ [char |-> Equals, mark |-> TRUE] \notin ToSet(tokens)
        /\ {LF, CR} \cap ToSet(EscapeValue(text)) = {}
<1> SUFFICES ASSUME NEW text, NEW D, text \in Seq(D)
             PROVE  /\ ~Scan(EscapeValue(text)).escape
                    /\ LET tokens == Tokens(EscapeValue(text))
                       IN  /\ Spelled(tokens) = NoCR(text)
                           /\ [char |-> Equals, mark |-> TRUE] \notin ToSet(tokens)
                    /\ {LF, CR} \cap ToSet(EscapeValue(text)) = {}
  OBVIOUS
<1> DEFINE C == D \cup {Backslash, Equals, LF, CR, "n"}
           T == {s \in Seq(C) : GoesThrough(C, s)}
           line == EscapeValue(text)
           read == Scan(line)
<1>1. Characters(C) /\ text \in Seq(C)
  <2>1. DOMAIN text = 1 .. Len(text) /\ Len(text) \in Nat /\ \A i \in 1 .. Len(text) : text[i] \in D
    BY LenProperties, ElementOfSeq
  <2>2. \A i \in 1 .. Len(text) : text[i] \in C
    BY <2>1
  <2>3. text = [i \in 1 .. Len(text) |-> text[i]]
    BY <2>1
  <2>4. QED
    BY <2>1, <2>2, <2>3 DEF Characters
<1> HIDE DEF C
<1>2. <<>> \in T
  BY NothingIsEscaped, EmptySeq
<1>3. \A s \in Seq(C) : \A c \in C : s \in T => Append(s, c) \in T
  BY <1>1, EscapedGoesThrough, AppendProperties
<1> HIDE DEF T
<1>4. Seq(C) \subseteq T
  BY <1>2, <1>3, SeqInduction
<1>5. GoesThrough(C, text)
  BY <1>1, <1>4 DEF T
<1>6. line \in Seq(C)
  BY <1>1, EscapeNeverLeaves
<1>7. NoCR(text) = Substituted(text, CR, <<>>)
  BY DEF NoCR, Kept, Substituted, ToSet
<1>8. ~read.escape /\ Spelled(read.out) = NoCR(text)
  BY <1>5, <1>7 DEF GoesThrough, Has
<1>9. Plain(Equals) \notin ToSet(read.out)
  BY <1>5, LenProperties DEF GoesThrough, ToSet
<1>10. {LF, CR} \cap ToSet(line) = {}
  BY <1>5, <1>6, LenProperties DEF GoesThrough, ToSet
<1>11. QED
  BY <1>8, <1>9, <1>10 DEF Plain, Tokens
=============================================================================
