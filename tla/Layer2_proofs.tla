--------------------------- MODULE Layer2_proofs ---------------------------
(***************************************************************************)
(* Safety of layer 2.  Of the service in front of the model, for any set   *)
(* of calls: how many requests there are, how many parts each has and how  *)
(* deep the channel gets play no part.  Of what it reads of an attachment  *)
(* and finds in it, for any documents, limits, labels and model lengths.   *)
(***************************************************************************)
EXTENDS NerService, Reading, DataLemmas, FiniteSetTheorems

\* The elements of a sequence, as Queued takes them of the queue.
RangeOf(q) == {q[i] : i \in DOMAIN q}

(* Appending to a sequence adds the one element to its range.              *)
LEMMA AppendedRange ==
    ASSUME NEW S, NEW q \in Seq(S), NEW e \in S
    PROVE  /\ Append(q, e) \in Seq(S)
           /\ RangeOf(Append(q, e)) = RangeOf(q) \cup {e}
<1>1. /\ Append(q, e) \in Seq(S)
      /\ Len(Append(q, e)) = Len(q) + 1
      /\ \A i \in 1 .. Len(q) : Append(q, e)[i] = q[i]
      /\ Append(q, e)[Len(q) + 1] = e
      /\ DOMAIN Append(q, e) = 1 .. Len(q) + 1
      /\ DOMAIN q = 1 .. Len(q)
      /\ Len(q) \in Nat
  OBVIOUS
<1> DEFINE a == Append(q, e)
           n == Len(q)
<1> HIDE DEF a, n
<1>2. \A i \in 1 .. n + 1 : i \in 1 .. n \/ i = n + 1
  BY <1>1 DEF n
<1>3. RangeOf(a) \subseteq RangeOf(q) \cup {e}
  BY <1>1, <1>2 DEF RangeOf, a, n
<1>4. n + 1 \in 1 .. n + 1 /\ 1 .. n \subseteq 1 .. n + 1
  BY <1>1 DEF n
<1>5. RangeOf(q) \cup {e} \subseteq RangeOf(a)
  BY <1>1, <1>4 DEF RangeOf, a, n
<1>6. QED
  BY <1>1, <1>3, <1>5 DEF a

(* Taking the head off a sequence takes at most that element off its range.*)
LEMMA TailRange ==
    ASSUME NEW S, NEW q \in Seq(S), q # <<>>
    PROVE  /\ Tail(q) \in Seq(S) /\ Head(q) \in S
           /\ RangeOf(q) = RangeOf(Tail(q)) \cup {Head(q)}
<1>1. /\ Tail(q) \in Seq(S)
      /\ Head(q) = q[1] /\ q[1] \in S
      /\ Len(q) \in Nat /\ Len(q) > 0
      /\ DOMAIN q = 1 .. Len(q)
      /\ DOMAIN Tail(q) = 1 .. Len(q) - 1
      /\ \A i \in 1 .. Len(q) - 1 : Tail(q)[i] = q[i + 1]
  OBVIOUS
<1> DEFINE t == Tail(q)
           n == Len(q)
<1> HIDE DEF t, n
<1>2. \A i \in 1 .. n : i = 1 \/ (i - 1 \in 1 .. n - 1 /\ (i - 1) + 1 = i)
  BY <1>1 DEF n
<1>3. ASSUME NEW x \in RangeOf(q) PROVE x \in RangeOf(t) \cup {q[1]}
  <2>1. PICK i \in 1 .. n : x = q[i]
    BY <1>1 DEF RangeOf, n
  <2>2. CASE i = 1
    BY <2>1, <2>2
  <2>3. CASE i # 1
    <3>1. i - 1 \in 1 .. n - 1 /\ (i - 1) + 1 = i
      BY <1>2, <2>3
    <3>2. t[i - 1] = x
      BY <1>1, <2>1, <3>1 DEF t, n
    <3>3. QED
      BY <1>1, <3>1, <3>2 DEF RangeOf, t, n
  <2>4. QED
    BY <2>2, <2>3
<1>4. 1 \in 1 .. n /\ \A i \in 1 .. n - 1 : i + 1 \in 1 .. n
  BY <1>1 DEF n
<1>5. RangeOf(t) \cup {q[1]} \subseteq RangeOf(q)
  BY <1>1, <1>4 DEF RangeOf, t, n
<1>6. QED
  BY <1>1, <1>3, <1>5 DEF t

-----------------------------------------------------------------------------
(* The inductive invariant.  HeldOnce alone is not inductive: that a call  *)
(* being submitted is not held already needs HeldWasSent.                  *)
IInv == TypeOK /\ PendingIsHeld /\ HeldOnce /\ HeldWasSent

(* A service that has just started satisfies the invariant.               *)
LEMMA InitIInv == Init => IInv
<1> SUFFICES ASSUME Init PROVE IInv
  OBVIOUS
<1>1. queue = <<>> /\ running = {} /\ alive = TRUE /\ reply = [c \in Calls |-> "unsent"]
  BY DEF Init
<1>2. DOMAIN queue = {} /\ queue \in Seq(Calls)
  BY <1>1
<1>3. Queued = {} /\ Held = {}
  BY <1>1, <1>2 DEF Queued, Held
<1>4. QED
  BY <1>1, <1>2, <1>3 DEF IInv, TypeOK, PendingIsHeld, HeldOnce, HeldWasSent

(* Every step of a caller, of a timer or of the worker preserves it.      *)
LEMMA StepIInv == IInv /\ [Next]_nerVars => IInv'
<1> SUFFICES ASSUME IInv, [Next]_nerVars PROVE IInv'
  OBVIOUS
<1> USE DEF IInv
<1>q. Queued = RangeOf(queue) /\ Queued' = RangeOf(queue')
  BY DEF Queued, RangeOf
<1>1. ASSUME NEW c \in Calls, Submit(c) PROVE IInv'
  <2>1. CASE alive
    <3>1. /\ queue' = Append(queue, c)
          /\ reply' = [reply EXCEPT ![c] = "pending"]
          /\ running' = running /\ alive' = alive
          /\ c \notin Held
      BY <1>1, <2>1 DEF Submit, HeldWasSent
    <3>2. queue' \in Seq(Calls) /\ Queued' = Queued \cup {c}
      BY <3>1, <1>q, AppendedRange DEF TypeOK
    <3>3. TypeOK'
      BY <3>1, <3>2 DEF TypeOK, Final, Unavailable
    <3>4. Held' = Held \cup {c}
      BY <3>1, <3>2 DEF Held
    <3>5. HeldOnce'
      <4>1. \A i, j \in DOMAIN queue' : queue'[i] = queue'[j] => i = j
        <5> SUFFICES ASSUME NEW i \in DOMAIN queue', NEW j \in DOMAIN queue',
                            queue'[i] = queue'[j]
                     PROVE  i = j
          OBVIOUS
        <5>1. /\ DOMAIN queue = 1 .. Len(queue) /\ Len(queue) \in Nat
              /\ DOMAIN queue' = 1 .. Len(queue) + 1
              /\ queue'[Len(queue) + 1] = c
              /\ \A n \in DOMAIN queue : queue'[n] = queue[n] /\ queue[n] # c
          BY <3>1 DEF TypeOK, Held, Queued
        <5>2. \A n \in DOMAIN queue' : n \in DOMAIN queue \/ n = Len(queue) + 1
          BY <5>1
        <5>3. QED
          BY <5>1, <5>2 DEF HeldOnce
      <4>2. running' \cap Queued' = {}
        BY <3>1, <3>2 DEF HeldOnce, Held
      <4>3. QED
        BY <3>1, <4>1, <4>2 DEF HeldOnce
    <3>6. PendingIsHeld' /\ HeldWasSent'
      BY <3>1, <3>4 DEF PendingIsHeld, HeldWasSent, TypeOK
    <3>7. QED
      BY <2>1, <3>1, <3>3, <3>5, <3>6
  <2>2. CASE ~alive
    <3>1. /\ reply' = [reply EXCEPT ![c] = "refused"]
          /\ queue' = queue /\ running' = running /\ alive' = alive
      BY <1>1, <2>2 DEF Submit
    <3>2. Held' = Held /\ Queued' = Queued /\ c \notin Held
      BY <1>1, <3>1, <1>q DEF Held, Submit, HeldWasSent
    <3>3. TypeOK'
      BY <3>1 DEF TypeOK, Final, Unavailable
    <3>4. QED
      BY <3>1, <3>2, <3>3
      DEF PendingIsHeld, HeldOnce, HeldWasSent, TypeOK
  <2>3. QED
    BY <2>1, <2>2 DEF TypeOK
<1>2. ASSUME NEW c \in Calls, TimeOut(c) \/ Cancel(c) PROVE IInv'
  <2>1. /\ queue' = queue /\ running' = running /\ alive' = alive
        /\ reply[c] = "pending"
        /\ \E answer \in {"timedout", "cancelled"} : reply' = [reply EXCEPT ![c] = answer]
    BY <1>2 DEF TimeOut, Cancel
  <2>2. Held' = Held /\ Queued' = Queued
    BY <2>1, <1>q DEF Held
  <2>3. TypeOK'
    BY <2>1 DEF TypeOK, Final, Unavailable
  <2>4. QED
    BY <2>1, <2>2, <2>3 DEF PendingIsHeld, HeldOnce, HeldWasSent, TypeOK
<1>3. CASE Take
  <2>1. /\ alive /\ running = {} /\ queue # <<>>
        /\ running' = {Head(queue)} /\ queue' = Tail(queue)
        /\ alive' = alive /\ reply' = reply
    BY <1>3 DEF Take
  <2>2. /\ queue' \in Seq(Calls) /\ Head(queue) \in Calls
        /\ Queued = Queued' \cup {Head(queue)}
    BY <2>1, <1>q, TailRange DEF TypeOK
  <2>3. Held' = Held
    BY <2>1, <2>2 DEF Held
  <2>4. TypeOK'
    BY <2>1, <2>2 DEF TypeOK
  <2>5. HeldOnce'
    <3>1. /\ DOMAIN queue = 1 .. Len(queue) /\ Len(queue) \in Nat /\ Len(queue) > 0
          /\ DOMAIN queue' = 1 .. Len(queue) - 1
          /\ Head(queue) = queue[1]
          /\ \A n \in DOMAIN queue' : queue'[n] = queue[n + 1]
      BY <2>1 DEF TypeOK
    <3>2. /\ \A i, j \in DOMAIN queue : queue[i] = queue[j] => i = j
          /\ \A n \in DOMAIN queue' : n + 1 \in DOMAIN queue /\ n + 1 # 1 /\ n \in Nat
          /\ 1 \in DOMAIN queue
      BY <3>1 DEF HeldOnce
    <3>3. \A i, j \in DOMAIN queue' : queue'[i] = queue'[j] => i = j
      <4> SUFFICES ASSUME NEW i \in DOMAIN queue', NEW j \in DOMAIN queue',
                          queue'[i] = queue'[j]
                   PROVE  i = j
        OBVIOUS
      <4>1. i + 1 = j + 1
        BY <3>1, <3>2
      <4>2. QED
        BY <4>1, <3>2
    <3>4. \A n \in DOMAIN queue' : queue'[n] # Head(queue)
      BY <3>1, <3>2
    <3>5. QED
      BY <2>1, <3>3, <3>4 DEF HeldOnce, Queued
  <2>6. QED
    BY <2>1, <2>3, <2>4, <2>5 DEF PendingIsHeld, HeldWasSent
<1>4. ASSUME NEW c \in Calls, NEW result \in {"ok", "error"}, Answer(c, result) PROVE IInv'
  <2>1. /\ c \in running /\ running' = {} /\ queue' = queue /\ alive' = alive
        /\ reply' = [reply EXCEPT ![c] = IF @ = "pending" THEN result ELSE @]
    BY <1>4 DEF Answer
  <2>2. Queued' = Queued /\ running = {c} /\ Held' = Queued
    BY <2>1, <1>q DEF Held, HeldOnce
  <2>3. TypeOK'
    BY <2>1 DEF TypeOK, Final, Unavailable
  <2>4. Held = Queued \cup {c}
    BY <2>2 DEF Held
  <2>5. \A d \in Calls \ {c} : reply'[d] = reply[d]
    BY <2>1 DEF TypeOK
  <2>6. reply'[c] # "pending" /\ (reply[c] # "pending" => reply'[c] = reply[c])
    BY <2>1 DEF TypeOK
  <2>7. c \notin Queued
    BY <2>1 DEF HeldOnce
  <2>8. PendingIsHeld'
    BY <2>2, <2>4, <2>5, <2>6 DEF PendingIsHeld
  <2>9. HeldWasSent'
    <3>1. Held \subseteq Calls
      BY DEF Held, Queued, TypeOK
    <3>2. QED
      BY <2>2, <2>4, <2>5, <2>7, <3>1 DEF HeldWasSent
  <2>10. QED
    BY <2>1, <2>2, <2>3, <2>8, <2>9 DEF HeldOnce, Held
<1>5. CASE Die
  <2>1. /\ alive' = FALSE /\ queue' = <<>> /\ running' = {}
        /\ reply' = [c \in Calls |-> IF c \in Held /\ reply[c] = "pending"
                                     THEN "dropped" ELSE reply[c]]
    BY <1>5 DEF Die
  <2>2. DOMAIN queue' = {} /\ queue' \in Seq(Calls)
    BY <2>1
  <2>3. Queued' = {} /\ Held' = {}
    BY <2>1, <2>2 DEF Queued, Held
  <2>4. TypeOK'
    BY <2>1, <2>2 DEF TypeOK, Final, Unavailable
  <2>5. QED
    BY <2>1, <2>2, <2>3, <2>4 DEF PendingIsHeld, HeldOnce, HeldWasSent
<1>6. CASE Restart
  <2>1. /\ alive' = TRUE /\ queue' = <<>> /\ running' = {}
        /\ reply' = [c \in Calls |-> IF reply[c] = "pending" THEN "cancelled" ELSE reply[c]]
    BY <1>6 DEF Restart
  <2>2. DOMAIN queue' = {} /\ queue' \in Seq(Calls)
    BY <2>1
  <2>3. Queued' = {} /\ Held' = {}
    BY <2>1, <2>2 DEF Queued, Held
  <2>4. TypeOK'
    BY <2>1, <2>2 DEF TypeOK, Final, Unavailable
  <2>5. QED
    BY <2>1, <2>2, <2>3, <2>4 DEF PendingIsHeld, HeldOnce, HeldWasSent
<1>7. CASE UNCHANGED nerVars
  BY <1>7, <1>q
  DEF nerVars, TypeOK, PendingIsHeld, HeldOnce, HeldWasSent, Held, Queued
<1>8. QED
  BY <1>1, <1>2, <1>3, <1>4, <1>5, <1>6, <1>7 DEF Next

(* The invariant holds in every reachable state.                           *)
THEOREM Invariance == Spec => []IInv
<1>1. Init => IInv
  BY InitIInv
<1>2. IInv /\ [Next]_nerVars => IInv'
  BY StepIInv
<1>3. QED
  BY <1>1, <1>2, PTL DEF Spec

(* Every variable of the service keeps its type.                           *)
THEOREM TypeCorrect == Spec => []TypeOK
<1>1. IInv => TypeOK
  BY DEF IInv
<1>2. QED
  BY <1>1, Invariance, PTL

(* A caller that waits always has a job somebody holds: whatever the       *)
(* number of calls, no panic of the worker and no restart leaves one       *)
(* waiting on a channel nobody can write to.                               *)
THEOREM NobodyWaitsInVain == Spec => []PendingIsHeld
<1>1. IInv => PendingIsHeld
  BY DEF IInv
<1>2. QED
  BY <1>1, Invariance, PTL

(* The worker infers on the text of each call at most once.                *)
THEOREM NoJobIsRunTwice == Spec => []HeldOnce
<1>1. IInv => HeldOnce
  BY DEF IInv
<1>2. QED
  BY <1>1, Invariance, PTL

(* A late result, a panic or a restart never replaces the outcome a caller *)
(* has already acted on.                                                   *)
THEOREM OutcomesAreFinal == Spec => LateAnswerIsDiscarded
<1>1. IInv /\ [Next]_nerVars => [\A c \in Calls : reply[c] \in Final => reply'[c] = reply[c]]_nerVars
  <2> SUFFICES ASSUME IInv, [Next]_nerVars, NEW c \in Calls, reply[c] \in Final
               PROVE  reply'[c] = reply[c]
    OBVIOUS
  <2>1. reply \in [Calls -> {"unsent", "pending"} \cup Final]
    BY DEF IInv, TypeOK
  <2>2. reply[c] # "unsent" /\ reply[c] # "pending"
    BY DEF Final, Unavailable
  <2>3. ASSUME NEW d \in Calls,
               Submit(d) \/ TimeOut(d) \/ Cancel(d) \/ Answer(d, "ok") \/ Answer(d, "error")
        PROVE  reply'[c] = reply[c]
    BY <2>1, <2>2, <2>3 DEF Submit, TimeOut, Cancel, Answer
  <2>4. CASE Take \/ Die \/ Restart \/ UNCHANGED nerVars
    BY <2>1, <2>2, <2>4 DEF Take, Die, Restart, nerVars
  <2>5. QED
    BY <2>3, <2>4 DEF Next
<1>2. QED
  BY <1>1, Invariance, PTL DEF Spec, LateAnswerIsDiscarded

(* Jobs leave the channel oldest first, the abandoned ones included.       *)
THEOREM ServedInOrder == Spec => FirstInFirstOut
<1>1. IInv /\ [Next]_nerVars =>
        [\A i, j \in DOMAIN queue :
            i < j /\ queue[j] \notin Queued' => queue[i] \notin Queued']_nerVars
  <2> SUFFICES ASSUME IInv, [Next]_nerVars,
                      NEW i \in DOMAIN queue, NEW j \in DOMAIN queue,
                      i < j, queue[j] \notin Queued'
               PROVE  queue[i] \notin Queued'
    OBVIOUS
  <2>q. Queued = RangeOf(queue) /\ Queued' = RangeOf(queue') /\ queue \in Seq(Calls)
    BY DEF Queued, RangeOf, IInv, TypeOK
  <2>j. queue[j] \in Queued
    BY DEF Queued
  <2>1. ASSUME NEW c \in Calls, Submit(c) PROVE FALSE
    <3>1. queue' = queue \/ queue' = Append(queue, c)
      BY <2>1 DEF Submit
    <3>2. RangeOf(Append(queue, c)) = RangeOf(queue) \cup {c}
      BY <2>q, AppendedRange
    <3>3. CASE queue' = queue
      BY <2>j, <2>q, <3>3
    <3>4. CASE queue' = Append(queue, c)
      BY <2>j, <2>q, <3>2, <3>4
    <3>5. QED
      BY <3>1, <3>3, <3>4
  <2>2. CASE Take
    <3>1. queue # <<>> /\ queue' = Tail(queue)
      BY <2>2 DEF Take
    <3>2. /\ DOMAIN queue = 1 .. Len(queue) /\ Len(queue) \in Nat
          /\ DOMAIN queue' = 1 .. Len(queue) - 1
          /\ \A n \in DOMAIN queue' : queue'[n] = queue[n + 1]
      BY <2>q, <3>1
    <3>3. j - 1 \in DOMAIN queue' /\ (j - 1) + 1 = j
      BY <3>2
    <3>4. queue[j] = queue'[j - 1]
      BY <3>2, <3>3
    <3>5. QED
      BY <3>3, <3>4 DEF Queued
  <2>3. CASE Die \/ Restart
    <3>1. queue' = <<>>
      BY <2>3 DEF Die, Restart
    <3>2. QED
      BY <3>1 DEF Queued
  <2>4. ASSUME queue' = queue PROVE FALSE
    BY <2>j, <2>4, <2>q
  <2>5. ASSUME NEW c \in Calls, TimeOut(c) \/ Cancel(c) \/ Answer(c, "ok") \/ Answer(c, "error")
        PROVE  FALSE
    BY <2>4, <2>5 DEF TimeOut, Cancel, Answer
  <2>6. CASE UNCHANGED nerVars
    BY <2>4, <2>6 DEF nerVars
  <2>7. QED
    BY <2>1, <2>2, <2>3, <2>5, <2>6 DEF Next
<1>2. QED
  BY <1>1, Invariance, PTL DEF Spec, FirstInFirstOut

-----------------------------------------------------------------------------
(* The size of a unit, as a function.                                      *)
Sizes == [u \in Units |-> Size(u)]

(* Every unit counts for something in the limit.                           *)
LEMMA SizeType == \A u \in Units : Size(u) \in Nat \ {0} /\ Sizes[u] = Size(u)
<1>1. TagSize \in Nat \ {0}
  BY LimitsAssumption
<1> SUFFICES ASSUME NEW u \in Units PROVE Size(u) \in Nat \ {0}
  BY DEF Sizes
<1>2. CASE u \in Tags
  BY <1>1, <1>2 DEF Size
<1>3. CASE u \notin Tags
  BY <1>3 DEF Size
<1> QED BY <1>2, <1>3

LEMMA BytesOfNone == Bytes(<<>>) = 0
<1> DEFINE v == [i \in DOMAIN <<>> |-> Size(<<>>[i])]
<1>1. 0 \in Nat /\ DOMAIN v = 1 .. 0 /\ \A i \in 1 .. 0 : v[i] \in Int
  OBVIOUS
<1> HIDE DEF v
<1>2. \E p \in [0 .. 0 -> Int] : /\ p[0] = 0 /\ p[0] = Total(v)
                                 /\ \A i \in 1 .. 0 : p[i] = p[i - 1] + v[i]
  BY <1>1, TotalIsSum
<1>3. Total(v) = 0
  BY <1>2
<1> QED BY <1>3 DEF Bytes, v

(* The bytes of a text add up: one more unit, and one text behind another. *)
LEMMA BytesOfAppend ==
    ASSUME NEW s \in Seq(Units), NEW u \in Units
    PROVE  /\ Bytes(s) \in Int /\ Size(u) \in Nat \ {0}
           /\ Bytes(Append(s, u)) = Bytes(s) + Size(u)
<1> DEFINE n == Len(s)
           a == Append(s, u)
           v == [i \in DOMAIN s |-> Size(s[i])]
           w == [i \in DOMAIN a |-> Size(a[i])]
<1>1. /\ a \in Seq(Units) /\ Len(a) = n + 1 /\ n \in Nat
      /\ a[n + 1] = u /\ \A i \in 1 .. n : a[i] = s[i] /\ s[i] \in Units
      /\ DOMAIN s = 1 .. n /\ DOMAIN a = 1 .. n + 1
  BY AppendProperties, LenProperties, ElementOfSeq
<1>2. \A x \in Units : Size(x) \in Nat \ {0}
  BY SizeType
<1>3. DOMAIN v = 1 .. n /\ \A i \in 1 .. n : v[i] \in Int
  BY <1>1, <1>2
<1>4. n + 1 \in 1 .. n + 1 /\ 1 .. n \subseteq 1 .. n + 1
  BY <1>1
<1>5. DOMAIN w = 1 .. n + 1 /\ w[n + 1] = Size(u) /\ \A i \in 1 .. n : w[i] = v[i]
  BY <1>1, <1>4
<1> HIDE DEF n, a, v, w
<1>6. w[n + 1] \in Int
  BY <1>2, <1>5
<1>7. Total(v) \in Int /\ Total(w) = Total(v) + w[n + 1]
  BY <1>1, <1>3, <1>5, <1>6, TotalOfAppend
<1> QED BY <1>2, <1>5, <1>7 DEF Bytes, v, w, a

LEMMA BytesType == \A s \in Seq(Units) : Bytes(s) \in Nat
<1> DEFINE T == {s \in Seq(Units) : Bytes(s) \in Nat}
<1>1. <<>> \in T
  BY BytesOfNone
<1>2. ASSUME NEW s \in Seq(Units), NEW u \in Units, s \in T PROVE Append(s, u) \in T
  <2>1. /\ Bytes(s) \in Int /\ Size(u) \in Nat \ {0}
        /\ Bytes(Append(s, u)) = Bytes(s) + Size(u)
    BY BytesOfAppend
  <2> QED BY <1>2, <2>1
<1> HIDE DEF T
<1>3. Seq(Units) \subseteq T
  BY <1>1, <1>2, SeqInduction
<1> QED BY <1>3 DEF T

LEMMA BytesOfConcat ==
    ASSUME NEW s \in Seq(Units), NEW t \in Seq(Units)
    PROVE  Bytes(s \o t) = Bytes(s) + Bytes(t)
<1> DEFINE T == {r \in Seq(Units) : Bytes(s \o r) = Bytes(s) + Bytes(r)}
<1>1. <<>> \in T
  <2>1. s \o <<>> = s
    OBVIOUS
  <2>2. Bytes(s) \in Nat
    BY BytesType
  <2>3. <<>> \in Seq(Units) /\ Bytes(s) + 0 = Bytes(s)
    BY <2>2
  <2> QED BY <2>1, <2>3, BytesOfNone
<1>2. ASSUME NEW r \in Seq(Units), NEW u \in Units, r \in T PROVE Append(r, u) \in T
  <2>1. s \o Append(r, u) = Append(s \o r, u) /\ s \o r \in Seq(Units)
    BY ConcatAppend
  <2>2. Bytes(Append(s \o r, u)) = Bytes(s \o r) + Size(u) /\ Size(u) \in Nat \ {0}
    BY <2>1, BytesOfAppend
  <2>3. Bytes(Append(r, u)) = Bytes(r) + Size(u)
    BY BytesOfAppend
  <2>4. Bytes(s) \in Nat /\ Bytes(r) \in Nat
    BY BytesType
  <2>5. Bytes(s \o r) = Bytes(s) + Bytes(r)
    BY <1>2
  <2>6. (Bytes(s) + Bytes(r)) + Size(u) = Bytes(s) + (Bytes(r) + Size(u))
    BY <2>2, <2>4
  <2>7. Append(r, u) \in Seq(Units)
    OBVIOUS
  <2> QED BY <2>1, <2>2, <2>3, <2>5, <2>6, <2>7
<1> HIDE DEF T
<1>3. Seq(Units) \subseteq T
  BY <1>1, <1>2, SeqInduction
<1> QED BY <1>3 DEF T

(* Fitting is a prefix within the bytes, and the whole of what fits.       *)
LEMMA FittingFits ==
    ASSUME NEW s \in Seq(Units), NEW n \in Nat
    PROVE  /\ Fitting(s, n) \in Seq(Units)
           /\ Bytes(Fitting(s, n)) <= n
           /\ Bytes(s) <= n => Fitting(s, n) = s
<1> DEFINE K == {k \in 0 .. Len(s) : Bytes(SubSeq(s, 1, k)) <= n}
<1>1. Len(s) \in Nat /\ K \in SUBSET (0 .. Len(s))
  BY LenProperties
<1>2. SubSeq(s, 1, 0) = <<>> /\ SubSeq(s, 1, Len(s)) = s
  OBVIOUS
<1> DEFINE b(k) == Bytes(SubSeq(s, 1, k))
<1>0. b(0) = 0 /\ b(Len(s)) = Bytes(s)
  BY <1>2, BytesOfNone
<1>3. 0 \in K
  <2>1. K = {k \in 0 .. Len(s) : b(k) <= n}
    OBVIOUS
  <2> HIDE DEF b, K
  <2> QED BY <1>0, <1>1, <2>1
<1> HIDE DEF K
<1>4. Max(K) \in K /\ \A y \in K : y <= Max(K)
  BY <1>1, <1>3, MaxOfBounded
<1>5. Max(K) \in 0 .. Len(s) /\ Bytes(SubSeq(s, 1, Max(K))) <= n
  BY <1>4 DEF K
<1>6. Fitting(s, n) = SubSeq(s, 1, Max(K))
  BY DEF Fitting, K
<1>7. SubSeq(s, 1, Max(K)) \in Seq(Units)
  BY <1>5
<1>8. ASSUME Bytes(s) <= n PROVE Fitting(s, n) = s
  <2>1. Len(s) \in K
    <3>1. K = {k \in 0 .. Len(s) : b(k) <= n}
      BY DEF K
    <3> HIDE DEF b
    <3> QED BY <1>0, <1>1, <1>8, <3>1
  <2>2. Max(K) = Len(s)
    BY <1>1, <1>4, <1>5, <2>1
  <2> QED BY <1>2, <1>6, <2>2
<1> QED BY <1>5, <1>6, <1>7, <1>8

-----------------------------------------------------------------------------
(* Taking the tags out leaves no more bytes than there were.               *)
Without == [u \in Units |-> Stripped(u)]

(* Taking the tags out of a part makes a text, and never a longer one.     *)
LEMMA StrippedType ==
    \A u \in Units : /\ Stripped(u) \in Seq(Letters \cup {"space"}) /\ Without[u] = Stripped(u)
                     /\ Bytes(Stripped(u)) <= Size(u)
<1> SUFFICES ASSUME NEW u \in Units
             PROVE  Stripped(u) \in Seq(Letters \cup {"space"}) /\ Bytes(Stripped(u)) <= Size(u)
  BY DEF Without
<1>1. \A x \in Units : Size(x) \in Nat \ {0} /\ Bytes(<<x>>) = Size(x)
  <2> SUFFICES ASSUME NEW x \in Units PROVE Size(x) \in Nat \ {0} /\ Bytes(<<x>>) = Size(x)
    OBVIOUS
  <2>1. <<>> \in Seq(Units) /\ Append(<<>>, x) = <<x>>
    OBVIOUS
  <2>2. /\ Size(x) \in Nat \ {0}
        /\ Bytes(Append(<<>>, x)) = Bytes(<<>>) + Size(x)
    BY <2>1, BytesOfAppend
  <2> QED BY <2>1, <2>2, BytesOfNone
<1>2. CASE u \in EndTags
  <2>1. Stripped(u) = <<"space">>
    BY <1>2 DEF Stripped, EndTags
  <2>2. "space" \in Units /\ Size("space") = 1
    BY DEF Size, Units, Tags, EndTags
  <2>3. Size(u) \in Nat \ {0}
    BY <1>1
  <2>4. Bytes(<<"space">>) = 1 /\ <<"space">> \in Seq(Letters \cup {"space"})
    BY <1>1, <2>2
  <2> QED BY <2>1, <2>3, <2>4
<1>3. CASE u = "tag"
  <2>1. Stripped(u) = <<>>
    BY <1>3 DEF Stripped, EndTags
  <2>2. Size(u) \in Nat \ {0}
    BY <1>1
  <2>3. <<>> \in Seq(Letters \cup {"space"})
    OBVIOUS
  <2> QED BY <2>1, <2>2, <2>3, BytesOfNone
<1>4. CASE u \in Letters \cup {"space"}
  <2>1. Stripped(u) = <<u>>
    BY <1>4 DEF Stripped, EndTags, Letters
  <2> QED BY <1>1, <1>4, <2>1
<1> QED BY <1>2, <1>3, <1>4 DEF Units, Tags

LEMMA PushOfAppend ==
    ASSUME NEW xml \in Seq(Units), NEW u \in Units
    PROVE  /\ PushText(xml) \in Seq(Letters \cup {"space"})
           /\ PushText(Append(xml, u)) = PushText(xml) \o Stripped(u)
<1> DEFINE m == [i \in DOMAIN xml |-> Without[xml[i]]]
           E == Letters \cup {"space"}
<1>1. \A s \in Seq(Units) : /\ [i \in DOMAIN s |-> Stripped(s[i])] = [i \in DOMAIN s |-> Without[s[i]]]
                            /\ [i \in DOMAIN s |-> Without[s[i]]] \in Seq(Seq(E))
  <2> SUFFICES ASSUME NEW s \in Seq(Units)
               PROVE  /\ [i \in DOMAIN s |-> Stripped(s[i])] = [i \in DOMAIN s |-> Without[s[i]]]
                      /\ [i \in DOMAIN s |-> Without[s[i]]] \in Seq(Seq(E))
    OBVIOUS
  <2>1. DOMAIN s = 1 .. Len(s) /\ Len(s) \in Nat /\ \A i \in 1 .. Len(s) : s[i] \in Units
    BY LenProperties, ElementOfSeq
  <2>2. \A i \in DOMAIN s : Stripped(s[i]) = Without[s[i]] /\ Without[s[i]] \in Seq(E)
    BY <2>1, StrippedType
  <2> HIDE DEF E
  <2> QED BY <2>1, <2>2
<1>2. Append(xml, u) \in Seq(Units)
  OBVIOUS
<1>3. [i \in DOMAIN Append(xml, u) |-> Without[Append(xml, u)[i]]] = Append(m, Without[u])
  BY MapAppend
<1>4. m \in Seq(Seq(E)) /\ Without[u] \in Seq(E) /\ Without[u] = Stripped(u)
  BY <1>1, StrippedType
<1>5. PushText(xml) = FlattenSeq(m)
  BY <1>1 DEF PushText
<1>6. PushText(Append(xml, u)) = FlattenSeq(Append(m, Without[u]))
  BY <1>1, <1>2, <1>3 DEF PushText
<1> HIDE DEF m, E
<1>7. FlattenSeq(Append(m, Without[u])) = FlattenSeq(m) \o Without[u] /\ FlattenSeq(m) \in Seq(E)
  BY <1>4, FlattenAppend, FlattenType
<1> QED BY <1>4, <1>5, <1>6, <1>7 DEF E

(* push_text never makes a text longer than the part it read.              *)
LEMMA PushShrinks ==
    \A xml \in Seq(Units) : /\ PushText(xml) \in Seq(Letters \cup {"space"})
                            /\ PushText(xml) \in Seq(Units)
                            /\ Bytes(PushText(xml)) <= Bytes(xml)
<1> DEFINE T == {xml \in Seq(Units) : Bytes(PushText(xml)) <= Bytes(xml)}
<1>0. /\ \A xml \in Seq(Units) : PushText(xml) \in Seq(Letters \cup {"space"})
      /\ Seq(Letters \cup {"space"}) \subseteq Seq(Units)
  <2>1. "tag" \in Units /\ Letters \cup {"space"} \subseteq Units
    BY DEF Units, Tags
  <2> QED BY <2>1, PushOfAppend
<1>1. <<>> \in T
  <2>1. PushText(<<>>) = <<>>
    <3>1. [i \in DOMAIN <<>> |-> Stripped(<<>>[i])] = <<>>
      OBVIOUS
    <3> QED BY <3>1, FlattenOfNone DEF PushText
  <2> QED BY <2>1, BytesOfNone
<1>2. ASSUME NEW xml \in Seq(Units), NEW u \in Units, xml \in T PROVE Append(xml, u) \in T
  <2>1. PushText(Append(xml, u)) = PushText(xml) \o Stripped(u) /\ PushText(xml) \in Seq(Units)
    BY <1>0, PushOfAppend
  <2>2. Stripped(u) \in Seq(Units) /\ Bytes(Stripped(u)) <= Size(u)
    BY <1>0, StrippedType
  <2>3. Bytes(PushText(xml) \o Stripped(u)) = Bytes(PushText(xml)) + Bytes(Stripped(u))
    BY <2>1, <2>2, BytesOfConcat
  <2>4. Bytes(Append(xml, u)) = Bytes(xml) + Size(u) /\ Size(u) \in Nat
    BY BytesOfAppend
  <2>5. Bytes(PushText(xml)) \in Nat /\ Bytes(Stripped(u)) \in Nat /\ Bytes(xml) \in Nat
    BY <2>1, <2>2, BytesType
  <2>6. Bytes(PushText(xml)) <= Bytes(xml)
    BY <1>2
  <2>7. Bytes(PushText(xml)) + Bytes(Stripped(u)) <= Bytes(xml) + Size(u)
    BY <2>2, <2>4, <2>5, <2>6
  <2>8. Append(xml, u) \in Seq(Units)
    OBVIOUS
  <2> QED BY <2>1, <2>3, <2>4, <2>7, <2>8
<1> HIDE DEF T
<1>3. Seq(Units) \subseteq T
  BY <1>1, <1>2, SeqInduction
<1> QED BY <1>0, <1>3 DEF T

-----------------------------------------------------------------------------
(* The parts an archive is read for are parts of it.                       *)
LEMMA WantedType ==
    ASSUME attachment \in Attachments
    PROVE  /\ Wanted \in Seq(Parts)
           /\ \A i \in 1 .. Len(Wanted) : Wanted[i] \in ToSet(attachment.parts)
<1> DEFINE S == {p \in ToSet(attachment.parts) : p.wanted}
<1>1. attachment.parts \in Seq(Parts)
  BY AttachmentsAssumption
<1> HIDE DEF S
<1>2. Kept(attachment.parts, S) \in Seq(Parts \cap S)
  BY <1>1, KeptType
<1>3. Wanted \in Seq(Parts \cap S)
  BY <1>2 DEF Wanted, S
<1>4. \A i \in 1 .. Len(Wanted) : Wanted[i] \in Parts \cap S
  BY <1>3, ElementOfSeq
<1>5. Wanted \in Seq(Parts)
  BY <1>3
<1> QED BY <1>4, <1>5 DEF S

(* A decoded text file is a text.                                          *)
LEMMA DecodedType ==
    ASSUME attachment \in Attachments
    PROVE  attachment.content \in Seq(Units) /\ DecodeText(attachment) \in Seq(Units)
<1>1. attachment.content \in Seq(Letters \cup {"space"})
  BY AttachmentsAssumption
<1> DEFINE c == attachment.content
<1>2. Len(c) \in Nat /\ DOMAIN c = 1 .. Len(c) /\ \A i \in 1 .. Len(c) : c[i] \in Letters \cup {"space"}
  BY <1>1, LenProperties, ElementOfSeq
<1>3. Letters \cup {"space"} \subseteq Units /\ "lost" \in Units
  BY DEF Units, Letters
<1>4. DecodeText(attachment) \in Seq(Units)
  BY <1>2, <1>3 DEF DecodeText
<1> QED BY <1>1, <1>3, <1>4

(* The budget of a part is what the text so far leaves of the limit.       *)
LEMMA BudgetLeft ==
    ASSUME out \in Seq(Units), Bytes(out) <= MaxText
    PROVE  Budget \in Nat /\ Budget = MaxText - Bytes(out)
<1>1. MaxText \in Nat /\ Bytes(out) \in Nat
  BY LimitsAssumption, BytesType
<1> DEFINE n == MaxText - Bytes(out)
<1>2. n \in Nat /\ {n, 0} \in SUBSET (0 .. n) /\ {n, 0} # {}
  BY <1>1
<1> HIDE DEF n
<1>3. Max({n, 0}) \in {n, 0} /\ \A y \in {n, 0} : y <= Max({n, 0})
  BY <1>2, MaxOfBounded
<1>4. Max({n, 0}) = n
  BY <1>2, <1>3
<1> QED BY <1>2, <1>4 DEF Budget, n

(* A part cut at its budget keeps the text within the limit.               *)
LEMMA ShortOfMax ==
    ASSUME out \in Seq(Units), Bytes(out) <= MaxText, names \in Seq(Parts), names # <<>>
    PROVE  LET xml == Fitting(Head(names).xml, Budget)
           IN  /\ xml \in Seq(Units) /\ Head(names).xml \in Seq(Units)
               /\ out \o PushText(xml) \in Seq(Units)
               /\ Bytes(out \o PushText(xml)) <= Bytes(out) + Bytes(xml)
               /\ Bytes(xml) <= Budget
               /\ Bytes(out \o PushText(xml)) <= MaxText
<1> DEFINE xml == Fitting(Head(names).xml, Budget)
<1>1. Head(names) \in Parts
  OBVIOUS
<1>2. Head(names).xml \in Seq(Units)
  BY <1>1 DEF Parts
<1>3. Budget \in Nat /\ Budget = MaxText - Bytes(out)
  BY BudgetLeft
<1>4. xml \in Seq(Units) /\ Bytes(xml) <= Budget
  BY <1>2, <1>3, FittingFits
<1> HIDE DEF xml
<1>5. PushText(xml) \in Seq(Units) /\ Bytes(PushText(xml)) <= Bytes(xml)
  BY <1>4, PushShrinks
<1>6. Bytes(out \o PushText(xml)) = Bytes(out) + Bytes(PushText(xml))
  BY <1>5, BytesOfConcat
<1>7. Bytes(out) \in Nat /\ Bytes(xml) \in Nat /\ Bytes(PushText(xml)) \in Nat /\ MaxText \in Nat
  BY <1>4, <1>5, BytesType, LimitsAssumption
<1>8. out \o PushText(xml) \in Seq(Units)
  BY <1>5
<1> QED BY <1>2, <1>3, <1>4, <1>5, <1>6, <1>7, <1>8 DEF xml

(* What keeps the text within its limit: while the parts are read it never *)
(* exceeds it, so that the budget is what is left of it.                   *)
TextInv ==
    /\ attachment \in Attachments
    /\ stage \in {"decode", "parts", "limit", "done"}
    /\ names \in Seq(Parts)
    /\ out \in Seq(Units)
    /\ stage = "decode" => out = <<>>
    /\ stage = "parts" => Bytes(out) <= MaxText
    /\ WorkIsBounded

readingVars == <<extractVars, decodeVars>>

(* Detection leaves what extraction found alone.                           *)
LEMMA DetectKeeps == Detect => UNCHANGED extractVars
BY DEF Detect, extractVars, Ner!NerNext, Ner!Infer, Ner!Outside, Ner!Extend, Ner!Open, Ner!Next, Ner!Finish

(* The invariant of the text limit holds at first, and every step keeps    *)
(* it.                                                                     *)
LEMMA TextInit == ReadingInit => TextInv
<1> SUFFICES ASSUME ReadingInit PROVE TextInv
  OBVIOUS
<1>1. attachment \in Attachments /\ stage = "decode" /\ names = <<>> /\ out = <<>>
  BY DEF ReadingInit, ExtractInit
<1>2. Bytes(out) <= MaxText
  BY <1>1, BytesOfNone, LimitsAssumption
<1>3. names \in Seq(Parts) /\ out \in Seq(Units)
  BY <1>1
<1> QED BY <1>1, <1>2, <1>3 DEF TextInv, WorkIsBounded

LEMMA TextNext == TextInv /\ [ReadingNext]_readingVars => TextInv'
<1> SUFFICES ASSUME TextInv, [ReadingNext]_readingVars PROVE TextInv'
  OBVIOUS
<1> USE DEF TextInv
<1>0. Bytes(<<>>) <= MaxText /\ MaxText \in Nat
  BY BytesOfNone, LimitsAssumption
<1>f. ASSUME NEW reason, Fail(reason) PROVE TextInv'
  BY <1>f DEF Fail, WorkIsBounded
<1>1. CASE Refuse
  BY <1>1, <1>f DEF Refuse
<1>2. CASE ReadPdf
  <2>1. CASE Fail("failed")
    BY <2>1, <1>f
  <2>2. CASE out' = attachment.content /\ stage' = "limit" /\ UNCHANGED <<attachment, names>>
    <3>1. Sniff(attachment) # "ooxml"
      BY <1>2 DEF ReadPdf, Accepted
    <3>2. out' \in Seq(Units)
      BY <2>2, DecodedType
    <3> QED BY <2>2, <3>1, <3>2 DEF WorkIsBounded, Sniff
  <2> QED BY <1>2, <2>1, <2>2 DEF ReadPdf
<1>3. CASE ReadText
  <2>1. Sniff(attachment) # "ooxml"
    BY <1>3 DEF ReadText, Accepted
  <2>2. out' \in Seq(Units) /\ stage' = "limit" /\ UNCHANGED <<attachment, names>>
    BY <1>3, DecodedType DEF ReadText
  <2> QED BY <2>1, <2>2 DEF WorkIsBounded, Sniff
<1>4. CASE OpenArchive
  <2>1. stage = "decode" /\ out = <<>>
    BY <1>4 DEF OpenArchive, Accepted
  <2>2. CASE Fail("unreadable")
    BY <2>2, <1>f
  <2>3. CASE names' = Wanted /\ stage' = "parts" /\ UNCHANGED <<attachment, out>>
    BY <1>0, <2>1, <2>3, WantedType DEF WorkIsBounded, Sniff
  <2> QED BY <1>4, <2>2, <2>3 DEF OpenArchive
<1>5. CASE SkipPart
  <2>1. names' \in Seq(Parts) /\ UNCHANGED <<attachment, stage, out>>
    BY <1>5 DEF SkipPart
  <2> QED BY <2>1 DEF WorkIsBounded, Sniff
<1>6. CASE ReadPart
  <2>1. /\ names # <<>> /\ Bytes(out) <= MaxText
        /\ out' = out \o PushText(Fitting(Head(names).xml, Budget))
        /\ names' \in Seq(Parts) /\ UNCHANGED <<attachment, stage>> /\ stage = "parts"
    BY <1>6 DEF ReadPart
  <2>2. out' \in Seq(Units) /\ Bytes(out') <= MaxText
    BY <2>1, ShortOfMax
  <2> QED BY <2>1, <2>2 DEF WorkIsBounded
<1>7. CASE CloseArchive
  <2>1. CASE Fail("unreadable")
    BY <2>1, <1>f
  <2>2. CASE stage' = "limit" /\ UNCHANGED <<attachment, names, out>>
    BY <2>2 DEF WorkIsBounded, Sniff
  <2> QED BY <1>7, <2>1, <2>2 DEF CloseArchive
<1>8. CASE Limit
  <2>1. out' = Fitting(out, MaxText) /\ stage' = "done" /\ UNCHANGED <<attachment, names>>
    BY <1>8 DEF Limit
  <2>2. out' \in Seq(Units) /\ Bytes(out') <= MaxText
    BY <1>0, <2>1, FittingFits
  <2> QED BY <2>1, <2>2 DEF WorkIsBounded
<1>9. CASE UNCHANGED extractVars
  BY <1>9 DEF extractVars, WorkIsBounded, Sniff
<1> QED BY <1>1, <1>2, <1>3, <1>4, <1>5, <1>6, <1>7, <1>8, <1>9, DetectKeeps
    DEF ReadingNext, Extract, ExtractNext, readingVars

(* An archive yields no more text than the limit, however many parts it    *)
(* has and however they are cut: for any sizes of tags and limits.         *)
THEOREM TextStaysInLimit == ReadingSpec => []WorkIsBounded
<1>1. ReadingSpec => []TextInv
  BY TextInit, TextNext, PTL DEF ReadingSpec, readingVars
<1>2. TextInv => WorkIsBounded
  BY DEF TextInv
<1> QED BY <1>1, <1>2, PTL

-----------------------------------------------------------------------------
SamePar(xml, a, b) == {k \in 1 .. a : xml[k] = "par"} = {k \in 1 .. b : xml[k] = "par"}

(* What stripping a part leaves, and where each unit of it stood: two      *)
(* letters that come to stand together are in one paragraph, and behind a  *)
(* letter at the end there is nothing but tags.                            *)
Along(part, xml) ==
    LET text == PushText(xml)
        places == Places(part, xml)
    IN  /\ places \in Seq([part : Nat, unit : Nat]) /\ Len(places) = Len(text)
        /\ Kept(text, Letters) = Kept(xml, Letters)
        /\ \A i \in 1 .. Len(text) : /\ places[i].part = part
                                     /\ places[i].unit \in 1 .. Len(xml)
                                     /\ text[i] \in Letters => xml[places[i].unit] = text[i]
        /\ \A i \in 1 .. Len(text) - 1 : text[i] \in Letters /\ text[i + 1] \in Letters =>
               SamePar(xml, places[i].unit, places[i + 1].unit)
        /\ \A i \in 1 .. Len(text) : i = Len(text) /\ text[i] \in Letters =>
               \A k \in places[i].unit + 1 .. Len(xml) : xml[k] = "tag"

(* One more unit of a part: the places it keeps and the paragraph they are *)
(* in.                                                                     *)
LEMMA PlacesAlong ==
    ASSUME NEW part \in Nat, NEW xml \in Seq(Units), NEW u \in Units
    PROVE  /\ Places(part, xml) \in Seq([part : Nat, unit : Nat])
           /\ Places(part, Append(xml, u)) = Places(part, xml) \o
                  [k \in DOMAIN Stripped(u) |-> [part |-> part, unit |-> Len(xml) + 1]]
<1> DEFINE R == [part : Nat, unit : Nat]
           at(s) == [i \in DOMAIN s |-> [k \in DOMAIN Stripped(s[i]) |-> [part |-> part, unit |-> i]]]
           a == Append(xml, u)
           n == Len(xml)
<1>1. /\ a \in Seq(Units) /\ Len(a) = n + 1 /\ n \in Nat
      /\ a[n + 1] = u /\ \A i \in 1 .. n : a[i] = xml[i]
      /\ DOMAIN xml = 1 .. n /\ DOMAIN a = 1 .. n + 1
  BY AppendProperties, LenProperties
<1>2. ASSUME NEW s \in Seq(Units) PROVE at(s) \in Seq(Seq(R)) /\ Len(at(s)) = Len(s)
  <2>1. DOMAIN s = 1 .. Len(s) /\ Len(s) \in Nat /\ \A i \in 1 .. Len(s) : s[i] \in Units
    BY LenProperties, ElementOfSeq
  <2>2. ASSUME NEW i \in 1 .. Len(s)
        PROVE  [k \in DOMAIN Stripped(s[i]) |-> [part |-> part, unit |-> i]] \in Seq(R)
    <3>1. Stripped(s[i]) \in Seq(Letters \cup {"space"})
      BY <2>1, StrippedType
    <3>2. Len(Stripped(s[i])) \in Nat /\ DOMAIN Stripped(s[i]) = 1 .. Len(Stripped(s[i]))
      BY <3>1, LenProperties
    <3>3. [part |-> part, unit |-> i] \in R
      BY <2>1
    <3> HIDE DEF R
    <3> QED BY <3>2, <3>3
  <2> HIDE DEF R
  <2> QED BY <2>1, <2>2
<1>3. at(xml) \in Seq(Seq(R)) /\ at(a) \in Seq(Seq(R)) /\ Len(at(xml)) = n /\ Len(at(a)) = n + 1
  BY <1>1, <1>2
<1>4. \A i \in 1 .. n : at(a)[i] = at(xml)[i]
  BY <1>1
<1>5. at(a)[n + 1] = [k \in DOMAIN Stripped(u) |-> [part |-> part, unit |-> n + 1]]
  BY <1>1
<1>6. Places(part, xml) = FlattenSeq(at(xml)) /\ Places(part, a) = FlattenSeq(at(a))
  BY DEF Places
<1> HIDE DEF at, R, a, n
<1>7. at(a) = Append(at(xml), at(a)[n + 1]) /\ at(a)[n + 1] \in Seq(R)
  <2> DEFINE l == at(a)
             m == at(xml)
  <2>1. l \in Seq(Seq(R)) /\ m \in Seq(Seq(R)) /\ Len(l) = Len(m) + 1 /\ Len(l) = n + 1
        /\ \A i \in 1 .. Len(m) : l[i] = m[i]
    BY <1>3, <1>4
  <2> HIDE DEF l, m
  <2>2. l = Append(m, l[Len(l)]) /\ l[Len(l)] \in Seq(R)
    BY <2>1, LongerByOne
  <2> QED BY <2>1, <2>2 DEF l, m
<1>8. FlattenSeq(at(xml)) \in Seq(R)
  BY <1>3, FlattenType
<1>9. FlattenSeq(Append(at(xml), at(a)[n + 1])) = FlattenSeq(at(xml)) \o at(a)[n + 1]
  BY <1>3, <1>7, FlattenAppend
<1> QED BY <1>5, <1>6, <1>7, <1>8, <1>9 DEF a, n, R

LEMMA AlongNone == ASSUME NEW part \in Nat PROVE Along(part, <<>>)
<1>1. PushText(<<>>) = <<>>
  <2>1. [i \in DOMAIN <<>> |-> Stripped(<<>>[i])] = <<>>
    OBVIOUS
  <2> QED BY <2>1, FlattenOfNone DEF PushText
<1>2. Places(part, <<>>) = <<>>
  <2>1. [i \in DOMAIN <<>> |-> [k \in DOMAIN Stripped(<<>>[i]) |-> [part |-> part, unit |-> i]]] = <<>>
    OBVIOUS
  <2> QED BY <2>1, FlattenOfNone DEF Places
<1>3. Len(<<>>) = 0 /\ <<>> \in Seq([part : Nat, unit : Nat]) /\ 1 .. 0 = {} /\ 1 .. 0 - 1 = {}
  OBVIOUS
<1> QED BY <1>1, <1>2, <1>3, Zenon DEF Along

(* Kept units stand in the same paragraph when no paragraph ends between   *)
(* them.                                                                   *)
LEMMA SameParKept ==
    ASSUME NEW xml \in Seq(Units), NEW u \in Units, NEW a \in 1 .. Len(xml), NEW b \in 1 .. Len(xml),
           SamePar(xml, a, b)
    PROVE  SamePar(Append(xml, u), a, b)
<1>1. \A k \in 1 .. Len(xml) : Append(xml, u)[k] = xml[k]
  BY AppendProperties
<1>2. Len(xml) \in Nat /\ 1 .. a \subseteq 1 .. Len(xml) /\ 1 .. b \subseteq 1 .. Len(xml)
  BY LenProperties
<1>3. /\ {k \in 1 .. a : Append(xml, u)[k] = "par"} = {k \in 1 .. a : xml[k] = "par"}
      /\ {k \in 1 .. b : Append(xml, u)[k] = "par"} = {k \in 1 .. b : xml[k] = "par"}
  BY <1>1, <1>2
<1> QED BY <1>3 DEF SamePar

(* Reading a part unit by unit keeps paragraphs apart.                     *)
LEMMA AlongNext ==
    ASSUME NEW part \in Nat, NEW xml \in Seq(Units), NEW u \in Units, Along(part, xml)
    PROVE  Along(part, Append(xml, u))
<1> DEFINE a == Append(xml, u)
           n == Len(xml)
           text == PushText(xml)
           places == Places(part, xml)
           E == Letters \cup {"space"}
           R == [part : Nat, unit : Nat]
           here == [part |-> part, unit |-> n + 1]
           m == Len(text)
<1>1. /\ a \in Seq(Units) /\ Len(a) = n + 1 /\ n \in Nat
      /\ a[n + 1] = u /\ \A i \in 1 .. n : a[i] = xml[i]
      /\ 1 .. n \subseteq 1 .. n + 1 /\ n + 1 \in 1 .. n + 1
  BY AppendProperties, LenProperties
<1>2. text \in Seq(E) /\ PushText(a) = text \o Stripped(u) /\ m \in Nat
  BY PushOfAppend, LenProperties
<1>3. /\ places \in Seq(R)
      /\ Places(part, a) = places \o [k \in DOMAIN Stripped(u) |-> here]
  BY PlacesAlong
<1>4. Kept(a, Letters) = IF u \in Letters THEN Append(Kept(xml, Letters), u) ELSE Kept(xml, Letters)
  BY KeptAppend
<1>5. /\ Len(places) = m
      /\ Kept(text, Letters) = Kept(xml, Letters)
      /\ \A i \in 1 .. m : /\ places[i].part = part
                           /\ places[i].unit \in 1 .. n
                           /\ text[i] \in Letters => xml[places[i].unit] = text[i]
      /\ \A i \in 1 .. m - 1 : text[i] \in Letters /\ text[i + 1] \in Letters =>
             SamePar(xml, places[i].unit, places[i + 1].unit)
      /\ \A i \in 1 .. m : i = m /\ text[i] \in Letters =>
             \A k \in places[i].unit + 1 .. n : xml[k] = "tag"
  BY DEF Along
<1>6. here \in R
  BY <1>1
<1>7. \A i \in 1 .. m - 1 : i \in 1 .. m /\ i + 1 \in 1 .. m
  BY <1>2
<1>8. \A i \in 1 .. m - 1 : text[i] \in Letters /\ text[i + 1] \in Letters =>
          SamePar(a, places[i].unit, places[i + 1].unit)
  <2> SUFFICES ASSUME NEW i \in 1 .. m - 1, text[i] \in Letters, text[i + 1] \in Letters
               PROVE  SamePar(a, places[i].unit, places[i + 1].unit)
    OBVIOUS
  <2>1. places[i].unit \in 1 .. n /\ places[i + 1].unit \in 1 .. n
    BY <1>5, <1>7
  <2>2. SamePar(xml, places[i].unit, places[i + 1].unit)
    BY <1>5
  <2> HIDE DEF places, text, m
  <2> QED BY <2>1, <2>2, SameParKept
<1>9. CASE u = "tag"
  <2>1. Stripped(u) = <<>>
    BY <1>9 DEF Stripped, EndTags
  <2>2. PushText(a) = text
    BY <1>2, <2>1
  <2>3. Places(part, a) = places
    BY <1>3, <2>1
  <2>4. Kept(a, Letters) = Kept(xml, Letters)
    BY <1>4, <1>9 DEF Letters
  <2> HIDE DEF text, places, m, n, R, E, here, a
  <2>5. \A i \in 1 .. m : /\ places[i].part = part
                          /\ places[i].unit \in 1 .. n + 1
                          /\ text[i] \in Letters => a[places[i].unit] = text[i]
    BY <1>1, <1>5
  <2>6. \A i \in 1 .. m : i = m /\ text[i] \in Letters =>
             \A k \in places[i].unit + 1 .. n + 1 : a[k] = "tag"
    <3> SUFFICES ASSUME m \in 1 .. m, text[m] \in Letters, NEW k \in places[m].unit + 1 .. n + 1
                 PROVE  a[k] = "tag"
      OBVIOUS
    <3>1. places[m].unit \in 1 .. n
      BY <1>5
    <3>2. CASE k = n + 1
      BY <1>1, <1>9, <3>2
    <3>3. CASE k # n + 1
      <4>1. k \in places[m].unit + 1 .. n /\ k \in 1 .. n
        BY <1>1, <3>1, <3>3
      <4> QED BY <1>1, <1>5, <4>1
    <3> QED BY <3>2, <3>3
  <2>7. Len(PushText(a)) = m /\ Len(a) = n + 1
    BY <1>1, <2>2 DEF m
  <2>8. Along(part, a)
    <3>1. /\ Places(part, a) \in Seq([part : Nat, unit : Nat]) /\ Len(Places(part, a)) = Len(PushText(a))
          /\ Kept(PushText(a), Letters) = Kept(a, Letters)
      BY <1>3, <1>5, <2>2, <2>3, <2>4, <2>7 DEF R
    <3> QED BY <1>8, <2>2, <2>3, <2>5, <2>6, <2>7, <3>1 DEF Along
  <2> QED BY <2>8 DEF a
<1>10. CASE u # "tag"
  <2>1. PICK e \in E : /\ Stripped(u) = <<e>>
                       /\ e \in Letters <=> u \in Letters
                       /\ u \in Letters => e = u
    <3>1. CASE u \in EndTags
      BY <3>1 DEF Stripped, EndTags, Letters
    <3>2. CASE u \notin EndTags
      <4>1. u \in E
        BY <1>10, <3>2 DEF Units, Tags
      <4>2. Stripped(u) = <<u>>
        BY <1>10, <3>2 DEF Stripped
      <4> QED BY <4>1, <4>2
    <3> QED BY <3>1, <3>2
  <2>2. PushText(a) = Append(text, e)
    BY <1>2, <2>1
  <2>3. [k \in DOMAIN Stripped(u) |-> here] = <<here>>
    BY <2>1
  <2>4. Places(part, a) = Append(places, here)
    BY <1>3, <1>6, <2>3
  <2>5. /\ Append(text, e) \in Seq(E) /\ Len(Append(text, e)) = m + 1
        /\ Append(text, e)[m + 1] = e /\ \A i \in 1 .. m : Append(text, e)[i] = text[i]
    BY <1>2, AppendProperties
  <2>6. /\ Append(places, here) \in Seq(R) /\ Len(Append(places, here)) = m + 1
        /\ Append(places, here)[m + 1] = here /\ \A i \in 1 .. m : Append(places, here)[i] = places[i]
    BY <1>3, <1>5, <1>6, AppendProperties
  <2>7. Kept(Append(text, e), Letters) = Kept(a, Letters)
    BY <1>2, <1>4, <1>5, <2>1, KeptAppend
  <2> DEFINE t == Append(text, e)
             p == Append(places, here)
  <2>8. here.part = part /\ here.unit = n + 1
    OBVIOUS
  <2>9. \A i \in 1 .. m + 1 : i \in 1 .. m \/ i = m + 1
    BY <1>2
  <2> HIDE DEF text, places, m, n, R, E, here, a, t, p
  <2>10. \A i \in 1 .. m + 1 : /\ p[i].part = part
                               /\ p[i].unit \in 1 .. n + 1
                               /\ t[i] \in Letters => a[p[i].unit] = t[i]
    <3> SUFFICES ASSUME NEW i \in 1 .. m + 1
                 PROVE  /\ p[i].part = part
                        /\ p[i].unit \in 1 .. n + 1
                        /\ t[i] \in Letters => a[p[i].unit] = t[i]
      OBVIOUS
    <3>1. CASE i \in 1 .. m
      BY SMTT(60), <1>1, <1>5, <2>5, <2>6, <3>1 DEF t, p
    <3>2. CASE i = m + 1
      BY <1>1, <2>1, <2>5, <2>6, <2>8, <3>2 DEF t, p
    <3> QED BY <2>9, <3>1, <3>2
  <2>11. \A i \in 1 .. (m + 1) - 1 : t[i] \in Letters /\ t[i + 1] \in Letters =>
             SamePar(a, p[i].unit, p[i + 1].unit)
    <3> SUFFICES ASSUME NEW i \in 1 .. m, t[i] \in Letters, t[i + 1] \in Letters
                 PROVE  SamePar(a, p[i].unit, p[i + 1].unit)
      BY <1>2
    <3>1. CASE i # m
      <4>1. i \in 1 .. m - 1 /\ i + 1 \in 1 .. m
        BY <1>2, <3>1
      <4> QED BY <1>8, <2>5, <2>6, <4>1 DEF t, p
    <3>2. CASE i = m
      <4>1. text[m] \in Letters /\ u \in Letters /\ p[m] = places[m] /\ p[m + 1] = here
        BY <2>1, <2>5, <2>6, <3>2 DEF t, p
      <4>2. places[m].unit \in 1 .. n /\ \A k \in places[m].unit + 1 .. n : xml[k] = "tag"
        BY <1>5, <3>2, <4>1
      <4>3. u # "par"
        BY <4>1 DEF Letters
      <4> DEFINE b == places[m].unit
      <4>4. \A k \in 1 .. n + 1 : k \in 1 .. b \/ k \in b + 1 .. n \/ k = n + 1
        BY <1>1, <4>2
      <4>5. b + 1 .. n \subseteq 1 .. n /\ 1 .. b \subseteq 1 .. n + 1
        BY SMTT(60), <1>1, <4>2
      <4> HIDE DEF b
      <4>6. \A k \in 1 .. n + 1 : a[k] = "par" => k \in 1 .. b
        BY <1>1, <4>2, <4>3, <4>4, <4>5 DEF b
      <4>7. {k \in 1 .. b : a[k] = "par"} = {k \in 1 .. n + 1 : a[k] = "par"}
        BY <4>5, <4>6
      <4> QED BY <2>8, <3>2, <4>1, <4>7 DEF SamePar, b
    <3> QED BY <3>1, <3>2
  <2>12. \A k \in p[m + 1].unit + 1 .. n + 1 : a[k] = "tag"
    BY <1>1, <2>6, <2>8 DEF p
  <2>13. PushText(a) = t /\ Places(part, a) = p /\ Len(t) = m + 1 /\ Len(p) = m + 1 /\ Len(a) = n + 1
    BY <1>1, <2>2, <2>4, <2>5, <2>6 DEF t, p
  <2>14. p \in Seq([part : Nat, unit : Nat]) /\ Kept(t, Letters) = Kept(a, Letters)
    BY <2>6, <2>7 DEF t, p, R
  <2>15. Along(part, a)
    BY <2>10, <2>11, <2>12, <2>13, <2>14 DEF Along
  <2> QED BY <2>15 DEF a
<1> QED BY <1>9, <1>10

LEMMA PartsAreAlong == ASSUME NEW part \in Nat PROVE \A xml \in Seq(Units) : Along(part, xml)
<1> DEFINE T == {xml \in Seq(Units) : Along(part, xml)}
<1>1. <<>> \in T
  BY AlongNone
<1>2. ASSUME NEW xml \in Seq(Units), NEW u \in Units, xml \in T PROVE Append(xml, u) \in T
  BY <1>2, AlongNext
<1> HIDE DEF T
<1>3. Seq(Units) \subseteq T
  BY <1>1, <1>2, SeqInduction
<1> QED BY <1>3 DEF T

-----------------------------------------------------------------------------
\* The first k parts, as XML, and the letters of the readable ones among them.
FirstXml(W, k) == XmlOf(SubSeq(W, 1, k))
FirstLetters(W, P, k) == Kept(XmlOf(Kept(SubSeq(W, 1, k), P)), Letters)

Xmls == [p \in Parts |-> p.xml]

(* The units of the first parts, one part more at a time.                  *)
LEMMA XmlOfAppend ==
    ASSUME NEW s \in Seq(Parts), NEW p \in Parts
    PROVE  /\ XmlOf(s) \in Seq(Units) /\ p.xml \in Seq(Units)
           /\ XmlOf(Append(s, p)) = XmlOf(s) \o p.xml
<1>1. \A q \in Parts : Xmls[q] = q.xml /\ q.xml \in Seq(Units)
  BY DEF Xmls, Parts
<1>2. ASSUME NEW t \in Seq(Parts)
      PROVE  /\ [i \in DOMAIN t |-> t[i].xml] = [i \in DOMAIN t |-> Xmls[t[i]]]
             /\ [i \in DOMAIN t |-> Xmls[t[i]]] \in Seq(Seq(Units))
  <2>1. DOMAIN t = 1 .. Len(t) /\ Len(t) \in Nat /\ \A i \in 1 .. Len(t) : t[i] \in Parts
    BY LenProperties, ElementOfSeq
  <2>2. \A i \in DOMAIN t : t[i].xml = Xmls[t[i]] /\ Xmls[t[i]] \in Seq(Units)
    BY <1>1, <2>1
  <2> QED BY <2>1, <2>2
<1> DEFINE m == [i \in DOMAIN s |-> Xmls[s[i]]]
<1>3. Append(s, p) \in Seq(Parts)
  OBVIOUS
<1>4. [i \in DOMAIN Append(s, p) |-> Xmls[Append(s, p)[i]]] = Append(m, Xmls[p])
  BY MapAppend
<1>5. XmlOf(s) = FlattenSeq(m) /\ XmlOf(Append(s, p)) = FlattenSeq(Append(m, Xmls[p]))
  BY <1>2, <1>3, <1>4 DEF XmlOf
<1>6. m \in Seq(Seq(Units)) /\ Xmls[p] \in Seq(Units) /\ Xmls[p] = p.xml
  BY <1>1, <1>2
<1> HIDE DEF m
<1>7. FlattenSeq(m) \in Seq(Units) /\ FlattenSeq(Append(m, Xmls[p])) = FlattenSeq(m) \o Xmls[p]
  BY <1>6, FlattenAppend, FlattenType
<1> QED BY <1>5, <1>6, <1>7

LEMMA FirstNone ==
    ASSUME NEW W \in Seq(Parts), NEW P
    PROVE  FirstXml(W, 0) = <<>> /\ FirstLetters(W, P, 0) = <<>>
<1>1. SubSeq(W, 1, 0) = <<>>
  OBVIOUS
<1>2. XmlOf(<<>>) = <<>>
  <2>1. [i \in DOMAIN <<>> |-> <<>>[i].xml] = <<>>
    OBVIOUS
  <2> QED BY <2>1, FlattenOfNone DEF XmlOf
<1> QED BY <1>1, <1>2, KeptOfNone DEF FirstXml, FirstLetters

LEMMA FirstNext ==
    ASSUME NEW W \in Seq(Parts), NEW P, NEW k \in 0 .. Len(W) - 1
    PROVE  /\ W[k + 1] \in Parts /\ W[k + 1].xml \in Seq(Units)
           /\ FirstXml(W, k) \in Seq(Units)
           /\ FirstXml(W, k + 1) = FirstXml(W, k) \o W[k + 1].xml
           /\ FirstLetters(W, P, k) \in Seq(Letters)
           /\ FirstLetters(W, P, k + 1) =
                  IF W[k + 1] \in P THEN FirstLetters(W, P, k) \o Kept(W[k + 1].xml, Letters)
                  ELSE FirstLetters(W, P, k)
<1> DEFINE f == SubSeq(W, 1, k)
           p == W[k + 1]
           g == Kept(f, P)
<1>1. Len(W) \in Nat /\ k \in Nat /\ 1 \in Nat \ {0} /\ 1 <= k + 1 /\ k + 1 <= Len(W)
  BY LenProperties
<1>2. SubSeq(W, 1, k + 1) = Append(f, p) /\ f \in Seq(Parts) /\ p \in Parts
  BY <1>1, StretchGrows
<1> HIDE DEF f, p
<1>3. XmlOf(f) \in Seq(Units) /\ p.xml \in Seq(Units) /\ XmlOf(Append(f, p)) = XmlOf(f) \o p.xml
  BY <1>2, XmlOfAppend
<1>4. Kept(Append(f, p), P) = (IF p \in P THEN Append(g, p) ELSE g) /\ g \in Seq(Parts)
  BY <1>2, KeptAppend
<1> HIDE DEF g
<1>5. XmlOf(g) \in Seq(Units) /\ XmlOf(Append(g, p)) = XmlOf(g) \o p.xml
  BY <1>2, <1>4, XmlOfAppend
<1>6. Kept(XmlOf(g) \o p.xml, Letters) = Kept(XmlOf(g), Letters) \o Kept(p.xml, Letters)
  BY <1>3, <1>5, KeptConcat
<1>7. Kept(XmlOf(g), Letters) \in Seq(Letters)
  <2>1. Kept(XmlOf(g), Letters) \in Seq(Units \cap Letters)
    BY <1>5, KeptType
  <2> QED BY <2>1
<1>8. FirstLetters(W, P, k) = Kept(XmlOf(g), Letters)
  BY DEF FirstLetters, f, g
<1>9. FirstLetters(W, P, k + 1) = IF p \in P THEN Kept(XmlOf(Append(g, p)), Letters) ELSE Kept(XmlOf(g), Letters)
  BY <1>2, <1>4 DEF FirstLetters
<1>10. FirstXml(W, k) = XmlOf(f) /\ FirstXml(W, k + 1) = XmlOf(Append(f, p))
  BY <1>2 DEF FirstXml, f
<1> QED BY <1>2, <1>3, <1>5, <1>6, <1>7, <1>8, <1>9, <1>10 DEF p

(* The first parts hold no more than all of them.                          *)
LEMMA FirstBytes ==
    ASSUME NEW W \in Seq(Parts), NEW k \in 0 .. Len(W)
    PROVE  /\ FirstXml(W, k) \in Seq(Units)
           /\ Bytes(FirstXml(W, k)) \in Nat
<1>1. Len(W) \in Nat
  BY LenProperties
<1>2. FirstXml(W, k) \in Seq(Units)
  <2>1. CASE k = 0
    <3>1. <<>> \in Seq(Units)
      OBVIOUS
    <3> QED BY <2>1, <3>1, FirstNone
  <2>2. CASE k # 0
    <3>1. 1 \in 1 .. Len(W) /\ SubSeq(W, 1, k) \in Seq(Parts)
      BY <1>1, <2>2
    <3>2. W[1] \in Parts
      BY <3>1, ElementOfSeq
    <3> QED BY <3>1, <3>2, XmlOfAppend DEF FirstXml
  <2> QED BY <2>1, <2>2
<1> QED BY <1>2, BytesType

LEMMA OneMorePart ==
    ASSUME NEW W \in Seq(Parts), NEW k \in 0 .. Len(W) - 1
    PROVE  Bytes(FirstXml(W, k + 1)) = Bytes(FirstXml(W, k)) + Bytes(W[k + 1].xml)
<1>1. /\ W[k + 1].xml \in Seq(Units) /\ FirstXml(W, k) \in Seq(Units)
      /\ FirstXml(W, k + 1) = FirstXml(W, k) \o W[k + 1].xml
  BY FirstNext
<1> QED BY <1>1, BytesOfConcat

(* A text of no bytes is empty, so one that has none left hides nothing.   *)
LEMMA NoBytesNoUnits == ASSUME NEW s \in Seq(Units), Bytes(s) = 0 PROVE s = <<>>
<1> SUFFICES ASSUME s # <<>> PROVE FALSE
  OBVIOUS
<1>1. Len(s) \in Nat /\ Len(s) # 0
  BY LenProperties, EmptySeq
<1> DEFINE n == Len(s) - 1
<1>2. n \in Nat /\ 1 \in Nat \ {0} /\ 1 <= n + 1 /\ n + 1 <= Len(s) /\ n + 1 = Len(s)
  BY <1>1
<1> HIDE DEF n
<1>3. SubSeq(s, 1, n + 1) = Append(SubSeq(s, 1, n), s[n + 1]) /\ SubSeq(s, 1, n) \in Seq(Units) /\ s[n + 1] \in Units
  BY <1>2, StretchGrows
<1>4. SubSeq(s, 1, n + 1) = s
  BY <1>2
<1> DEFINE f == SubSeq(s, 1, n)
           u == s[n + 1]
<1>5. s = Append(f, u) /\ f \in Seq(Units) /\ u \in Units
  BY <1>3, <1>4
<1> HIDE DEF f, u
<1>6. Bytes(Append(f, u)) = Bytes(f) + Size(u) /\ Size(u) \in Nat \ {0} /\ Bytes(f) \in Nat
  BY <1>5, BytesOfAppend, BytesType
<1> QED BY <1>5, <1>6

(* The XML only grows; where it does not, neither do the letters.          *)
LEMMA FirstGrows ==
    ASSUME NEW W \in Seq(Parts), NEW P, NEW k \in 0 .. Len(W)
    PROVE  /\ Bytes(FirstXml(W, k)) <= Bytes(FirstXml(W, Len(W)))
           /\ Bytes(FirstXml(W, k)) = Bytes(FirstXml(W, Len(W))) =>
                  FirstLetters(W, P, k) = FirstLetters(W, P, Len(W))
<1> DEFINE B(j) == Bytes(FirstXml(W, j))
           L(j) == FirstLetters(W, P, j)
           n == Len(W)
           T == {j \in Nat : k + j <= n => /\ B(k) <= B(k + j)
                                           /\ B(k) = B(k + j) => L(k) = L(k + j)}
<1>1. n \in Nat /\ k \in Nat /\ k <= n
  BY LenProperties
<1>2. \A j \in 0 .. n : B(j) \in Nat
  BY FirstBytes
<1>3. ASSUME NEW j \in 0 .. n - 1
      PROVE  /\ B(j) <= B(j + 1)
             /\ B(j) = B(j + 1) => L(j) = L(j + 1)
  <2>1. B(j + 1) = B(j) + Bytes(W[j + 1].xml)
    BY OneMorePart
  <2>2. /\ W[j + 1].xml \in Seq(Units) /\ L(j) \in Seq(Letters)
        /\ L(j + 1) = IF W[j + 1] \in P THEN L(j) \o Kept(W[j + 1].xml, Letters) ELSE L(j)
    BY FirstNext
  <2>3. Bytes(W[j + 1].xml) \in Nat /\ B(j) \in Nat
    BY SMTT(60), <1>1, <1>2, <2>2, BytesType
  <2>4. ASSUME Bytes(W[j + 1].xml) = 0 PROVE L(j) = L(j + 1)
    <3>1. W[j + 1].xml = <<>>
      BY <2>2, <2>4, NoBytesNoUnits
    <3>2. L(j) \o <<>> = L(j)
      BY <2>2
    <3> QED BY <2>2, <3>1, <3>2, KeptOfNone
  <2> HIDE DEF B, L
  <2> QED BY <2>1, <2>3, <2>4
<1> HIDE DEF B, L, n
<1>4. 0 \in T
  BY <1>1, <1>2
<1>5. ASSUME NEW j \in Nat, j \in T PROVE j + 1 \in T
  <2> SUFFICES ASSUME k + (j + 1) <= n
               PROVE  /\ B(k) <= B(k + (j + 1))
                      /\ B(k) = B(k + (j + 1)) => L(k) = L(k + (j + 1))
    OBVIOUS
  <2> DEFINE i == k + j
  <2>1. k + (j + 1) = i + 1 /\ i \in 0 .. n - 1 /\ i <= n /\ i \in 0 .. n /\ i + 1 \in 0 .. n /\ k \in 0 .. n
    BY <1>1
  <2>2. B(k) <= B(i) /\ (B(k) = B(i) => L(k) = L(i))
    BY <1>5, <2>1
  <2> HIDE DEF i
  <2>3. B(i) <= B(i + 1) /\ (B(i) = B(i + 1) => L(i) = L(i + 1))
    BY <1>3, <2>1
  <2>4. B(i) \in Nat /\ B(k) \in Nat /\ B(i + 1) \in Nat
    BY <1>2, <2>1
  <2> QED BY <2>1, <2>2, <2>3, <2>4
<1> HIDE DEF T
<1>6. \A j \in Nat : j \in T
  BY <1>4, <1>5, NatSetInduction
<1>7. n - k \in Nat /\ k + (n - k) = n
  BY <1>1
<1>8. n - k \in T
  BY <1>6, <1>7
<1> QED BY <1>1, <1>7, <1>8 DEF T, B, L, n

-----------------------------------------------------------------------------
(* Paragraphs stay apart, of any text and the places of its units.         *)
StayApart(W, text, places) ==
    \A i \in 1 .. Len(text) - 1 : text[i] \in Letters /\ text[i + 1] \in Letters =>
        /\ places[i].part = places[i + 1].part
        /\ SamePar(W[places[i].part].xml, places[i].unit, places[i + 1].unit)

EndsClosed(text) == Len(text) = 0 \/ text[Len(text)] \notin Letters

\* Every letter of the first k parts that are text has been read, and no other.
ReadUpTo(W, P, k, text, places) ==
    /\ text \in Seq(Letters \cup {"space"})
    /\ places \in Seq([part : Nat, unit : Nat]) /\ Len(places) = Len(text)
    /\ Bytes(text) <= Bytes(FirstXml(W, k))
    /\ Kept(text, Letters) = FirstLetters(W, P, k)
    /\ StayApart(W, text, places)
    /\ EndsClosed(text)

Closed(xml) == \A k \in DOMAIN xml : xml[k] \in Letters => \E e \in DOMAIN xml : e > k /\ xml[e] \in EndTags

(* Text is made of units; a part that is closed ends in a space or in      *)
(* nothing.                                                                *)
LEMMA TextUnits == Seq(Letters \cup {"space"}) \subseteq Seq(Units)
<1>1. Letters \cup {"space"} \subseteq Units
  BY DEF Units
<1> QED BY <1>1

LEMMA PartEndsClosed ==
    ASSUME NEW part \in Nat, NEW xml \in Seq(Units), Closed(xml)
    PROVE  EndsClosed(PushText(xml))
<1> DEFINE text == PushText(xml)
           places == Places(part, xml)
           m == Len(text)
<1> SUFFICES ASSUME m # 0, text[m] \in Letters PROVE FALSE
  BY DEF EndsClosed
<1>1. text \in Seq(Letters \cup {"space"}) /\ m \in Nat /\ m \in 1 .. m
  BY PushShrinks, LenProperties
<1>2. Along(part, xml)
  BY PartsAreAlong
<1>3. /\ places[m].unit \in 1 .. Len(xml) /\ xml[places[m].unit] = text[m]
      /\ \A k \in places[m].unit + 1 .. Len(xml) : xml[k] = "tag"
  BY <1>1, <1>2 DEF Along
<1> DEFINE b == places[m].unit
<1>4. Len(xml) \in Nat /\ DOMAIN xml = 1 .. Len(xml) /\ b \in 1 .. Len(xml) /\ xml[b] \in Letters
  BY <1>3, LenProperties
<1> HIDE DEF text, m, places
<1>5. PICK e \in 1 .. Len(xml) : e > b /\ xml[e] \in EndTags
  BY <1>4 DEF Closed
<1>6. e \in b + 1 .. Len(xml)
  BY <1>4, <1>5
<1>7. xml[e] = "tag"
  BY <1>3, <1>6
<1> QED BY <1>5, <1>7 DEF EndTags

(* Reading one more part that fits keeps what ReadUpTo says.               *)
LEMMA OneMoreRead ==
    ASSUME NEW W \in Seq(Parts), NEW P, NEW k \in 0 .. Len(W) - 1, NEW text, NEW places,
           ReadUpTo(W, P, k, text, places), W[k + 1] \in P, Closed(W[k + 1].xml)
    PROVE  ReadUpTo(W, P, k + 1, text \o PushText(W[k + 1].xml), places \o Places(k + 1, W[k + 1].xml))
<1> DEFINE xml == W[k + 1].xml
           t == PushText(xml)
           p == Places(k + 1, xml)
           E == Letters \cup {"space"}
           R == [part : Nat, unit : Nat]
           n == Len(text)
           m == Len(t)
           part == k + 1
<1>1. /\ text \in Seq(E) /\ places \in Seq(R) /\ Len(places) = n
      /\ Bytes(text) <= Bytes(FirstXml(W, k))
      /\ Kept(text, Letters) = FirstLetters(W, P, k)
      /\ StayApart(W, text, places) /\ EndsClosed(text)
  BY DEF ReadUpTo
<1>2. /\ xml \in Seq(Units) /\ FirstXml(W, k) \in Seq(Units)
      /\ FirstLetters(W, P, k) \in Seq(Letters)
      /\ FirstLetters(W, P, k + 1) = FirstLetters(W, P, k) \o Kept(xml, Letters)
  BY FirstNext
<1>3. Bytes(FirstXml(W, k + 1)) = Bytes(FirstXml(W, k)) + Bytes(xml)
  BY OneMorePart
<1>4. part \in Nat
  BY LenProperties
<1> HIDE DEF xml
<1>5. t \in Seq(E) /\ t \in Seq(Units) /\ Bytes(t) <= Bytes(xml) /\ m \in Nat /\ n \in Nat
  BY <1>1, <1>2, PushShrinks, LenProperties
<1>6. Along(part, xml) /\ EndsClosed(t)
  <2> HIDE DEF part
  <2>1. Along(part, xml)
    BY <1>2, <1>4, PartsAreAlong
  <2>2. Closed(xml)
    BY DEF xml
  <2> QED BY <1>2, <1>4, <2>1, <2>2, PartEndsClosed
<1>7. /\ p \in Seq(R) /\ Len(p) = m
      /\ Kept(t, Letters) = Kept(xml, Letters)
      /\ \A i \in 1 .. m : p[i].part = part
      /\ \A i \in 1 .. m - 1 : t[i] \in Letters /\ t[i + 1] \in Letters =>
             SamePar(xml, p[i].unit, p[i + 1].unit)
  BY <1>6 DEF Along
<1> HIDE DEF t, p, E, R, n, m
<1>8. /\ text \o t \in Seq(E) /\ Len(text \o t) = n + m
      /\ \A i \in 1 .. n : (text \o t)[i] = text[i]
      /\ \A i \in 1 .. m : (text \o t)[n + i] = t[i]
  BY <1>1, <1>5, ConcatElements DEF n, m
<1>9. /\ places \o p \in Seq(R) /\ Len(places \o p) = n + m
      /\ \A i \in 1 .. n : (places \o p)[i] = places[i]
      /\ \A i \in 1 .. m : (places \o p)[n + i] = p[i]
  <2>1. /\ places \o p \in Seq(R) /\ Len(places \o p) = Len(places) + Len(p)
        /\ \A i \in 1 .. Len(places) : (places \o p)[i] = places[i]
        /\ \A i \in 1 .. Len(p) : (places \o p)[Len(places) + i] = p[i]
    <3>1. places \in Seq(R) /\ p \in Seq(R)
      BY <1>1, <1>7 DEF R
    <3> QED BY <3>1, ConcatElements
  <2> QED BY <1>1, <1>7, <2>1
<1>10. Bytes(text \o t) <= Bytes(FirstXml(W, k + 1))
  <2>1. text \in Seq(Units)
    BY <1>1, TextUnits DEF E
  <2>2. Bytes(text \o t) = Bytes(text) + Bytes(t)
    BY <1>5, <2>1, BytesOfConcat
  <2>3. Bytes(text) \in Nat /\ Bytes(t) \in Nat /\ Bytes(xml) \in Nat /\ Bytes(FirstXml(W, k)) \in Nat
    BY <1>2, <1>5, <2>1, BytesType
  <2> QED BY <1>1, <1>3, <1>5, <2>2, <2>3
<1>11. Kept(text \o t, Letters) = FirstLetters(W, P, k + 1)
  <2>1. Kept(text \o t, Letters) = Kept(text, Letters) \o Kept(t, Letters)
    BY <1>1, <1>5, KeptConcat
  <2> QED BY <1>1, <1>2, <1>7, <2>1
<1> DEFINE tt == text \o t
           pp == places \o p
<1> HIDE DEF tt, pp
<1>12. StayApart(W, tt, pp)
  <2> SUFFICES ASSUME NEW i \in 1 .. (n + m) - 1, tt[i] \in Letters, tt[i + 1] \in Letters
               PROVE  /\ pp[i].part = pp[i + 1].part
                      /\ SamePar(W[pp[i].part].xml, pp[i].unit, pp[i + 1].unit)
    BY <1>8 DEF StayApart, tt
  <2>1. CASE i + 1 <= n
    <3>1. i \in 1 .. n /\ i + 1 \in 1 .. n /\ i \in 1 .. n - 1
      BY <1>5, <2>1
    <3>2. tt[i] = text[i] /\ tt[i + 1] = text[i + 1] /\ pp[i] = places[i] /\ pp[i + 1] = places[i + 1]
      BY <1>8, <1>9, <3>1 DEF tt, pp
    <3> QED BY <1>1, <3>1, <3>2 DEF StayApart, n
  <2>2. CASE i = n
    <3>1. n \in 1 .. n
      BY <1>5, <2>2
    <3>2. text[n] \in Letters
      BY <1>8, <2>2, <3>1 DEF tt
    <3> QED BY <1>1, <1>5, <3>1, <3>2 DEF EndsClosed, n
  <2>3. CASE i > n
    <3> DEFINE j == i - n
    <3>1. j \in 1 .. m - 1 /\ j \in 1 .. m /\ j + 1 \in 1 .. m /\ n + j = i /\ n + (j + 1) = i + 1
      BY <1>5, <2>3
    <3> HIDE DEF j
    <3>2. tt[i] = t[j] /\ tt[i + 1] = t[j + 1] /\ pp[i] = p[j] /\ pp[i + 1] = p[j + 1]
      <4>1. tt[n + j] = t[j] /\ tt[n + (j + 1)] = t[j + 1]
        BY <1>8, <3>1 DEF tt
      <4>2. pp[n + j] = p[j] /\ pp[n + (j + 1)] = p[j + 1]
        BY <1>9, <3>1 DEF pp
      <4> QED BY <3>1, <4>1, <4>2
    <3>3. p[j].part = part /\ p[j + 1].part = part
      BY <1>7, <3>1
    <3>4. SamePar(xml, p[j].unit, p[j + 1].unit)
      BY <1>7, <3>1, <3>2
    <3> QED BY <3>2, <3>3, <3>4 DEF xml, part
  <2> QED BY <1>5, <2>1, <2>2, <2>3
<1>13. EndsClosed(tt)
  <2>1. CASE m = 0
    <3>1. n # 0 => n \in 1 .. n
      BY <1>5
    <3> QED BY <1>1, <1>5, <1>8, <2>1, <3>1 DEF EndsClosed, tt, n
  <2>2. CASE m # 0
    <3>1. m \in 1 .. m
      BY <1>5, <2>2
    <3>2. tt[n + m] = t[m]
      BY <1>8, <3>1 DEF tt
    <3> QED BY <1>5, <1>6, <1>8, <2>2, <3>2 DEF EndsClosed, tt, m
  <2> QED BY <2>1, <2>2
<1>14. ReadUpTo(W, P, k + 1, tt, pp)
  BY <1>8, <1>9, <1>10, <1>11, <1>12, <1>13 DEF ReadUpTo, tt, pp, E, R
<1> QED BY <1>14 DEF tt, pp, t, p, xml, part

-----------------------------------------------------------------------------
\* An office document whose parts fit into the limit.
Small == Sniff(attachment) = "ooxml" /\ Bytes(XmlOf(Wanted)) <= MaxText

(* While the parts of a small document are read, the first k of them have  *)
(* been read whole, and the budget is no less than the rest takes.         *)
FitInv ==
    /\ TextInv
    /\ stage = "decode" => origin = <<>>
    /\ stage = "parts" /\ Small =>
           \E k \in 0 .. Len(Wanted) : /\ names = SubSeq(Wanted, k + 1, Len(Wanted))
                                       /\ ReadUpTo(Wanted, Plain, k, out, origin)
    /\ stage = "limit" /\ Small =>
           ReadUpTo(Wanted, Plain, Len(Wanted), out, origin) /\ Readable # <<>>
    /\ WhatFitsIsRead

(* What ReadUpTo says of all parts is what WhatFitsIsRead says.            *)
LEMMA AllParts ==
    ASSUME attachment \in Attachments
    PROVE  /\ Len(Wanted) \in Nat
           /\ FirstXml(Wanted, Len(Wanted)) = XmlOf(Wanted)
           /\ FirstLetters(Wanted, Plain, Len(Wanted)) = Readable
<1>1. Wanted \in Seq(Parts)
  BY WantedType
<1>2. SubSeq(Wanted, 1, Len(Wanted)) = Wanted /\ Len(Wanted) \in Nat
  BY <1>1
<1> QED BY <1>2 DEF FirstXml, FirstLetters, Readable

LEMMA EmptyReadsNothing ==
    ASSUME attachment \in Attachments
    PROVE  ReadUpTo(Wanted, Plain, 0, <<>>, <<>>)
<1>1. Wanted \in Seq(Parts)
  BY WantedType
<1>2. FirstXml(Wanted, 0) = <<>> /\ FirstLetters(Wanted, Plain, 0) = <<>>
  BY <1>1, FirstNone
<1>3. /\ <<>> \in Seq(Letters \cup {"space"}) /\ <<>> \in Seq([part : Nat, unit : Nat])
      /\ Len(<<>>) = 0 /\ 1 .. 0 - 1 = {}
  OBVIOUS
<1>4. Bytes(<<>>) <= Bytes(<<>>)
  BY BytesOfNone
<1>5. Kept(<<>>, Letters) = <<>>
  BY KeptOfNone
<1>6. StayApart(Wanted, <<>>, <<>>)
  BY <1>3 DEF StayApart
<1>7. EndsClosed(<<>>)
  BY <1>3 DEF EndsClosed
<1> QED BY <1>2, <1>3, <1>4, <1>5, <1>6, <1>7 DEF ReadUpTo

LEMMA BlankIsUnreadable ==
    ASSUME NEW text \in Seq(Letters \cup {"space"})
    PROVE  ToSet(text) \subseteq {"space"} <=> Kept(text, Letters) = <<>>
<1>1. \A i \in 1 .. Len(text) : text[i] \in Letters \cup {"space"}
  BY ElementOfSeq
<1>2. DOMAIN text = 1 .. Len(text) /\ "space" \notin Letters
  BY LenProperties DEF Letters
<1>3. Kept(text, Letters) = <<>> <=> \A i \in 1 .. Len(text) : text[i] \notin Letters
  BY NothingKept
<1> QED BY <1>1, <1>2, <1>3 DEF ToSet

LEMMA ApartIsApart ==
    ASSUME StayApart(Wanted, out, origin) PROVE ParagraphsStayApart
<1> SUFFICES ASSUME NEW i \in 1 .. Len(out) - 1, {out[i], out[i + 1]} \subseteq Letters
             PROVE  Paragraph(origin[i]) = Paragraph(origin[i + 1])
  BY DEF ParagraphsStayApart
<1>1. /\ origin[i].part = origin[i + 1].part
      /\ SamePar(Wanted[origin[i].part].xml, origin[i].unit, origin[i + 1].unit)
  BY DEF StayApart
<1> QED BY <1>1 DEF SamePar, Paragraph

\* One part of a small document, at its turn.
LEMMA NextPart ==
    ASSUME attachment \in Attachments, Small, NEW k \in 0 .. Len(Wanted),
           out \in Seq(Units), Bytes(out) <= MaxText,
           names = SubSeq(Wanted, k + 1, Len(Wanted)), names # <<>>,
           ReadUpTo(Wanted, Plain, k, out, origin)
    PROVE  /\ k \in 0 .. Len(Wanted) - 1 /\ PartNumber = k + 1
           /\ Head(names) = Wanted[k + 1] /\ Tail(names) = SubSeq(Wanted, (k + 1) + 1, Len(Wanted))
           /\ Fitting(Wanted[k + 1].xml, Budget) = Wanted[k + 1].xml
           /\ Closed(Wanted[k + 1].xml)
           /\ Spoilt(Wanted[k + 1]) <=> ~Wanted[k + 1].utf8
           /\ Wanted[k + 1] \in Plain <=> Wanted[k + 1].utf8
<1> DEFINE W == Wanted
           p == W[k + 1]
<1>1. W \in Seq(Parts) /\ Len(W) \in Nat
  BY WantedType, LenProperties
<1>2. k \in 0 .. Len(W) - 1
  <2>1. CASE k = Len(W)
    <3>1. SubSeq(W, k + 1, Len(W)) = <<>>
      BY <1>1, <2>1
    <3> QED BY <3>1
  <2>2. CASE k # Len(W)
    BY <1>1, <2>2
  <2> QED BY <2>1, <2>2
<1>3. k + 1 \in 1 .. Len(W) /\ p \in Parts /\ p \in ToSet(attachment.parts)
  <2>1. k + 1 \in 1 .. Len(W)
    BY <1>1, <1>2
  <2> QED BY <1>1, <2>1, ElementOfSeq, WantedType
<1>4. p.xml \in Seq(Units) /\ p.utf8 \in BOOLEAN
  BY <1>3 DEF Parts
<1>5. Closed(p.xml)
  <2>1. PICK n \in DOMAIN attachment.parts : p = attachment.parts[n]
    BY <1>3 DEF ToSet
  <2> HIDE DEF p
  <2> QED BY <2>1, ClosingAssumption DEF Closed
<1>6. p \in Plain <=> p.utf8
  BY <1>3 DEF Plain
<1>7. Bytes(p.xml) <= Budget /\ Budget \in Nat
  <2>1. Budget \in Nat /\ Budget = MaxText - Bytes(out)
    BY BudgetLeft
  <2>2. Bytes(FirstXml(W, k + 1)) = Bytes(FirstXml(W, k)) + Bytes(p.xml)
    BY <1>1, <1>2, OneMorePart
  <2>3. Bytes(FirstXml(W, k + 1)) <= MaxText
    <3> DEFINE j == k + 1
    <3>1. j \in 0 .. Len(W)
      BY <1>3
    <3> HIDE DEF j, W
    <3>2. Bytes(FirstXml(W, j)) <= Bytes(FirstXml(W, Len(W))) /\ Bytes(FirstXml(W, j)) \in Nat
      BY <1>1, <3>1, FirstGrows, FirstBytes
    <3>3. Bytes(FirstXml(W, Len(W))) \in Nat
      <4>1. Len(W) \in 0 .. Len(W)
        BY <1>1
      <4> QED BY <1>1, <4>1, FirstBytes
    <3>4. FirstXml(W, Len(W)) = XmlOf(W)
      BY AllParts DEF W
    <3>5. Bytes(FirstXml(W, Len(W))) <= MaxText /\ MaxText \in Nat
      BY <3>4, LimitsAssumption DEF Small, W
    <3> QED BY <3>2, <3>3, <3>5 DEF j
  <2>4. Bytes(out) <= Bytes(FirstXml(W, k))
    BY DEF ReadUpTo
  <2>5. Bytes(out) \in Nat /\ Bytes(p.xml) \in Nat /\ MaxText \in Nat
    BY <1>4, BytesType, LimitsAssumption
  <2>6. Bytes(FirstXml(W, k)) \in Nat
    BY <1>1, <1>2, FirstBytes
  <2> HIDE DEF W, p
  <2> QED BY SMTT(60), <2>1, <2>2, <2>3, <2>4, <2>5, <2>6
<1>8. Fitting(p.xml, Budget) = p.xml
  BY <1>4, <1>7, FittingFits
<1>9. Len(p.xml) \in Nat
  BY <1>4, LenProperties
<1>10. Spoilt(p) <=> ~p.utf8
  BY <1>8, <1>9 DEF Spoilt
<1>11. PartNumber = k + 1
  <2>1. Len(names) = Len(W) - k
    BY <1>1, <1>2
  <2> QED BY <1>1, <1>2, <2>1 DEF PartNumber
<1>12. Head(names) = p /\ Tail(names) = SubSeq(W, (k + 1) + 1, Len(W))
  <2> HIDE DEF W
  <2>1. Head(SubSeq(W, k + 1, Len(W))) = W[k + 1]
    BY <1>1, <1>2
  <2>2. Tail(SubSeq(W, k + 1, Len(W))) = SubSeq(W, (k + 1) + 1, Len(W))
    BY <1>1, <1>2
  <2> QED BY <2>1, <2>2 DEF W
<1> QED BY <1>2, <1>5, <1>6, <1>8, <1>10, <1>11, <1>12

\* Behind the last part, or where no budget is left: everything is read.
LEMMA NothingLeft ==
    ASSUME attachment \in Attachments, Small, NEW k \in 0 .. Len(Wanted),
           out \in Seq(Units), Bytes(out) <= MaxText,
           names = SubSeq(Wanted, k + 1, Len(Wanted)), names = <<>> \/ Budget = 0,
           ReadUpTo(Wanted, Plain, k, out, origin)
    PROVE  ReadUpTo(Wanted, Plain, Len(Wanted), out, origin)
<1> DEFINE W == Wanted
<1>1. W \in Seq(Parts) /\ Len(W) \in Nat
  BY WantedType, LenProperties
<1>2. CASE names = <<>>
  <2>1. k = Len(W)
    <3> SUFFICES ASSUME k # Len(W) PROVE FALSE
      OBVIOUS
    <3>1. Len(SubSeq(W, k + 1, Len(W))) = Len(W) - k /\ Len(W) - k # 0
      BY <1>1
    <3>2. Len(<<>>) = 0
      OBVIOUS
    <3> QED BY <1>2, <3>1, <3>2
  <2> QED BY <2>1
<1>3. CASE Budget = 0
  <2>1. Budget = MaxText - Bytes(out)
    BY BudgetLeft
  <2>2. Bytes(out) \in Nat /\ MaxText \in Nat /\ Bytes(FirstXml(W, k)) \in Nat
    BY <1>1, BytesType, FirstBytes, LimitsAssumption
  <2>3. FirstXml(W, Len(W)) = XmlOf(W) /\ Bytes(FirstXml(W, Len(W))) <= MaxText
    BY AllParts DEF Small
  <2>4. /\ Bytes(FirstXml(W, k)) <= Bytes(FirstXml(W, Len(W)))
        /\ Bytes(FirstXml(W, k)) = Bytes(FirstXml(W, Len(W))) =>
               FirstLetters(W, Plain, k) = FirstLetters(W, Plain, Len(W))
    <3> HIDE DEF W
    <3>1. k \in 0 .. Len(W)
      BY DEF W
    <3> QED BY <1>1, <3>1, FirstGrows
  <2>5. Bytes(FirstXml(W, Len(W))) \in Nat
    <3>1. Len(W) \in 0 .. Len(W)
      BY <1>1
    <3> HIDE DEF W
    <3> QED BY <1>1, <3>1, FirstBytes
  <2>6. Bytes(out) <= Bytes(FirstXml(W, k))
    BY DEF ReadUpTo
  <2>7. Bytes(FirstXml(W, k)) = Bytes(FirstXml(W, Len(W)))
    BY <1>3, <2>1, <2>2, <2>3, <2>4, <2>5, <2>6
  <2> QED BY <2>4, <2>7 DEF ReadUpTo
<1> QED BY <1>2, <1>3

(* The invariant of fitting documents holds at first.                      *)
LEMMA FitInit == ReadingInit => FitInv
<1> SUFFICES ASSUME ReadingInit PROVE FitInv
  OBVIOUS
<1>1. TextInv
  BY TextInit
<1>2. stage = "decode" /\ origin = <<>>
  BY DEF ReadingInit, ExtractInit
<1> QED BY <1>1, <1>2 DEF FitInv, WhatFitsIsRead

(* The properties of an attachment that no step changes.                   *)
LEMMA SameAttachment ==
    ASSUME attachment' = attachment
    PROVE  /\ Wanted' = Wanted /\ Plain' = Plain /\ Readable' = Readable
           /\ Sniff(attachment)' = Sniff(attachment)
           /\ Small' <=> Small
           /\ Decodes' <=> Decodes
           /\ Fits' <=> Fits
<1>1. Wanted' = Wanted
  BY DEF Wanted
<1>2. Plain' = Plain
  BY DEF Plain
<1>3. Sniff(attachment)' = Sniff(attachment)
  OBVIOUS
<1> QED BY <1>1, <1>2, <1>3 DEF Readable, Small, Decodes, Fits

(* Every step keeps it.                                                    *)
LEMMA FitNext == FitInv /\ [ReadingNext]_readingVars => FitInv'
<1> SUFFICES ASSUME FitInv, [ReadingNext]_readingVars PROVE FitInv'
  OBVIOUS
<1>0. TextInv /\ TextInv'
  BY TextNext DEF FitInv
<1>t. /\ attachment \in Attachments /\ names \in Seq(Parts) /\ out \in Seq(Units)
      /\ stage = "decode" => out = <<>> /\ origin = <<>>
      /\ stage = "parts" => Bytes(out) <= MaxText
  BY <1>0 DEF TextInv, FitInv
<1>p. stage = "parts" /\ Small =>
           \E k \in 0 .. Len(Wanted) : /\ names = SubSeq(Wanted, k + 1, Len(Wanted))
                                       /\ ReadUpTo(Wanted, Plain, k, out, origin)
  BY DEF FitInv
<1>l. stage = "limit" /\ Small =>
           ReadUpTo(Wanted, Plain, Len(Wanted), out, origin) /\ Readable # <<>>
  BY DEF FitInv
<1>w. WhatFitsIsRead
  BY DEF FitInv
<1>1. CASE Refuse
  <2>1. stage' = "done" /\ attachment' = attachment
    BY <1>1 DEF Refuse, Fail
  <2>2. ~Decodes \/ ~Fits \/ Sniff(attachment) # "ooxml"
    BY <1>1 DEF Refuse
  <2>3. WhatFitsIsRead'
    BY <2>1, <2>2, SameAttachment DEF WhatFitsIsRead
  <2> QED BY <1>0, <2>1, <2>3 DEF FitInv
<1>2. CASE ReadPdf \/ ReadText
  <2>1. attachment' = attachment /\ Sniff(attachment) # "ooxml" /\ stage' \in {"limit", "done"}
    BY <1>2 DEF ReadPdf, ReadText, Accepted, Fail
  <2>2. Sniff(attachment)' # "ooxml"
    BY <2>1, SameAttachment
  <2> QED BY <1>0, <2>1, <2>2 DEF FitInv, Small, WhatFitsIsRead
<1>3. CASE OpenArchive
  <2>1. stage = "decode" /\ out = <<>> /\ origin = <<>> /\ attachment' = attachment
    BY <1>3, <1>t DEF OpenArchive, Accepted, Fail
  <2>2. CASE Wanted = <<>>
    <3>1. stage' = "done" /\ outcome' = "unreadable"
      BY <1>3, <2>2 DEF OpenArchive, Fail
    <3>2. Readable = <<>>
      <4>1. [i \in DOMAIN <<>> |-> <<>>[i].xml] = <<>>
        OBVIOUS
      <4> QED BY <2>2, <4>1, KeptOfNone, FlattenOfNone DEF Readable, XmlOf
    <3>3. WhatFitsIsRead'
      BY <2>1, <3>1, <3>2, SameAttachment DEF WhatFitsIsRead
    <3> QED BY <1>0, <3>1, <3>3 DEF FitInv
  <2>3. CASE Wanted # <<>>
    <3>1. names' = Wanted /\ stage' = "parts" /\ UNCHANGED <<out, origin>>
      BY <1>3, <2>3 DEF OpenArchive
    <3>2. ReadUpTo(Wanted, Plain, 0, out, origin)
      BY <1>t, <2>1, EmptyReadsNothing
    <3>3. SubSeq(Wanted, 0 + 1, Len(Wanted)) = Wanted /\ 0 \in 0 .. Len(Wanted)
      BY <1>t, WantedType
    <3>4. \E k \in 0 .. Len(Wanted') : /\ names' = SubSeq(Wanted', k + 1, Len(Wanted'))
                                       /\ ReadUpTo(Wanted', Plain', k, out', origin')
      BY <2>1, <3>1, <3>2, <3>3, SameAttachment
    <3>5. WhatFitsIsRead'
      BY <3>1 DEF WhatFitsIsRead
    <3> QED BY <1>0, <3>1, <3>4, <3>5 DEF FitInv
  <2> QED BY <2>2, <2>3
<1>4. CASE SkipPart
  <2>1. /\ stage = "parts" /\ names # <<>> /\ Spoilt(Head(names))
        /\ names' = Tail(names) /\ stage' = "parts" /\ UNCHANGED <<attachment, out, origin>>
    BY <1>4 DEF SkipPart
  <2>2. ASSUME Small
        PROVE  \E k \in 0 .. Len(Wanted) : /\ names' = SubSeq(Wanted, k + 1, Len(Wanted))
                                           /\ ReadUpTo(Wanted, Plain, k, out, origin)
    <3>1. PICK k \in 0 .. Len(Wanted) : /\ names = SubSeq(Wanted, k + 1, Len(Wanted))
                                        /\ ReadUpTo(Wanted, Plain, k, out, origin)
      BY <1>p, <2>1, <2>2
    <3>2. /\ k \in 0 .. Len(Wanted) - 1
          /\ Head(names) = Wanted[k + 1] /\ Tail(names) = SubSeq(Wanted, (k + 1) + 1, Len(Wanted))
          /\ Spoilt(Wanted[k + 1]) <=> ~Wanted[k + 1].utf8
          /\ Wanted[k + 1] \in Plain <=> Wanted[k + 1].utf8
      BY <1>t, <2>1, <2>2, <3>1, NextPart
    <3>3. Wanted \in Seq(Parts)
      BY <1>t, WantedType
    <3>4. Wanted[k + 1] \notin Plain
      BY <2>1, <3>2
    <3>5. FirstLetters(Wanted, Plain, k + 1) = FirstLetters(Wanted, Plain, k)
      BY <3>2, <3>3, <3>4, FirstNext
    <3>6. Bytes(FirstXml(Wanted, k)) <= Bytes(FirstXml(Wanted, k + 1))
      <4>1. Bytes(FirstXml(Wanted, k + 1)) = Bytes(FirstXml(Wanted, k)) + Bytes(Wanted[k + 1].xml)
        BY <3>2, <3>3, OneMorePart
      <4>2. Wanted[k + 1].xml \in Seq(Units) /\ FirstXml(Wanted, k) \in Seq(Units)
        BY <3>2, <3>3, FirstNext
      <4>3. Bytes(Wanted[k + 1].xml) \in Nat /\ Bytes(FirstXml(Wanted, k)) \in Nat
        BY <4>2, BytesType
      <4> QED BY <4>1, <4>3
    <3>7. ReadUpTo(Wanted, Plain, k + 1, out, origin)
      <4>1. Bytes(out) \in Nat /\ Bytes(FirstXml(Wanted, k)) \in Nat /\ Bytes(FirstXml(Wanted, k + 1)) \in Nat
        <5> DEFINE j == k + 1
        <5>1. j \in 0 .. Len(Wanted) /\ Len(Wanted) \in Nat
          BY <3>2, <3>3, LenProperties
        <5> HIDE DEF j
        <5>2. Bytes(FirstXml(Wanted, j)) \in Nat
          BY <3>3, <5>1, FirstBytes
        <5>3. Bytes(FirstXml(Wanted, k)) \in Nat
          BY <3>1, <3>3, FirstBytes
        <5> QED BY <1>t, <5>2, <5>3, BytesType DEF j
      <4>2. Bytes(out) <= Bytes(FirstXml(Wanted, k + 1))
        BY <3>1, <3>6, <4>1 DEF ReadUpTo
      <4> QED BY <3>1, <3>5, <4>2 DEF ReadUpTo
    <3>8. k + 1 \in 0 .. Len(Wanted)
      BY <3>2, <3>3, LenProperties
    <3> QED BY <2>1, <3>2, <3>7, <3>8
  <2>3. WhatFitsIsRead'
    BY <2>1 DEF WhatFitsIsRead
  <2> QED BY <1>0, <2>1, <2>2, <2>3, SameAttachment DEF FitInv
<1>5. CASE ReadPart
  <2> DEFINE xml == Fitting(Head(names).xml, Budget)
  <2>1. /\ stage = "parts" /\ names # <<>> /\ ~Spoilt(Head(names))
        /\ out' = out \o PushText(xml) /\ origin' = origin \o Places(PartNumber, xml)
        /\ names' = Tail(names) /\ stage' = "parts" /\ attachment' = attachment
    BY <1>5 DEF ReadPart
  <2>2. ASSUME Small
        PROVE  \E k \in 0 .. Len(Wanted) : /\ names' = SubSeq(Wanted, k + 1, Len(Wanted))
                                           /\ ReadUpTo(Wanted, Plain, k, out', origin')
    <3>1. PICK k \in 0 .. Len(Wanted) : /\ names = SubSeq(Wanted, k + 1, Len(Wanted))
                                        /\ ReadUpTo(Wanted, Plain, k, out, origin)
      BY <1>p, <2>1, <2>2
    <3>2. /\ k \in 0 .. Len(Wanted) - 1 /\ PartNumber = k + 1
          /\ Head(names) = Wanted[k + 1] /\ Tail(names) = SubSeq(Wanted, (k + 1) + 1, Len(Wanted))
          /\ Fitting(Wanted[k + 1].xml, Budget) = Wanted[k + 1].xml
          /\ Closed(Wanted[k + 1].xml)
          /\ Spoilt(Wanted[k + 1]) <=> ~Wanted[k + 1].utf8
          /\ Wanted[k + 1] \in Plain <=> Wanted[k + 1].utf8
      BY <1>t, <2>1, <2>2, <3>1, NextPart
    <3>3. Wanted \in Seq(Parts) /\ Len(Wanted) \in Nat
      BY <1>t, WantedType, LenProperties
    <3>4. Wanted[k + 1] \in Plain
      BY <2>1, <3>2
    <3>5. out' = out \o PushText(Wanted[k + 1].xml) /\ origin' = origin \o Places(k + 1, Wanted[k + 1].xml)
      BY <2>1, <3>2
    <3>6. ReadUpTo(Wanted, Plain, k + 1, out \o PushText(Wanted[k + 1].xml), origin \o Places(k + 1, Wanted[k + 1].xml))
      BY <3>1, <3>2, <3>3, <3>4, OneMoreRead
    <3>7. k + 1 \in 0 .. Len(Wanted)
      BY <3>2, <3>3
    <3> QED BY <2>1, <3>2, <3>5, <3>6, <3>7
  <2>3. WhatFitsIsRead'
    BY <2>1 DEF WhatFitsIsRead
  <2> QED BY <1>0, <2>1, <2>2, <2>3, SameAttachment DEF FitInv
<1>6. CASE CloseArchive
  <2>1. stage = "parts" /\ (names = <<>> \/ Budget = 0) /\ attachment' = attachment
    BY <1>6 DEF CloseArchive, Fail
  <2>2. ASSUME Small
        PROVE  /\ ReadUpTo(Wanted, Plain, Len(Wanted), out, origin)
               /\ ToSet(out) \subseteq {"space"} <=> Readable = <<>>
    <3>1. PICK k \in 0 .. Len(Wanted) : /\ names = SubSeq(Wanted, k + 1, Len(Wanted))
                                        /\ ReadUpTo(Wanted, Plain, k, out, origin)
      BY <1>p, <2>1, <2>2
    <3>2. ReadUpTo(Wanted, Plain, Len(Wanted), out, origin)
      BY <1>t, <2>1, <2>2, <3>1, NothingLeft
    <3>3. out \in Seq(Letters \cup {"space"}) /\ Kept(out, Letters) = Readable
      BY <1>t, <3>2, AllParts DEF ReadUpTo
    <3> QED BY <3>2, <3>3, BlankIsUnreadable
  <2>3. CASE ToSet(out) \subseteq {"space"}
    <3>1. stage' = "done" /\ outcome' = "unreadable"
      BY <1>6, <2>3 DEF CloseArchive, Fail
    <3>2. Small => Readable = <<>>
      BY <2>2, <2>3
    <3>3. WhatFitsIsRead'
      BY <2>1, <3>1, <3>2, SameAttachment DEF WhatFitsIsRead, Small
    <3> QED BY <1>0, <3>1, <3>3 DEF FitInv
  <2>4. CASE ~(ToSet(out) \subseteq {"space"})
    <3>1. stage' = "limit" /\ UNCHANGED <<out, origin>>
      BY <1>6, <2>4 DEF CloseArchive
    <3>2. WhatFitsIsRead'
      BY <3>1 DEF WhatFitsIsRead
    <3> QED BY <1>0, <2>1, <2>2, <2>4, <3>1, <3>2, SameAttachment DEF FitInv
  <2> QED BY <2>3, <2>4
<1>7. CASE Limit
  <2>1. /\ stage = "limit" /\ stage' = "done" /\ outcome' = "read" /\ attachment' = attachment
        /\ out' = Fitting(out, MaxText) /\ origin' = SubSeq(origin, 1, Len(out'))
    BY <1>7 DEF Limit
  <2>2. ASSUME Small
        PROVE  out' = out /\ origin' = origin
    <3>1. ReadUpTo(Wanted, Plain, Len(Wanted), out, origin)
      BY <1>l, <2>1, <2>2
    <3>2. Bytes(out) <= Bytes(XmlOf(Wanted)) /\ Bytes(XmlOf(Wanted)) <= MaxText
      BY <1>t, <2>2, <3>1, AllParts DEF ReadUpTo, Small
    <3>3. Bytes(out) \in Nat /\ MaxText \in Nat /\ Bytes(XmlOf(Wanted)) \in Nat
      <4>1. Wanted \in Seq(Parts) /\ Len(Wanted) \in 0 .. Len(Wanted)
        <5>1. Wanted \in Seq(Parts) /\ Len(Wanted) \in Nat
          BY <1>t, WantedType, LenProperties
        <5> QED BY <5>1
      <4>2. Bytes(FirstXml(Wanted, Len(Wanted))) \in Nat
        BY <4>1, FirstBytes
      <4> QED BY <1>t, <4>2, AllParts, BytesType, LimitsAssumption
    <3>4. Bytes(out) <= MaxText
      BY <3>2, <3>3
    <3>5. out' = out
      BY <1>t, <2>1, <3>3, <3>4, FittingFits
    <3>6. origin \in Seq([part : Nat, unit : Nat]) /\ Len(origin) = Len(out)
      BY <3>1 DEF ReadUpTo
    <3>7. SubSeq(origin, 1, Len(origin)) = origin
      <4> DEFINE E == [part : Nat, unit : Nat]
      <4>1. origin \in Seq(E)
        BY <3>6
      <4> HIDE DEF E
      <4> QED BY <4>1
    <3> QED BY <2>1, <3>5, <3>6, <3>7
  <2>3. ASSUME Small
        PROVE  Kept(out', Letters) = Readable /\ Readable # <<>> /\ ParagraphsStayApart'
    <3>1. ReadUpTo(Wanted, Plain, Len(Wanted), out, origin) /\ Readable # <<>>
      BY <1>l, <2>1, <2>3
    <3>2. Kept(out, Letters) = Readable
      BY <1>t, <3>1, AllParts DEF ReadUpTo
    <3>3. ParagraphsStayApart
      BY <3>1, ApartIsApart DEF ReadUpTo
    <3>4. ParagraphsStayApart'
      <4>1. out' = out /\ origin' = origin /\ Wanted' = Wanted
        BY <2>1, <2>2, <2>3, SameAttachment
      <4> QED BY <3>3, <4>1 DEF ParagraphsStayApart, Paragraph
    <3> QED BY <2>2, <2>3, <3>1, <3>2, <3>4
  <2>4. WhatFitsIsRead'
    BY <2>1, <2>3, SameAttachment DEF WhatFitsIsRead, Small
  <2> QED BY <1>0, <2>1, <2>4 DEF FitInv
<1>8. CASE UNCHANGED extractVars
  <2>1. UNCHANGED <<attachment, stage, names, out, outcome, origin>>
    BY <1>8 DEF extractVars
  <2>2. ParagraphsStayApart' <=> ParagraphsStayApart
    <3>1. out' = out /\ origin' = origin /\ Wanted' = Wanted
      BY <2>1, SameAttachment
    <3> QED BY <3>1 DEF ParagraphsStayApart, Paragraph
  <2>3. WhatFitsIsRead'
    BY <1>w, <2>1, <2>2, SameAttachment DEF WhatFitsIsRead, XmlOf
  <2> QED BY <1>0, <1>t, <1>p, <1>l, <2>1, <2>3, SameAttachment DEF FitInv
<1> QED BY <1>1, <1>2, <1>3, <1>4, <1>5, <1>6, <1>7, <1>8, DetectKeeps
    DEF ReadingNext, Extract, ExtractNext, readingVars

(* An office document that fits is read whole, each letter of each part    *)
(* that is text once and in order, with its paragraphs apart, for any      *)
(* documents, limits and sizes of tags.                                    *)
THEOREM FittingDocumentsAreReadWhole == ReadingSpec => []WhatFitsIsRead
<1>1. ReadingSpec => []FitInv
  BY FitInit, FitNext, PTL DEF ReadingSpec, readingVars
<1>2. FitInv => WhatFitsIsRead
  BY DEF FitInv
<1> QED BY <1>1, <1>2, PTL

-----------------------------------------------------------------------------
(* Words and tokens.                                                       *)
Written == {i \in DOMAIN out : out[i] # "space"}
Begins(j) == out[j] # "space" /\ (j = 1 \/ out[j - 1] = "space")

(* The library operators are the same ones in the instance.                *)
LEMMA NerKept == ASSUME NEW s, NEW S PROVE Ner!Kept(s, S) = Kept(s, S)
BY DEF Ner!Kept, Kept, Ner!FlattenSeq, FlattenSeq
LEMMA NerCardinality == ASSUME NEW S PROVE Ner!Cardinality(S) = Cardinality(S)
BY DEF Ner!Cardinality, Cardinality
LEMMA NerMinMax == ASSUME NEW S PROVE Ner!Min(S) = Min(S) /\ Ner!Max(S) = Max(S)
BY DEF Ner!Min, Min, Ner!Max, Max
LEMMA NerToSet == ASSUME NEW s PROVE Ner!ToSet(s) = ToSet(s)
BY DEF Ner!ToSet, ToSet

(* The word numbers count the beginnings of words.                         *)
LEMMA WordIdsCount ==
    ASSUME out \in Seq(Units)
    PROVE  /\ Ner!WordIds(0) = 0
           /\ \A i \in Nat : /\ Ner!WordIds(i) \in Nat
                             /\ Ner!WordIds(i + 1) = Ner!WordIds(i) + (IF Begins(i + 1) THEN 1 ELSE 0)
<1> DEFINE B(i) == {j \in 1 .. i : Begins(j)}
<1>1. \A i \in Nat : Ner!WordIds(i) = Cardinality(B(i))
  <2> SUFFICES ASSUME NEW i \in Nat PROVE Ner!WordIds(i) = Cardinality(B(i))
    OBVIOUS
  <2>1. Ner!WordIds(i) = Cardinality({j \in 1 .. i : out[j] # "space" /\ (j = 1 \/ out[j - 1] = "space")})
    BY NerCardinality DEF Ner!WordIds
  <2>2. {j \in 1 .. i : out[j] # "space" /\ (j = 1 \/ out[j - 1] = "space")} = B(i)
    BY DEF Begins
  <2> HIDE DEF B
  <2> QED BY <2>1, <2>2
<1>2. B(0) = {}
  OBVIOUS
<1>3. ASSUME NEW i \in Nat PROVE IsFiniteSet(B(i)) /\ Cardinality(B(i)) \in Nat
  <2>1. IsFiniteSet(1 .. i) /\ B(i) \subseteq 1 .. i
    BY FS_Interval
  <2> HIDE DEF B
  <2> QED BY <2>1, FS_Subset, FS_CardinalityType
<1>4. ASSUME NEW i \in Nat
      PROVE  Cardinality(B(i + 1)) = Cardinality(B(i)) + (IF Begins(i + 1) THEN 1 ELSE 0)
  <2>1. 1 .. i + 1 = 1 .. i \cup {i + 1} /\ i + 1 \notin 1 .. i
    OBVIOUS
  <2>2. CASE Begins(i + 1)
    <3>1. B(i + 1) = B(i) \cup {i + 1} /\ i + 1 \notin B(i)
      BY <2>1, <2>2
    <3> HIDE DEF B
    <3>2. Cardinality(B(i) \cup {i + 1}) = Cardinality(B(i)) + 1
      BY <1>3, <3>1, FS_AddElement
    <3> QED BY <2>2, <3>1, <3>2
  <2>3. CASE ~Begins(i + 1)
    <3>1. B(i + 1) = B(i)
      BY <2>1, <2>3
    <3> HIDE DEF B
    <3> QED BY <1>3, <2>3, <3>1
  <2> QED BY <2>2, <2>3
<1>5. Cardinality(B(0)) = 0
  BY <1>2, FS_EmptySet
<1>6. 0 \in Nat /\ \A i \in Nat : i + 1 \in Nat
  OBVIOUS
<1> HIDE DEF B
<1> QED BY <1>1, <1>3, <1>4, <1>5, <1>6

(* The words that begin in the first b units are numbered without a gap.   *)
LEMMA WordsWithoutGap ==
    ASSUME out \in Seq(Units)
    PROVE  \A b \in 0 .. Len(out) : /\ {Ner!WordIds(x) : x \in Written \cap 1 .. b} = 1 .. Ner!WordIds(b)
                                    /\ Ner!WordIds(b) \in 0 .. b
<1> DEFINE W(b) == Ner!WordIds(b)
           I(b) == {W(x) : x \in Written \cap 1 .. b}
           T == {b \in Nat : b <= Len(out) => /\ I(b) = 1 .. W(b)
                                              /\ W(b) \in 0 .. b}
<1>1. Len(out) \in Nat /\ DOMAIN out = 1 .. Len(out)
  BY LenProperties
<1>2. /\ W(0) = 0
      /\ \A i \in Nat : W(i) \in Nat /\ W(i + 1) = W(i) + (IF Begins(i + 1) THEN 1 ELSE 0)
  BY WordIdsCount
<1> HIDE DEF W
<1>3. 0 \in T
  <2>1. I(0) = {} /\ 1 .. 0 = {} /\ 0 \in 0 .. 0
    OBVIOUS
  <2> HIDE DEF I
  <2> QED BY <1>2, <2>1
<1>4. ASSUME NEW b \in Nat, b \in T PROVE b + 1 \in T
  <2> SUFFICES ASSUME b + 1 <= Len(out) PROVE I(b + 1) = 1 .. W(b + 1) /\ W(b + 1) \in 0 .. b + 1
    OBVIOUS
  <2>1. I(b) = 1 .. W(b) /\ W(b) \in 0 .. b /\ W(b) \in Nat
    <3> HIDE DEF I
    <3>1. b <= Len(out)
      BY <1>1
    <3> QED BY <1>2, <1>4, <3>1
  <2>2. b + 1 \in DOMAIN out /\ 1 .. b + 1 = 1 .. b \cup {b + 1}
    BY <1>1
  <2>3. CASE b + 1 \notin Written
    <3>1. Written \cap 1 .. b + 1 = Written \cap 1 .. b
      BY <2>2, <2>3
    <3>2. ~Begins(b + 1)
      BY <2>2, <2>3 DEF Begins, Written
    <3>3. W(b + 1) = W(b) /\ W(b) \in 0 .. b + 1
      BY <1>2, <2>1, <3>2
    <3>4. I(b + 1) = I(b)
      BY <3>1
    <3> HIDE DEF I
    <3> QED BY <2>1, <3>3, <3>4
  <2>4. CASE b + 1 \in Written /\ Begins(b + 1)
    <3>1. Written \cap 1 .. b + 1 = (Written \cap 1 .. b) \cup {b + 1}
      BY <2>2, <2>4
    <3>2. W(b + 1) = W(b) + 1
      BY <1>2, <2>4
    <3>3. I(b + 1) = I(b) \cup {W(b + 1)}
      BY <3>1
    <3>4. 1 .. W(b) + 1 = 1 .. W(b) \cup {W(b) + 1}
      BY <2>1
    <3>5. W(b) + 1 \in 0 .. b + 1
      BY <2>1
    <3> HIDE DEF I
    <3> QED BY <2>1, <3>2, <3>3, <3>4, <3>5
  <2>5. CASE b + 1 \in Written /\ ~Begins(b + 1)
    <3>1. Written \cap 1 .. b + 1 = (Written \cap 1 .. b) \cup {b + 1}
      BY <2>2, <2>5
    <3>2. W(b + 1) = W(b)
      BY <1>2, <2>1, <2>5
    <3>3. I(b + 1) = I(b) \cup {W(b + 1)}
      BY <3>1
    <3>4. b + 1 # 1 /\ out[(b + 1) - 1] # "space"
      BY <2>5 DEF Begins, Written
    <3>5. b \in Written \cap 1 .. b
      <4>1. (b + 1) - 1 = b /\ b \in 1 .. b /\ b \in 1 .. Len(out)
        BY <1>1, <3>4
      <4> QED BY <1>1, <3>4, <4>1 DEF Written
    <3>6. W(b) \in I(b)
      BY <3>5
    <3>7. W(b) \in 0 .. b + 1
      BY <2>1
    <3> HIDE DEF I
    <3> QED BY <2>1, <3>2, <3>3, <3>6, <3>7
  <2> QED BY <2>3, <2>4, <2>5
<1> HIDE DEF T
<1>5. \A b \in Nat : b \in T
  BY <1>3, <1>4, NatSetInduction
<1> SUFFICES ASSUME NEW b \in 0 .. Len(out) PROVE I(b) = 1 .. W(b) /\ W(b) \in 0 .. b
  BY DEF W
<1>6. b \in Nat /\ b <= Len(out)
  BY <1>1
<1> QED BY <1>5, <1>6 DEF T

(* The tokens stand in the order of the text.                              *)
LEMMA PiecesInOrder ==
    ASSUME out \in Seq(Units)
    PROVE  /\ Ner!Pieces \in Seq(Nat) /\ InOrder(Ner!Pieces)
           /\ ElementsOf(Ner!Pieces) = Written
<1> DEFINE n == Len(out)
<1>1. n \in Nat /\ DOMAIN out = 1 .. n
  BY LenProperties
<1>2. Written \cap 1 .. n = Written
  BY <1>1 DEF Written
<1>3. Ner!Pieces = Kept([i \in 1 .. n |-> i], Written)
  <2>1. Ner!Pieces = Kept([i \in DOMAIN out |-> i], {i \in DOMAIN out : out[i] # "space"})
    BY NerKept DEF Ner!Pieces
  <2> QED BY <1>1, <2>1 DEF Written
<1> HIDE DEF n
<1>4. LET K == Kept([i \in 1 .. n |-> i], Written)
      IN  K \in Seq(Nat) /\ InOrder(K) /\ ElementsOf(K) = Written \cap 1 .. n
  BY <1>1, KeptNumbers
<1> QED BY <1>2, <1>3, <1>4

Shown == {k \in DOMAIN Tokens : Tokens[k] # Ner!Special}

(* The model is shown the first q pieces, between its special tokens.      *)
LEMMA TokensRead ==
    ASSUME out \in Seq(Units)
    PROVE  \E q \in 0 .. Len(Ner!Pieces) :
               /\ Shown = 2 .. q + 1
               /\ \A k \in 2 .. q + 1 : Tokens[k] = Ner!Token(Ner!Pieces[k - 1])
<1> DEFINE P == Ner!Pieces
           D == [word : Nat, start : Nat, end : Nat]
           M == [k \in DOMAIN P |-> Ner!Token(P[k])]
           S == Ner!Special
           E == Ner!Encoding
           n == Len(P)
           t == Ner!Take
<1>1. P \in Seq(Nat) /\ n \in Nat /\ DOMAIN P = 1 .. n /\ \A k \in 1 .. n : P[k] \in Nat \ {0}
  <2>1. P \in Seq(Nat) /\ ElementsOf(P) = Written
    BY PiecesInOrder
  <2>2. n \in Nat /\ DOMAIN P = 1 .. n
    BY <2>1, LenProperties
  <2>3. Written \subseteq Nat \ {0}
    BY LenProperties DEF Written
  <2> QED BY <2>1, <2>2, <2>3 DEF ElementsOf
<1>2. \A k \in 1 .. n : Ner!Token(P[k]) \in D /\ Ner!Token(P[k]) # S
  <2> SUFFICES ASSUME NEW k \in 1 .. n PROVE Ner!Token(P[k]) \in D /\ Ner!Token(P[k]) # S
    OBVIOUS
  <2>1. P[k] \in Nat \ {0} /\ Ner!WordIds(P[k]) \in Nat
    BY <1>1, WordIdsCount
  <2> QED BY <2>1 DEF Ner!Token, Ner!Special
<1>3. S \in D
  BY DEF Ner!Special
<1> HIDE DEF P, n, S
<1>4. M \in Seq(D) /\ Len(M) = n /\ \A k \in 1 .. n : M[k] = Ner!Token(P[k])
  <2> HIDE DEF D
  <2> QED BY <1>1, <1>2
<1>5. E = <<S>> \o M \o <<S>>
  BY DEF Ner!Encoding, P, S
<1> HIDE DEF M, D
<1>6. <<S>> \in Seq(D) /\ Len(<<S>>) = 1 /\ <<S>>[1] = S
  BY <1>3
<1>7. /\ <<S>> \o M \in Seq(D) /\ Len(<<S>> \o M) = n + 1
      /\ (<<S>> \o M)[1] = S /\ \A i \in 1 .. n : (<<S>> \o M)[1 + i] = M[i]
  BY <1>1, <1>4, <1>6
<1> DEFINE F == <<S>> \o M
<1> HIDE DEF F
<1>8. /\ E \in Seq(D) /\ Len(E) = n + 2
      /\ \A i \in 1 .. n + 1 : E[i] = F[i]
      /\ E[n + 2] = S
  <2>1. F \in Seq(D) /\ Len(F) = n + 1 /\ E = F \o <<S>>
    BY <1>5, <1>7 DEF F
  <2>2. /\ F \o <<S>> \in Seq(D) /\ Len(F \o <<S>>) = Len(F) + Len(<<S>>)
        /\ \A i \in 1 .. Len(F) : (F \o <<S>>)[i] = F[i]
        /\ \A i \in 1 .. Len(<<S>>) : (F \o <<S>>)[Len(F) + i] = <<S>>[i]
    BY <1>6, <2>1, ConcatElements
  <2>3. 1 \in 1 .. Len(<<S>>) /\ (n + 1) + 1 = n + 2
    BY <1>1, <1>6
  <2> QED BY SMTT(60), <1>1, <1>6, <2>1, <2>2, <2>3
<1> HIDE DEF E
<1>9. /\ E[1] = S /\ E[n + 2] = S
      /\ \A k \in 2 .. n + 1 : E[k] = Ner!Token(P[k - 1]) /\ E[k] # S
  <2>1. E[1] = S
    <3>1. 1 \in 1 .. n + 1
      BY <1>1
    <3> QED BY <1>7, <1>8, <3>1 DEF F
  <2>2. ASSUME NEW k \in 2 .. n + 1 PROVE E[k] = Ner!Token(P[k - 1]) /\ E[k] # S
    <3>1. k - 1 \in 1 .. n /\ 1 + (k - 1) = k /\ k \in 1 .. n + 1
      BY <1>1
    <3>2. F[1 + (k - 1)] = M[k - 1]
      BY <1>7, <3>1 DEF F
    <3> QED BY <1>2, <1>4, <1>8, <3>1, <3>2
  <2> QED BY <1>8, <2>1, <2>2
<1>10. t \in 1 .. n + 2
  <2>1. SequenceLength \in Nat \ {0} /\ {n + 2, SequenceLength} \in SUBSET Nat /\ {n + 2, SequenceLength} # {}
    BY <1>1, LengthAssumption
  <2> DEFINE m == Min({n + 2, SequenceLength})
  <2>2. m \in {n + 2, SequenceLength} /\ \A y \in {n + 2, SequenceLength} : m <= y
    BY <2>1, MinOfSome
  <2>3. t = m
    <3>1. t = Min({Len(Ner!Encoding), SequenceLength})
      BY NerMinMax DEF Ner!Take
    <3>2. Len(Ner!Encoding) = n + 2
      BY <1>8 DEF E
    <3> QED BY <3>1, <3>2
  <2> HIDE DEF m
  <2> QED BY <1>1, <2>1, <2>2, <2>3
<1> HIDE DEF t
<1>11. DOMAIN Tokens = 1 .. t /\ \A k \in 1 .. t : Tokens[k] = E[k]
  <2>1. Tokens = SubSeq(E, 1, t)
    BY DEF Tokens, E, t
  <2>2. SubSeq(E, 1, t) = [k \in 1 .. t |-> E[k]]
    BY <1>1, <1>8, <1>10
  <2> QED BY <2>1, <2>2
<1> DEFINE q == IF t = n + 2 THEN n ELSE t - 1
<1>12. q \in 0 .. n /\ 2 .. q + 1 = {k \in 1 .. t : k # 1 /\ k # n + 2}
  BY <1>1, <1>10
<1>13. \A k \in 1 .. t : k # 1 /\ k # n + 2 => k \in 2 .. n + 1
  BY <1>1, <1>10
<1> HIDE DEF q
<1>14. Shown = 2 .. q + 1
  BY <1>9, <1>11, <1>12, <1>13 DEF Shown, S
<1>15. \A k \in 2 .. q + 1 : Tokens[k] = Ner!Token(P[k - 1])
  BY <1>9, <1>11, <1>12, <1>13
<1> QED BY <1>12, <1>14, <1>15 DEF P, n

-----------------------------------------------------------------------------
\* The tokens of one word, among those the model is shown.
ShownOf(w) == {k \in Shown : Tokens[k].word = w}
WordAt(lab, w) == Ner!Word(Tokens, lab, ShownOf(w))

(* The words the model is shown are the first m, each with its tokens.     *)
LEMMA WordsShown ==
    ASSUME out \in Seq(Units)
    PROVE  \E m \in 0 .. Len(out) :
               /\ {Tokens[k].word : k \in Shown} = 1 .. m
               /\ \A w \in 1 .. m : /\ ShownOf(w) # {} /\ ShownOf(w) \in SUBSET Nat
                                    /\ Max({Tokens[k].end : k \in ShownOf(w)}) = Tokens[Max(ShownOf(w))].end
               /\ \A k \in Shown : Tokens[k].end > Tokens[k].start
<1> DEFINE P == Ner!Pieces
           n == Len(out)
<1>1. PICK q \in 0 .. Len(P) : /\ Shown = 2 .. q + 1
                               /\ \A k \in 2 .. q + 1 : Tokens[k] = Ner!Token(P[k - 1])
  BY TokensRead
<1>2. P \in Seq(Nat) /\ InOrder(P) /\ ElementsOf(P) = Written /\ Len(P) \in Nat /\ n \in Nat
  BY PiecesInOrder, LenProperties
<1>3. Written \subseteq 1 .. n
  BY LenProperties DEF Written
<1>4. \A j \in 1 .. Len(P) : P[j] \in Written /\ P[j] \in 1 .. n
  BY <1>2, <1>3 DEF ElementsOf
<1>5. \A k \in 2 .. q + 1 : /\ Tokens[k].word = Ner!WordIds(P[k - 1])
                            /\ Tokens[k].start = P[k - 1] /\ Tokens[k].end = P[k - 1] + 1
                            /\ k - 1 \in 1 .. q /\ k - 1 \in 1 .. Len(P)
  <2> SUFFICES ASSUME NEW k \in 2 .. q + 1
               PROVE  /\ Tokens[k].word = Ner!WordIds(P[k - 1])
                      /\ Tokens[k].start = P[k - 1] /\ Tokens[k].end = P[k - 1] + 1
                      /\ k - 1 \in 1 .. q /\ k - 1 \in 1 .. Len(P)
    OBVIOUS
  <2>1. Tokens[k] = Ner!Token(P[k - 1])
    BY <1>1
  <2>2. k - 1 \in 1 .. q /\ k - 1 \in 1 .. Len(P)
    BY <1>1, <1>2
  <2> HIDE DEF P
  <2> QED BY <2>1, <2>2 DEF Ner!Token
<1> DEFINE b == IF q = 0 THEN 0 ELSE P[q]
<1>6. b \in 0 .. n
  <2>1. q # 0 => q \in 1 .. Len(P)
    BY <1>1, <1>2
  <2> QED BY <1>2, <1>4, <2>1
<1>7. {P[j] : j \in 1 .. q} = Written \cap 1 .. b
  <2>1. CASE q = 0
    BY <2>1
  <2>2. CASE q # 0
    <3>1. q \in 1 .. Len(P) /\ 1 .. q \subseteq 1 .. Len(P) /\ q \in 1 .. q
      BY <1>1, <1>2, <2>2
    <3>2. b = P[q] /\ P[q] \in Nat
      BY <1>4, <2>2, <3>1
    <3> HIDE DEF b, P, n
    <3>3. ASSUME NEW j \in 1 .. q PROVE P[j] \in Written \cap 1 .. b
      <4>1. j \in 1 .. Len(P) /\ P[j] \in Written /\ P[j] \in 1 .. n
        BY <1>4, <3>1, <3>3
      <4>2. CASE j = q
        BY <3>2, <4>1, <4>2
      <4>3. CASE j # q
        <5>1. j < q
          BY <1>1, <1>2, <4>3
        <5>2. P[j] < P[q]
          BY <1>2, <3>1, <4>1, <5>1 DEF InOrder
        <5> QED BY <3>2, <4>1, <5>2
      <4> QED BY <4>2, <4>3
    <3>4. ASSUME NEW x \in Written \cap 1 .. b PROVE x \in {P[j] : j \in 1 .. q}
      <4>1. PICK j \in 1 .. Len(P) : x = P[j]
        BY <1>2 DEF ElementsOf
      <4>2. CASE j \in 1 .. q
        BY <4>1, <4>2
      <4>3. CASE j \notin 1 .. q
        <5>1. q < j
          BY <1>1, <1>2, <4>1, <4>3
        <5>2. P[q] < P[j]
          BY <1>2, <3>1, <4>1, <5>1 DEF InOrder
        <5> QED BY <3>2, <4>1, <5>2
      <4> QED BY <4>2, <4>3
    <3> QED BY <3>3, <3>4
  <2> QED BY <2>1, <2>2
<1> DEFINE m == Ner!WordIds(b)
<1> HIDE DEF b
<1>8. {Ner!WordIds(x) : x \in Written \cap 1 .. b} = 1 .. m /\ m \in 0 .. n
  <2>1. {Ner!WordIds(x) : x \in Written \cap 1 .. b} = 1 .. m /\ m \in 0 .. b
    BY <1>6, WordsWithoutGap
  <2> QED BY <1>2, <1>6, <2>1
<1>9. {Tokens[k].word : k \in Shown} = 1 .. m
  <2> DEFINE I == {Ner!WordIds(x) : x \in Written \cap 1 .. b}
             J == {Tokens[k].word : k \in Shown}
  <2>1. ASSUME NEW y \in J PROVE y \in I
    <3>1. PICK k \in Shown : y = Tokens[k].word
      BY <2>1
    <3>2. k \in 2 .. q + 1 /\ y = Ner!WordIds(P[k - 1]) /\ k - 1 \in 1 .. q
      BY <1>1, <1>5, <3>1
    <3>3. P[k - 1] \in Written \cap 1 .. b
      BY <1>7, <3>2
    <3> QED BY <3>2, <3>3
  <2>2. ASSUME NEW y \in I PROVE y \in J
    <3>1. PICK x \in Written \cap 1 .. b : y = Ner!WordIds(x)
      BY <2>2
    <3>2. PICK j \in 1 .. q : x = P[j]
      BY <1>7
    <3>3. j + 1 \in 2 .. q + 1 /\ (j + 1) - 1 = j
      BY <1>1, <1>2
    <3>4. Tokens[j + 1].word = y
      BY <1>5, <3>1, <3>2, <3>3
    <3> QED BY <1>1, <3>3, <3>4
  <2> HIDE DEF I, J, m
  <2>3. I = J
    BY <2>1, <2>2
  <2> QED BY <1>8, <2>3 DEF I, J, m
<1> HIDE DEF m
<1>10. ASSUME NEW w \in 1 .. m
       PROVE  /\ ShownOf(w) # {} /\ ShownOf(w) \in SUBSET Nat
              /\ Max({Tokens[k].end : k \in ShownOf(w)}) = Tokens[Max(ShownOf(w))].end
  <2> DEFINE S == ShownOf(w)
             E == {Tokens[k].end : k \in S}
             N == q + 1
             M == n + 1
  <2>1. S # {}
    <3>1. PICK k \in Shown : Tokens[k].word = w
      BY <1>9
    <3> QED BY <3>1 DEF ShownOf
  <2>2. S \subseteq 2 .. q + 1 /\ S \in SUBSET (0 .. N) /\ N \in Nat
    BY <1>1, <1>2 DEF ShownOf
  <2>3. \A k \in S : Tokens[k].end = P[k - 1] + 1 /\ P[k - 1] \in 1 .. n /\ k - 1 \in 1 .. Len(P)
    BY <1>4, <1>5, <2>2
  <2> HIDE DEF S, N
  <2>4. Max(S) \in S /\ \A k \in S : k <= Max(S)
    BY <2>1, <2>2, MaxOfBounded
  <2>5. E \in SUBSET (0 .. M) /\ E # {} /\ M \in Nat
    <3>1. \A k \in S : Tokens[k].end \in 0 .. M
      <4> SUFFICES ASSUME NEW k \in S PROVE Tokens[k].end \in 0 .. M
        OBVIOUS
      <4>1. Tokens[k].end = P[k - 1] + 1 /\ P[k - 1] \in 1 .. n
        BY <2>3
      <4> QED BY <1>2, <4>1
    <3>2. E # {}
      BY <2>1
    <3> QED BY <1>2, <3>1, <3>2
  <2>6. \A k \in S : Tokens[k].end <= Tokens[Max(S)].end
    <3> SUFFICES ASSUME NEW k \in S PROVE Tokens[k].end <= Tokens[Max(S)].end
      OBVIOUS
    <3> DEFINE l == Max(S)
    <3>1. l \in S /\ k <= l /\ k \in Nat /\ l \in Nat
      <4>1. l \in S /\ k <= l
        BY <2>4
      <4>2. S \subseteq Nat
        BY <2>2
      <4> HIDE DEF l
      <4> QED BY <4>1, <4>2
    <3> HIDE DEF l
    <3>2. CASE k = l
      BY SMTT(60), <1>2, <2>3, <3>1, <3>2 DEF l
    <3>3. CASE k # l
      <4>1. k - 1 < l - 1 /\ k - 1 \in 1 .. Len(P) /\ l - 1 \in 1 .. Len(P)
        BY <2>3, <3>1, <3>3
      <4>2. P[k - 1] < P[l - 1]
        BY <1>2, <4>1 DEF InOrder
      <4>3. Tokens[k].end = P[k - 1] + 1 /\ Tokens[l].end = P[l - 1] + 1 /\ P[k - 1] \in 1 .. n /\ P[l - 1] \in 1 .. n
        BY <2>3, <3>1
      <4>4. Tokens[k].end <= Tokens[l].end
        BY SMTT(60), <1>2, <4>2, <4>3
      <4> QED BY <4>4 DEF l
    <3> QED BY <3>2, <3>3
  <2> HIDE DEF M
  <2>7. Max(E) \in E /\ \A y \in E : y <= Max(E)
    <3> HIDE DEF E
    <3> QED BY <2>5, MaxOfBounded
  <2>8. Tokens[Max(S)].end \in E /\ \A y \in E : y <= Tokens[Max(S)].end
    BY <2>4, <2>6
  <2>9. E \subseteq Nat
    BY <2>5 DEF M
  <2>10. Max(E) = Tokens[Max(S)].end
    <3> DEFINE t == Tokens[Max(S)].end
    <3> HIDE DEF E, t
    <3>1. t \in E /\ t \in Nat /\ Max(E) \in Nat /\ t <= Max(E) /\ Max(E) <= t
      BY <2>7, <2>8, <2>9 DEF t
    <3>2. t = Max(E)
      BY <3>1
    <3> QED BY <3>2 DEF t
  <2> QED BY <2>1, <2>2, <2>10 DEF S, N
<1>11. \A k \in Shown : Tokens[k].end > Tokens[k].start
  <2> SUFFICES ASSUME NEW k \in Shown PROVE Tokens[k].end > Tokens[k].start
    OBVIOUS
  <2>1. Tokens[k].end = P[k - 1] + 1 /\ Tokens[k].start = P[k - 1] /\ P[k - 1] \in 1 .. n
    BY <1>1, <1>4, <1>5
  <2> QED BY <1>2, <2>1
<1> QED BY <1>8, <1>9, <1>10, <1>11

\* How many words the model is shown.
Words == Cardinality({Tokens[k].word : k \in Shown})

(* What WordsShown says, of that number of words.                          *)
LEMMA WordsProperties ==
    ASSUME out \in Seq(Units)
    PROVE  /\ Words \in 0 .. Len(out) /\ {Tokens[k].word : k \in Shown} = 1 .. Words
           /\ \A w \in 1 .. Words : /\ ShownOf(w) # {} /\ ShownOf(w) \in SUBSET Nat
                                    /\ Max({Tokens[k].end : k \in ShownOf(w)}) = Tokens[Max(ShownOf(w))].end
           /\ \A k \in Shown : Tokens[k].end > Tokens[k].start
<1>1. PICK m \in 0 .. Len(out) :
          /\ {Tokens[k].word : k \in Shown} = 1 .. m
          /\ \A w \in 1 .. m : /\ ShownOf(w) # {} /\ ShownOf(w) \in SUBSET Nat
                               /\ Max({Tokens[k].end : k \in ShownOf(w)}) = Tokens[Max(ShownOf(w))].end
          /\ \A k \in Shown : Tokens[k].end > Tokens[k].start
  BY WordsShown
<1>2. m \in Nat /\ 1 \in Int /\ m \in Int
  BY <1>1, LenProperties
<1>3. Cardinality(1 .. m) = m
  BY <1>2, FS_Interval
<1>4. Words = m
  BY <1>1, <1>3 DEF Words
<1> QED BY <1>1, <1>4

(* decode looks at these words, in the order of the text.                  *)
LEMMA WordsInOrder ==
    ASSUME out \in Seq(Units), NEW lab, DOMAIN lab = Shown
    PROVE  Ner!WordsOf(Tokens, lab) = [w \in 1 .. Words |-> WordAt(lab, w)]
<1> DEFINE m == Words
           n == Len(out)
           seen == {k \in DOMAIN lab : Tokens[k].end > Tokens[k].start}
           words == Kept([i \in 1 .. n |-> i], 1 .. m)
<1>1. /\ m \in 0 .. n /\ {Tokens[k].word : k \in Shown} = 1 .. m
      /\ \A k \in Shown : Tokens[k].end > Tokens[k].start
  BY WordsProperties
<1>2. n \in Nat /\ DOMAIN out = 1 .. n
  BY LenProperties
<1>3. seen = Shown
  BY <1>1
<1> HIDE DEF m, n
<1>4. words = [w \in 1 .. m |-> w]
  BY <1>1, <1>2, KeptFirst
<1>5. Ner!WordsOf(Tokens, lab)
        = LET ws == Kept([i \in DOMAIN out |-> i], {Tokens[k].word : k \in seen})
          IN [j \in DOMAIN ws |-> Ner!Word(Tokens, lab, {k \in seen : Tokens[k].word = ws[j]})]
  BY NerKept DEF Ner!WordsOf
<1> DEFINE ws == Kept([i \in DOMAIN out |-> i], {Tokens[k].word : k \in seen})
<1>6. ws = words
  BY <1>1, <1>2, <1>3
<1> HIDE DEF seen, words, ws
<1>7. DOMAIN ws = 1 .. m /\ \A w \in 1 .. m : ws[w] = w
  BY <1>4, <1>6
<1>8. [j \in DOMAIN ws |-> Ner!Word(Tokens, lab, {k \in seen : Tokens[k].word = ws[j]})]
        = [w \in 1 .. m |-> Ner!Word(Tokens, lab, {k \in seen : Tokens[k].word = w})]
  BY <1>7
<1>9. [w \in 1 .. m |-> Ner!Word(Tokens, lab, {k \in seen : Tokens[k].word = w})]
        = [w \in 1 .. m |-> WordAt(lab, w)]
  BY <1>3 DEF WordAt, ShownOf
<1> QED BY <1>5, <1>8, <1>9 DEF ws, m

-----------------------------------------------------------------------------
\* The entities that begin in the first p words.
Numbers(p) == [i \in 1 .. p |-> i]
FirstsUpTo(p) == Kept(Numbers(p), Firsts)
EntitiesUpTo(p) == [i \in DOMAIN FirstsUpTo(p) |-> Entity(FirstsUpTo(p)[i])]

(* One word more adds an entity or none.                                   *)
LEMMA EntitiesGrow ==
    ASSUME NEW p \in Nat
    PROVE  EntitiesUpTo(p + 1) = IF p + 1 \in Firsts THEN Append(EntitiesUpTo(p), Entity(p + 1))
                                 ELSE EntitiesUpTo(p)
<1> DEFINE f == [w \in Nat |-> Entity(w)]
           F == FirstsUpTo(p)
<1>1. Numbers(p) \in Seq(Nat) /\ p + 1 \in Nat /\ Append(Numbers(p), p + 1) = Numbers(p + 1)
  <2>1. Numbers(p) \in Seq(Nat) /\ Len(Numbers(p)) = p
    BY DEF Numbers
  <2>2. Numbers(p + 1) \in Seq(Nat) /\ Len(Numbers(p + 1)) = p + 1
    BY DEF Numbers
  <2>3. \A i \in 1 .. p : Numbers(p + 1)[i] = Numbers(p)[i]
    BY DEF Numbers
  <2>4. p + 1 \in 1 .. p + 1 /\ Numbers(p + 1)[p + 1] = p + 1
    BY DEF Numbers
  <2> DEFINE m == Numbers(p)
             l == Numbers(p + 1)
  <2>5. m \in Seq(Nat) /\ l \in Seq(Nat) /\ Len(l) = Len(m) + 1 /\ \A i \in 1 .. Len(m) : l[i] = m[i]
    BY <2>1, <2>2, <2>3
  <2>6. l[Len(l)] = p + 1
    BY <2>2, <2>4
  <2> HIDE DEF m, l
  <2>7. l = Append(m, l[Len(l)])
    BY <2>5, LongerByOne
  <2> QED BY <2>1, <2>6, <2>7 DEF m, l
<1>2. /\ FirstsUpTo(p + 1) = IF p + 1 \in Firsts THEN Append(F, p + 1) ELSE F
      /\ F \in Seq(Nat)
  <2> DEFINE N == Numbers(p)
             x == p + 1
             S == Firsts
             k == Kept(N, S)
  <2>1. N \in Seq(Nat) /\ x \in Nat
    BY <1>1
  <2> HIDE DEF N, x, S
  <2>2. /\ Kept(Append(N, x), S) = IF x \in S THEN Append(k, x) ELSE k
        /\ k \in Seq(Nat)
    BY <2>1, KeptAppend
  <2> QED BY <1>1, <2>2 DEF FirstsUpTo, N, x, S
<1> HIDE DEF F
<1>3. CASE p + 1 \notin Firsts
  BY <1>2, <1>3 DEF EntitiesUpTo, F
<1>4. CASE p + 1 \in Firsts
  <2>1. FirstsUpTo(p + 1) = Append(F, p + 1)
    BY <1>2, <1>4
  <2>2. [i \in DOMAIN Append(F, p + 1) |-> f[Append(F, p + 1)[i]]] = Append([i \in DOMAIN F |-> f[F[i]]], f[p + 1])
    BY <1>1, <1>2, MapAppend
  <2>3. \A s \in Seq(Nat) : [i \in DOMAIN s |-> f[s[i]]] = [i \in DOMAIN s |-> Entity(s[i])]
    <3> SUFFICES ASSUME NEW s \in Seq(Nat)
                 PROVE  [i \in DOMAIN s |-> f[s[i]]] = [i \in DOMAIN s |-> Entity(s[i])]
      OBVIOUS
    <3>1. \A i \in DOMAIN s : s[i] \in Nat
      BY LenProperties, ElementOfSeq
    <3>2. \A i \in DOMAIN s : f[s[i]] = Entity(s[i])
      BY <3>1
    <3> HIDE DEF f
    <3> QED BY <3>2
  <2>4. Append(F, p + 1) \in Seq(Nat)
    BY <1>1, <1>2
  <2>5. [i \in DOMAIN F |-> f[F[i]]] = EntitiesUpTo(p)
    BY <1>2, <2>3 DEF EntitiesUpTo, F
  <2>6. [i \in DOMAIN Append(F, p + 1) |-> f[Append(F, p + 1)[i]]] = EntitiesUpTo(p + 1)
    BY <2>1, <2>3, <2>4 DEF EntitiesUpTo
  <2>7. f[p + 1] = Entity(p + 1)
    BY <1>1
  <2> QED BY <1>4, <2>2, <2>5, <2>6, <2>7
<1> QED BY <1>3, <1>4

(* Words that begin no entity add none.                                    *)
LEMMA EntitiesStay ==
    ASSUME NEW c \in Nat, NEW p \in Nat, c <= p, \A u \in c + 1 .. p : u \notin Firsts
    PROVE  EntitiesUpTo(p) = EntitiesUpTo(c)
<1> DEFINE T == {j \in Nat : c + j <= p => EntitiesUpTo(c + j) = EntitiesUpTo(c)}
<1>1. 0 \in T
  OBVIOUS
<1>2. ASSUME NEW j \in Nat, j \in T PROVE j + 1 \in T
  <2> SUFFICES ASSUME c + (j + 1) <= p PROVE EntitiesUpTo(c + (j + 1)) = EntitiesUpTo(c)
    OBVIOUS
  <2> DEFINE b == c + j
  <2>1. b \in Nat /\ c + (j + 1) = b + 1 /\ b + 1 \in c + 1 .. p /\ b <= p
    OBVIOUS
  <2>2. EntitiesUpTo(b) = EntitiesUpTo(c)
    BY <1>2, <2>1
  <2> HIDE DEF b
  <2>3. b + 1 \notin Firsts
    BY <2>1
  <2>4. EntitiesUpTo(b + 1) = EntitiesUpTo(b)
    BY <2>1, <2>3, EntitiesGrow
  <2> QED BY <2>1, <2>2, <2>4
<1> HIDE DEF T
<1>3. \A j \in Nat : j \in T
  BY <1>1, <1>2, NatSetInduction
<1>4. p - c \in Nat /\ c + (p - c) = p
  OBVIOUS
<1>5. p - c \in T
  BY <1>3, <1>4
<1> QED BY <1>4, <1>5 DEF T

LEMMA NoneUpToNone == EntitiesUpTo(0) = <<>>
<1>1. Numbers(0) = <<>>
  BY DEF Numbers
<1>2. FirstsUpTo(0) = <<>>
  BY <1>1, KeptOfNone DEF FirstsUpTo
<1> QED BY <1>2 DEF EntitiesUpTo

-----------------------------------------------------------------------------
(* Where decode is, p words into the text: every entity that has ended is  *)
(* reported, and the one being extended reaches from its first word c to   *)
(* word p.                                                                 *)
Open(c, p) ==
    /\ c \in 1 .. p /\ c \in Firsts
    /\ \A u \in c + 1 .. p : Continues(u)
    /\ KindOf(p) = KindOf(c) /\ KindOf(c) # "none"

Labelled == out \in Seq(Units) /\ DOMAIN label = Shown

DecodedUpTo(p) ==
    /\ p \in 0 .. Words
    /\ order = SubSeq([w \in 1 .. Words |-> WordAt(label, w)], p + 1, Words)
    /\ current = Ner!NoEntity =>
           findings = EntitiesUpTo(p) /\ (p = 0 \/ p = Words \/ KindOf(p) = "none")
    /\ current # Ner!NoEntity =>
           \E c \in 1 .. p :
               /\ Open(c, p)
               /\ current = [start |-> Tokens[Min(TokensOf(c))].start,
                             end |-> Tokens[Max(TokensOf(p))].end, kind |-> KindOf(c)]
               /\ findings = EntitiesUpTo(c - 1)

(* The words of the specification are the words decode has.                *)
LEMMA WordsAreRead ==
    ASSUME Labelled
    PROVE  /\ WordsRead = 1 .. Words /\ Words \in Nat /\ Words <= Len(out) /\ Len(out) \in Nat
           /\ \A w : TokensOf(w) = ShownOf(w)
           /\ \A w \in 1 .. Words : /\ WordAt(label, w).start = Tokens[Min(TokensOf(w))].start
                                    /\ WordAt(label, w).end = Tokens[Max(TokensOf(w))].end
                                    /\ WordAt(label, w).tag = LabelOf(w)
<1>1. /\ Words \in 0 .. Len(out) /\ {Tokens[k].word : k \in Shown} = 1 .. Words
      /\ \A w \in 1 .. Words : Max({Tokens[k].end : k \in ShownOf(w)}) = Tokens[Max(ShownOf(w))].end
  BY WordsProperties DEF Labelled
<1>2. Len(out) \in Nat
  BY LenProperties DEF Labelled
<1>3. WordsRead = 1 .. Words /\ \A w : TokensOf(w) = ShownOf(w)
  BY <1>1 DEF WordsRead, TokensOf, ShownOf, Labelled
<1>4. ASSUME NEW w \in 1 .. Words
      PROVE  /\ WordAt(label, w).start = Tokens[Min(TokensOf(w))].start
             /\ WordAt(label, w).end = Tokens[Max(TokensOf(w))].end
             /\ WordAt(label, w).tag = LabelOf(w)
  <2> DEFINE S == ShownOf(w)
  <2>1. WordAt(label, w) = [start |-> Tokens[Min(S)].start, end |-> Max({Tokens[k].end : k \in S}), tag |-> label[Min(S)]]
    <3> HIDE DEF S
    <3>1. Ner!Word(Tokens, label, S) = [start |-> Tokens[Ner!Min(S)].start, end |-> Ner!Max({Tokens[k].end : k \in S}), tag |-> label[Ner!Min(S)]]
      BY DEF Ner!Word
    <3>2. Ner!Min(S) = Min(S) /\ Ner!Max({Tokens[k].end : k \in S}) = Max({Tokens[k].end : k \in S})
      BY NerMinMax
    <3> QED BY <3>1, <3>2 DEF WordAt, S
  <2> QED BY <1>1, <1>3, <2>1 DEF LabelOf
<1> QED BY <1>1, <1>2, <1>3, <1>4

(* The run of a first word ends where the next word does not continue it.  *)
LEMMA RunEndsHere ==
    ASSUME Labelled, NEW p \in 1 .. Words, NEW c \in 1 .. p, Open(c, p),
           p = Words \/ ~Continues(p + 1)
    PROVE  RunEnd(c) = p
<1>1. WordsRead = 1 .. Words /\ Words \in Nat
  BY WordsAreRead
<1> DEFINE R == {v \in WordsRead : v >= c /\ \A u \in c + 1 .. v : Continues(u)}
<1>2. R \in SUBSET (0 .. p)
  <2> SUFFICES ASSUME NEW v \in R PROVE v \in 0 .. p
    OBVIOUS
  <2>1. v \in 1 .. Words /\ v >= c /\ \A u \in c + 1 .. v : Continues(u)
    BY <1>1
  <2>2. ASSUME v > p PROVE FALSE
    <3>1. p # Words /\ p + 1 \in c + 1 .. v
      BY <1>1, <2>1, <2>2
    <3> QED BY <2>1, <3>1
  <2> QED BY <1>1, <2>1, <2>2
<1>3. p \in R
  BY <1>1 DEF Open
<1> HIDE DEF R
<1>4. Max(R) \in R /\ \A y \in R : y <= Max(R)
  <2>1. p \in Nat /\ R # {}
    BY <1>1, <1>3
  <2> QED BY <1>2, <2>1, MaxOfBounded
<1>5. Max(R) = p
  <2> DEFINE x == Max(R)
  <2>1. x \in R /\ p <= x
    BY <1>3, <1>4
  <2>2. x \in 0 .. p
    BY <1>2, <2>1
  <2> HIDE DEF x
  <2>3. p \in Nat
    BY <1>1
  <2>4. x = p
    BY <2>1, <2>2, <2>3
  <2> QED BY <2>4 DEF x
<1> QED BY <1>5 DEF RunEnd, R

(* Ending the current entity reports what begins in the first p words.     *)
LEMMA EndedReports ==
    ASSUME Labelled, NEW p \in 0 .. Words, DecodedUpTo(p),
           p = Words \/ ~Continues(p + 1)
    PROVE  Ner!Ended = EntitiesUpTo(p)
<1>1. CASE current = Ner!NoEntity
  BY <1>1 DEF DecodedUpTo, Ner!Ended
<1>2. CASE current # Ner!NoEntity
  <2>1. PICK c \in 1 .. p : /\ Open(c, p)
                            /\ current = [start |-> Tokens[Min(TokensOf(c))].start,
                                          end |-> Tokens[Max(TokensOf(p))].end, kind |-> KindOf(c)]
                            /\ findings = EntitiesUpTo(c - 1)
    BY <1>2 DEF DecodedUpTo
  <2>2. Words \in Nat /\ WordsRead = 1 .. Words
    BY WordsAreRead
  <2>3. p \in 1 .. Words /\ p \in Nat /\ c \in Nat /\ c - 1 \in Nat /\ (c - 1) + 1 = c /\ c <= p
    BY <2>1, <2>2
  <2>4. RunEnd(c) = p
    BY <2>1, <2>3, RunEndsHere
  <2>5. Entity(c) = current
    BY <2>1, <2>4 DEF Entity
  <2>6. Ner!Ended = Append(EntitiesUpTo(c - 1), Entity(c))
    BY <1>2, <2>1, <2>5 DEF Ner!Ended
  <2>7. EntitiesUpTo((c - 1) + 1) = Append(EntitiesUpTo(c - 1), Entity((c - 1) + 1))
    BY <2>1, <2>3, EntitiesGrow DEF Open
  <2>8. \A u \in c + 1 .. p : u \notin Firsts
    BY <2>1 DEF Open, Firsts
  <2>9. EntitiesUpTo(p) = EntitiesUpTo(c)
    BY <2>3, <2>8, EntitiesStay
  <2> QED BY <2>3, <2>6, <2>7, <2>9
<1> QED BY <1>1, <1>2

(* The next word, as decode sees it and as the text has it.                *)
LEMMA NextWord ==
    ASSUME Labelled, NEW p \in 0 .. Words, DecodedUpTo(p), order # <<>>
    PROVE  /\ p + 1 \in 1 .. Words
           /\ Head(order) = WordAt(label, p + 1)
           /\ Tail(order) = SubSeq([w \in 1 .. Words |-> WordAt(label, w)], (p + 1) + 1, Words)
           /\ Ner!KindOf(Head(order)) = KindOf(p + 1)
           /\ Ner!ContinuesCurrent(Head(order)) <=>
                  current # Ner!NoEntity /\ Continues(p + 1)
           /\ Continues(p + 1) /\ KindOf(p + 1) # "none" => current # Ner!NoEntity
<1> DEFINE m == Words
           All == [w \in 1 .. m |-> WordAt(label, w)]
<1>1. m \in Nat /\ WordsRead = 1 .. m
  BY WordsAreRead
<1> HIDE DEF m
<1>2. p \in 0 .. m /\ order = SubSeq(All, p + 1, m)
  BY DEF DecodedUpTo, m
<1>3. p + 1 \in 1 .. m
  <2>1. CASE p = m
    <3>1. SubSeq(All, p + 1, m) = <<>>
      BY <1>1, <2>1
    <3> QED BY <1>2, <3>1
  <2>2. CASE p # m
    BY <1>1, <1>2, <2>2
  <2> QED BY <2>1, <2>2
<1> DEFINE D == {WordAt(label, w) : w \in 1 .. m}
<1>4. All \in Seq(D) /\ Len(All) = m /\ All[p + 1] = WordAt(label, p + 1)
  BY <1>1, <1>3
<1> HIDE DEF All, D
<1>5. Head(order) = All[p + 1] /\ Tail(order) = SubSeq(All, (p + 1) + 1, m)
  BY <1>1, <1>2, <1>3, <1>4
<1> DEFINE w == Head(order)
<1>6. w = WordAt(label, p + 1) /\ w.tag = LabelOf(p + 1)
  BY <1>3, <1>4, <1>5, WordsAreRead DEF m
<1> HIDE DEF w
<1>7. Ner!KindOf(w) = KindOf(p + 1)
  BY <1>6 DEF Ner!KindOf, KindOf
<1>8. ASSUME current # Ner!NoEntity
      PROVE  p \in WordsRead /\ current.kind = KindOf(p)
  <2>1. PICK c \in 1 .. p : /\ Open(c, p) /\ current.kind = KindOf(c)
    BY <1>8 DEF DecodedUpTo
  <2> QED BY <1>1, <1>2, <2>1 DEF Open
<1>9. (p + 1) - 1 = p
  BY <1>2
<1>10. Continues(p + 1) <=> p \in WordsRead /\ LabelOf(p + 1).prefix = "I" /\ KindOf(p + 1) = KindOf(p)
  BY <1>9 DEF Continues
<1>11. Ner!ContinuesCurrent(w) <=> current # Ner!NoEntity /\ Continues(p + 1)
  <2>1. Ner!ContinuesCurrent(w) <=> current # Ner!NoEntity /\ LabelOf(p + 1).prefix = "I" /\ current.kind = KindOf(p + 1)
    BY <1>6, <1>7 DEF Ner!ContinuesCurrent
  <2> QED BY <1>8, <1>10, <2>1
<1>12. ASSUME Continues(p + 1), KindOf(p + 1) # "none" PROVE current # Ner!NoEntity
  <2>1. p \in 1 .. m /\ KindOf(p) # "none" /\ p # m
    BY <1>1, <1>2, <1>3, <1>10, <1>12
  <2>2. p # 0
    BY <1>1, <2>1
  <2> QED BY <2>1, <2>2 DEF DecodedUpTo, m
<1> QED BY <1>3, <1>4, <1>5, <1>6, <1>7, <1>11, <1>12 DEF All, m, w

-----------------------------------------------------------------------------
(* What the labels make of a text changes only with them or with the text. *)
LEMMA SameTokens ==
    ASSUME out' = out PROVE Tokens' = Tokens /\ Shown' = Shown /\ Words' = Words
<1>1. Ner!Pieces' = Ner!Pieces
  BY DEF Ner!Pieces
<1>2. \A i : Ner!Token(i)' = Ner!Token(i)
  BY DEF Ner!Token, Ner!WordIds
<1>3. Ner!Encoding' = Ner!Encoding
  BY <1>1, <1>2 DEF Ner!Encoding, Ner!Special
<1>4. Tokens' = Tokens
  BY <1>3 DEF Tokens, Ner!Take
<1>5. Shown' = Shown
  BY <1>4 DEF Shown, Ner!Special
<1>7. Words' = Words
  BY <1>4, <1>5 DEF Words
<1> QED BY <1>4, <1>5, <1>7

(* ...and so is everything the entities are made of.                       *)
LEMMA SameLabels ==
    ASSUME out' = out, label' = label
    PROVE  /\ \A w : /\ TokensOf(w)' = TokensOf(w) /\ KindOf(w)' = KindOf(w)
                     /\ WordAt(label, w)' = WordAt(label, w)
           /\ \A w : Continues(w)' <=> Continues(w)
           /\ Firsts' = Firsts
           /\ Entities' = Entities
           /\ \A p : EntitiesUpTo(p)' = EntitiesUpTo(p)
<1>1. Tokens' = Tokens /\ Shown' = Shown
  BY SameTokens
<1>2. \A w : TokensOf(w)' = TokensOf(w)
  BY <1>1 DEF TokensOf
<1>3. WordsRead' = WordsRead
  BY <1>1 DEF WordsRead
<1>4. \A w : LabelOf(w)' = LabelOf(w)
  BY <1>2 DEF LabelOf
<1>5. \A w : KindOf(w)' = KindOf(w)
  BY <1>4 DEF KindOf, Ner!EntityKind
<1>6. \A w : Continues(w)' <=> Continues(w)
  BY <1>3, <1>4, <1>5 DEF Continues
<1>7. Firsts' = Firsts
  BY <1>3, <1>5, <1>6 DEF Firsts
<1>8. \A w : RunEnd(w)' = RunEnd(w)
  BY <1>3, <1>6 DEF RunEnd
<1>9. \A w : Entity(w)' = Entity(w)
  BY <1>1, <1>2, <1>5, <1>8 DEF Entity
<1>10. Entities' = Entities
  BY <1>7, <1>9 DEF Entities
<1>11. \A p : FirstsUpTo(p)' = FirstsUpTo(p)
  BY <1>7 DEF FirstsUpTo, Numbers
<1>12. \A p : EntitiesUpTo(p)' = EntitiesUpTo(p)
  BY <1>9, <1>11 DEF EntitiesUpTo
<1>13. \A w : ShownOf(w)' = ShownOf(w)
  BY <1>1 DEF ShownOf
<1>14. \A w : WordAt(label, w)' = WordAt(label, w)
  BY <1>1, <1>13 DEF WordAt, Ner!Word
<1> QED BY <1>2, <1>5, <1>6, <1>7, <1>10, <1>12, <1>14

(* A step leads to DecodedUpTo if it changes order, current and findings   *)
(* as that says.                                                           *)
LEMMA DecodedThen ==
    ASSUME out' = out, label' = label, NEW p \in 0 .. Words,
           order' = SubSeq([w \in 1 .. Words |-> WordAt(label, w)], p + 1, Words),
           current' = Ner!NoEntity =>
               findings' = EntitiesUpTo(p) /\ (p = 0 \/ p = Words \/ KindOf(p) = "none"),
           current' # Ner!NoEntity =>
               \E c \in 1 .. p :
                   /\ Open(c, p)
                   /\ current' = [start |-> Tokens[Min(TokensOf(c))].start,
                                  end |-> Tokens[Max(TokensOf(p))].end, kind |-> KindOf(c)]
                   /\ findings' = EntitiesUpTo(c - 1)
    PROVE  DecodedUpTo(p)'
<1>1. /\ Tokens' = Tokens /\ Words' = Words
      /\ \A w : TokensOf(w)' = TokensOf(w)
      /\ \A w : KindOf(w)' = KindOf(w)
      /\ \A w : WordAt(label, w)' = WordAt(label, w)
      /\ \A w : Continues(w)' <=> Continues(w)
      /\ Firsts' = Firsts
      /\ \A q : EntitiesUpTo(q)' = EntitiesUpTo(q)
  BY SameTokens, SameLabels
<1>2. \A c : Open(c, p)' <=> Open(c, p)
  BY <1>1 DEF Open
<1>3. Ner!NoEntity' = Ner!NoEntity
  BY DEF Ner!NoEntity
<1>4. order' = SubSeq([w \in 1 .. Words' |-> WordAt(label, w)'], p + 1, Words')
  BY <1>1
<1>5. current' = Ner!NoEntity' =>
               findings' = EntitiesUpTo(p)' /\ (p = 0 \/ p = Words' \/ KindOf(p)' = "none")
  BY <1>1, <1>3
<1>6. current' # Ner!NoEntity' =>
               \E c \in 1 .. p :
                   /\ Open(c, p)'
                   /\ current' = [start |-> Tokens'[Min(TokensOf(c)')].start,
                                  end |-> Tokens'[Max(TokensOf(p)')].end, kind |-> KindOf(c)']
                   /\ findings' = EntitiesUpTo(c - 1)'
  <2> SUFFICES ASSUME current' # Ner!NoEntity
               PROVE  \E c \in 1 .. p :
                   /\ Open(c, p)'
                   /\ current' = [start |-> Tokens'[Min(TokensOf(c)')].start,
                                  end |-> Tokens'[Max(TokensOf(p)')].end, kind |-> KindOf(c)']
                   /\ findings' = EntitiesUpTo(c - 1)'
    BY <1>3
  <2>1. PICK c \in 1 .. p :
                   /\ Open(c, p)
                   /\ current' = [start |-> Tokens[Min(TokensOf(c))].start,
                                  end |-> Tokens[Max(TokensOf(p))].end, kind |-> KindOf(c)]
                   /\ findings' = EntitiesUpTo(c - 1)
    OBVIOUS
  <2>2. findings' = EntitiesUpTo(c - 1)' /\ Open(c, p)'
    BY <1>1, <1>2, <2>1
  <2>3. current' = [start |-> Tokens'[Min(TokensOf(c)')].start,
                                  end |-> Tokens'[Max(TokensOf(p)')].end, kind |-> KindOf(c)']
    BY <1>1, <2>1
  <2> QED BY <2>2, <2>3
<1>7. p \in 0 .. Words'
  BY <1>1
<1> QED BY <1>4, <1>5, <1>6, <1>7 DEF DecodedUpTo

(* The invariant of detection: once the labels are there, decode is some p *)
(* words into the text.                                                    *)
DecInv ==
    /\ TextInv
    /\ ~inferred => order = <<>> /\ current = Ner!NoEntity /\ findings = <<>>
    /\ inferred => stage = "done" /\ DOMAIN label = Shown /\ \E p \in 0 .. Words : DecodedUpTo(p)

(* Detection has not begun.                                                *)
LEMMA DecInit == ReadingInit => DecInv
BY TextInit DEF ReadingInit, Ner!NerInit, DecInv

(* Once the model has answered, no word has been decoded.                  *)
LEMMA InferDecodes ==
    ASSUME DecInv, Ner!Infer, stage = "done" PROVE inferred' /\ DOMAIN label' = Shown /\ DecodedUpTo(0)'
<1>1. out \in Seq(Units) /\ out' = out /\ ~inferred /\ inferred' /\ findings' = <<>> /\ current' = Ner!NoEntity
  BY DEF DecInv, TextInv, Ner!Infer
<1>2. Tokens = SubSeq(Ner!Encoding, 1, Ner!Take)
  BY DEF Tokens
<1>3. DOMAIN label' = Shown /\ order' = Ner!WordsOf(Tokens, label')
  BY <1>2 DEF Ner!Infer, Shown
<1>4. Tokens' = Tokens /\ Shown' = Shown /\ Words' = Words
  BY <1>1, SameTokens
<1>5. order' = [w \in 1 .. Words |-> WordAt(label', w)]
  <2>1. \A lab : DOMAIN lab = Shown => Ner!WordsOf(Tokens, lab) = [w \in 1 .. Words |-> WordAt(lab, w)]
    BY <1>1, WordsInOrder
  <2> QED BY <1>3, <2>1
<1>6. Words \in 0 .. Len(out) /\ Len(out) \in Nat
  BY <1>1, WordsProperties, LenProperties
<1>7. \A w : WordAt(label, w)' = WordAt(label', w)
  BY <1>4 DEF WordAt, Ner!Word, ShownOf
<1>8. order' = [w \in 1 .. Words |-> WordAt(label, w)']
  BY <1>5, <1>7
<1>9. order' = SubSeq([w \in 1 .. Words |-> WordAt(label, w)'], 0 + 1, Words)
  <2> DEFINE f == [w \in 1 .. Words |-> WordAt(label, w)']
             m == Words
             D == {WordAt(label, w)' : w \in 1 .. Words}
  <2>1. f \in Seq(D) /\ Len(f) = m /\ m \in Nat
    BY SMTT(60), <1>6
  <2> HIDE DEF f, m, D
  <2>2. SubSeq(f, 1, m) = f
    BY <2>1
  <2> QED BY <1>8, <2>2 DEF f, m
<1>10. EntitiesUpTo(0)' = <<>>
  <2>1. Numbers(0) = <<>>
    BY DEF Numbers
  <2>2. FirstsUpTo(0)' = <<>>
    BY <2>1, KeptOfNone DEF FirstsUpTo
  <2> QED BY <2>2 DEF EntitiesUpTo
<1>11. 0 \in 0 .. Words'
  BY <1>4, <1>6
<1>12. Ner!NoEntity' = Ner!NoEntity
  BY DEF Ner!NoEntity
<1> QED BY <1>1, <1>3, <1>4, <1>9, <1>10, <1>11, <1>12 DEF DecodedUpTo

(* Each turn of the loop decodes the next word.                            *)
LEMMA StepDecodes ==
    ASSUME Labelled, NEW p \in 0 .. Words, DecodedUpTo(p), NEW w, w \in Ner!ToSet(order),
           Ner!Outside(w) \/ Ner!Extend(w) \/ Ner!Open(w)
    PROVE  p + 1 \in 0 .. Words /\ DecodedUpTo(p + 1)'
<1>1. w = Head(order) /\ order # <<>> /\ order' = Tail(order) /\ out' = out /\ label' = label
  BY DEF Ner!Outside, Ner!Extend, Ner!Open, Ner!Next
<1>2. /\ p + 1 \in 1 .. Words
      /\ w = WordAt(label, p + 1)
      /\ order' = SubSeq([v \in 1 .. Words |-> WordAt(label, v)], (p + 1) + 1, Words)
      /\ Ner!KindOf(w) = KindOf(p + 1)
      /\ Ner!ContinuesCurrent(w) <=> current # Ner!NoEntity /\ Continues(p + 1)
      /\ Continues(p + 1) /\ KindOf(p + 1) # "none" => current # Ner!NoEntity
  BY <1>1, NextWord
<1>3. /\ WordsRead = 1 .. Words /\ Words \in Nat
      /\ w.start = Tokens[Min(TokensOf(p + 1))].start
      /\ w.end = Tokens[Max(TokensOf(p + 1))].end
  BY <1>2, WordsAreRead
<1>4. p + 1 \in 0 .. Words /\ p \in Nat /\ p + 1 \in 1 .. p + 1 /\ (p + 1) - 1 = p /\ p # Words
  BY <1>2, <1>3
<1>5. Ner!NoEntity.kind = "none"
  BY DEF Ner!NoEntity
<1> DEFINE q == p + 1
<1>6. /\ q \in 0 .. Words /\ q \in WordsRead
      /\ order' = SubSeq([v \in 1 .. Words |-> WordAt(label, v)], q + 1, Words)
  BY <1>2, <1>3, <1>4
<1>e. q \in Firsts <=> KindOf(q) # "none" /\ ~Continues(q)
  BY <1>6 DEF Firsts
<1>g. EntitiesUpTo(q) = IF q \in Firsts THEN Append(EntitiesUpTo(p), Entity(q)) ELSE EntitiesUpTo(p)
  BY <1>4, EntitiesGrow
<1>c. current # Ner!NoEntity =>
          \E c \in 1 .. p :
               /\ Open(c, p)
               /\ current = [start |-> Tokens[Min(TokensOf(c))].start,
                             end |-> Tokens[Max(TokensOf(p))].end, kind |-> KindOf(c)]
               /\ findings = EntitiesUpTo(c - 1)
  BY DEF DecodedUpTo
<1>7. CASE Ner!Outside(w)
  <2>1. KindOf(q) = "none" /\ findings' = Ner!Ended /\ current' = Ner!NoEntity
    BY <1>2, <1>7 DEF Ner!Outside
  <2>2. findings' = EntitiesUpTo(p)
    <3>1. CASE current = Ner!NoEntity
      BY <2>1, <3>1 DEF DecodedUpTo, Ner!Ended
    <3>2. CASE current # Ner!NoEntity
      <4>1. PICK c \in 1 .. p : Open(c, p)
        BY <1>c, <3>2
      <4>2. ~Continues(q)
        BY <1>4, <2>1, <4>1 DEF Open, Continues
      <4> QED BY <2>1, <4>2, EndedReports
    <3> QED BY <3>1, <3>2
  <2>3. findings' = EntitiesUpTo(q)
    BY <1>e, <1>g, <2>1, <2>2
  <2> HIDE DEF q
  <2>4. DecodedUpTo(q)'
    BY <1>1, <1>6, <2>1, <2>3, DecodedThen
  <2> QED BY <1>4, <2>4 DEF q
<1>8. CASE Ner!Extend(w)
  <2>1. /\ KindOf(q) # "none" /\ current # Ner!NoEntity /\ Continues(q)
        /\ current' = [current EXCEPT !.end = w.end] /\ findings' = findings
    BY <1>2, <1>8 DEF Ner!Extend
  <2>2. PICK c \in 1 .. p :
               /\ Open(c, p)
               /\ current = [start |-> Tokens[Min(TokensOf(c))].start,
                             end |-> Tokens[Max(TokensOf(p))].end, kind |-> KindOf(c)]
               /\ findings = EntitiesUpTo(c - 1)
    BY <1>c, <2>1
  <2>3. current' = [start |-> Tokens[Min(TokensOf(c))].start,
                    end |-> Tokens[Max(TokensOf(q))].end, kind |-> KindOf(c)]
    BY <1>3, <2>1, <2>2
  <2>4. c \in 1 .. q /\ \A u \in c + 1 .. q : u \in c + 1 .. p \/ u = q
    BY <1>4
  <2>5. KindOf(q) = KindOf(p)
    BY <1>4, <2>1 DEF Continues
  <2>6. Open(c, q)
    BY <2>1, <2>2, <2>4, <2>5 DEF Open
  <2>7. current' # Ner!NoEntity
    <3>1. current'.kind = KindOf(c) /\ KindOf(c) # "none"
      BY <2>2, <2>3 DEF Open
    <3> QED BY <1>5, <3>1
  <2> HIDE DEF q
  <2>8. \E d \in 1 .. q :
                   /\ Open(d, q)
                   /\ current' = [start |-> Tokens[Min(TokensOf(d))].start,
                                  end |-> Tokens[Max(TokensOf(q))].end, kind |-> KindOf(d)]
                   /\ findings' = EntitiesUpTo(d - 1)
    BY <2>1, <2>2, <2>3, <2>4, <2>6
  <2>9. DecodedUpTo(q)'
    BY <1>1, <1>6, <2>7, <2>8, DecodedThen
  <2> QED BY <1>4, <2>9 DEF q
<1>9. CASE Ner!Open(w)
  <2>1. /\ KindOf(q) # "none" /\ ~(current # Ner!NoEntity /\ Continues(q))
        /\ findings' = Ner!Ended
        /\ current' = [start |-> w.start, end |-> w.end, kind |-> KindOf(q)]
    BY <1>2, <1>9 DEF Ner!Open
  <2>2. ~Continues(q) /\ q \in Firsts
    BY <1>2, <1>e, <2>1
  <2>3. findings' = EntitiesUpTo(p)
    BY <2>1, <2>2, EndedReports
  <2>4. current' # Ner!NoEntity
    <3>1. current'.kind = KindOf(q)
      BY <2>1
    <3> QED BY <1>5, <2>1, <3>1
  <2>5. q \in 1 .. q /\ q + 1 .. q = {} /\ q - 1 = p
    BY <1>4
  <2>6. Open(q, q)
    BY <2>1, <2>2, <2>5 DEF Open
  <2>7. current' = [start |-> Tokens[Min(TokensOf(q))].start,
                    end |-> Tokens[Max(TokensOf(q))].end, kind |-> KindOf(q)]
    BY <1>3, <2>1
  <2> HIDE DEF q
  <2>8. \E d \in 1 .. q :
                   /\ Open(d, q)
                   /\ current' = [start |-> Tokens[Min(TokensOf(d))].start,
                                  end |-> Tokens[Max(TokensOf(q))].end, kind |-> KindOf(d)]
                   /\ findings' = EntitiesUpTo(d - 1)
    BY <2>3, <2>5, <2>6, <2>7
  <2>9. DecodedUpTo(q)'
    BY <1>1, <1>6, <2>4, <2>8, DecodedThen
  <2> QED BY <1>4, <2>9 DEF q
<1> QED BY <1>7, <1>8, <1>9

(* With no word left, every entity of the text has been seen.              *)
LEMMA NoWordLeft ==
    ASSUME Labelled, NEW p \in 0 .. Words, DecodedUpTo(p), order = <<>>
    PROVE  p = Words /\ Ner!Ended = EntitiesUpTo(p)
<1> DEFINE m == Words
           All == [w \in 1 .. m |-> WordAt(label, w)]
           D == {WordAt(label, w) : w \in 1 .. m}
<1>1. m \in Nat /\ p \in 0 .. m
  BY WordsAreRead
<1>2. order = SubSeq(All, p + 1, m)
  BY DEF DecodedUpTo
<1> HIDE DEF m
<1>3. All \in Seq(D) /\ Len(All) = m
  BY <1>1
<1> HIDE DEF All, D
<1>4. p = m
  <2>1. SUFFICES ASSUME p # m PROVE FALSE
    OBVIOUS
  <2>2. p + 1 \in 1 .. m
    BY <1>1, <2>1
  <2>3. Len(SubSeq(All, p + 1, m)) = m - p
    BY <1>1, <1>3, <2>2
  <2>4. Len(order) = 0
    OBVIOUS
  <2> QED BY <1>1, <1>2, <2>1, <2>3, <2>4
<1>5. p = Words
  BY <1>4 DEF m
<1> QED BY <1>5, EndedReports

(* Every step keeps the invariant of detection.                            *)
LEMMA DecNext == DecInv /\ [ReadingNext]_readingVars => DecInv'
<1> SUFFICES ASSUME DecInv, [ReadingNext]_readingVars PROVE DecInv'
  OBVIOUS
<1>1. TextInv /\ TextInv' /\ out \in Seq(Units)
  BY TextNext DEF DecInv, TextInv
<1>2. ASSUME UNCHANGED decodeVars, ~inferred PROVE DecInv'
  <2>1. ~inferred' /\ order' = <<>> /\ current' = Ner!NoEntity' /\ findings' = <<>>
    BY <1>2 DEF decodeVars, DecInv, Ner!NoEntity
  <2> QED BY <1>1, <2>1 DEF DecInv
<1>3. ASSUME UNCHANGED decodeVars, UNCHANGED extractVars, inferred PROVE DecInv'
  <2>1. stage' = "done" /\ out' = out /\ label' = label /\ order' = order /\ inferred'
        /\ current' = current /\ findings' = findings
    BY <1>3 DEF decodeVars, extractVars, DecInv
  <2>2. PICK p \in 0 .. Words : DecodedUpTo(p)
    BY <1>3 DEF DecInv
  <2>3. DecodedUpTo(p)'
    BY <2>1, <2>2, DecodedThen DEF DecodedUpTo
  <2>4. Words' = Words /\ Shown' = Shown
    BY <2>1, SameTokens
  <2>5. DOMAIN label' = Shown'
    BY <1>3, <2>1, <2>4 DEF DecInv
  <2> QED BY <1>1, <2>1, <2>2, <2>3, <2>4, <2>5 DEF DecInv
<1>4. CASE Extract
  <2>1. UNCHANGED decodeVars /\ stage # "done"
    BY <1>4 DEF Extract, ExtractNext, Refuse, ReadPdf, ReadText, OpenArchive, SkipPart, ReadPart,
                CloseArchive, Limit, Accepted
  <2>2. ~inferred
    BY <2>1 DEF DecInv
  <2> QED BY <1>2, <2>1, <2>2
<1>5. CASE Detect
  <2>1. UNCHANGED extractVars /\ stage = "done" /\ stage' = stage /\ out' = out
    BY <1>5, DetectKeeps DEF Detect, extractVars
  <2>2. Words' = Words /\ Shown' = Shown
    BY <2>1, SameTokens
  <2>3. CASE Ner!Infer
    <3>1. inferred' /\ DOMAIN label' = Shown /\ DecodedUpTo(0)'
      BY <2>1, <2>3, InferDecodes
    <3>2. 0 \in 0 .. Words'
      BY <3>1 DEF DecodedUpTo
    <3> QED BY <1>1, <2>1, <2>2, <3>1, <3>2 DEF DecInv
  <2>4. ASSUME NEW w \in Ner!ToSet(order), Ner!Outside(w) \/ Ner!Extend(w) \/ Ner!Open(w)
        PROVE  DecInv'
    <3>1. order # <<>> /\ inferred' = inferred /\ label' = label
      BY <2>4 DEF Ner!Outside, Ner!Extend, Ner!Open, Ner!Next
    <3>2. inferred /\ DOMAIN label = Shown
      BY <3>1 DEF DecInv
    <3>3. PICK p \in 0 .. Words : DecodedUpTo(p)
      BY <3>2 DEF DecInv
    <3>4. Labelled
      BY <1>1, <3>2 DEF Labelled
    <3>5. p + 1 \in 0 .. Words /\ DecodedUpTo(p + 1)'
      BY <2>4, <3>3, <3>4, StepDecodes
    <3> DEFINE q == p + 1
    <3>6. q \in 0 .. Words /\ DecodedUpTo(q)'
      BY <3>5
    <3> HIDE DEF q
    <3> QED BY <1>1, <2>1, <2>2, <3>1, <3>2, <3>6 DEF DecInv
  <2>5. CASE Ner!Finish
    <3>1. /\ inferred /\ order = <<>> /\ current # Ner!NoEntity
          /\ findings' = Ner!Ended /\ current' = Ner!NoEntity
          /\ inferred' = inferred /\ label' = label /\ order' = order
      BY <2>5 DEF Ner!Finish
    <3>2. PICK p \in 0 .. Words : DecodedUpTo(p)
      BY <3>1 DEF DecInv
    <3>3. Labelled
      BY <1>1, <3>1 DEF Labelled, DecInv
    <3>4. p = Words /\ findings' = EntitiesUpTo(p)
      BY <3>1, <3>2, <3>3, NoWordLeft
    <3>5. DecodedUpTo(p)'
      BY <2>1, <3>1, <3>2, <3>4, DecodedThen DEF DecodedUpTo
    <3> QED BY <1>1, <2>1, <2>2, <3>1, <3>2, <3>5 DEF DecInv
  <2> QED BY <1>5, <2>3, <2>4, <2>5 DEF Detect, Ner!NerNext
<1>6. CASE UNCHANGED readingVars
  <2>1. UNCHANGED decodeVars /\ UNCHANGED extractVars
    BY <1>6 DEF readingVars
  <2> QED BY <1>2, <1>3, <2>1
<1> QED BY <1>4, <1>5, <1>6 DEF ReadingNext

(* Behind the last word, every entity is reported.                         *)
LEMMA DecodedIsAll == DecInv => EntitiesAreMaximalRuns
<1> SUFFICES ASSUME DecInv, Ner!Decoded PROVE findings = Entities
  BY DEF EntitiesAreMaximalRuns
<1>1. inferred /\ order = <<>> /\ current = Ner!NoEntity
  BY DEF Ner!Decoded
<1>2. Labelled
  BY <1>1 DEF DecInv, Labelled, TextInv
<1>3. PICK p \in 0 .. Words : DecodedUpTo(p)
  BY <1>1 DEF DecInv
<1>4. p = Words /\ findings = EntitiesUpTo(p)
  BY <1>1, <1>2, <1>3, NoWordLeft DEF Ner!Ended
<1>5. Words \in 0 .. Len(out) /\ Len(out) \in Nat /\ DOMAIN out = 1 .. Len(out)
  BY <1>2, WordsProperties, LenProperties DEF Labelled
<1>6. \A u \in Words + 1 .. Len(out) : u \notin Firsts
  <2>1. WordsRead = 1 .. Words
    BY <1>2, WordsAreRead
  <2> QED BY <1>5, <2>1 DEF Firsts
<1> DEFINE c == Words
           n == Len(out)
<1>7. c \in Nat /\ n \in Nat /\ c <= n /\ \A u \in c + 1 .. n : u \notin Firsts
  BY <1>5, <1>6
<1> HIDE DEF c, n
<1>8. EntitiesUpTo(n) = EntitiesUpTo(c)
  BY <1>7, EntitiesStay
<1>9. Entities = EntitiesUpTo(n)
  BY <1>5 DEF Entities, EntitiesUpTo, FirstsUpTo, Numbers, n
<1> QED BY <1>4, <1>8, <1>9 DEF c

(* The entities reported are the longest runs of the model's labels: for   *)
(* any text, any labels and any length of the model's input.               *)
THEOREM EntitiesAreTheLongestRuns == ReadingSpec => []EntitiesAreMaximalRuns
<1>1. ReadingSpec => []DecInv
  BY DecInit, DecNext, PTL DEF ReadingSpec, readingVars
<1> QED BY <1>1, DecodedIsAll, PTL
=============================================================================
