---------------------------- MODULE StreamRelay ----------------------------
(***************************************************************************)
(* How a response reaches the client, under the three strategies of        *)
(* stream.rs.  The upstream delivers the response in chunks cut anywhere.  *)
(* passthrough hands each chunk on; buffer hands on the whole response;    *)
(* sliding_window hands on what flush_point allows.  What is handed on is  *)
(* a piece; under buffer and sliding_window a piece is what layer 1 reads. *)
(*                                                                         *)
(* A byte is a line feed, one of the characters that end a sentence, one   *)
(* that makes the bytes around it no UTF-8, or any other.                  *)
(***************************************************************************)
EXTENDS Naturals, Sequences, SequencesExt

CONSTANTS MaxLength  \* of a response

ASSUME LengthAssumption == MaxLength \in Nat

VARIABLES strategy,
          response,   \* what the provider sends, if nothing breaks
          received,   \* how many bytes of it have come
          pending,    \* received, not handed on
          pieces,     \* handed to the client
          inspected,  \* the pieces log_findings read, by index
          stream      \* open, ended, or broken by an upstream error

vars == <<strategy, response, received, pending, pieces, inspected, stream>>

Byte == {"text", "stop", "newline", "invalid"}
Responses == UNION {[1 .. n -> Byte] : n \in 0 .. MaxLength}
Strategies == {"passthrough", "buffer", "sliding_window"}

EndsEvent(s, i) == i > 1 /\ s[i] = "newline" /\ s[i - 1] = "newline"

EventEnds(s) == {i \in DOMAIN s : EndsEvent(s, i)}
SentenceEnds(s) == {i \in DOMAIN s : s[i] = "stop"}

\* Where the bytes may be cut: after the last whole event, if a sentence ends
\* before that; 0 if nowhere.
FlushAtFirstEvent(s) ==
    LET cuts == {i \in EventEnds(s) : \E j \in SentenceEnds(s) : j < i}
    IN IF cuts = {} THEN 0 ELSE Min(cuts)
FlushOneTooEarly(s) ==
    IF EventEnds(s) # {} /\ \E j \in SentenceEnds(s) : j < Max(EventEnds(s))
    THEN Max(EventEnds(s)) - 1 ELSE 0
FlushPoint(s) ==
    IF EventEnds(s) # {} /\ \E j \in SentenceEnds(s) : j < Max(EventEnds(s))
    THEN Max(EventEnds(s)) ELSE 0

Init ==
    /\ strategy \in Strategies
    /\ response \in Responses
    /\ received = 0
    /\ pending = <<>> /\ pieces = <<>> /\ inspected = {}
    /\ stream = "open"

\* log_findings reads a piece only if it is UTF-8.
Readable(piece) == "invalid" \notin ToSet(piece)

HandOn(piece) ==
    /\ pieces' = Append(pieces, piece)
    /\ inspected' = IF strategy # "passthrough" /\ Readable(piece)
                    THEN inspected \cup {Len(pieces) + 1} ELSE inspected

Keep(bytes) == pending' = bytes /\ UNCHANGED <<pieces, inspected>>

-----------------------------------------------------------------------------
\* The next n bytes come from the provider.
Arrives(n) ==
    /\ stream = "open"
    /\ received + n <= Len(response)
    /\ received' = received + n
    /\ UNCHANGED <<strategy, response, stream>>
Chunk(n) == SubSeq(response, received + 1, received + n)

PassOn(n) ==
    /\ strategy = "passthrough"
    /\ Arrives(n)
    /\ HandOn(Chunk(n))
    /\ UNCHANGED pending

Collect(n) ==
    /\ strategy = "buffer"
    /\ Arrives(n)
    /\ Keep(pending \o Chunk(n))

Hold(n) ==
    /\ strategy = "sliding_window"
    /\ Arrives(n)
    /\ FlushPoint(pending \o Chunk(n)) = 0
    /\ Keep(pending \o Chunk(n))

Flush(n) ==
    /\ strategy = "sliding_window"
    /\ Arrives(n)
    /\ LET bytes == pending \o Chunk(n)
           cut == FlushPoint(bytes)
       IN /\ cut > 0
          /\ HandOn(SubSeq(bytes, 1, cut))
          /\ pending' = SubSeq(bytes, cut + 1, Len(bytes))

\* The response is complete: buffer hands it on even when it is empty.
EmptiedDroppingTheRest ==
    /\ pending' = <<>>
    /\ UNCHANGED <<pieces, inspected>>
Emptied ==
    /\ pending' = <<>>
    /\ IF strategy = "buffer" \/ pending # <<>>
       THEN HandOn(pending) ELSE UNCHANGED <<pieces, inspected>>

UpstreamEnds ==
    /\ stream = "open" /\ received = Len(response)
    /\ Emptied
    /\ stream' = "ended"
    /\ UNCHANGED <<strategy, response, received>>

\* The error is handed on; what was held is never.
UpstreamBreaks ==
    /\ stream = "open"
    /\ stream' = "broken"
    /\ UNCHANGED <<strategy, response, received, pending, pieces, inspected>>

Next ==
    \/ \E n \in 1 .. MaxLength : PassOn(n) \/ Collect(n) \/ Hold(n) \/ Flush(n)
    \/ UpstreamEnds
    \/ UpstreamBreaks

Spec == Init /\ [][Next]_vars

-----------------------------------------------------------------------------
Delivered == FlattenSeq(pieces)
\* Where piece i starts and ends in the response.
StartOf(i) == Len(FlattenSeq(SubSeq(pieces, 1, i - 1)))
EndOf(i) == StartOf(i) + Len(pieces[i])

\* No event boundary between the bytes i and j.
SameEvent(i, j) == \A k \in i .. j - 1 : ~EndsEvent(response, k)

(* However the response is cut into chunks and pieces, the client gets its *)
(* bytes in order, none twice and none lost while the stream is open, and  *)
(* all of them when it ends (relay_body, windowed).                        *)
EveryByteInOrder ==
    /\ Delivered \o pending = SubSeq(response, 1, received)
    /\ stream = "ended" => Delivered = response

(* Under buffer and sliding_window layer 1 read whatever was delivered, in *)
(* pieces that hold events whole: an identifier within an event is never   *)
(* cut in two by a chunk boundary (log_findings).                          *)
EventsAreInspectedWhole ==
    strategy # "passthrough" =>
        \A p \in 1 .. Len(Delivered) :
            \E i \in DOMAIN pieces :
                /\ i \in inspected \/ ~Readable(pieces[i])
                /\ StartOf(i) < p /\ p <= EndOf(i)
                /\ \A q \in p .. Len(Delivered) : SameEvent(p, q) => q <= EndOf(i)

(* Every event after which a sentence is complete is handed on with the    *)
(* chunk that brings it: the window never holds one back (windowed).       *)
NothingCompleteIsHeld ==
    strategy = "sliding_window" =>
        \A i \in DOMAIN pending : EndsEvent(pending, i) =>
            \A j \in SentenceEnds(pending) : j > i
=============================================================================
