------------------------- MODULE StreamRelay_proofs -------------------------
(***************************************************************************)
(* The relay of a response, for responses of any length and any way of     *)
(* cutting them into chunks: no byte is lost, repeated or moved, layer 1   *)
(* reads events whole, and the window holds nothing it need not hold.      *)
(* And the way of a request there, for any providers, paths and queries:   *)
(* where it is sent is what the trail says.                                *)
(***************************************************************************)
EXTENDS StreamRelay, Forwarding, DataLemmas

TypeOK ==
    /\ strategy \in Strategies /\ stream \in {"open", "ended", "broken"}
    /\ response \in Seq(Byte) /\ received \in 0 .. Len(response)
    /\ pending \in Seq(Byte) /\ pieces \in Seq(Seq(Byte))

-----------------------------------------------------------------------------
(* The inductive invariant.  Where a piece lies in the response is counted *)
(* from the pieces before it, so that the invariant follows each piece.    *)
Ordered ==
    /\ Delivered \o pending = SubSeq(response, 1, received)
    /\ stream = "ended" => pending = <<>> /\ received = Len(response)
HeldBack ==
    /\ strategy = "passthrough" => pending = <<>>
    /\ strategy = "buffer" /\ stream = "open" => pieces = <<>>
PiecesAreRead ==
    strategy # "passthrough" =>
        \A i \in DOMAIN pieces : i \in inspected \/ ~Readable(pieces[i])
\* All but what is handed on at the end ends with an event.
PiecesEndEvents ==
    strategy # "passthrough" =>
        \A i \in DOMAIN pieces :
            stream # "ended" \/ i < Len(pieces) => EndsEvent(response, EndOf(i))
PiecesCover ==
    \A p \in 1 .. Len(Delivered) : \E i \in DOMAIN pieces : StartOf(i) < p /\ p <= EndOf(i)

IInv == TypeOK /\ Ordered /\ HeldBack /\ PiecesAreRead /\ PiecesEndEvents /\ PiecesCover

-----------------------------------------------------------------------------
(* flush_point: a cut is behind an event, the last one there is.           *)
LEMMA FlushCutsBehindTheLastEvent ==
    ASSUME NEW bytes \in Seq(Byte)
    PROVE  /\ FlushPoint(bytes) # 0 =>
                /\ FlushPoint(bytes) \in 1 .. Len(bytes)
                /\ EndsEvent(bytes, FlushPoint(bytes))
                /\ \A i \in EventEnds(bytes) : i <= FlushPoint(bytes)
           /\ FlushPoint(bytes) = 0 =>
                \A i \in EventEnds(bytes) : \A j \in SentenceEnds(bytes) : j > i
           /\ FlushPoint(bytes) \in Nat
<1>1. Len(bytes) \in Nat /\ DOMAIN bytes = 1 .. Len(bytes)
  BY LenProperties
<1>2. /\ EventEnds(bytes) \in SUBSET (0 .. Len(bytes))
      /\ EventEnds(bytes) \in SUBSET (1 .. Len(bytes))
      /\ SentenceEnds(bytes) \in SUBSET (1 .. Len(bytes))
  BY <1>1 DEF EventEnds, SentenceEnds
<1>3. CASE EventEnds(bytes) = {}
  BY <1>3 DEF FlushPoint
<1>4. CASE EventEnds(bytes) # {}
  <2> DEFINE last == Max(EventEnds(bytes))
  <2>1. last \in EventEnds(bytes) /\ \A i \in EventEnds(bytes) : i <= last
    BY <1>1, <1>2, <1>4, MaxOfBounded
  <2>2. FlushPoint(bytes) = IF \E j \in SentenceEnds(bytes) : j < last THEN last ELSE 0
    BY <1>4 DEF FlushPoint
  <2>3. \A i \in EventEnds(bytes), j \in SentenceEnds(bytes) : i # j
    BY DEF EventEnds, SentenceEnds, EndsEvent
  <2>4. EndsEvent(bytes, last)
    BY <2>1 DEF EventEnds
  <2> HIDE DEF last
  <2>5. last \in 1 .. Len(bytes)
    BY <1>2, <2>1
  <2>6. ASSUME FlushPoint(bytes) = 0,
               NEW i \in EventEnds(bytes), NEW j \in SentenceEnds(bytes)
        PROVE  j > i
    <3>1. ~(j < last)
      BY <2>2, <2>5, <2>6
    <3>2. i \in Nat /\ j \in Nat /\ last \in Nat /\ i <= last /\ i # j
      BY <1>1, <1>2, <2>1, <2>3, <2>5
    <3>3. j # last
      BY <2>1, <2>3
    <3> QED BY <3>1, <3>2, <3>3
  <2> QED BY <1>1, <2>1, <2>2, <2>4, <2>5, <2>6
<1> QED BY <1>3, <1>4

(* An event that ends in what is held ends in the response.                *)
LEMMA EventsOfTheRest ==
    ASSUME NEW given \in Seq(Byte), NEW bytes \in Seq(Byte), NEW all \in Seq(Byte),
           NEW r \in 0 .. Len(all), given \o bytes = SubSeq(all, 1, r),
           NEW i \in 1 .. Len(bytes), EndsEvent(bytes, i)
    PROVE  EndsEvent(all, Len(given) + i)
<1>1. Len(given) \in Nat /\ Len(bytes) \in Nat /\ Len(all) \in Nat /\ r \in Nat /\ r \in Int
  BY LenProperties
<1>2. \A k \in 1 .. r : all[k] \in Byte
  BY <1>1, ElementOfSeq
<1>3. /\ Len(SubSeq(all, 1, r)) = r
      /\ \A k \in 1 .. r : SubSeq(all, 1, r)[k] = all[k]
  <2>1. /\ Len(SubSeq(all, 1, r)) = IF 1 <= r THEN r - 1 + 1 ELSE 0
        /\ \A k \in 1 .. r - 1 + 1 : SubSeq(all, 1, r)[k] = all[1 + k - 1]
    BY <1>1, <1>2, SubSeqProperties
  <2>2. r - 1 + 1 = r /\ \A k \in 1 .. r : 1 + k - 1 = k
    BY <1>1
  <2> QED BY <1>1, <2>1, <2>2
<1>4. /\ Len(given \o bytes) = Len(given) + Len(bytes)
      /\ \A k \in 1 .. Len(given) + Len(bytes) :
            (given \o bytes)[k] = IF k <= Len(given) THEN given[k] ELSE bytes[k - Len(given)]
  BY ConcatProperties
<1>5. r = Len(given) + Len(bytes)
  BY <1>3, <1>4
<1>6. ASSUME NEW k \in 1 .. Len(bytes) PROVE all[Len(given) + k] = bytes[k]
  <2>1. /\ Len(given) + k \in 1 .. r /\ ~(Len(given) + k <= Len(given))
        /\ (Len(given) + k) - Len(given) = k
    BY <1>1, <1>5
  <2> QED BY <1>3, <1>4, <1>5, <2>1
<1>7. i > 1 /\ bytes[i] = "newline" /\ bytes[i - 1] = "newline"
  BY DEF EndsEvent
<1>8. /\ i - 1 \in 1 .. Len(bytes) /\ (Len(given) + i) - 1 = Len(given) + (i - 1)
      /\ Len(given) + i > 1
  BY <1>1, <1>7
<1> QED BY <1>6, <1>7, <1>8 DEF EndsEvent

-----------------------------------------------------------------------------
LEMMA IInvAtFirst == Init => IInv
<1> SUFFICES ASSUME Init PROVE IInv
  OBVIOUS
<1>1. response \in Seq(Byte)
  BY SeqDef DEF Init, Responses
<1>2. TypeOK
  BY <1>1, EmptySeq, LenProperties DEF Init, TypeOK
<1>3. pieces = <<>> /\ pending = <<>> /\ received = 0 /\ Delivered = <<>>
  BY FlattenOfNone DEF Init, Delivered
<1>4. SubSeq(response, 1, 0) = <<>> /\ <<>> \o <<>> = <<>>
  BY SubSeqEmpty, EmptySeq, ConcatEmptySeq
<1>5. Ordered
  BY <1>3, <1>4 DEF Ordered, Init
<1>6. DOMAIN pieces = {} /\ 1 .. Len(Delivered) = {}
  BY <1>3, EmptySeq
<1> QED BY <1>2, <1>3, <1>5, <1>6
        DEF IInv, HeldBack, PiecesAreRead, PiecesEndEvents, PiecesCover

(* A chunk that arrives continues what was received.                       *)
LEMMA ChunkContinues ==
    ASSUME IInv, NEW n \in 1 .. MaxLength, Arrives(n)
    PROVE  /\ Delivered \in Seq(Byte) /\ Chunk(n) \in Seq(Byte)
           /\ pending \o Chunk(n) \in Seq(Byte)
           /\ received' \in 0 .. Len(response)
           /\ Delivered \o (pending \o Chunk(n)) = SubSeq(response, 1, received')
<1>1. /\ response \in Seq(Byte) /\ received \in 0 .. Len(response) /\ pending \in Seq(Byte)
      /\ Len(response) \in Nat
  BY LenProperties DEF IInv, TypeOK
<1>2. n \in Nat \ {0}
  BY LengthAssumption
<1>3. received' = received + n /\ received + n \in 0 .. Len(response)
  BY <1>1, <1>2 DEF Arrives
<1>4. Delivered \in Seq(Byte)
  BY FlattenType DEF IInv, TypeOK, Delivered
<1>5. \A i \in received + 1 .. received + n : response[i] \in Byte
  BY <1>1, <1>3, ElementOfSeq
<1>6. Chunk(n) \in Seq(Byte)
  BY <1>1, <1>2, <1>5, SubSeqProperties DEF Chunk
<1>7. SubSeq(response, 1, received) \o SubSeq(response, received + 1, received + n)
        = SubSeq(response, 1, received + n)
  <2>1. /\ 1 \in 1 .. Len(response) + 1 /\ received \in 1 - 1 .. Len(response)
        /\ received + n \in received .. Len(response)
    BY <1>1, <1>2, <1>3
  <2> QED BY <1>1, <2>1, ConcatAdjacentSubSeq
<1>8. Delivered \o (pending \o Chunk(n)) = (Delivered \o pending) \o Chunk(n)
  BY SMTT(60), <1>1, <1>4, <1>6, ConcatAssociative
<1>9. pending \o Chunk(n) \in Seq(Byte)
  BY <1>1, <1>6, ConcatProperties
<1> QED BY <1>3, <1>4, <1>6, <1>7, <1>8, <1>9 DEF IInv, Ordered, Chunk

(* What is handed on lies behind what was delivered before, and what was   *)
(* delivered before stays where it was.                                    *)
LEMMA HandOnAppends ==
    ASSUME IInv, NEW p \in Seq(Byte), HandOn(p), UNCHANGED strategy
    PROVE  /\ pieces' \in Seq(Seq(Byte)) /\ Delivered' = Delivered \o p
           /\ PiecesAreRead' /\ PiecesCover'
           /\ DOMAIN pieces = 1 .. Len(pieces) /\ Len(pieces) \in Nat
           /\ DOMAIN pieces' = 1 .. Len(pieces) + 1 /\ Len(pieces') = Len(pieces) + 1
           /\ \A i \in 1 .. Len(pieces) : EndOf(i)' = EndOf(i)
           /\ \A i : i = Len(pieces) + 1 => EndOf(i)' = Len(Delivered) + Len(p)
<1>1. /\ pieces \in Seq(Seq(Byte)) /\ Len(pieces) \in Nat /\ DOMAIN pieces = 1 .. Len(pieces)
      /\ pieces' = Append(pieces, p)
  BY LenProperties DEF IInv, TypeOK, HandOn
<1>2. /\ pieces' \in Seq(Seq(Byte)) /\ Len(pieces') = Len(pieces) + 1
      /\ \A i \in 1 .. Len(pieces) : pieces'[i] = pieces[i]
      /\ pieces'[Len(pieces) + 1] = p
  BY <1>1, AppendProperties
<1>3. DOMAIN pieces' = 1 .. Len(pieces) + 1
  BY <1>2, LenProperties
<1>4. Delivered' = Delivered \o p
  BY <1>1, FlattenAppend DEF Delivered
<1>5. /\ \A i \in 1 .. Len(pieces) : StartIn(pieces', i) = StartIn(pieces, i)
      /\ StartIn(pieces', Len(pieces) + 1) = Len(Delivered)
      /\ Len(Delivered') = Len(Delivered) + Len(p)
  BY <1>1, PlacesOfAppend DEF Delivered
<1>6. /\ \A i : StartOf(i) = StartIn(pieces, i) /\ StartOf(i)' = StartIn(pieces', i)
      /\ \A i : EndOf(i) = StartIn(pieces, i) + Len(pieces[i])
      /\ \A i : EndOf(i)' = StartIn(pieces', i) + Len(pieces'[i])
  BY DEF StartOf, EndOf, StartIn
<1>7. PiecesAreRead'
  BY <1>1, <1>2, <1>3 DEF IInv, PiecesAreRead, HandOn
<1>8. PiecesCover'
  <2> SUFFICES ASSUME NEW q \in 1 .. Len(Delivered')
               PROVE  \E i \in DOMAIN pieces' : StartOf(i)' < q /\ q <= EndOf(i)'
    BY DEF PiecesCover
  <2>1. Len(Delivered) \in Nat /\ Len(p) \in Nat
    BY <1>1, FlattenType, LenProperties DEF Delivered
  <2>2. CASE q <= Len(Delivered)
    <3>1. q \in 1 .. Len(Delivered)
      BY <2>1, <2>2, <1>5
    <3>2. PICK i \in 1 .. Len(pieces) : StartOf(i) < q /\ q <= EndOf(i)
      BY <1>1, <3>1 DEF IInv, PiecesCover
    <3>3. i \in DOMAIN pieces'
      BY <1>1, <1>3
    <3>4. StartOf(i)' < q /\ q <= EndOf(i)'
      BY <3>2, <1>2, <1>5, <1>6
    <3> QED BY <3>3, <3>4
  <2>3. CASE ~(q <= Len(Delivered))
    <3>1. PICK last \in DOMAIN pieces' : last = Len(pieces) + 1
      BY <1>1, <1>3
    <3>2. /\ StartIn(pieces', last) < q
          /\ q <= StartIn(pieces', last) + Len(p)
      BY <1>5, <2>1, <2>3, <3>1
    <3>3. StartOf(last)' < q /\ q <= EndOf(last)'
      BY <1>2, <1>6, <3>1, <3>2
    <3> QED BY <3>3
  <2> QED BY <2>2, <2>3
<1>9. ASSUME NEW i \in 1 .. Len(pieces) PROVE EndOf(i)' = EndOf(i)
  BY <1>2, <1>5, <1>6
<1>10. ASSUME NEW i, i = Len(pieces) + 1 PROVE EndOf(i)' = Len(Delivered) + Len(p)
  BY <1>2, <1>5, <1>6, <1>10
<1> QED BY <1>1, <1>2, <1>3, <1>4, <1>7, <1>8, <1>9, <1>10

(* Nothing is handed on: the pieces are what and where they were.          *)
LEMMA PiecesStay ==
    ASSUME IInv, UNCHANGED <<strategy, response, pieces, inspected>>,
           stream # "ended" \/ UNCHANGED stream
    PROVE  UNCHANGED Delivered /\ PiecesAreRead' /\ PiecesEndEvents' /\ PiecesCover'
<1>1. UNCHANGED Delivered /\ \A i : UNCHANGED <<StartOf(i), EndOf(i)>>
  BY DEF Delivered, StartOf, EndOf
<1>2. \A i : UNCHANGED EndsEvent(response, i)
  BY DEF EndsEvent
<1>3. PiecesAreRead'
  BY DEF IInv, PiecesAreRead
<1>4. PiecesEndEvents'
  BY <1>1, <1>2 DEF IInv, PiecesEndEvents
<1>5. PiecesCover'
  BY <1>1 DEF IInv, PiecesCover
<1> QED BY <1>1, <1>3, <1>4, <1>5

LEMMA IInvIsKept == IInv /\ [Next]_vars => IInv'
<1> SUFFICES ASSUME IInv, [Next]_vars PROVE IInv'
  OBVIOUS
<1>0. /\ response \in Seq(Byte) /\ received \in 0 .. Len(response) /\ pending \in Seq(Byte)
      /\ pieces \in Seq(Seq(Byte)) /\ Delivered \in Seq(Byte) /\ strategy \in Strategies
      /\ stream \in {"open", "ended", "broken"}
  BY FlattenType DEF IInv, TypeOK, Delivered
<1>1. ASSUME NEW n \in 1 .. MaxLength, PassOn(n) PROVE IInv'
  <2>1. Arrives(n) /\ HandOn(Chunk(n)) /\ UNCHANGED <<pending, strategy, response, stream>>
    BY <1>1 DEF PassOn, Arrives
  <2>2. strategy = "passthrough" /\ stream = "open" /\ pending = <<>>
    BY <1>1 DEF PassOn, Arrives, IInv, HeldBack
  <2>3. /\ Chunk(n) \in Seq(Byte) /\ received' \in 0 .. Len(response)
        /\ Delivered \o (pending \o Chunk(n)) = SubSeq(response, 1, received')
    BY <2>1, ChunkContinues
  <2>4. /\ pieces' \in Seq(Seq(Byte)) /\ Delivered' = Delivered \o Chunk(n)
        /\ PiecesAreRead' /\ PiecesCover'
    BY <2>1, <2>3, HandOnAppends
  <2>5. TypeOK'
    BY <1>0, <2>1, <2>3, <2>4 DEF TypeOK
  <2>6. Delivered' \in Seq(Byte)
    BY <1>0, <2>3, <2>4, ConcatProperties
  <2>7. pending \o Chunk(n) = Chunk(n) /\ Delivered' \o pending' = Delivered'
    BY <2>1, <2>2, <2>3, <2>6, ConcatEmptySeq
  <2>8. Ordered'
    BY <2>1, <2>2, <2>3, <2>4, <2>7 DEF Ordered
  <2>9. HeldBack' /\ PiecesEndEvents'
    BY <2>1, <2>2 DEF HeldBack, PiecesEndEvents
  <2> QED BY <2>4, <2>5, <2>8, <2>9 DEF IInv
<1>2. ASSUME NEW n \in 1 .. MaxLength, Collect(n) \/ Hold(n) PROVE IInv'
  <2>1. /\ Arrives(n) /\ pending' = pending \o Chunk(n)
        /\ UNCHANGED <<pieces, inspected, strategy, response, stream>>
        /\ strategy # "passthrough" /\ stream = "open"
    BY <1>2 DEF Collect, Hold, Keep, Arrives
  <2>2. /\ pending \o Chunk(n) \in Seq(Byte) /\ received' \in 0 .. Len(response)
        /\ Delivered \o (pending \o Chunk(n)) = SubSeq(response, 1, received')
    BY <2>1, ChunkContinues
  <2>3. UNCHANGED Delivered /\ PiecesAreRead' /\ PiecesEndEvents' /\ PiecesCover'
    BY <2>1, PiecesStay
  <2>4. TypeOK'
    BY <1>0, <2>1, <2>2 DEF TypeOK
  <2>5. Ordered'
    BY <2>1, <2>2, <2>3 DEF Ordered
  <2>6. HeldBack'
    BY <2>1 DEF IInv, HeldBack
  <2> QED BY <2>3, <2>4, <2>5, <2>6 DEF IInv
<1>3. ASSUME NEW n \in 1 .. MaxLength, Flush(n) PROVE IInv'
  <2>1. PICK bytes : bytes = pending \o Chunk(n)
    OBVIOUS
  <2>2. PICK cut : cut = FlushPoint(bytes)
    OBVIOUS
  <2>3. /\ Arrives(n) /\ strategy = "sliding_window" /\ stream = "open" /\ cut > 0
        /\ HandOn(SubSeq(bytes, 1, cut)) /\ pending' = SubSeq(bytes, cut + 1, Len(bytes))
        /\ UNCHANGED <<strategy, response, stream>>
    BY <1>3, <2>1, <2>2 DEF Flush, Arrives
  <2>4. /\ bytes \in Seq(Byte) /\ received' \in 0 .. Len(response)
        /\ Delivered \o bytes = SubSeq(response, 1, received')
    BY <2>1, <2>3, ChunkContinues
  <2>5. cut \in 1 .. Len(bytes) /\ EndsEvent(bytes, cut) /\ Len(bytes) \in Nat
    BY <2>2, <2>3, <2>4, FlushCutsBehindTheLastEvent, LenProperties
  <2>6. PICK piece, rest : piece = SubSeq(bytes, 1, cut) /\ rest = SubSeq(bytes, cut + 1, Len(bytes))
    OBVIOUS
  <2>7. piece \in Seq(Byte) /\ rest \in Seq(Byte) /\ Len(piece) = cut
    <3>1. /\ \A k \in 1 .. cut : bytes[k] \in Byte
          /\ \A k \in cut + 1 .. Len(bytes) : bytes[k] \in Byte
      BY <2>4, <2>5, ElementOfSeq
    <3>2. 1 \in Int /\ cut \in Int /\ cut + 1 \in Int /\ Len(bytes) \in Int
      BY <2>5
    <3>3. /\ SubSeq(bytes, 1, cut) \in Seq(Byte)
          /\ Len(SubSeq(bytes, 1, cut)) = IF 1 <= cut THEN cut - 1 + 1 ELSE 0
      BY <3>1, <3>2, SubSeqProperties
    <3>4. SubSeq(bytes, cut + 1, Len(bytes)) \in Seq(Byte)
      BY <3>1, <3>2, SubSeqProperties
    <3> QED BY <2>5, <2>6, <3>3, <3>4
  <2>8. piece \o rest = bytes
    <3>1. /\ 1 \in 1 .. Len(bytes) + 1 /\ cut \in 1 - 1 .. Len(bytes)
          /\ Len(bytes) \in cut .. Len(bytes)
      BY <2>5
    <3>2. piece \o rest = SubSeq(bytes, 1, Len(bytes))
      BY <2>4, <2>6, <3>1, ConcatAdjacentSubSeq
    <3> QED BY <2>4, <3>2, SubSeqFull
  <2>9. /\ pieces' \in Seq(Seq(Byte)) /\ Delivered' = Delivered \o piece
        /\ PiecesAreRead' /\ PiecesCover'
        /\ DOMAIN pieces = 1 .. Len(pieces) /\ Len(pieces) \in Nat
        /\ DOMAIN pieces' = 1 .. Len(pieces) + 1 /\ Len(pieces') = Len(pieces) + 1
        /\ \A i \in 1 .. Len(pieces) : EndOf(i)' = EndOf(i)
        /\ \A i : i = Len(pieces) + 1 => EndOf(i)' = Len(Delivered) + Len(piece)
    BY <2>3, <2>6, <2>7, HandOnAppends
  <2>10. TypeOK'
    BY <1>0, <2>3, <2>4, <2>6, <2>7, <2>9 DEF TypeOK
  <2>11. Ordered'
    <3>0. Delivered \in Seq(Byte) /\ piece \in Seq(Byte) /\ rest \in Seq(Byte)
      BY <1>0, <2>7
    <3>1. Delivered \o (piece \o rest) = (Delivered \o piece) \o rest
      BY SMTT(60), <3>0, ConcatAssociative
    <3> QED BY <2>3, <2>4, <2>6, <2>8, <2>9, <3>1 DEF Ordered
  <2>12. HeldBack'
    BY <2>3 DEF HeldBack
  <2>13. PiecesEndEvents'
    <3>1. EndsEvent(response, Len(Delivered) + cut)
      BY <1>0, <2>4, <2>5, EventsOfTheRest
    <3> SUFFICES ASSUME NEW i \in DOMAIN pieces' PROVE EndsEvent(response, EndOf(i)')
      BY <2>3 DEF PiecesEndEvents, EndsEvent
    <3>2. CASE i \in 1 .. Len(pieces)
      <4>1. EndsEvent(response, EndOf(i))
        BY <2>3, <2>9, <3>2 DEF IInv, PiecesEndEvents
      <4> QED BY <2>9, <3>2, <4>1
    <3>3. CASE i = Len(pieces) + 1
      <4>1. EndOf(i)' = Len(Delivered) + cut
        BY <2>7, <2>9, <3>3
      <4> QED BY <3>1, <4>1
    <3> QED BY <2>9, <3>2, <3>3
  <2> QED BY <2>9, <2>10, <2>11, <2>12, <2>13 DEF IInv
<1>4. CASE UpstreamEnds
  <2>1. /\ stream = "open" /\ received = Len(response) /\ stream' = "ended" /\ pending' = <<>>
        /\ UNCHANGED <<strategy, response, received>>
    BY <1>4 DEF UpstreamEnds, Emptied
  <2>2. Delivered \o pending = SubSeq(response, 1, received)
    BY DEF IInv, Ordered
  <2>3. CASE strategy = "buffer" \/ pending # <<>>
    <3>1. HandOn(pending)
      BY <1>4, <2>3 DEF UpstreamEnds, Emptied
    <3>2. /\ pieces' \in Seq(Seq(Byte)) /\ Delivered' = Delivered \o pending
          /\ PiecesAreRead' /\ PiecesCover'
          /\ DOMAIN pieces = 1 .. Len(pieces) /\ Len(pieces) \in Nat
          /\ DOMAIN pieces' = 1 .. Len(pieces) + 1 /\ Len(pieces') = Len(pieces) + 1
          /\ \A i \in 1 .. Len(pieces) : EndOf(i)' = EndOf(i)
      BY <1>0, <2>1, <3>1, HandOnAppends
    <3>3. TypeOK'
      BY <1>0, <2>1, <3>2, EmptySeq DEF TypeOK
    <3>4. Delivered' \in Seq(Byte)
      BY <1>0, <3>2, ConcatProperties
    <3>5. Ordered'
      BY <2>1, <2>2, <3>2, <3>4, ConcatEmptySeq DEF Ordered
    <3>6. HeldBack'
      BY <2>1 DEF HeldBack
    <3>7. PiecesEndEvents'
      <4> SUFFICES ASSUME strategy # "passthrough", NEW i \in DOMAIN pieces', i < Len(pieces')
                   PROVE  EndsEvent(response, EndOf(i)')
        BY <2>1 DEF PiecesEndEvents, EndsEvent
      <4>1. i \in 1 .. Len(pieces)
        BY <3>2
      <4>2. EndsEvent(response, EndOf(i))
        BY <2>1, <3>2, <4>1 DEF IInv, PiecesEndEvents
      <4> QED BY <3>2, <4>1, <4>2
    <3> QED BY <3>2, <3>3, <3>5, <3>6, <3>7 DEF IInv
  <2>4. CASE ~(strategy = "buffer" \/ pending # <<>>)
    <3>1. UNCHANGED <<pieces, inspected, pending>>
      BY <1>4, <2>1, <2>4 DEF UpstreamEnds, Emptied
    <3>2. UNCHANGED Delivered /\ PiecesAreRead' /\ PiecesEndEvents' /\ PiecesCover'
      BY <2>1, <3>1, PiecesStay
    <3>3. TypeOK'
      BY <1>0, <2>1, <3>1 DEF TypeOK
    <3>4. Ordered' /\ HeldBack'
      BY <2>1, <2>2, <3>1, <3>2 DEF Ordered, HeldBack
    <3> QED BY <3>2, <3>3, <3>4 DEF IInv
  <2> QED BY <2>3, <2>4
<1>5. CASE UpstreamBreaks
  <2>1. /\ stream = "open" /\ stream' = "broken"
        /\ UNCHANGED <<strategy, response, received, pending, pieces, inspected>>
    BY <1>5 DEF UpstreamBreaks
  <2>2. UNCHANGED Delivered /\ PiecesAreRead' /\ PiecesEndEvents' /\ PiecesCover'
    BY <2>1, PiecesStay
  <2>3. TypeOK' /\ Ordered' /\ HeldBack'
    BY <1>0, <2>1, <2>2 DEF TypeOK, IInv, Ordered, HeldBack
  <2> QED BY <2>2, <2>3 DEF IInv
<1>6. CASE UNCHANGED vars
  <2>1. UNCHANGED <<strategy, response, received, pending, pieces, inspected, stream>>
    BY <1>6 DEF vars
  <2>2. UNCHANGED Delivered /\ PiecesAreRead' /\ PiecesEndEvents' /\ PiecesCover'
    BY <2>1, PiecesStay
  <2>3. TypeOK' /\ Ordered' /\ HeldBack'
    BY <1>0, <2>1, <2>2 DEF TypeOK, IInv, Ordered, HeldBack
  <2> QED BY <2>2, <2>3 DEF IInv
<1> QED BY <1>1, <1>2, <1>3, <1>4, <1>5, <1>6 DEF Next

THEOREM IInvAlways == Spec => []IInv
<1>1. Init => IInv
  BY IInvAtFirst
<1>2. IInv /\ [Next]_vars => IInv'
  BY IInvIsKept
<1> QED BY <1>1, <1>2, PTL DEF Spec

-----------------------------------------------------------------------------
(* However the response is cut into chunks and pieces, the client gets its *)
(* bytes in order, none twice and none lost while the stream is open, and  *)
(* all of them when it ends (relay_body, windowed).                        *)
THEOREM NoByteIsLost == Spec => []EveryByteInOrder
<1>1. IInv => EveryByteInOrder
  <2> SUFFICES ASSUME IInv PROVE EveryByteInOrder
    OBVIOUS
  <2>1. Delivered \o pending = SubSeq(response, 1, received)
    BY DEF IInv, Ordered
  <2>2. ASSUME stream = "ended" PROVE Delivered = response
    <3>1. pending = <<>> /\ received = Len(response)
      BY <2>2 DEF IInv, Ordered
    <3>2. Delivered \o <<>> = Delivered
      BY FlattenType, ConcatEmptySeq DEF IInv, TypeOK, Delivered
    <3>3. SubSeq(response, 1, Len(response)) = response
      BY SubSeqFull DEF IInv, TypeOK
    <3> QED BY <2>1, <3>1, <3>2, <3>3
  <2> QED BY <2>1, <2>2 DEF EveryByteInOrder
<1> QED BY <1>1, IInvAlways, PTL

(* Under buffer and sliding_window layer 1 read whatever was delivered, in *)
(* pieces that hold events whole (log_findings, flush_point).              *)
THEOREM NoEventIsCut == Spec => []EventsAreInspectedWhole
<1>1. IInv => EventsAreInspectedWhole
  <2> SUFFICES ASSUME IInv, strategy # "passthrough", NEW p \in 1 .. Len(Delivered)
               PROVE  \E i \in DOMAIN pieces :
                         /\ i \in inspected \/ ~Readable(pieces[i])
                         /\ StartOf(i) < p /\ p <= EndOf(i)
                         /\ \A q \in p .. Len(Delivered) : SameEvent(p, q) => q <= EndOf(i)
    BY DEF EventsAreInspectedWhole
  <2>1. PICK i \in DOMAIN pieces : StartOf(i) < p /\ p <= EndOf(i)
    BY DEF IInv, PiecesCover
  <2>2. i \in inspected \/ ~Readable(pieces[i])
    BY DEF IInv, PiecesAreRead
  <2>3. /\ pieces \in Seq(Seq(Byte)) /\ Len(pieces) \in Nat /\ i \in 1 .. Len(pieces)
        /\ pieces[i] \in Seq(Byte) /\ Len(Delivered) \in Nat
    BY FlattenType, LenProperties, ElementOfSeq DEF IInv, TypeOK, Delivered
  <2>4. EndOf(i) \in Nat
    <3>1. \A k \in 1 .. i - 1 : pieces[k] \in Seq(Byte)
      BY <2>3, ElementOfSeq
    <3>2. SubSeq(pieces, 1, i - 1) \in Seq(Seq(Byte))
      BY <2>3, <3>1, SubSeqProperties
    <3>3. Len(FlattenSeq(SubSeq(pieces, 1, i - 1))) \in Nat /\ Len(pieces[i]) \in Nat
      BY <2>3, <3>2, FlattenType, LenProperties
    <3> QED BY <3>3 DEF EndOf, StartOf
  <2>5. ASSUME NEW q \in p .. Len(Delivered), SameEvent(p, q) PROVE q <= EndOf(i)
    <3>1. CASE i < Len(pieces)
      <4>1. EndsEvent(response, EndOf(i))
        BY <3>1 DEF IInv, PiecesEndEvents
      <4>2. ASSUME ~(q <= EndOf(i)) PROVE FALSE
        <5>1. EndOf(i) \in p .. q - 1
          BY <2>1, <2>3, <2>4, <4>2
        <5> QED BY <2>5, <4>1, <5>1 DEF SameEvent
      <4> QED BY <4>2
    <3>2. CASE i = Len(pieces)
      <4>1. Len(Delivered) = EndOf(i)
        <5>1. pieces # <<>>
          BY <2>3, EmptySeq
        <5>2. PICK front \in Seq(Seq(Byte)), last \in Seq(Byte) : pieces = Append(front, last)
          BY <2>3, <5>1, SequenceEmptyOrAppend
        <5>3. /\ Len(pieces) = Len(front) + 1 /\ pieces[Len(front) + 1] = last
              /\ Len(front) \in Nat
          BY <5>2, AppendProperties, LenProperties
        <5>4. /\ StartIn(pieces, Len(front) + 1) = Len(FlattenSeq(front))
              /\ Len(FlattenSeq(pieces)) = Len(FlattenSeq(front)) + Len(last)
          BY <5>2, PlacesOfAppend
        <5>5. i = Len(front) + 1
          BY <3>2, <5>3
        <5> QED BY <5>3, <5>4, <5>5 DEF EndOf, StartOf, StartIn, Delivered
      <4> QED BY <2>3, <4>1
    <3> QED BY <2>3, <3>1, <3>2
  <2> QED BY <2>1, <2>2, <2>5
<1> QED BY <1>1, IInvAlways, PTL

-----------------------------------------------------------------------------
(* What the window holds has no event behind a whole sentence.             *)
LEMMA NothingCompleteIsKept ==
    IInv /\ NothingCompleteIsHeld /\ [Next]_vars => NothingCompleteIsHeld'
<1> SUFFICES ASSUME IInv, NothingCompleteIsHeld, [Next]_vars, strategy' = "sliding_window"
             PROVE  \A i \in DOMAIN pending' : EndsEvent(pending', i) =>
                       \A j \in SentenceEnds(pending') : j > i
  BY DEF NothingCompleteIsHeld, EndsEvent, SentenceEnds
<1>1. strategy = "sliding_window"
  BY DEF Next, PassOn, Collect, Hold, Flush, Arrives, UpstreamEnds, UpstreamBreaks, vars
<1>2. CASE UNCHANGED pending
  BY <1>1, <1>2 DEF NothingCompleteIsHeld
<1>3. CASE pending' = <<>>
  <2>1. DOMAIN <<>> = {}
    BY EmptySeq
  <2> QED BY <1>3, <2>1
<1>4. ASSUME NEW n \in 1 .. MaxLength, Hold(n)
      PROVE  \A i \in DOMAIN pending' : EndsEvent(pending', i) =>
                \A j \in SentenceEnds(pending') : j > i
  <2>1. /\ Arrives(n) /\ pending' = pending \o Chunk(n)
        /\ FlushPoint(pending \o Chunk(n)) = 0
    BY <1>4 DEF Hold, Keep
  <2>2. pending' \in Seq(Byte) /\ FlushPoint(pending') = 0
    BY <2>1, ChunkContinues DEF FlushPoint, EventEnds, SentenceEnds, EndsEvent
  <2>3. PICK bytes : bytes = pending'
    OBVIOUS
  <2>4. \A i \in EventEnds(bytes) : \A j \in SentenceEnds(bytes) : j > i
    BY <2>1, <2>2, <2>3, FlushCutsBehindTheLastEvent
  <2>5. \A i \in DOMAIN bytes : EndsEvent(bytes, i) => \A j \in SentenceEnds(bytes) : j > i
    BY <2>4 DEF EventEnds
  <2> QED BY <2>3, <2>5
<1>5. ASSUME NEW n \in 1 .. MaxLength, Flush(n)
      PROVE  \A i \in DOMAIN pending' : EndsEvent(pending', i) =>
                \A j \in SentenceEnds(pending') : j > i
  <2>1. PICK bytes : bytes = pending \o Chunk(n)
    OBVIOUS
  <2>2. PICK cut : cut = FlushPoint(bytes)
    OBVIOUS
  <2>3. Arrives(n) /\ cut > 0 /\ pending' = SubSeq(bytes, cut + 1, Len(bytes))
    BY <1>5, <2>1, <2>2 DEF Flush
  <2>4. bytes \in Seq(Byte) /\ Len(bytes) \in Nat /\ DOMAIN bytes = 1 .. Len(bytes)
    BY <2>1, <2>3, ChunkContinues, LenProperties
  <2>5. cut \in 1 .. Len(bytes) /\ \A i \in EventEnds(bytes) : i <= cut
    BY <2>2, <2>3, <2>4, FlushCutsBehindTheLastEvent
  <2>6. \A k \in cut + 1 .. Len(bytes) : bytes[k] \in Byte
    BY <2>4, <2>5, ElementOfSeq
  <2>7. /\ pending' \in Seq(Byte)
        /\ Len(pending') = IF cut + 1 <= Len(bytes) THEN Len(bytes) - (cut + 1) + 1 ELSE 0
        /\ \A k \in 1 .. Len(bytes) - (cut + 1) + 1 : pending'[k] = bytes[(cut + 1) + k - 1]
    BY <2>3, <2>4, <2>5, <2>6, SubSeqProperties
  <2>8. DOMAIN pending' = 1 .. Len(pending')
    BY <2>7, LenProperties
  <2>9. ASSUME NEW i \in DOMAIN pending', EndsEvent(pending', i) PROVE FALSE
    <3>1. i \in 1 .. Len(bytes) - cut
      <4>0. PICK all \in Nat : all = Len(bytes)
        BY <2>4
      <4>1. /\ Len(bytes) - (cut + 1) + 1 = Len(bytes) - cut
            /\ ~(cut + 1 <= Len(bytes)) => Len(bytes) - cut = 0
        <5>1. cut \in Nat /\ cut <= all
          BY <2>5, <4>0
        <5> QED BY <4>0, <5>1
      <4>2. Len(pending') = Len(bytes) - cut
        BY <2>7, <4>1
      <4> QED BY SMTT(60), <2>8, <4>2
    <3>2. i > 1 /\ pending'[i] = "newline" /\ pending'[i - 1] = "newline"
      BY <2>9 DEF EndsEvent
    <3>3. i - 1 \in 1 .. Len(bytes) - cut /\ Len(bytes) - (cut + 1) + 1 = Len(bytes) - cut
      BY <2>4, <2>5, <3>1, <3>2
    <3>4. pending'[i] = bytes[(cut + 1) + i - 1] /\ pending'[i - 1] = bytes[(cut + 1) + (i - 1) - 1]
      BY <2>7, <3>1, <3>3
    <3>5. /\ (cut + 1) + i - 1 = cut + i /\ (cut + 1) + (i - 1) - 1 = (cut + i) - 1
          /\ cut + i \in 1 .. Len(bytes) /\ cut + i > 1 /\ ~(cut + i <= cut)
      BY SMTT(60), <2>4, <2>5, <3>1, <3>2
    <3>6. EndsEvent(bytes, cut + i)
      BY <3>2, <3>4, <3>5 DEF EndsEvent
    <3>7. cut + i \in EventEnds(bytes)
      BY <2>4, <3>5, <3>6 DEF EventEnds
    <3> QED BY <2>5, <3>5, <3>7
  <2> QED BY <2>9
<1> QED BY <1>1, <1>2, <1>3, <1>4, <1>5
        DEF Next, PassOn, Collect, UpstreamEnds, Emptied, UpstreamBreaks, vars

(* Every event after which a sentence is complete is handed on with the    *)
(* chunk that brings it: the window never holds one back (windowed).       *)
THEOREM NothingWaitsInTheWindow == Spec => []NothingCompleteIsHeld
<1>1. Init => NothingCompleteIsHeld
  <2>1. DOMAIN <<>> = {}
    BY EmptySeq
  <2> QED BY <2>1 DEF Init, NothingCompleteIsHeld
<1> QED BY <1>1, IInvAlways, NothingCompleteIsKept, PTL DEF Spec

-----------------------------------------------------------------------------
(* split and trim_end_matches: Until stops at the first of some pieces,    *)
(* and TrimEnd removes nothing but slashes.                                *)
LEMMA UntilStops ==
    ASSUME NEW S, NEW s \in Seq(S), NEW stops
    PROVE  \E n \in 0 .. Len(s) :
              /\ Until(s, stops) = SubSeq(s, 1, n)
              /\ \A i \in 1 .. n : s[i] \notin stops
              /\ n < Len(s) => s[n + 1] \in stops
<1> DEFINE at == {Len(s) + 1} \cup {i \in DOMAIN s : s[i] \in stops}
           n == Min(at) - 1
<1>1. Len(s) \in Nat /\ DOMAIN s = 1 .. Len(s)
  BY LenProperties
<1>2. at \in SUBSET Nat /\ at # {} /\ \A i \in at : i \in 1 .. Len(s) + 1
  BY <1>1
<1>3. Min(at) \in at /\ \A i \in at : Min(at) <= i
  BY <1>2, MinOfSome
<1>4. n \in 0 .. Len(s) /\ n + 1 = Min(at)
  BY <1>1, <1>2, <1>3
<1>5. ASSUME NEW i \in 1 .. n PROVE s[i] \notin stops
  <2>1. i \in DOMAIN s /\ ~(Min(at) <= i)
    BY <1>1, <1>4
  <2>2. i \notin at
    BY <1>3, <2>1
  <2>3. QED
    BY <2>1, <2>2
<1>6. n < Len(s) => s[n + 1] \in stops
  BY <1>1, <1>3, <1>4
<1>7. Until(s, stops) = SubSeq(s, 1, n)
  BY DEF Until
<1>8. QED
  BY <1>4, <1>5, <1>6, <1>7

LEMMA UntilIs ==
    ASSUME NEW S, NEW s \in Seq(S), NEW stops, NEW n \in 0 .. Len(s),
           \A i \in 1 .. n : s[i] \notin stops,
           n < Len(s) => s[n + 1] \in stops
    PROVE  Until(s, stops) = SubSeq(s, 1, n)
<1>1. PICK m \in 0 .. Len(s) :
          /\ Until(s, stops) = SubSeq(s, 1, m)
          /\ \A i \in 1 .. m : s[i] \notin stops
          /\ m < Len(s) => s[m + 1] \in stops
  BY UntilStops
<1>2. Len(s) \in Nat
  BY LenProperties
<1>3. ~(m < n)
  <2>1. m < n => m + 1 \in 1 .. n /\ m < Len(s)
    BY <1>2
  <2>2. QED
    BY <1>1, <2>1
<1>4. ~(n < m)
  <2>1. n < m => n + 1 \in 1 .. m /\ n < Len(s)
    BY <1>2
  <2>2. QED
    BY <1>1, <2>1
<1>5. m = n
  BY <1>2, <1>3, <1>4
<1>6. QED
  BY <1>1, <1>5

LEMMA TrimEndStops ==
    ASSUME NEW S, NEW s \in Seq(S)
    PROVE  \E n \in 0 .. Len(s) :
              /\ TrimEnd(s) = SubSeq(s, 1, n)
              /\ \A i \in n + 1 .. Len(s) : s[i] = "/"
<1> DEFINE at == {0} \cup {i \in DOMAIN s : s[i] # "/"}
           n == Max(at)
<1>1. Len(s) \in Nat /\ DOMAIN s = 1 .. Len(s)
  BY LenProperties
<1>2. at \in SUBSET (0 .. Len(s)) /\ at # {}
  BY <1>1
<1>3. n \in at /\ \A i \in at : i <= n
  BY <1>1, <1>2, MaxOfBounded
<1>4. n \in 0 .. Len(s)
  BY <1>2, <1>3
<1>5. ASSUME NEW i \in n + 1 .. Len(s) PROVE s[i] = "/"
  <2>1. i \in DOMAIN s /\ ~(i <= n)
    BY <1>1, <1>4
  <2>2. i \notin at
    BY <1>3, <2>1
  <2>3. QED
    BY <2>1, <2>2
<1>6. TrimEnd(s) = SubSeq(s, 1, n)
  BY DEF TrimEnd
<1>7. QED
  BY <1>4, <1>5, <1>6

(* What is behind the scheme: from the piece after the first "://".        *)
LEMMA BehindTheScheme ==
    ASSUME NEW S, NEW s \in Seq(S), NEW k \in 1 .. Len(s), s[k] = "://",
           \A i \in 1 .. k - 1 : s[i] # "://"
    PROVE  AfterFirst(s, "://") = SubSeq(s, k + 1, Len(s))
<1>1. Len(s) \in Nat /\ k \in Int
  BY LenProperties
<1>2. k - 1 \in 0 .. Len(s) /\ k - 1 < Len(s) /\ (k - 1) + 1 = k /\ (k - 1) + 2 = k + 1
  BY <1>1
<1>3. (\A i \in 1 .. k - 1 : s[i] \notin {"://"}) /\ s[(k - 1) + 1] \in {"://"}
  BY <1>2
<1> DEFINE m == k - 1
<1>4. /\ m \in 0 .. Len(s) /\ m < Len(s) /\ m + 2 = k + 1
      /\ \A i \in 1 .. m : s[i] \notin {"://"}
      /\ m < Len(s) => s[m + 1] \in {"://"}
  BY <1>2, <1>3
<1> HIDE DEF m
<1>5. Until(s, {"://"}) = SubSeq(s, 1, m)
  BY <1>4, UntilIs
<1>6. Len(SubSeq(s, 1, m)) = m
  <2>1. m \in Int /\ m >= 0 /\ m <= Len(s)
    BY <1>1, <1>4
  <2>2. CASE m = 0
    BY <1>1, <2>1, <2>2, SubSeqProperties
  <2>3. CASE m # 0
    BY <1>1, <2>1, <2>3, SubSeqProperties
  <2>4. QED
    BY <2>2, <2>3
<1>7. QED
  BY <1>4, <1>5, <1>6 DEF AfterFirst

(* The beginning and the rest of a sequence.                               *)
LEMMA Beginning ==
    ASSUME NEW S, NEW s \in Seq(S), NEW n \in 0 .. Len(s)
    PROVE  /\ SubSeq(s, 1, n) \in Seq(S) /\ Len(SubSeq(s, 1, n)) = n
           /\ \A i \in 1 .. n : SubSeq(s, 1, n)[i] = s[i]
<1>1. Len(s) \in Nat /\ \A i \in 1 .. Len(s) : s[i] \in S
  BY LenProperties, ElementOfSeq
<1>2. n \in Int /\ \A i \in 1 .. n : s[i] \in S
  BY <1>1
<1>3. /\ SubSeq(s, 1, n) \in Seq(S)
      /\ Len(SubSeq(s, 1, n)) = IF 1 <= n THEN n - 1 + 1 ELSE 0
      /\ \A i \in 1 .. n - 1 + 1 : SubSeq(s, 1, n)[i] = s[1 + i - 1]
  BY <1>2, SubSeqProperties
<1>4. QED
  BY <1>1, <1>2, <1>3

LEMMA TheRest ==
    ASSUME NEW S, NEW s \in Seq(S), NEW k \in 0 .. Len(s)
    PROVE  /\ SubSeq(s, k + 1, Len(s)) \in Seq(S) /\ Len(SubSeq(s, k + 1, Len(s))) = Len(s) - k
           /\ \A i \in 1 .. Len(s) - k : SubSeq(s, k + 1, Len(s))[i] = s[k + i]
<1> DEFINE a == k + 1  z == Len(s)
<1>1. z \in Nat /\ \A i \in 1 .. z : s[i] \in S
  BY LenProperties, ElementOfSeq
<1>2. a \in Int /\ z \in Int /\ \A i \in a .. z : s[i] \in S
  BY <1>1
<1>3. /\ SubSeq(s, a, z) \in Seq(S)
      /\ Len(SubSeq(s, a, z)) = IF a <= z THEN z - a + 1 ELSE 0
      /\ \A i \in 1 .. z - a + 1 : SubSeq(s, a, z)[i] = s[a + i - 1]
  <2> HIDE DEF a, z
  <2>1. QED
    BY <1>2, SubSeqProperties
<1>4. QED
  BY <1>1, <1>2, <1>3

(* The host of a URL that was glued together is that of its upstream.      *)
LEMMA HostOfUrl ==
    ASSUME NEW S, NEW up \in Seq(S), NEW rest \in Seq(S), NEW more \in Seq(S),
           "://" \in ToSet(up), "?" \notin ToSet(up),
           rest # <<>> => rest[1] = "/",
           more # <<>> => more[1] = "?"
    PROVE  Until(AfterFirst(TrimEnd(up) \o rest \o more, "://"), {"/", "?"}) = UpstreamHost(up)
<1> DEFINE L == Len(up)  R == Len(rest)  M == Len(more)
<1>1. /\ L \in Nat /\ R \in Nat /\ M \in Nat
      /\ DOMAIN up = 1 .. L
      /\ R > 0 => rest # <<>>
      /\ M > 0 => more # <<>>
      /\ L = Len(up) /\ R = Len(rest) /\ M = Len(more)
  BY LenProperties, EmptySeq
<1> HIDE DEF L, R, M
<1>2. PICK n \in 0 .. L : /\ \A i \in 1 .. n : up[i] \notin {"://"}
                          /\ n < L => up[n + 1] \in {"://"}
  BY <1>1, UntilStops
<1>3. n < L
  <2>1. PICK j \in 1 .. L : up[j] = "://"
    BY <1>1 DEF ToSet
  <2>2. ~(j <= n)
    BY <1>2, <2>1
  <2>3. QED
    BY <1>1, <1>2, <2>1, <2>2
<1>4. PICK k \in 1 .. L : k = n + 1
  BY <1>1, <1>3
<1>5. up[k] = "://" /\ \A i \in 1 .. k - 1 : up[i] # "://"
  BY <1>1, <1>2, <1>3, <1>4
<1> DEFINE b == SubSeq(up, k + 1, L)
<1>6. /\ b \in Seq(S) /\ Len(b) = L - k
      /\ \A i \in 1 .. L - k : b[i] = up[k + i]
  <2>1. k \in 0 .. Len(up) /\ L = Len(up)
    BY <1>1
  <2>2. QED
    BY <2>1, TheRest
<1>7. UpstreamHost(up) = Until(b, {"/"})
  <2>1. AfterFirst(up, "://") = b
    BY <1>1, <1>5, BehindTheScheme
  <2>2. QED
    BY <2>1 DEF UpstreamHost
<1> HIDE DEF b
<1>8. PICK h \in 0 .. L - k : /\ Until(b, {"/"}) = SubSeq(b, 1, h)
                              /\ \A i \in 1 .. h : b[i] \notin {"/"}
                              /\ h < L - k => b[h + 1] \in {"/"}
  <2>1. b \in Seq(S)
    BY <1>6
  <2>2. PICK h \in 0 .. Len(b) : /\ Until(b, {"/"}) = SubSeq(b, 1, h)
                                 /\ \A i \in 1 .. h : b[i] \notin {"/"}
                                 /\ h < Len(b) => b[h + 1] \in {"/"}
    BY <2>1, UntilStops
  <2>3. Len(b) = L - k
    BY <1>6
  <2>4. h \in 0 .. L - k /\ (h < L - k => b[h + 1] \in {"/"})
    BY <2>2, <2>3
  <2>5. QED
    BY <2>2, <2>4
<1>9. PICK t \in 0 .. L : /\ TrimEnd(up) = SubSeq(up, 1, t)
                          /\ \A i \in t + 1 .. L : up[i] = "/"
  BY <1>1, TrimEndStops
<1>10. k + h <= t
  <2>1. k + h \in 1 .. L /\ t \in Int
    BY <1>1, <1>8
  <2>2. up[k + h] # "/"
    <3>1. CASE h = 0
      BY <1>5, <3>1
    <3>2. CASE h # 0
      <4>1. h \in 1 .. h /\ h \in 1 .. L - k
        BY <1>8, <3>2
      <4>2. QED
        BY <1>6, <1>8, <4>1
    <3>3. QED
      BY <3>1, <3>2
  <2>3. ~(t < k + h)
    BY <1>9, <2>1, <2>2
  <2>4. QED
    BY <2>1, <2>3
<1> DEFINE trim == SubSeq(up, 1, t)
           u == trim \o rest \o more
<1>11. trim \in Seq(S) /\ Len(trim) = t /\ \A i \in 1 .. t : trim[i] = up[i]
  <2>1. t \in 0 .. Len(up)
    BY <1>1
  <2>2. QED
    BY <2>1, Beginning
<1> HIDE DEF trim
<1>12. /\ u \in Seq(S) /\ Len(u) = t + R + M
       /\ \A i \in 1 .. t : u[i] = up[i]
       /\ R > 0 => u[t + 1] = "/"
       /\ R = 0 /\ M > 0 => u[t + 1] = "?"
  <2> DEFINE v == trim \o rest
  <2>1. /\ v \in Seq(S) /\ Len(v) = t + R
        /\ \A i \in 1 .. t + R : v[i] = IF i <= t THEN trim[i] ELSE rest[i - t]
    BY ZenonT(90), <1>1, <1>11, ConcatProperties
  <2> HIDE DEF v
  <2>2. /\ v \o more \in Seq(S) /\ Len(v \o more) = t + R + M
        /\ \A i \in 1 .. t + R + M :
              (v \o more)[i] = IF i <= t + R THEN v[i] ELSE more[i - (t + R)]
    <3>1. v \in Seq(S) /\ Len(v) = t + R /\ Len(more) = M
      BY <1>1, <2>1
    <3>2. /\ v \o more \in Seq(S) /\ Len(v \o more) = Len(v) + Len(more)
          /\ \A i \in 1 .. Len(v) + Len(more) :
                (v \o more)[i] = IF i <= Len(v) THEN v[i] ELSE more[i - Len(v)]
      BY ZenonT(90), <3>1, ConcatProperties
    <3>3. QED
      BY <3>1, <3>2
  <2>3. u = v \o more
    BY DEF v
  <2> HIDE DEF u
  <2>4. \A i \in 1 .. t : u[i] = up[i]
    BY <1>1, <1>9, <1>11, <2>1, <2>2, <2>3
  <2>5. ASSUME R > 0 PROVE u[t + 1] = "/"
    <3>1. t + 1 \in 1 .. t + R /\ t + 1 \in 1 .. t + R + M /\ t + 1 <= t + R /\ ~(t + 1 <= t) /\ (t + 1) - t = 1
      BY <1>1, <1>9, <2>5
    <3>2. QED
      BY <1>1, <2>1, <2>2, <2>3, <2>5, <3>1
  <2>6. ASSUME R = 0, M > 0 PROVE u[t + 1] = "?"
    <3>1. t + 1 \in 1 .. t + R + M /\ ~(t + 1 <= t + R) /\ (t + 1) - (t + R) = 1
      BY <1>1, <1>9, <2>6
    <3>2. QED
      BY <1>1, <2>2, <2>3, <2>6, <3>1
  <2>7. QED
    BY <2>2, <2>3, <2>4, <2>5, <2>6
<1> HIDE DEF u
<1> DEFINE w == Len(u)
           c == SubSeq(u, k + 1, w)
<1>13. w \in Nat /\ w = t + R + M /\ k \in 1 .. w /\ k <= t /\ h <= t - k
  BY <1>1, <1>8, <1>9, <1>10, <1>12
<1>14. AfterFirst(u, "://") = c
  <2>1. u[k] = "://" /\ \A i \in 1 .. k - 1 : u[i] # "://"
    BY SMTT(60), <1>5, <1>9, <1>12, <1>13
  <2>2. QED
    BY <1>12, <1>13, <2>1, BehindTheScheme
<1>15. /\ c \in Seq(S) /\ Len(c) = w - k
       /\ \A i \in 1 .. w - k : c[i] = u[k + i]
  <2>1. k \in 0 .. Len(u) /\ u \in Seq(S)
    BY <1>12, <1>13
  <2>2. QED
    BY <2>1, TheRest
<1> HIDE DEF c, w
<1>16. \A i \in 1 .. h : c[i] = b[i] /\ c[i] \notin {"/", "?"}
  <2> SUFFICES ASSUME NEW i \in 1 .. h PROVE c[i] = b[i] /\ c[i] \notin {"/", "?"}
    OBVIOUS
  <2>1. /\ i \in 1 .. w - k /\ i \in 1 .. L - k /\ k + i \in 1 .. t /\ k + i \in 1 .. L
    BY SMTT(60), <1>1, <1>8, <1>9, <1>10, <1>13
  <2>2. c[i] = up[k + i] /\ b[i] = up[k + i]
    BY <1>6, <1>12, <1>15, <2>1
  <2>3. up[k + i] # "?"
    BY <1>1, <2>1 DEF ToSet
  <2>4. QED
    BY <1>8, <2>2, <2>3
<1>17. h < w - k => c[h + 1] \in {"/", "?"}
  <2> SUFFICES ASSUME h < w - k PROVE c[h + 1] \in {"/", "?"}
    OBVIOUS
  <2>1. h + 1 \in 1 .. w - k /\ c[h + 1] = u[k + (h + 1)] /\ k + (h + 1) = (k + h) + 1
    BY SMTT(60), <1>1, <1>8, <1>13, <1>15
  <2>2. CASE k + h < t
    <3>1. h < L - k /\ h + 1 \in 1 .. L - k /\ k + (h + 1) \in 1 .. t
      BY <1>1, <1>8, <1>9, <2>2
    <3>2. QED
      BY <1>6, <1>8, <1>12, <2>1, <3>1
  <2>3. CASE k + h = t
    <3>1. R > 0 \/ (R = 0 /\ M > 0)
      BY <1>1, <1>9, <1>13, <2>3
    <3>2. QED
      BY <1>12, <2>1, <2>3, <3>1
  <2>4. QED
    BY <1>1, <1>8, <1>9, <1>10, <2>2, <2>3
<1>18. Until(c, {"/", "?"}) = SubSeq(c, 1, h)
  <2>1. h \in 0 .. Len(c)
    BY SMTT(60), <1>8, <1>13, <1>15, <1>1, <1>9
  <2>2. QED
    <3>1. c \in Seq(S) /\ h < Len(c) => c[h + 1] \in {"/", "?"}
      BY <1>15, <1>17
    <3>2. c \in Seq(S) /\ \A i \in 1 .. h : c[i] \notin {"/", "?"}
      BY <1>15, <1>16
    <3>3. QED
      BY <2>1, <3>1, <3>2, UntilIs
<1>19. SubSeq(c, 1, h) = SubSeq(b, 1, h)
  <2>1. h \in 0 .. Len(c) /\ h \in 0 .. Len(b)
    BY <1>8, <1>13, <1>15, <1>1, <1>9, <1>6
  <2>2. /\ SubSeq(c, 1, h) \in Seq(S) /\ Len(SubSeq(c, 1, h)) = h
        /\ \A i \in 1 .. h : SubSeq(c, 1, h)[i] = c[i]
    BY <1>15, <2>1, Beginning
  <2>3. /\ SubSeq(b, 1, h) \in Seq(S) /\ Len(SubSeq(b, 1, h)) = h
        /\ \A i \in 1 .. h : SubSeq(b, 1, h)[i] = b[i]
    BY <1>6, <2>1, Beginning
  <2>4. \A i \in 1 .. h : SubSeq(c, 1, h)[i] = SubSeq(b, 1, h)[i]
    BY <1>16, <2>2, <2>3
  <2>5. QED
    BY <2>2, <2>3, <2>4, SeqEqual
<1>20. TrimEnd(up) \o rest \o more = u
  BY <1>9 DEF u, trim
<1>21. QED
  BY <1>7, <1>8, <1>14, <1>18, <1>19, <1>20

-----------------------------------------------------------------------------
(* The inductive invariant: whoever has a context or a message has a       *)
(* provider, the context names its host, and the message goes to its URL.  *)
Chosen == phase \in {"inspected", "sent"} \/ context # <<>> \/ sent # <<>> => Matching # {}
Named == context # <<>> => context[1].target_host = UpstreamHost(Provider.upstream)
Addressed == \A i \in DOMAIN sent : sent[i].url = Url
FInv ==
    /\ table \in Tables /\ request \in Requests
    /\ Chosen /\ Named /\ Addressed

LEMMA FInvAtFirst == ForwardingInit => FInv
BY DEF ForwardingInit, FInv, Chosen, Named, Addressed

LEMMA FInvIsKept == FInv /\ [ForwardingNext]_exchange => FInv'
<1> SUFFICES ASSUME FInv, [ForwardingNext]_exchange PROVE FInv'
  OBVIOUS
<1>1. UNCHANGED <<table, request>> => Matching' = Matching
  BY DEF Matching
<1>2. UNCHANGED <<table, request>> => Provider' = Provider
  BY <1>1 DEF Provider
<1>3. UNCHANGED <<table, request>> => Url' = Url
  BY <1>2 DEF Url
<1> USE DEF FInv, Chosen, Named, Addressed
<1>4. CASE NotFound
  BY <1>1, <1>2, <1>3, <1>4 DEF NotFound, Finish
<1>5. CASE BodyUnread
  BY <1>1, <1>2, <1>3, <1>5 DEF BodyUnread, Finish
<1>6. CASE PassUninspected
  BY <1>1, <1>2, <1>3, <1>6 DEF PassUninspected
<1>7. CASE Inspect
  <2>1. /\ UNCHANGED <<table, request, sent>> /\ Matching # {}
        /\ context'[1].target_host = UpstreamHost(Provider.upstream)
    BY <1>7 DEF Inspect
  <2>2. QED
    BY <1>1, <1>2, <1>3, <2>1
<1>8. CASE Send
  <2>1. /\ UNCHANGED <<table, request, context>> /\ Matching # {}
        /\ \A i \in DOMAIN sent' : sent'[i].url = Url
    BY <1>8 DEF Send
  <2>2. QED
    BY <1>1, <1>2, <1>3, <2>1
<1>9. CASE Unreachable
  BY <1>1, <1>2, <1>3, <1>9 DEF Unreachable, Finish
<1>10. ASSUME NEW lines \in Answers, Relay(lines) PROVE FInv'
  BY <1>1, <1>2, <1>3, <1>10 DEF Relay
<1>11. CASE UNCHANGED exchange
  BY <1>1, <1>2, <1>3, <1>11 DEF exchange
<1>12. QED
  BY <1>4, <1>5, <1>6, <1>7, <1>8, <1>9, <1>10, <1>11 DEF ForwardingNext

(* The provider is one of the configured ones.                             *)
LEMMA ProviderIsConfigured ==
    ASSUME FInv, Matching # {}
    PROVE  Provider.prefix \in Seq(STRING) /\ IsBaseUrl(Provider.upstream)
<1>1. table \in Seq(ToSet(table)) /\ table \in Tables
  BY TablesAssumption DEF FInv
<1>2. DOMAIN table = 1 .. Len(table) /\ Len(table) \in Nat
  BY <1>1, LenProperties
<1>3. Matching \in SUBSET Nat
  BY <1>2 DEF Matching
<1>4. Min(Matching) \in Matching
  BY <1>3, MinOfSome
<1>5. Min(Matching) \in DOMAIN table
  BY <1>4 DEF Matching
<1>6. Provider \in ToSet(table)
  BY <1>5 DEF Provider, ToSet
<1>7. QED
  BY <1>1, <1>6, TablesAssumption

LEMMA DestinationIsNamed == FInv => TheTrailNamesTheDestination
<1> DEFINE rest == SubSeq(request.path, Len(Provider.prefix) + 1, Len(request.path))
           more == IF request.query = <<>> THEN <<>> ELSE <<"?">> \o request.query
           S == STRING \cup {"?"}
           up == Provider.upstream
<1> SUFFICES ASSUME FInv, NEW i \in DOMAIN sent, context # <<>>, rest = <<>> \/ Head(rest) = "/"
             PROVE  context[1].target_host = Until(AfterFirst(sent[i].url, "://"), {"/", "?"})
  BY DEF TheTrailNamesTheDestination
<1>1. Matching # {} /\ context[1].target_host = UpstreamHost(up) /\ sent[i].url = Url
  BY DEF FInv, Chosen, Named, Addressed
<1>2. Provider.prefix \in Seq(STRING) /\ IsBaseUrl(up)
  BY <1>1, ProviderIsConfigured
<1>3. request.path \in Seq(STRING) /\ request.query \in Seq(STRING)
  BY RequestsAssumption DEF FInv
<1>4. \A s \in Seq(STRING) : s \in Seq(S)
  <2>1. STRING \subseteq S
    OBVIOUS
  <2>2. QED
    BY <2>1, SeqMonotonic
<1>5. rest \in Seq(S) /\ (rest # <<>> => rest[1] = "/")
  <2>1. Len(Provider.prefix) \in Nat /\ Len(request.path) \in Nat
    BY <1>2, <1>3, LenProperties
  <2>2. \A j \in 1 .. Len(request.path) : request.path[j] \in STRING
    BY <1>3, ElementOfSeq
  <2> DEFINE a == Len(Provider.prefix) + 1  z == Len(request.path)
  <2>3. a \in Int /\ z \in Int /\ \A j \in a .. z : request.path[j] \in STRING
    BY <2>1, <2>2
  <2>4. SubSeq(request.path, a, z) \in Seq(STRING)
    <3> HIDE DEF a, z
    <3>1. QED
      BY <2>3, SubSeqProperties
  <2>5. rest \in Seq(STRING)
    BY <2>4
  <2>6. rest # <<>> => Head(rest) = "/"
    OBVIOUS
  <2> HIDE DEF rest
  <2>7. rest # <<>> => Head(rest) = rest[1]
    BY <2>5, HeadTailProperties
  <2>8. QED
    BY <1>4, <2>5, <2>6, <2>7
<1> HIDE DEF rest
<1>6. more \in Seq(S) /\ (more # <<>> => more[1] = "?")
  <2>1. CASE request.query = <<>>
    BY <1>4, <2>1
  <2>2. CASE request.query # <<>>
    <3>1. <<"?">> \in Seq(S) /\ Len(<<"?">>) = 1 /\ <<"?">>[1] = "?"
      OBVIOUS
    <3>2. request.query \in Seq(S) /\ Len(request.query) \in Nat
      BY <1>3, <1>4, LenProperties
    <3> DEFINE q == <<"?">>  r == request.query
    <3>3. more = q \o r
      BY <2>2
    <3>4. q \in Seq(S) /\ Len(q) = 1 /\ q[1] = "?" /\ r \in Seq(S) /\ Len(r) \in Nat
      BY <3>1, <3>2
    <3> HIDE DEF q, r, more, S
    <3>5. /\ q \o r \in Seq(S)
          /\ \A j \in 1 .. Len(q) + Len(r) : (q \o r)[j] = IF j <= Len(q) THEN q[j] ELSE r[j - Len(q)]
      BY <3>4, ConcatProperties
    <3>6. 1 \in 1 .. Len(q) + Len(r) /\ 1 <= Len(q)
      BY <3>4
    <3>7. QED
      BY <3>3, <3>4, <3>5, <3>6
  <2>3. QED
    BY <2>1, <2>2
<1>7. Url = TrimEnd(up) \o rest \o more
  BY DEF Url, rest
<1> HIDE DEF more
<1>8. up \in Seq(S) /\ "://" \in ToSet(up) /\ "?" \notin ToSet(up)
  BY <1>2, <1>4 DEF IsBaseUrl
<1> HIDE DEF S, up
<1>9. Until(AfterFirst(TrimEnd(up) \o rest \o more, "://"), {"/", "?"}) = UpstreamHost(up)
  BY <1>5, <1>6, <1>8, HostOfUrl
<1>10. QED
  BY <1>1, <1>7, <1>9

(* For any providers in any order whose upstreams are base URLs, and any   *)
(* paths and queries, the trail names the host the request is sent to.     *)
THEOREM DestinationIsTold == ForwardingSpec => []TheTrailNamesTheDestination
BY FInvAtFirst, FInvIsKept, DestinationIsNamed, PTL DEF ForwardingSpec
=============================================================================
