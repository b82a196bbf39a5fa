---------------------------- MODULE Layer1_proofs ----------------------------
(***************************************************************************)
(* Layer 1, from the text to the placeholders, for texts of any length.    *)
(* The scan (deterministic.rs): what each scan says of what it matches, so *)
(* that no finding is a window inside a longer token; then that nothing    *)
(* set off is stepped over; then that its checksums notice a wrong digit.  *)
(* The masking (mask_spans), for any number of findings that overlap in    *)
(* any way: nothing but findings is replaced, and none is left whole.      *)
(***************************************************************************)
EXTENDS Scanner, Masking, DataLemmas

LEMMA RunEnds ==
    ASSUME text \in Seq(Character), NEW i \in Nat \ {0}, i <= Len(text) + 1, NEW S
    PROVE  /\ EndOfRun(i, S) \in i .. Len(text) + 1
           /\ \A j \in i .. EndOfRun(i, S) - 1 : j \in DOMAIN text /\ text[j] \in S
           /\ EndOfRun(i, S) <= Len(text) => text[EndOfRun(i, S)] \notin S
<1> DEFINE R == {j \in i .. Len(text) + 1 : j > Len(text) \/ text[j] \notin S}
           e == EndOfRun(i, S)
<1>1. Len(text) \in Nat /\ DOMAIN text = 1 .. Len(text)
  BY LenProperties
<1>2. Len(text) + 1 \in R /\ R \in SUBSET Nat
  BY <1>1
<1>3. e = Min(R)
  BY DEF EndOfRun
<1> HIDE DEF e
<1>4. e \in R /\ \A y \in R : e <= y
  <2> HIDE DEF R
  <2> QED BY <1>2, <1>3, MinOfSome
<1>5. e \in i .. Len(text) + 1 /\ (e <= Len(text) => text[e] \notin S)
  BY <1>1, <1>4
<1>6. ASSUME NEW j \in i .. e - 1 PROVE j \in DOMAIN text /\ text[j] \in S
  <2>1. j \in i .. Len(text) + 1 /\ j < e /\ j \in 1 .. Len(text)
    BY <1>1, <1>5
  <2>2. j \notin R
    <3> HIDE DEF R
    <3> QED BY <1>4, <1>5, <2>1
  <2> QED BY <1>1, <2>1, <2>2
<1> QED BY <1>5, <1>6 DEF e

LEMMA NumberEnds ==
    ASSUME text \in Seq(Character), NEW i \in Nat \ {0}, i <= Len(text) + 1
    PROVE  /\ NumberEnd(i) \in i - 1 .. Len(text)
           /\ \A j \in i .. NumberEnd(i) : InNumber(i, j)
           /\ \/ ~InNumber(i, NumberEnd(i) + 1)
              \/ Len(DigitsIn(i, NumberEnd(i))) > MaxDigits
           /\ \A to \in i - 1 .. NumberEnd(i) - 1 :
                 InNumber(i, to + 1) /\ ~(Len(DigitsIn(i, to)) > MaxDigits)
<1> DEFINE whole(to) == \A j \in i .. to : InNumber(i, j)
           stops(to) == \/ ~InNumber(i, to + 1)
                        \/ Len(DigitsIn(i, to)) > MaxDigits
           N == {to \in i - 1 .. Len(text) : whole(to) /\ stops(to)}
           R == {j \in i .. Len(text) + 1 : ~InNumber(i, j)}
           e == NumberEnd(i)
<1>1. Len(text) \in Nat /\ DOMAIN text = 1 .. Len(text)
  BY LenProperties
<1>2. ~InNumber(i, Len(text) + 1)
  BY <1>1 DEF InNumber, Is
<1>3. R \in SUBSET Nat /\ Len(text) + 1 \in R
  BY <1>1, <1>2
<1> HIDE DEF R
<1>4. Min(R) \in R /\ \A y \in R : Min(R) <= y
  BY <1>3, MinOfSome
<1>5. Min(R) - 1 \in N
  <2>1. Min(R) \in i .. Len(text) + 1 /\ ~InNumber(i, Min(R))
    BY <1>4 DEF R
  <2>2. Min(R) - 1 \in i - 1 .. Len(text) /\ (Min(R) - 1) + 1 = Min(R)
    BY <1>1, <2>1
  <2>3. ASSUME NEW j \in i .. Min(R) - 1 PROVE InNumber(i, j)
    <3>1. j \in i .. Len(text) + 1 /\ j < Min(R)
      BY <1>1, <2>1
    <3>2. j \notin R
      BY <1>4, <2>1, <3>1
    <3> QED BY <3>1, <3>2 DEF R
  <2> QED BY <2>1, <2>2, <2>3
<1>6. N \in SUBSET Nat
  BY <1>1
<1>7. e = Min(N)
  BY DEF NumberEnd
<1> HIDE DEF e
<1>8. e \in N /\ \A y \in N : e <= y
  <2> HIDE DEF N
  <2> QED BY <1>5, <1>6, <1>7, MinOfSome
<1>9. e \in i - 1 .. Len(text) /\ whole(e) /\ stops(e)
  BY <1>8
<1>10. ASSUME NEW to \in i - 1 .. e - 1 PROVE ~stops(to)
  <2>1. to \in i - 1 .. Len(text) /\ to < e /\ whole(to)
    BY <1>1, <1>9
  <2>2. to \notin N
    <3> HIDE DEF N
    <3> QED BY <1>8, <1>9, <2>1
  <2> QED BY <2>1, <2>2
<1> QED BY <1>9, <1>10 DEF e

-----------------------------------------------------------------------------
(* What each scan tells of what it matches.                                *)
LEMMA Stretch ==
    ASSUME text \in Seq(Character), NEW a \in Nat \ {0}, NEW b \in Nat, b <= Len(text)
    PROVE  /\ SubSeq(text, a, b) \in Seq(Character)
           /\ Len(SubSeq(text, a, b)) = IF a <= b THEN b - a + 1 ELSE 0
           /\ \A k \in 1 .. b - a + 1 : SubSeq(text, a, b)[k] = text[a + k - 1]
<1>1. Len(text) \in Nat
  BY LenProperties
<1>2. \A j \in a .. b : j \in 1 .. Len(text)
  BY <1>1
<1>3. \A j \in a .. b : text[j] \in Character
  BY <1>2, ElementOfSeq
<1> QED BY <1>3, SubSeqProperties

LEMMA DigitsOfNothing ==
    ASSUME NEW a \in Int, NEW b \in Int, b < a PROVE DigitsIn(a, b) = <<>> /\ Len(DigitsIn(a, b)) = 0
<1>1. SubSeq(text, a, b) = <<>>
  BY SubSeqEmpty
<1> QED BY <1>1, KeptOfNone, EmptySeq DEF DigitsIn

LEMMA PhoneMatch ==
    ASSUME text \in Seq(Character), NEW i \in 1 .. Len(text), NEW f \in ScanPhoneWithPrefix(i)
    PROVE  /\ f.from = i /\ f.kind = "phone_pl" /\ f.to <= Len(text) /\ EndsToken(f.to)
           /\ \E after \in {i + 3, i + 4} :
                 /\ f.to = NumberEnd(after) /\ f.to \in after .. Len(text)
                 /\ \A j \in i + 1 .. after - 1 : text[j] \in Digit
                 /\ text[i] \in {0, Plus}
<1>1. Len(text) \in Nat /\ i \in Nat \ {0} /\ i <= Len(text)
  BY LenProperties
<1>2. ASSUME NEW n \in {3, 4}, Len(Slice(i, n)) = n
      PROVE  i + n - 1 <= Len(text) /\ \A k \in 1 .. n : Slice(i, n)[k] = text[i + k - 1]
  <2> DEFINE m == Min({i + n - 1, Len(text)})
  <2>1. m \in {i + n - 1, Len(text)} /\ m <= i + n - 1 /\ m <= Len(text)
    <3>1. {i + n - 1, Len(text)} \in SUBSET Nat /\ {i + n - 1, Len(text)} # {}
      BY <1>1
    <3> QED BY <3>1, MinOfSome
  <2>2. Slice(i, n) = SubSeq(text, i, m)
    BY DEF Slice
  <2> HIDE DEF m
  <2>3. m \in Nat /\ Len(Slice(i, n)) = IF i <= m THEN m - i + 1 ELSE 0
    BY <1>1, <2>1, <2>2, Stretch
  <2>4. m - i + 1 = n
    BY <1>1, <1>2, <2>1, <2>3
  <2>5. \A k \in 1 .. m - i + 1 : SubSeq(text, i, m)[k] = text[i + k - 1]
    BY <1>1, <2>1, <2>3, Stretch
  <2> QED BY <1>1, <2>1, <2>2, <2>4, <2>5
<1>3. ASSUME NEW after \in {i + 3, i + 4}, after <= Len(text) + 1, f \in PhoneFrom(i, after)
      PROVE  /\ f.from = i /\ f.kind = "phone_pl" /\ f.to <= Len(text) /\ EndsToken(f.to)
             /\ f.to = NumberEnd(after) /\ f.to \in after .. Len(text)
  <2>1. /\ f = [from |-> i, to |-> NumberEnd(after), kind |-> "phone_pl", evidence |-> "pattern"]
        /\ Len(DigitsIn(after, NumberEnd(after))) = 9 /\ EndsToken(NumberEnd(after))
    BY <1>3 DEF PhoneFrom, Match, NoMatch
  <2>2. after \in Nat \ {0} /\ NumberEnd(after) \in after - 1 .. Len(text)
    BY <1>1, <1>3, NumberEnds
  <2>3. ~(NumberEnd(after) < after)
    <3>1. NumberEnd(after) \in Int /\ after \in Int
      BY <1>1, <2>2
    <3> QED BY SMTT(60), <2>1, <3>1, DigitsOfNothing
  <2> QED BY <1>1, <2>1, <2>2, <2>3
<1>4. CASE Slice(i, 3) = <<Plus, 4, 8>>
  <2>1. i + 2 <= Len(text) /\ text[i] = Plus /\ text[i + 1] = 4 /\ text[i + 2] = 8
    <3>1. Len(Slice(i, 3)) = 3 /\ Slice(i, 3)[1] = Plus /\ Slice(i, 3)[2] = 4 /\ Slice(i, 3)[3] = 8
      BY <1>4
    <3>2. i + 3 - 1 <= Len(text) /\ \A k \in 1 .. 3 : Slice(i, 3)[k] = text[i + k - 1]
      BY <1>2, <3>1
    <3>3. text[i + 1 - 1] = Plus /\ text[i + 2 - 1] = 4 /\ text[i + 3 - 1] = 8
      BY <3>1, <3>2
    <3>4. i + 1 - 1 = i /\ i + 2 - 1 = i + 1 /\ i + 3 - 1 = i + 2
      BY <1>1
    <3> QED BY <3>2, <3>3, <3>4
  <2>2. f \in PhoneFrom(i, i + 3)
    <3>1. Slice(i, 4) # <<0, 0, 4, 8>>
      <4> SUFFICES ASSUME Slice(i, 4) = <<0, 0, 4, 8>> PROVE FALSE
        OBVIOUS
      <4>1. Len(Slice(i, 4)) = 4 /\ Slice(i, 4)[1] = 0
        OBVIOUS
      <4>2. Slice(i, 4)[1] = text[i + 1 - 1]
        BY <1>2, <4>1
      <4>3. i + 1 - 1 = i
        BY <1>1
      <4> QED BY <2>1, <4>1, <4>2, <4>3 DEF Plus
    <3> QED BY <1>4, <3>1 DEF ScanPhoneWithPrefix
  <2>3. i + 3 <= Len(text) + 1 /\ \A j \in i + 1 .. i + 3 - 1 : j = i + 1 \/ j = i + 2
    BY <1>1, <2>1
  <2>4. \A j \in i + 1 .. i + 3 - 1 : text[j] \in Digit
    BY SMTT(60), <2>1, <2>3 DEF Digit
  <2> QED BY <1>3, <2>1, <2>2, <2>3, <2>4
<1>5. CASE Slice(i, 4) = <<0, 0, 4, 8>> /\ Slice(i, 3) # <<Plus, 4, 8>>
  <2>1. /\ i + 3 <= Len(text) /\ text[i] = 0 /\ text[i + 1] = 0 /\ text[i + 2] = 4 /\ text[i + 3] = 8
    <3>1. /\ Len(Slice(i, 4)) = 4 /\ Slice(i, 4)[1] = 0 /\ Slice(i, 4)[2] = 0
          /\ Slice(i, 4)[3] = 4 /\ Slice(i, 4)[4] = 8
      BY <1>5
    <3>2. i + 4 - 1 <= Len(text) /\ \A k \in 1 .. 4 : Slice(i, 4)[k] = text[i + k - 1]
      BY <1>2, <3>1
    <3>3. /\ text[i + 1 - 1] = 0 /\ text[i + 2 - 1] = 0 /\ text[i + 3 - 1] = 4
          /\ text[i + 4 - 1] = 8
      BY <3>1, <3>2
    <3>4. i + 1 - 1 = i /\ i + 2 - 1 = i + 1 /\ i + 3 - 1 = i + 2 /\ i + 4 - 1 = i + 3
      BY <1>1
    <3> QED BY <3>2, <3>3, <3>4
  <2>2. f \in PhoneFrom(i, i + 4)
    BY <1>5 DEF ScanPhoneWithPrefix
  <2>3. i + 4 <= Len(text) + 1 /\ \A j \in i + 1 .. i + 4 - 1 : j = i + 1 \/ j = i + 2 \/ j = i + 3
    BY <1>1, <2>1
  <2>4. \A j \in i + 1 .. i + 4 - 1 : text[j] \in Digit
    BY SMTT(60), <2>1, <2>3 DEF Digit
  <2> QED BY <1>3, <2>1, <2>2, <2>3, <2>4
<1>6. CASE Slice(i, 4) # <<0, 0, 4, 8>> /\ Slice(i, 3) # <<Plus, 4, 8>>
  BY <1>6 DEF ScanPhoneWithPrefix, NoMatch
<1> QED BY <1>4, <1>5, <1>6

LEMMA NumberMatch ==
    ASSUME text \in Seq(Character), NEW i \in 1 .. Len(text), NEW f \in ScanNumber(i)
    PROVE  LET d == DigitsIn(i, f.to)
           IN  /\ f.from = i /\ f.to = NumberEnd(i) /\ f.to \in i .. Len(text) /\ EndsToken(f.to)
               /\ Len(d) \in 1 .. MaxDigits
               /\ \/ f.kind = "pesel" /\ Pesel(d)
                  \/ f.kind = "nip" /\ Nip(d)
                  \/ f.kind = "payment_card" /\ Luhn(d)
                  \/ f.kind \in {"regon", "phone_pl"}
<1> DEFINE to == NumberEnd(i)
           d == DigitsIn(i, to)
           kind == KindOfNumber(d, Len(d) < to - i + 1)
<1>1. /\ EndsToken(to) /\ Len(d) \in 1 .. MaxDigits /\ kind # <<>>
      /\ f = [from |-> i, to |-> to, kind |-> kind[1], evidence |-> kind[2]]
  BY DEF ScanNumber, Match, NoMatch
<1>2. Len(text) \in Nat /\ i \in Nat \ {0} /\ i <= Len(text) + 1 /\ i \in Int
  BY LenProperties
<1>3. to \in i - 1 .. Len(text)
  BY <1>2, NumberEnds
<1>4. to \in i .. Len(text)
  <2>1. Len(DigitsIn(i, to)) # 0
    BY <1>1
  <2> HIDE DEF to
  <2>2. to \in Int
    BY <1>2, <1>3
  <2>3. ~(to < i)
    BY <1>2, <2>1, <2>2, DigitsOfNothing
  <2> QED BY <1>2, <1>3, <2>2, <2>3
<1>5. \/ kind[1] = "pesel" /\ Pesel(d)
      \/ kind[1] = "nip" /\ Nip(d)
      \/ kind[1] = "payment_card" /\ Luhn(d)
      \/ kind[1] \in {"regon", "phone_pl"}
  <2> HIDE DEF d, to
  <2> QED BY <1>1 DEF KindOfNumber
<1> HIDE DEF kind
<1>6. f.from = i /\ f.to = to /\ f.kind = kind[1]
  BY <1>1
<1> QED BY <1>1, <1>4, <1>5, <1>6

LEMMA VatMatch ==
    ASSUME text \in Seq(Character), NEW i \in 1 .. Len(text), NEW f \in ScanVatEu(i)
    PROVE  /\ f.from = i /\ f.to \in i + 1 .. Len(text) /\ EndsToken(f.to)
           /\ \A j \in i .. f.to : Is(j, Alphanumeric)
           /\ text[i] \in Capital /\ text[i + 1] \in Capital
           /\ \/ f.kind = "vat_eu"
              \/ f.kind = "nip" /\ LET part == SubSeq(text, i + 2, f.to)
                                   IN ToSet(part) \subseteq Digit /\ Nip(part)
<1> DEFINE e == EndOfRun(i + 2, Alphanumeric)
           last == Min({e - 1, i + 2 + MaxVatPart})
           part == SubSeq(text, i + 2, last)
<1>1. Len(text) \in Nat /\ DOMAIN text = 1 .. Len(text)
  BY LenProperties
<1>2. /\ Is(i, Capital) /\ Is(i + 1, Capital) /\ EndsToken(last)
      /\ f.from = i /\ f.to = last
      /\ \/ f.kind = "vat_eu"
         \/ f.kind = "nip" /\ ToSet(part) \subseteq Digit /\ Nip(part)
  <2>1. f \in IF ~(Is(i, Capital) /\ Is(i + 1, Capital) /\ EndsToken(last)) THEN NoMatch
              ELSE IF Country(i) = "PL"
              THEN IF Len(part) = 10 /\ ToSet(part) \subseteq Digit /\ Nip(part)
                   THEN Match(i, last, "nip", "checksum") ELSE NoMatch
              ELSE IF VatNationalPartIsValid(Country(i), part)
                   THEN Match(i, last, "vat_eu", "pattern") ELSE NoMatch
    BY DEF ScanVatEu
  <2> HIDE DEF e, last, part
  <2>2. Is(i, Capital) /\ Is(i + 1, Capital) /\ EndsToken(last)
    BY <2>1 DEF NoMatch
  <2>3. \/ /\ ToSet(part) \subseteq Digit /\ Nip(part)
           /\ f = [from |-> i, to |-> last, kind |-> "nip", evidence |-> "checksum"]
        \/ f = [from |-> i, to |-> last, kind |-> "vat_eu", evidence |-> "pattern"]
    BY <2>1, <2>2 DEF Match, NoMatch
  <2> QED BY <2>2, <2>3
<1>3. i + 1 <= Len(text) /\ i + 2 \in Nat \ {0} /\ i + 2 <= Len(text) + 1
      /\ text[i] \in Capital /\ text[i + 1] \in Capital
  BY <1>1, <1>2 DEF Is
<1>4. /\ e \in i + 2 .. Len(text) + 1
      /\ \A j \in i + 2 .. e - 1 : j \in DOMAIN text /\ text[j] \in Alphanumeric
  BY <1>3, RunEnds
<1> HIDE DEF e
<1>5. last \in {e - 1, i + 2 + MaxVatPart} /\ last <= e - 1
  <2>1. {e - 1, i + 2 + MaxVatPart} \in SUBSET Nat /\ {e - 1, i + 2 + MaxVatPart} # {}
    BY <1>1, <1>4 DEF MaxVatPart
  <2>2. e - 1 \in {e - 1, i + 2 + MaxVatPart}
    OBVIOUS
  <2> QED BY <2>1, <2>2, MinOfSome
<1>6. last \in i + 1 .. Len(text) /\ last <= e - 1
  <2> HIDE DEF last
  <2> QED BY <1>1, <1>4, <1>5 DEF MaxVatPart
<1> HIDE DEF last
<1>7. ASSUME NEW j \in i .. last PROVE Is(j, Alphanumeric)
  <2>1. j = i \/ j = i + 1 \/ j \in i + 2 .. e - 1
    BY <1>1, <1>4, <1>6
  <2>2. i \in DOMAIN text /\ i + 1 \in DOMAIN text
    BY <1>1, <1>3
  <2> QED BY <1>3, <1>4, <2>1, <2>2 DEF Is, Alphanumeric, Letter
<1> QED BY <1>2, <1>3, <1>6, <1>7

LEMMA IbanMatch ==
    ASSUME text \in Seq(Character), NEW i \in 1 .. Len(text), NEW f \in ScanIban(i)
    PROVE  /\ f.from = i /\ f.kind = "iban" /\ f.to \in i .. Len(text) /\ EndsToken(f.to)
           /\ Iban(Compact(i, f.to))
           /\ \A j \in i .. f.to : \/ Is(j, Alphanumeric)
                                   \/ Is(j, {Space}) /\ j > i /\ Is(j - 1, Alphanumeric)
<1> DEFINE InGroup(j) == Is(j, IF (j - i) % 5 = 4 THEN {Space} ELSE Alphanumeric)
           GroupStarts(k) == (k - i) % 5 = 0 /\ \A j \in i .. k : InGroup(j)
           M == {i} \cup {k \in i .. Len(text) : GroupStarts(k)}
           m == Max(M)
           end == GroupEnd(m)
           E == {end} \cup {to \in i .. end : Len(Compact(i, to)) = MaxIban}
           to == IbanEnd(i)
<1>1. Len(text) \in Nat /\ DOMAIN text = 1 .. Len(text)
  BY LenProperties
<1>2. /\ Is(i, Capital) /\ EndsToken(to) /\ Iban(Compact(i, to))
      /\ f = [from |-> i, to |-> to, kind |-> "iban", evidence |-> "checksum"]
  BY DEF ScanIban, Match, NoMatch
<1>3. to = Min(E)
  BY DEF IbanEnd
<1> HIDE DEF to
<1>4. m \in M
  <2>1. M \in SUBSET (0 .. Len(text)) /\ M # {}
    BY <1>1
  <2> HIDE DEF M
  <2> QED BY <1>1, <2>1, MaxOfBounded
<1>5. /\ m \in i .. Len(text) /\ Is(m, Alphanumeric)
      /\ \A j \in i .. m - 1 : InGroup(j)
  <2>1. CASE m = i
    <3>2. Is(i, Alphanumeric)
      BY <1>2 DEF Is, Alphanumeric, Letter
    <3> HIDE DEF m
    <3>1. m \in i .. Len(text) /\ \A j \in i .. m - 1 : FALSE
      BY <1>1, <2>1
    <3> QED BY <2>1, <3>1, <3>2
  <2>2. CASE m \in i .. Len(text) /\ GroupStarts(m)
    <3> HIDE DEF m
    <3>1. m \in i .. m /\ (m - i) % 5 # 4 /\ \A j \in i .. m - 1 : j \in i .. m
      BY <1>1, <2>2
    <3> QED BY <2>2, <3>1
  <2> HIDE DEF m
  <2> QED BY <1>4, <2>1, <2>2
<1> HIDE DEF m
<1>6. /\ end \in m .. Len(text)
      /\ \A j \in m .. end : Is(j, Alphanumeric)
  <2>1. m \in Nat \ {0} /\ m <= Len(text) + 1
    BY <1>1, <1>5
  <2>2. /\ EndOfRun(m, Alphanumeric) \in m .. Len(text) + 1
        /\ \A j \in m .. EndOfRun(m, Alphanumeric) - 1 : j \in DOMAIN text /\ text[j] \in Alphanumeric
        /\ EndOfRun(m, Alphanumeric) <= Len(text) => text[EndOfRun(m, Alphanumeric)] \notin Alphanumeric
    BY <2>1, RunEnds
  <2>3. EndOfRun(m, Alphanumeric) # m
    BY <1>1, <1>5, <2>2 DEF Is
  <2> QED BY <1>1, <1>5, <2>2, <2>3 DEF GroupEnd, Is
<1> HIDE DEF end
<1>7. to \in i .. end
  <2>1. E \in SUBSET Nat /\ E # {} /\ E \subseteq i .. end
    BY <1>1, <1>5, <1>6
  <2> HIDE DEF E
  <2> QED BY <1>3, <2>1, MinOfSome
<1>8. ASSUME NEW j \in i .. to
      PROVE  Is(j, Alphanumeric) \/ (Is(j, {Space}) /\ j > i /\ Is(j - 1, Alphanumeric))
  <2>1. j \in m .. end \/ j \in i .. m - 1
    BY <1>1, <1>5, <1>6, <1>7
  <2>2. CASE j \in m .. end
    BY <1>6, <2>2
  <2>3. CASE j \in i .. m - 1 /\ (j - i) % 5 # 4
    BY <1>5, <2>3
  <2>4. CASE j \in i .. m - 1 /\ (j - i) % 5 = 4
    <3>1. j - 1 \in i .. m - 1 /\ ((j - 1) - i) % 5 # 4 /\ j > i
      BY <1>1, <1>5, <2>4
    <3>2. Is(j - 1, Alphanumeric) /\ Is(j, {Space})
      BY <1>5, <2>4, <3>1
    <3> QED BY <3>1, <3>2
  <2> QED BY <2>1, <2>2, <2>3, <2>4
<1>9. to \in i .. Len(text)
  BY <1>1, <1>5, <1>6, <1>7
<1> QED BY <1>2, <1>8, <1>9

LEMMA EmailMatch ==
    ASSUME text \in Seq(Character), NEW i \in 1 .. Len(text), NEW f \in ScanEmail(i)
    PROVE  /\ f.kind = "email" /\ f.from \in 1 .. i /\ f.to \in i .. Len(text)
           /\ \A j \in i + 1 .. f.to : Is(j, Domain)
<1> DEFINE behind == EndOfRun(i + 1, Domain)
           B == {k \in i .. behind - 1 : \A j \in k + 1 .. behind - 1 : text[j] = Dot}
           F == {k \in 1 .. i : \A j \in k .. i - 1 : text[j] \in LocalPart}
           to == EmailEnd(i)
           from == EmailStart(i)
<1>1. Len(text) \in Nat /\ DOMAIN text = 1 .. Len(text)
  BY LenProperties
<1>2. from < i /\ f.from = from /\ f.to = to /\ f.kind = "email"
  BY DEF ScanEmail, Match, NoMatch
<1>3. to = Min(B) /\ from = EndOfRun(Min(F), {Dot, Hyphen, Plus})
  BY DEF EmailEnd, EmailStart
<1> HIDE DEF to, from
<1>4. /\ behind \in i + 1 .. Len(text) + 1
      /\ \A j \in i + 1 .. behind - 1 : j \in DOMAIN text /\ text[j] \in Domain
  <2>1. i + 1 \in Nat \ {0} /\ i + 1 <= Len(text) + 1
    BY <1>1
  <2> QED BY <2>1, RunEnds
<1> HIDE DEF behind
<1>5. to \in i .. behind - 1
  <2>1. B \in SUBSET Nat /\ behind - 1 \in B
    BY <1>1, <1>4
  <2>2. to \in B
    <3> HIDE DEF B
    <3> QED BY <1>3, <2>1, MinOfSome
  <2> QED BY <2>2
<1>6. from \in 1 .. i
  <2>1. F \in SUBSET Nat /\ i \in F
    BY <1>1
  <2>2. Min(F) \in F
    <3> HIDE DEF F
    <3> QED BY <2>1, MinOfSome
  <2>3. Min(F) \in Nat \ {0} /\ Min(F) <= Len(text) + 1
    BY <1>1, <2>2
  <2>4. from \in Min(F) .. Len(text) + 1
    BY <1>3, <2>3, RunEnds
  <2> HIDE DEF F
  <2> QED BY <1>1, <1>2, <2>3, <2>4
<1> QED BY <1>1, <1>2, <1>4, <1>5, <1>6 DEF Is

-----------------------------------------------------------------------------
(* The evidence a finding was reported on is the text it covers.           *)
Proven(f) ==
    /\ f.kind = "pesel" => Pesel(DigitsIn(f.from, f.to))
    /\ f.kind = "nip" => Nip(DigitsIn(f.from, f.to))
    /\ f.kind = "payment_card" => Luhn(DigitsIn(f.from, f.to))
    /\ f.kind = "iban" => Iban(Compact(f.from, f.to))

(* Behind the two letters of a VAT number its digits are all there is.     *)
LEMMA DigitsBehindLetters ==
    ASSUME text \in Seq(Character), NEW i \in Nat \ {0}, NEW to \in Nat, i + 1 <= to, to <= Len(text),
           text[i] \in Capital, text[i + 1] \in Capital, ToSet(SubSeq(text, i + 2, to)) \subseteq Digit
    PROVE  DigitsIn(i, to) = SubSeq(text, i + 2, to)
<1>1. Len(text) \in Nat /\ i + 1 \in Nat \ {0} /\ i + 2 \in Nat \ {0} /\ (i + 1) + 1 = i + 2
      /\ i <= to /\ i + 2 <= to + 1
  BY LenProperties
<1>2. text[i] \notin Digit /\ text[i + 1] \notin Digit
  <2>1. \A c \in Capital : c \notin Digit
    BY DEF Capital, Digit
  <2> QED BY <2>1
<1>3. Kept(SubSeq(text, i, to), Digit) = Kept(SubSeq(text, i + 1, to), Digit)
  BY <1>1, <1>2, KeptSkipsFirst
<1>4. Kept(SubSeq(text, i + 1, to), Digit) = Kept(SubSeq(text, i + 2, to), Digit)
  <2>1. PICK a \in Nat \ {0} : a = i + 1
    BY <1>1
  <2>2. Kept(SubSeq(text, a, to), Digit) = Kept(SubSeq(text, a + 1, to), Digit)
    BY ZenonT(90), <1>1, <1>2, <2>1, KeptSkipsFirst
  <2> QED BY <1>1, <2>1, <2>2
<1>5. SubSeq(text, i + 2, to) \in Seq(Digit)
  <2>1. SubSeq(text, i + 2, to) \in Seq(Character)
    BY <1>1, Stretch
  <2> DEFINE q == SubSeq(text, i + 2, to)
  <2>2. DOMAIN q = 1 .. Len(q) /\ Len(q) \in Nat /\ q = [k \in 1 .. Len(q) |-> q[k]]
    BY <2>1, LenProperties
  <2>3. \A k \in 1 .. Len(q) : q[k] \in Digit
    BY <2>2 DEF ToSet
  <2> HIDE DEF q
  <2>4. q \in Seq(Digit)
    BY <2>2, <2>3
  <2> QED BY <2>4 DEF q
<1>6. Kept(SubSeq(text, i + 2, to), Digit) = SubSeq(text, i + 2, to)
  BY <1>5, KeptAll
<1> QED BY <1>3, <1>4, <1>6 DEF DigitsIn

LEMMA FoundThere ==
    ASSUME text \in Seq(Character), NEW i \in 1 .. Len(text), NEW f \in FoundAt(i)
    PROVE  /\ f.to \in i .. Len(text) /\ f.from \in 1 .. f.to
           /\ f.kind # "email" => f.from = i /\ Word(f.from, f.to)
           /\ Proven(f)
<1>0. Len(text) \in Nat /\ i \in Nat \ {0}
  BY LenProperties
<1>1. CASE f \in ScanEmail(i)
  BY <1>0, <1>1, EmailMatch DEF Proven
<1>2. CASE StartsToken(i) /\ f \in ScanIban(i)
  <2>1. /\ f.from = i /\ f.kind = "iban" /\ f.to \in i .. Len(text) /\ EndsToken(f.to)
        /\ Iban(Compact(i, f.to))
    BY <1>2, IbanMatch
  <2> QED BY <1>0, <1>2, <2>1 DEF Proven, Word, StartsToken, EndsToken
<1>3. CASE StartsToken(i) /\ f \in ScanVatEu(i)
  <2>1. /\ f.from = i /\ f.to \in i + 1 .. Len(text) /\ EndsToken(f.to)
        /\ text[i] \in Capital /\ text[i + 1] \in Capital
        /\ \/ f.kind = "vat_eu"
           \/ f.kind = "nip" /\ LET part == SubSeq(text, i + 2, f.to)
                                IN ToSet(part) \subseteq Digit /\ Nip(part)
    BY <1>3, VatMatch
  <2>2. f.to \in Nat /\ i + 1 <= f.to /\ f.to <= Len(text) /\ f.to \in i .. Len(text) /\ i \in 1 .. f.to
    BY <1>0, <2>1
  <2>3. f.kind = "nip" => Nip(DigitsIn(i, f.to))
    BY <1>0, <2>1, <2>2, DigitsBehindLetters
  <2> QED BY <1>3, <2>1, <2>2, <2>3 DEF Proven, Word, StartsToken, EndsToken
<1>4. CASE StartsToken(i) /\ f \in ScanPhoneWithPrefix(i)
  <2>1. /\ f.from = i /\ f.kind = "phone_pl" /\ f.to <= Len(text) /\ EndsToken(f.to)
    BY <1>4, PhoneMatch
  <2>2. PICK after \in {i + 3, i + 4} : f.to \in after .. Len(text)
    BY <1>4, PhoneMatch
  <2>4. f.to \in i .. Len(text) /\ i \in 1 .. f.to
    BY <1>0, <2>2
  <2> QED BY <1>4, <2>1, <2>4 DEF Proven, Word, StartsToken, EndsToken
<1>5. CASE StartsToken(i) /\ f \in ScanNumber(i)
  <2>1. /\ f.from = i /\ f.to \in i .. Len(text) /\ EndsToken(f.to)
        /\ \/ f.kind = "pesel" /\ Pesel(DigitsIn(i, f.to))
           \/ f.kind = "nip" /\ Nip(DigitsIn(i, f.to))
           \/ f.kind = "payment_card" /\ Luhn(DigitsIn(i, f.to))
           \/ f.kind \in {"regon", "phone_pl"}
    BY <1>5, NumberMatch
  <2>2. i \in 1 .. f.to
    BY <1>0, <2>1
  <2> QED BY <1>5, <2>1, <2>2 DEF Proven, Word, StartsToken, EndsToken
<1>6. \/ f \in ScanEmail(i)
      \/ StartsToken(i) /\ f \in ScanIban(i) \cup ScanVatEu(i) \cup ScanPhoneWithPrefix(i) \cup ScanNumber(i)
  <2>1. f \in FoundInToken(i) => f \in ScanIban(i) \cup ScanVatEu(i) \cup ScanNumeric(i)
    BY DEF FoundInToken, NoMatch
  <2>2. f \in ScanNumeric(i) => f \in ScanPhoneWithPrefix(i) \cup ScanNumber(i)
    BY DEF ScanNumeric, NoMatch
  <2> QED BY <2>1, <2>2 DEF FoundAt, NoMatch
<1> QED BY <1>1, <1>2, <1>3, <1>4, <1>5, <1>6

-----------------------------------------------------------------------------
(* Where the pass is, and what it has found so far lies before it.         *)
Placed ==
    /\ text \in Seq(Character)
    /\ index \in Nat \ {0} /\ index <= Len(text) + 1
    /\ \E E : findings \in Seq(E)
    /\ \A f \in ToSet(findings) : f.to \in Nat /\ f.from \in 1 .. f.to /\ f.to < index /\ Proven(f)

SInv == Placed /\ FindingsAreWholeTokens

LEMMA SInvAtFirst == ScanInit => SInv
BY TextsAssumption, EmptySeq, LenProperties DEF ScanInit, SInv, Placed, FindingsAreWholeTokens, ToSet

(* Facts about the text do not change.                                     *)
LEMMA TextStays ==
    ASSUME UNCHANGED text
    PROVE  /\ \A f : Proven(f) => Proven(f)'
           /\ \A a, b : Word(a, b) <=> Word(a, b)'
BY DEF Proven, DigitsIn, Compact, Word, Is

(* What one turn adds, and that the rest stays.                            *)
LEMMA Reported ==
    ASSUME Placed, Report
    PROVE  \E f \in FoundAt(index) :
              /\ index \in 1 .. Len(text) /\ index' = f.to + 1 /\ UNCHANGED text
              /\ Len(findings) \in Nat /\ DOMAIN findings = 1 .. Len(findings)
              /\ DOMAIN findings' = 1 .. Len(findings) + 1
              /\ \A i \in 1 .. Len(findings) : findings'[i] = findings[i]
              /\ findings'[Len(findings) + 1] = f
              /\ \E E : findings' \in Seq(E)
<1>1. PICK f \in FoundAt(index) : findings' = Append(findings, f) /\ index' = f.to + 1
  BY DEF Report
<1>2. PICK E : findings \in Seq(E)
  BY DEF Placed
<1>3. findings \in Seq(E \cup {f}) /\ f \in E \cup {f}
  BY <1>2, SeqMonotonic
<1>4. /\ findings' \in Seq(E \cup {f}) /\ Len(findings') = Len(findings) + 1
      /\ \A i \in 1 .. Len(findings) : findings'[i] = findings[i]
      /\ findings'[Len(findings) + 1] = f
  BY <1>1, <1>3, AppendProperties
<1>5. Len(findings) \in Nat /\ DOMAIN findings = 1 .. Len(findings)
      /\ DOMAIN findings' = 1 .. Len(findings) + 1
  BY <1>3, <1>4, LenProperties
<1>6. index \in 1 .. Len(text) /\ UNCHANGED text
  BY LenProperties DEF Placed, Report
<1> QED BY <1>1, <1>4, <1>5, <1>6

LEMMA SInvIsKept == SInv /\ [ScanNext]_vars => SInv'
<1> SUFFICES ASSUME SInv, [ScanNext]_vars PROVE SInv'
  OBVIOUS
<1>1. CASE UNCHANGED <<text, findings>> /\ index' \in Nat \ {0} /\ index <= index' /\ index' <= Len(text) + 1
  <2>1. FindingsAreWholeTokens' /\ (\E E : findings' \in Seq(E)) /\ text' \in Seq(Character)
    BY <1>1 DEF SInv, Placed, FindingsAreWholeTokens, Word, Is
  <2>2. ASSUME NEW f \in ToSet(findings)
        PROVE  f.to \in Nat /\ f.from \in 1 .. f.to /\ f.to < index' /\ Proven(f)'
    <3>1. f.to \in Nat /\ f.from \in 1 .. f.to /\ f.to < index /\ Proven(f)
      BY DEF SInv, Placed
    <3>2. Proven(f)'
      BY <1>1, <3>1, TextStays
    <3>3. f.to \in Int /\ index \in Int /\ index' \in Int
      BY <1>1, <3>1 DEF SInv, Placed
    <3> QED BY <1>1, <3>1, <3>2, <3>3
  <2>3. ToSet(findings)' = ToSet(findings)
    BY <1>1 DEF ToSet
  <2> QED BY <1>1, <2>1, <2>2, <2>3 DEF SInv, Placed
<1>2. CASE Advance
  <2>1. index' = index + 1 /\ index <= Len(text) /\ index \in Nat \ {0} /\ Len(text) \in Nat
    BY <1>2, LenProperties DEF Advance, SInv, Placed
  <2>2. UNCHANGED <<text, findings>>
    BY <1>2 DEF Advance
  <2> QED BY <1>1, <2>1, <2>2
<1>3. CASE UNCHANGED vars
  <2>1. index \in Nat \ {0} /\ index <= Len(text) + 1 /\ index <= index
    BY DEF SInv, Placed
  <2> QED BY <1>1, <1>3, <2>1 DEF vars
<1>4. CASE Report
  <2>1. PICK f \in FoundAt(index) :
              /\ index \in 1 .. Len(text) /\ index' = f.to + 1 /\ UNCHANGED text
              /\ Len(findings) \in Nat /\ DOMAIN findings = 1 .. Len(findings)
              /\ DOMAIN findings' = 1 .. Len(findings) + 1
              /\ \A i \in 1 .. Len(findings) : findings'[i] = findings[i]
              /\ findings'[Len(findings) + 1] = f
              /\ \E E : findings' \in Seq(E)
    BY <1>4, Reported DEF SInv
  <2>2. /\ f.to \in index .. Len(text) /\ f.from \in 1 .. f.to
        /\ f.kind # "email" => f.from = index /\ Word(f.from, f.to)
        /\ Proven(f)
    BY <2>1, FoundThere DEF SInv, Placed
  <2>3. Len(text) \in Nat /\ index \in Nat /\ f.to \in Nat /\ f.from \in Nat
    BY <2>1, <2>2, LenProperties DEF SInv, Placed
  <2>4. ASSUME NEW i \in 1 .. Len(findings)
        PROVE  /\ findings[i].from \in 1 .. findings[i].to
               /\ findings[i].to < index /\ findings[i].to < f.to
               /\ f.kind # "email" => findings[i].to < f.from
    <3>1. findings[i] \in ToSet(findings)
      BY <2>1 DEF ToSet
    <3>2. findings[i].to \in Nat /\ findings[i].from \in 1 .. findings[i].to /\ findings[i].to < index
      BY <3>1 DEF SInv, Placed
    <3>3. findings[i].to \in Int
      BY <3>2
    <3> QED BY <2>2, <2>3, <3>2, <3>3
  <2>5. ASSUME NEW g \in ToSet(findings)'
        PROVE  g.to \in Nat /\ g.from \in 1 .. g.to /\ g.to < index' /\ Proven(g)'
    <3>1. CASE g \in ToSet(findings)
      <4>1. g.to \in Nat /\ g.from \in 1 .. g.to /\ g.to < index /\ Proven(g)
        BY <3>1 DEF SInv, Placed
      <4>2. g.to \in Int
        BY <4>1
      <4> QED BY <2>1, <2>2, <2>3, <4>1, <4>2, TextStays
    <3>2. CASE g = f
      BY <2>1, <2>2, <2>3, <3>2, TextStays
    <3>3. g = f \/ g \in ToSet(findings)
      BY <2>1 DEF ToSet
    <3> QED BY <3>1, <3>2, <3>3
  <2>6. PICK gs : gs = findings'
    OBVIOUS
  <2>7. ASSUME NEW i \in DOMAIN gs
        PROVE  /\ gs[i].kind # "email" => Word(gs[i].from, gs[i].to)
               /\ \A j \in 1 .. i - 1 :
                     /\ gs[j].to < gs[i].to
                     /\ gs[i].kind # "email" => gs[j].to < gs[i].from
    <3>1. CASE i \in 1 .. Len(findings)
      <4>1. /\ findings[i].kind # "email" => Word(findings[i].from, findings[i].to)
            /\ \A j \in 1 .. i - 1 :
                     /\ findings[j].to < findings[i].to
                     /\ findings[i].kind # "email" => findings[j].to < findings[i].from
        BY <2>1, <3>1 DEF SInv, FindingsAreWholeTokens
      <4>2. \A j \in 1 .. i - 1 : j \in 1 .. Len(findings)
        BY <2>1, <3>1
      <4>3. gs[i] = findings[i] /\ \A j \in 1 .. i - 1 : gs[j] = findings[j]
        BY <2>1, <2>6, <3>1, <4>2
      <4> QED BY <4>1, <4>3
    <3>2. CASE i = Len(findings) + 1
      <4>1. \A j \in 1 .. i - 1 : j \in 1 .. Len(findings)
        BY <2>1, <3>2
      <4>2. gs[i] = f /\ \A j \in 1 .. i - 1 : gs[j] = findings[j]
        BY <2>1, <2>6, <3>2, <4>1
      <4> QED BY <2>2, <2>4, <4>1, <4>2
    <3> QED BY <2>1, <2>6, <3>1, <3>2
  <2>8. index' \in Nat \ {0} /\ index' <= Len(text') + 1 /\ text' \in Seq(Character)
    BY <2>1, <2>2, <2>3 DEF SInv, Placed
  <2>9. Placed'
    BY <2>1, <2>5, <2>8 DEF Placed
  <2>10. FindingsAreWholeTokens'
    BY <2>1, <2>6, <2>7 DEF FindingsAreWholeTokens, Word, Is
  <2> QED BY <2>9, <2>10 DEF SInv
<1> QED BY <1>2, <1>3, <1>4 DEF ScanNext

LEMMA SInvAlways == ScanSpec => []SInv
BY SInvAtFirst, SInvIsKept, PTL DEF ScanSpec

(* What layer 1 finds is a word of its own, behind everything found before *)
(* it: no finding is a window inside a longer token, however long the text *)
(* is (detect, starts_token, ends_token).                                  *)
THEOREM NoFindingIsAWindow == ScanSpec => []FindingsAreWholeTokens
<1>1. SInv => FindingsAreWholeTokens
  BY DEF SInv
<1> QED BY <1>1, SInvAlways, PTL

-----------------------------------------------------------------------------
\* One more character of an account number.
Shifted(r, c) == (IF c \in Digit THEN 10 * r + c ELSE 100 * r + c) % 97

\* What IbanRemainder computes on its way.
Remains(f, v, n) ==
    f = [S \in SUBSET (1 .. n) |-> IF S = {} THEN 0 ELSE Shifted(f[S \ {Max(S)}], v[Max(S)])]

LEMMA RemainsExists == ASSUME NEW v PROVE \A n \in Nat : \E f : Remains(f, v, n)
<1> DEFINE T == {n \in Nat : \E f : Remains(f, v, n)}
<1>1. 0 \in T
  <2>0. \A S \in SUBSET (1 .. 0) : S = {}
    OBVIOUS
  <2>1. Remains([S \in SUBSET (1 .. 0) |-> 0], v, 0)
    BY <2>0 DEF Remains
  <2> QED BY <2>1
<1>2. ASSUME NEW n \in Nat, n \in T PROVE n + 1 \in T
  <2>1. PICK f : Remains(f, v, n)
    BY <1>2
  <2> DEFINE g == [S \in SUBSET (1 .. n + 1) |-> IF n + 1 \in S THEN Shifted(f[S \ {n + 1}], v[n + 1])
                                                ELSE f[S]]
  <2>2. ASSUME NEW S \in SUBSET (1 .. n + 1)
        PROVE  g[S] = IF S = {} THEN 0 ELSE Shifted(g[S \ {Max(S)}], v[Max(S)])
    <3>1. CASE n + 1 \in S
      <4>1. S \in SUBSET (0 .. n + 1) /\ S # {} /\ n + 1 \in Nat
        BY <3>1
      <4>2. Max(S) \in S /\ \A y \in S : y <= Max(S)
        BY <4>1, MaxOfBounded
      <4>3. Max(S) = n + 1
        <5> HIDE DEF g
        <5>1. n + 1 <= Max(S) /\ Max(S) \in 1 .. n + 1
          BY <3>1, <4>2
        <5> QED BY <5>1
      <4>4. S \ {n + 1} \in SUBSET (1 .. n + 1) /\ n + 1 \notin S \ {n + 1}
        OBVIOUS
      <4>5. g[S \ {n + 1}] = f[S \ {n + 1}] /\ g[S] = Shifted(f[S \ {n + 1}], v[n + 1])
        BY <3>1, <4>4
      <4> HIDE DEF g
      <4> QED BY <3>1, <4>3, <4>5
    <3>2. CASE n + 1 \notin S
      <4>1. S \in SUBSET (1 .. n) /\ S \in SUBSET (0 .. n)
        BY <3>2
      <4>2. g[S] = f[S] /\ g[S \ {Max(S)}] = f[S \ {Max(S)}]
        BY <3>2
      <4>3. f[S] = IF S = {} THEN 0 ELSE Shifted(f[S \ {Max(S)}], v[Max(S)])
        BY <2>1, <4>1 DEF Remains
      <4> HIDE DEF g
      <4> QED BY <4>2, <4>3
    <3> QED BY <3>1, <3>2
  <2>3. g = [S \in SUBSET (1 .. n + 1) |-> g[S]]
    OBVIOUS
  <2> HIDE DEF g
  <2>4. Remains(g, v, n + 1)
    BY <2>2, <2>3 DEF Remains
  <2> QED BY <2>4
<1> HIDE DEF T
<1>3. \A n \in Nat : n \in T
  BY <1>1, <1>2, NatSetInduction
<1> QED BY <1>3 DEF T

LEMMA ShiftedIsSmall ==
    ASSUME NEW r \in Nat, NEW c \in Nat PROVE Shifted(r, c) \in 0 .. 96
<1>1. \A m \in Nat : m % 97 \in 0 .. 96
  OBVIOUS
<1>2. 10 * r + c \in Nat /\ 100 * r + c \in Nat
  OBVIOUS
<1> QED BY <1>1, <1>2 DEF Shifted

LEMMA RemainderSteps ==
    ASSUME NEW n \in Nat, NEW v, DOMAIN v = 1 .. n, \A i \in 1 .. n : v[i] \in Nat
    PROVE  \E p \in [0 .. n -> 0 .. 96] : /\ p[0] = 0 /\ p[n] = IbanRemainder(v)
                                          /\ \A i \in 1 .. n : p[i] = Shifted(p[i - 1], v[i])
<1> DEFINE F == CHOOSE f : Remains(f, v, n)
<1>1. Remains(F, v, n)
  BY RemainsExists
<1>2. IbanRemainder(v) = F[1 .. n]
  BY DEF IbanRemainder, FoldLeft, MapThenFoldSet, Remains, Shifted
<1> HIDE DEF F
<1> DEFINE p == [i \in 0 .. n |-> F[1 .. i]]
<1>3. p[0] = 0 /\ p[n] = IbanRemainder(v)
  <2>1. 1 .. 0 = {} /\ {} \in SUBSET (1 .. n)
    OBVIOUS
  <2>2. F[{}] = 0
    BY <1>1, <2>1 DEF Remains
  <2> QED BY <1>2, <2>1, <2>2
<1>4. ASSUME NEW i \in 1 .. n PROVE p[i] = Shifted(p[i - 1], v[i])
  <2>1. i \in 0 .. n /\ i - 1 \in 0 .. n /\ i \in Nat \ {0} /\ 1 .. i \in SUBSET (1 .. n)
    OBVIOUS
  <2>2. Max(1 .. i) = i /\ (1 .. i) \ {i} = 1 .. i - 1 /\ 1 .. i # {}
    BY <2>1, UpTo
  <2>3. F[1 .. i] = IF 1 .. i = {} THEN 0 ELSE Shifted(F[(1 .. i) \ {Max(1 .. i)}], v[Max(1 .. i)])
    BY <1>1, <2>1 DEF Remains
  <2>4. F[1 .. i] = Shifted(F[1 .. i - 1], v[i])
    BY <2>2, <2>3
  <2> QED BY <2>1, <2>4
<1> DEFINE T == {k \in Nat : k \in 0 .. n => p[k] \in 0 .. 96}
<1>5. 0 \in T
  BY <1>3
<1> HIDE DEF p
<1>6. ASSUME NEW k \in Nat, k \in T PROVE k + 1 \in T
  <2> SUFFICES ASSUME k + 1 \in 0 .. n PROVE p[k + 1] \in 0 .. 96
    OBVIOUS
  <2>1. k + 1 \in 1 .. n /\ k \in 0 .. n /\ (k + 1) - 1 = k
    OBVIOUS
  <2>2. p[k + 1] = Shifted(p[k], v[k + 1]) /\ v[k + 1] \in Nat
    BY <1>4, <2>1
  <2>3. p[k] \in Nat
    <3>1. p[k] \in 0 .. 96
      BY <1>6, <2>1
    <3>2. \A x \in 0 .. 96 : x \in Nat
      OBVIOUS
    <3> QED BY <3>1, <3>2
  <2> QED BY <2>2, <2>3, ShiftedIsSmall
<1> HIDE DEF T
<1>7. \A k \in Nat : k \in T
  BY <1>5, <1>6, NatSetInduction
<1>8. p \in [0 .. n -> 0 .. 96]
  <2>1. \A i \in 0 .. n : p[i] \in 0 .. 96
    BY <1>7 DEF T
  <2>2. p = [i \in 0 .. n |-> p[i]]
    BY DEF p
  <2> QED BY <2>1, <2>2
<1> QED BY <1>3, <1>4, <1>8

(* A remainder that differs goes on to differ, and a digit that differs    *)
(* makes one.                                                              *)
LEMMA ShiftedDiffers ==
    ASSUME NEW r \in 0 .. 96, NEW s \in 0 .. 96, NEW c \in Nat, r # s
    PROVE  Shifted(r, c) # Shifted(s, c)
<1>1. (10 * r + c) % 97 # (10 * s + c) % 97
  OBVIOUS
<1>2. (100 * r + c) % 97 # (100 * s + c) % 97
  OBVIOUS
<1> QED BY <1>1, <1>2 DEF Shifted

LEMMA DigitDiffers ==
    ASSUME NEW r \in 0 .. 96, NEW c \in Digit, NEW d \in Digit, c # d
    PROVE  Shifted(r, c) # Shifted(r, d)
<1>1. (10 * r + c) % 97 # (10 * r + d) % 97
  BY DEF Digit
<1> QED BY <1>1 DEF Shifted

LEMMA RemainderOfOneChange ==
    ASSUME NEW n \in Nat, NEW k \in 1 .. n,
           NEW v, DOMAIN v = 1 .. n, \A i \in 1 .. n : v[i] \in Nat,
           NEW w, DOMAIN w = 1 .. n, \A i \in 1 .. n : w[i] \in Nat,
           \A i \in 1 .. n : i # k => w[i] = v[i],
           v[k] \in Digit, w[k] \in Digit, v[k] # w[k]
    PROVE  IbanRemainder(v) # IbanRemainder(w)
<1>1. PICK p \in [0 .. n -> 0 .. 96] : /\ p[0] = 0 /\ p[n] = IbanRemainder(v)
                                       /\ \A i \in 1 .. n : p[i] = Shifted(p[i - 1], v[i])
  BY ZenonT(90), RemainderSteps
<1>2. PICK q \in [0 .. n -> 0 .. 96] : /\ q[0] = 0 /\ q[n] = IbanRemainder(w)
                                       /\ \A i \in 1 .. n : q[i] = Shifted(q[i - 1], w[i])
  BY ZenonT(90), RemainderSteps
<1> DEFINE T == {j \in Nat : j \in 0 .. n => IF j < k THEN q[j] = p[j] ELSE q[j] # p[j]}
<1>3. 0 \in T
  BY <1>1, <1>2
<1>4. ASSUME NEW j \in Nat, j \in T PROVE j + 1 \in T
  <2> SUFFICES ASSUME j + 1 \in 0 .. n
               PROVE  IF j + 1 < k THEN q[j + 1] = p[j + 1] ELSE q[j + 1] # p[j + 1]
    OBVIOUS
  <2>1. j + 1 \in 1 .. n /\ j \in 0 .. n /\ (j + 1) - 1 = j
    OBVIOUS
  <2>2. q[j + 1] = Shifted(q[j], w[j + 1]) /\ p[j + 1] = Shifted(p[j], v[j + 1])
    BY <1>1, <1>2, <2>1
  <2>3. p[j] \in 0 .. 96 /\ q[j] \in 0 .. 96 /\ v[j + 1] \in Nat
    BY <1>1, <1>2, <2>1
  <2>4. IF j < k THEN q[j] = p[j] ELSE q[j] # p[j]
    BY <1>4, <2>1
  <2>5. CASE j + 1 < k
    <3>1. j < k /\ j + 1 # k
      BY <2>5
    <3> QED BY <2>1, <2>2, <2>4, <2>5, <3>1
  <2>6. CASE j + 1 = k
    <3>1. j < k /\ ~(j + 1 < k)
      BY <2>6
    <3>2. q[j] = p[j]
      BY <2>4, <3>1
    <3>3. Shifted(p[j], v[k]) # Shifted(p[j], w[k])
      BY <2>3, DigitDiffers
    <3> QED BY <2>2, <2>6, <3>1, <3>2, <3>3
  <2>7. CASE j + 1 > k
    <3>1. ~(j < k) /\ j + 1 # k /\ ~(j + 1 < k)
      BY <2>7
    <3>2. q[j] # p[j] /\ w[j + 1] = v[j + 1]
      BY SMTT(60), <2>1, <2>4, <3>1
    <3>3. Shifted(p[j], v[j + 1]) # Shifted(q[j], v[j + 1])
      BY <2>3, <3>2, ShiftedDiffers
    <3> QED BY <2>2, <3>1, <3>2, <3>3
  <2> QED BY <2>1, <2>5, <2>6, <2>7
<1> HIDE DEF T
<1>5. \A j \in Nat : j \in T
  BY <1>3, <1>4, NatSetInduction
<1>6. n \in T /\ n \in 0 .. n /\ ~(n < k)
  BY <1>5
<1> QED BY <1>1, <1>2, <1>6 DEF T

-----------------------------------------------------------------------------
(* One wrong digit, number by number.                                      *)
LEMMA OneDigitChanged ==
    ASSUME NEW d \in Seq(Digit), NEW k \in DOMAIN d, NEW c \in Digit
    PROVE  /\ [d EXCEPT ![k] = c] \in Seq(Digit) /\ Len([d EXCEPT ![k] = c]) = Len(d)
           /\ Len(d) \in Nat /\ DOMAIN d = 1 .. Len(d)
           /\ \A i \in 1 .. Len(d) : d[i] \in Digit /\ [d EXCEPT ![k] = c][i] \in Digit
           /\ [d EXCEPT ![k] = c][k] = c
           /\ \A i \in 1 .. Len(d) : i # k => [d EXCEPT ![k] = c][i] = d[i]
OBVIOUS

LEMMA WeightedOneChange ==
    ASSUME NEW m \in Nat, NEW weights \in [1 .. m -> Nat],
           NEW d \in Seq(Digit), m <= Len(d), NEW k \in 1 .. m, NEW c \in Digit
    PROVE  /\ WeightedSum(weights, d) \in Int
           /\ WeightedSum(weights, [d EXCEPT ![k] = c]) =
                WeightedSum(weights, d) + (weights[k] * c - weights[k] * d[k])
<1> DEFINE e == [d EXCEPT ![k] = c]
           v == [i \in DOMAIN weights |-> weights[i] * d[i]]
           w == [i \in DOMAIN weights |-> weights[i] * e[i]]
<1>1. /\ \A i \in 1 .. m : i \in 1 .. Len(d)
      /\ \A i \in 1 .. m : d[i] \in Digit /\ e[i] \in Digit
      /\ e[k] = c /\ \A i \in 1 .. m : i # k => e[i] = d[i]
  <2>1. k \in DOMAIN d /\ \A i \in 1 .. m : i \in 1 .. Len(d)
    BY LenProperties
  <2> HIDE DEF e
  <2> QED BY <2>1, OneDigitChanged DEF e
<1> HIDE DEF e
<1>2. ASSUME NEW i \in 1 .. m
      PROVE  v[i] = weights[i] * d[i] /\ w[i] = weights[i] * e[i] /\ v[i] \in Int /\ w[i] \in Int
  <2>1. v[i] = weights[i] * d[i] /\ w[i] = weights[i] * e[i] /\ weights[i] \in Int
    OBVIOUS
  <2>2. d[i] \in Int /\ e[i] \in Int
    <3>1. \A x \in Digit : x \in Int
      BY DEF Digit
    <3> QED BY <1>1, <3>1
  <2>3. \A x, y \in Int : x * y \in Int
    OBVIOUS
  <2> HIDE DEF v, w
  <2> QED BY <2>1, <2>2, <2>3
<1>3. DOMAIN v = 1 .. m /\ DOMAIN w = 1 .. m
  OBVIOUS
<1>4. Total(v) = WeightedSum(weights, d) /\ Total(w) = WeightedSum(weights, e)
  BY DEF WeightedSum
<1> HIDE DEF v, w
<1>5. \A i \in 1 .. m : i # k => w[i] = v[i]
  BY <1>1, <1>2
<1>6. Total(v) \in Int /\ Total(w) = Total(v) + (w[k] - v[k])
  BY ZenonT(90), <1>2, <1>3, <1>5, TotalOfOneChange
<1> QED BY <1>1, <1>2, <1>4, <1>6 DEF e

(* Digits beyond the weights do not count.                                 *)
LEMMA WeightedElsewhere ==
    ASSUME NEW m \in Nat, NEW weights \in [1 .. m -> Nat],
           NEW d \in Seq(Digit), m <= Len(d), NEW k \in DOMAIN d, k \notin 1 .. m, NEW c \in Digit
    PROVE  WeightedSum(weights, [d EXCEPT ![k] = c]) = WeightedSum(weights, d)
<1> DEFINE e == [d EXCEPT ![k] = c]
<1>1. \A i \in DOMAIN weights : e[i] = d[i]
  BY LenProperties
<1> HIDE DEF e
<1>2. [i \in DOMAIN weights |-> weights[i] * e[i]] = [i \in DOMAIN weights |-> weights[i] * d[i]]
  BY <1>1
<1> QED BY <1>2 DEF WeightedSum, e

LEMMA PeselNotices ==
    ASSUME NEW d \in Seq(Digit), NEW k \in DOMAIN d, NEW c \in Digit, c # d[k], Pesel(d)
    PROVE  ~Pesel([d EXCEPT ![k] = c])
<1> DEFINE e == [d EXCEPT ![k] = c]
           a == WeightedSum(PeselWeights, d)
           b == WeightedSum(PeselWeights, e)
<1> SUFFICES ASSUME Pesel(e) PROVE FALSE
  OBVIOUS
<1>1. Len(d) = 11 /\ (10 - (a % 10)) % 10 = d[11] /\ (10 - (b % 10)) % 10 = e[11]
  BY DEF Pesel
<1>2. PeselWeights \in [1 .. 10 -> Nat] /\ \A i \in 1 .. 10 : PeselWeights[i] \in {1, 3, 7, 9}
  BY DEF PeselWeights
<1>3. /\ DOMAIN d = 1 .. 11 /\ d[k] \in Digit /\ e[k] = c
      /\ \A i \in 1 .. 11 : i # k => e[i] = d[i]
  BY <1>1, OneDigitChanged
<1> HIDE DEF e, a, b
<1>4. CASE k = 11
  <2>0. PICK m \in Nat : m = 10
    OBVIOUS
  <2>1. PICK ws \in [1 .. m -> Nat] : m = 10 /\ ws = PeselWeights
    BY <1>2, <2>0
  <2>2. m <= Len(d) /\ k \notin 1 .. m
    BY <1>1, <1>4, <2>1
  <2>3. WeightedSum(ws, [d EXCEPT ![k] = c]) = WeightedSum(ws, d)
    BY <2>2, WeightedElsewhere
  <2>4. b = a
    BY <2>1, <2>3 DEF a, b, e
  <2> QED BY <1>1, <1>3, <1>4, <2>4
<1>5. CASE k \in 1 .. 10
  <2>1. a \in Int /\ b = a + (PeselWeights[k] * c - PeselWeights[k] * d[k])
    <3>0. PICK m \in Nat : m = 10
      OBVIOUS
    <3>1. PICK ws \in [1 .. m -> Nat] : m = 10 /\ ws = PeselWeights
      BY <1>2, <3>0
    <3>2. m <= Len(d) /\ k \in 1 .. m
      BY <1>1, <1>5, <3>1
    <3>3. /\ WeightedSum(ws, d) \in Int
          /\ WeightedSum(ws, [d EXCEPT ![k] = c]) = WeightedSum(ws, d) + (ws[k] * c - ws[k] * d[k])
      BY <3>2, WeightedOneChange
    <3> QED BY <3>1, <3>3 DEF a, b, e
  <2>2. (10 - (a % 10)) % 10 = (10 - (b % 10)) % 10
    BY <1>1, <1>3, <1>5
  <2>3. \A x, y \in Int : (10 - (x % 10)) % 10 = (10 - (y % 10)) % 10 => x % 10 = y % 10
    OBVIOUS
  <2>4. \A x \in Int, p, q \in 0 .. 9 : p # q => /\ (x + (1 * p - 1 * q)) % 10 # x % 10
                                                 /\ (x + (3 * p - 3 * q)) % 10 # x % 10
                                                 /\ (x + (7 * p - 7 * q)) % 10 # x % 10
                                                 /\ (x + (9 * p - 9 * q)) % 10 # x % 10
    OBVIOUS
  <2>5. PeselWeights[k] = 1 \/ PeselWeights[k] = 3 \/ PeselWeights[k] = 7 \/ PeselWeights[k] = 9
    BY <1>2, <1>5
  <2>6. c \in 0 .. 9 /\ d[k] \in 0 .. 9 /\ c # d[k]
    BY <1>3 DEF Digit
  <2>7. b % 10 # a % 10
    BY ZenonT(90), <2>1, <2>4, <2>5, <2>6
  <2>8. b \in Int
    <3>1. \A x \in Int, p, q \in 0 .. 9 : /\ x + (1 * p - 1 * q) \in Int /\ x + (3 * p - 3 * q) \in Int
                                          /\ x + (7 * p - 7 * q) \in Int /\ x + (9 * p - 9 * q) \in Int
      OBVIOUS
    <3> QED BY <2>1, <2>5, <2>6, <3>1
  <2> QED BY <2>1, <2>2, <2>3, <2>7, <2>8
<1>6. k = 11 \/ k \in 1 .. 10
  BY <1>3
<1> QED BY <1>4, <1>5, <1>6

LEMMA NipNotices ==
    ASSUME NEW d \in Seq(Digit), NEW k \in DOMAIN d, NEW c \in Digit, c # d[k], Nip(d)
    PROVE  ~Nip([d EXCEPT ![k] = c])
<1> DEFINE e == [d EXCEPT ![k] = c]
           a == WeightedSum(NipWeights, d)
           b == WeightedSum(NipWeights, e)
<1> SUFFICES ASSUME Nip(e) PROVE FALSE
  OBVIOUS
<1>1. Len(d) = 10 /\ a % 11 = d[10] /\ b % 11 = e[10]
  BY DEF Nip
<1>2. NipWeights \in [1 .. 9 -> Nat] /\ \A i \in 1 .. 9 : NipWeights[i] \in {2, 3, 4, 5, 6, 7}
  BY DEF NipWeights
<1>3. /\ DOMAIN d = 1 .. 10 /\ d[k] \in Digit /\ e[k] = c
      /\ \A i \in 1 .. 10 : i # k => e[i] = d[i]
  BY <1>1, OneDigitChanged
<1> HIDE DEF e, a, b
<1>4. CASE k = 10
  <2>0. PICK m \in Nat : m = 9
    OBVIOUS
  <2>1. PICK ws \in [1 .. m -> Nat] : m = 9 /\ ws = NipWeights
    BY <1>2, <2>0
  <2>2. m <= Len(d) /\ k \notin 1 .. m
    BY <1>1, <1>4, <2>1
  <2>3. WeightedSum(ws, [d EXCEPT ![k] = c]) = WeightedSum(ws, d)
    BY <2>2, WeightedElsewhere
  <2>4. b = a
    BY <2>1, <2>3 DEF a, b, e
  <2> QED BY <1>1, <1>3, <1>4, <2>4
<1>5. CASE k \in 1 .. 9
  <2>1. a \in Int /\ b = a + (NipWeights[k] * c - NipWeights[k] * d[k])
    <3>0. PICK m \in Nat : m = 9
      OBVIOUS
    <3>1. PICK ws \in [1 .. m -> Nat] : m = 9 /\ ws = NipWeights
      BY <1>2, <3>0
    <3>2. m <= Len(d) /\ k \in 1 .. m
      BY <1>1, <1>5, <3>1
    <3>3. /\ WeightedSum(ws, d) \in Int
          /\ WeightedSum(ws, [d EXCEPT ![k] = c]) = WeightedSum(ws, d) + (ws[k] * c - ws[k] * d[k])
      BY <3>2, WeightedOneChange
    <3> QED BY <3>1, <3>3 DEF a, b, e
  <2>2. a % 11 = b % 11
    BY <1>1, <1>3, <1>5
  <2>4. ASSUME NEW x \in Int, NEW p \in 0 .. 9, NEW q \in 0 .. 9, p # q
        PROVE  \A w \in {2, 3, 4, 5, 6, 7} : (x + (w * p - w * q)) % 11 # x % 11
    <3>1. (x + (2 * p - 2 * q)) % 11 # x % 11 /\ (x + (3 * p - 3 * q)) % 11 # x % 11
      BY <2>4
    <3>2. (x + (4 * p - 4 * q)) % 11 # x % 11 /\ (x + (5 * p - 5 * q)) % 11 # x % 11
      BY <2>4
    <3>3. (x + (6 * p - 6 * q)) % 11 # x % 11 /\ (x + (7 * p - 7 * q)) % 11 # x % 11
      BY <2>4
    <3> QED BY <3>1, <3>2, <3>3
  <2>5. c \in 0 .. 9 /\ d[k] \in 0 .. 9 /\ c # d[k]
    BY <1>3 DEF Digit
  <2>6. NipWeights[k] \in {2, 3, 4, 5, 6, 7}
    BY <1>2, <1>5
  <2>7. (a + (NipWeights[k] * c - NipWeights[k] * d[k])) % 11 # a % 11
    BY ZenonT(90), <2>1, <2>4, <2>5, <2>6
  <2> QED BY <2>1, <2>2, <2>7
<1>6. k = 10 \/ k \in 1 .. 9
  BY <1>3
<1> QED BY <1>4, <1>5, <1>6

(* Doubling and adding the digits up sends ten digits to ten digits.       *)
LEMMA LuhnNotices ==
    ASSUME NEW d \in Seq(Digit), NEW k \in DOMAIN d, NEW c \in Digit, c # d[k], Luhn(d)
    PROVE  ~Luhn([d EXCEPT ![k] = c])
<1> DEFINE e == [d EXCEPT ![k] = c]
           n == Len(d)
           doubled(x) == IF x > 4 THEN 2 * x - 9 ELSE 2 * x
           value(i, x) == IF (n - i) % 2 = 0 THEN x ELSE doubled(x)
           v == [i \in DOMAIN d |-> value(i, d[i])]
           w == [i \in DOMAIN e |-> value(i, e[i])]
<1> SUFFICES ASSUME Luhn(e) PROVE FALSE
  OBVIOUS
<1>1. /\ n \in Nat /\ Len(e) = n /\ DOMAIN d = 1 .. n /\ DOMAIN e = 1 .. n
      /\ \A i \in 1 .. n : d[i] \in Digit /\ e[i] \in Digit
      /\ e[k] = c /\ \A i \in 1 .. n : i # k => e[i] = d[i]
  BY OneDigitChanged
<1> HIDE DEF e, n
<1>2. Total(v) % 10 = 0 /\ Total(w) % 10 = 0
  <2>1. Total(v) % 10 = 0
    BY DEF Luhn, n
  <2>2. Total([i \in DOMAIN e |-> IF (Len(e) - i) % 2 = 0 THEN e[i]
                    ELSE IF e[i] > 4 THEN 2 * e[i] - 9 ELSE 2 * e[i]]) % 10 = 0
    BY DEF Luhn
  <2> QED BY <1>1, <2>1, <2>2
<1>3. ASSUME NEW i \in 1 .. n
      PROVE  v[i] = value(i, d[i]) /\ w[i] = value(i, e[i]) /\ v[i] \in Int /\ w[i] \in Int
  <2>1. v[i] = value(i, d[i]) /\ w[i] = value(i, e[i])
    BY <1>1
  <2>2. d[i] \in 0 .. 9 /\ e[i] \in 0 .. 9
    BY <1>1 DEF Digit
  <2>3. \A x \in 0 .. 9 : value(i, x) \in Int
    OBVIOUS
  <2> HIDE DEF v, w, value
  <2> QED BY <2>1, <2>2, <2>3
<1>4. DOMAIN v = 1 .. n /\ DOMAIN w = 1 .. n /\ k \in 1 .. n
  BY <1>1
<1>5. d[k] \in 0 .. 9 /\ c \in 0 .. 9
  BY <1>1, <1>4 DEF Digit
<1>6. \A x, y \in 0 .. 9 : x # y => /\ value(k, x) \in 0 .. 9 /\ value(k, y) \in 0 .. 9
                                    /\ value(k, x) # value(k, y)
  OBVIOUS
<1> HIDE DEF v, w, value
<1>7. \A i \in 1 .. n : i # k => w[i] = v[i]
  BY <1>1, <1>3
<1>8. Total(v) \in Int /\ Total(w) = Total(v) + (w[k] - v[k])
  <2>1. PICK m \in Nat : m = n
    BY <1>1
  <2>2. \A i \in 1 .. m : v[i] \in Int /\ w[i] \in Int
    BY <1>3, <2>1
  <2>3. k \in 1 .. m /\ DOMAIN v = 1 .. m /\ DOMAIN w = 1 .. m
    BY <1>4, <2>1
  <2>4. \A i \in 1 .. m : i # k => w[i] = v[i]
    BY <1>7, <2>1
  <2>5. PICK y, z : y = v /\ z = w
    OBVIOUS
  <2>6. Total(y) \in Int /\ Total(z) = Total(y) + (z[k] - y[k])
    BY <2>2, <2>3, <2>4, <2>5, TotalOfOneChange
  <2> QED BY <2>5, <2>6
<1>9. w[k] \in 0 .. 9 /\ v[k] \in 0 .. 9 /\ w[k] # v[k]
  <2>1. v[k] = value(k, d[k]) /\ w[k] = value(k, c)
    BY <1>1, <1>3, <1>4
  <2>2. value(k, c) \in 0 .. 9 /\ value(k, d[k]) \in 0 .. 9 /\ value(k, c) # value(k, d[k])
    BY <1>5, <1>6
  <2> QED BY <2>1, <2>2
<1>10. \A t \in Int, x, y \in 0 .. 9 : t % 10 = 0 /\ (t + (x - y)) % 10 = 0 => x = y
  OBVIOUS
<1> QED BY <1>2, <1>8, <1>9, <1>10

(* The account number with its first four characters behind the others.    *)
LEMMA Rotated ==
    ASSUME NEW s \in Seq(Nat), Len(s) >= 15
    PROVE  LET v == SubSeq(s, 5, Len(s)) \o SubSeq(s, 1, 4)
           IN  /\ v \in Seq(Nat) /\ Len(v) = Len(s) /\ DOMAIN v = 1 .. Len(s)
               /\ \A i \in 1 .. Len(s) : v[i] = s[IF i + 4 <= Len(s) THEN i + 4 ELSE i + 4 - Len(s)]
<1>1. PICK n \in Nat : n = Len(s) /\ DOMAIN s = 1 .. n /\ n >= 15 /\ \A i \in 1 .. n : s[i] \in Nat
  BY LenProperties, ElementOfSeq
<1>2. /\ SubSeq(s, 5, n) \in Seq(Nat) /\ Len(SubSeq(s, 5, n)) = n - 4
      /\ \A i \in 1 .. n - 4 : SubSeq(s, 5, n)[i] = s[5 + i - 1]
  <2>1. \A i \in 5 .. n : s[i] \in Nat
    BY <1>1
  <2> QED BY <1>1, <2>1, SubSeqProperties
<1>3. /\ SubSeq(s, 1, 4) \in Seq(Nat) /\ Len(SubSeq(s, 1, 4)) = 4
      /\ \A i \in 1 .. 4 : SubSeq(s, 1, 4)[i] = s[1 + i - 1]
  <2>1. \A i \in 1 .. 4 : s[i] \in Nat
    BY <1>1
  <2> QED BY <1>1, <2>1, SubSeqProperties
<1> DEFINE v == SubSeq(s, 5, n) \o SubSeq(s, 1, 4)
<1>4. /\ v \in Seq(Nat) /\ Len(v) = (n - 4) + 4
      /\ \A i \in 1 .. Len(v) : v[i] = IF i <= n - 4 THEN SubSeq(s, 5, n)[i] ELSE SubSeq(s, 1, 4)[i - (n - 4)]
  BY SMTT(60), <1>2, <1>3, ConcatProperties
<1> HIDE DEF v
<1>5. Len(v) = n /\ DOMAIN v = 1 .. n
  BY <1>1, <1>4, LenProperties
<1>6. ASSUME NEW i \in 1 .. n PROVE v[i] = s[IF i + 4 <= n THEN i + 4 ELSE i + 4 - n]
  <2>1. CASE i + 4 <= n
    <3>1. i <= n - 4 /\ i \in 1 .. n - 4 /\ 5 + i - 1 = i + 4
      BY <1>1, <2>1
    <3> QED BY <1>2, <1>4, <1>5, <2>1, <3>1
  <2>2. CASE ~(i + 4 <= n)
    <3>1. ~(i <= n - 4) /\ i - (n - 4) \in 1 .. 4 /\ 1 + (i - (n - 4)) - 1 = i + 4 - n
      BY SMTT(60), <1>1, <2>2
    <3> QED BY <1>3, <1>4, <1>5, <2>2, <3>1
  <2> QED BY <2>1, <2>2
<1> QED BY <1>1, <1>4, <1>5, <1>6 DEF v

LEMMA IbanLength == ASSUME NEW d, Iban(d) PROVE Len(d) \in Nat /\ Len(d) >= 15
<1>1. Len(d) \in 15 .. 34
  BY DEF Iban
<1>2. \A x \in 15 .. 34 : x \in Nat /\ x >= 15
  OBVIOUS
<1> QED BY <1>1, <1>2

LEMMA IbanNotices ==
    ASSUME NEW d \in Seq(Nat), NEW k \in DOMAIN d, NEW c \in Digit, d[k] \in Digit, c # d[k], Iban(d)
    PROVE  ~Iban([d EXCEPT ![k] = c])
<1> DEFINE e == [d EXCEPT ![k] = c]
           v == SubSeq(d, 5, Len(d)) \o SubSeq(d, 1, 4)
           w == SubSeq(e, 5, Len(e)) \o SubSeq(e, 1, 4)
<1> SUFFICES ASSUME Iban(e) PROVE FALSE
  OBVIOUS
<1>1. PICK n \in Nat : n = Len(d) /\ n >= 15
  <2>1. Len(d) \in Nat /\ Len(d) >= 15
    BY IbanLength
  <2> HIDE DEF e, v, w
  <2> QED BY <2>1
<1>2. /\ e \in Seq(Nat) /\ Len(e) = n /\ DOMAIN d = 1 .. n
      /\ e[k] = c /\ \A i \in 1 .. n : i # k => e[i] = d[i]
  BY SMTT(60), <1>1 DEF Digit
<1>3. IbanRemainder(v) = 1 /\ IbanRemainder(w) = 1
  BY DEF Iban
<1> HIDE DEF e
<1>4. /\ v \in Seq(Nat) /\ DOMAIN v = 1 .. n
      /\ \A i \in 1 .. n : v[i] = d[IF i + 4 <= n THEN i + 4 ELSE i + 4 - n]
  BY <1>1, Rotated
<1>5. /\ w \in Seq(Nat) /\ DOMAIN w = 1 .. n
      /\ \A i \in 1 .. n : w[i] = e[IF i + 4 <= n THEN i + 4 ELSE i + 4 - n]
  <2>1. PICK f \in Seq(Nat) : f = e /\ Len(f) = n /\ Len(f) >= 15
    BY <1>1, <1>2
  <2>2. LET u == SubSeq(f, 5, Len(f)) \o SubSeq(f, 1, 4)
        IN  /\ u \in Seq(Nat) /\ Len(u) = Len(f) /\ DOMAIN u = 1 .. Len(f)
            /\ \A i \in 1 .. Len(f) : u[i] = f[IF i + 4 <= Len(f) THEN i + 4 ELSE i + 4 - Len(f)]
    BY <2>1, Rotated
  <2> QED BY <2>1, <2>2
<1> HIDE DEF v, w
<1>6. PICK j \in 1 .. n : k = IF j + 4 <= n THEN j + 4 ELSE j + 4 - n
  <2>1. k \in 1 .. n
    BY <1>2
  <2>2. CASE k > 4
    <3>1. k - 4 \in 1 .. n /\ (k - 4) + 4 <= n /\ (k - 4) + 4 = k
      BY <2>1, <2>2
    <3> QED BY <3>1
  <2>3. CASE ~(k > 4)
    <3>1. k + n - 4 \in 1 .. n /\ ~((k + n - 4) + 4 <= n) /\ (k + n - 4) + 4 - n = k
      <4>1. \A x, m \in Int : (x + m - 4) + 4 = x + m /\ (x + m - 4) + 4 - m = x
        OBVIOUS
      <4>2. k \in Int /\ n \in Int /\ 1 <= k /\ k <= 4
        BY <2>1, <2>3
      <4> QED BY SMTT(60), <1>1, <4>1, <4>2
    <3> QED BY <3>1
  <2> QED BY <2>2, <2>3
<1>7. v[j] = d[k] /\ w[j] = c
  BY <1>2, <1>4, <1>5, <1>6
<1>8. ASSUME NEW i \in 1 .. n, i # j PROVE w[i] = v[i]
  <2> DEFINE at == IF i + 4 <= n THEN i + 4 ELSE i + 4 - n
  <2>1. at \in 1 .. n /\ at # k
    BY SMTT(60), <1>1, <1>6, <1>8
  <2>2. v[i] = d[at] /\ w[i] = e[at]
    BY <1>4, <1>5
  <2> QED BY <1>2, <2>1, <2>2
<1>9. \A i \in 1 .. n : v[i] \in Nat /\ w[i] \in Nat
  BY <1>4, <1>5, ElementOfSeq, LenProperties
<1>10. IbanRemainder(v) # IbanRemainder(w)
  BY ZenonT(90), <1>4, <1>5, <1>7, <1>8, <1>9, RemainderOfOneChange
<1> QED BY <1>3, <1>10

LEMMA CompactType ==
    ASSUME text \in Seq(Character), NEW a \in Nat \ {0}, NEW b \in Nat, b <= Len(text)
    PROVE  Compact(a, b) \in Seq(Nat)
<1> DEFINE read == Kept(SubSeq(text, a, b), Character \ {Space})
<1>1. SubSeq(text, a, b) \in Seq(Character)
  BY Stretch
<1>2. read \in Seq(Character \cap (Character \ {Space}))
  BY <1>1, KeptType
<1>3. Compact(a, b) = [k \in DOMAIN read |-> Upper(read[k])]
  BY DEF Compact
<1> HIDE DEF read
<1>4. DOMAIN read = 1 .. Len(read) /\ Len(read) \in Nat /\ \A k \in 1 .. Len(read) : read[k] \in Character
  BY <1>2, LenProperties, ElementOfSeq
<1>5. \A x \in Character : Upper(x) \in Nat
  BY DEF Upper, Small, Character, Other
<1>6. \A k \in 1 .. Len(read) : Upper(read[k]) \in Nat
  BY <1>4, <1>5
<1>7. [k \in 1 .. Len(read) |-> Upper(read[k])] \in Seq(Nat)
  <2>1. PICK n \in Nat : n = Len(read)
    BY <1>4
  <2>2. PICK g : g = [k \in 1 .. n |-> Upper(read[k])]
    OBVIOUS
  <2>3. g \in [1 .. n -> Nat]
    BY <1>6, <2>1, <2>2
  <2> QED BY <2>1, <2>2, <2>3
<1> QED BY <1>3, <1>4, <1>7

(* Whatever layer 1 may refuse a request for: no text that differs from it *)
(* in one digit passes the checksum it was reported on, however long the   *)
(* text and the number are (checksums.rs).                                 *)
THEOREM ChecksumsNoticeOneWrongDigit == ScanSpec => []OneWrongDigitIsNoticed
<1>1. SInv => OneWrongDigitIsNoticed
  <2> SUFFICES ASSUME SInv, NEW i \in DOMAIN findings,
                      findings[i].kind \in {"pesel", "nip", "payment_card", "iban"}
               PROVE  LET f == findings[i]
                          d == IF f.kind = "iban" THEN Compact(f.from, f.to) ELSE DigitsIn(f.from, f.to)
                      IN \A k \in DOMAIN d, c \in Digit :
                            (d[k] \in Digit /\ c # d[k]) => ~Proves(f.kind, [d EXCEPT ![k] = c])
    BY DEF OneWrongDigitIsNoticed
  <2>1. PICK f : f = findings[i]
    OBVIOUS
  <2>2. f.to \in Nat /\ f.from \in 1 .. f.to /\ f.to < index /\ Proven(f)
    BY <2>1 DEF SInv, Placed, ToSet
  <2>3. text \in Seq(Character) /\ f.from \in Nat \ {0} /\ f.to \in Nat /\ f.to <= Len(text)
    <3>1. index \in Nat /\ Len(text) \in Nat /\ index <= Len(text) + 1 /\ text \in Seq(Character)
      BY LenProperties DEF SInv, Placed
    <3>2. f.to \in Int
      BY <2>2
    <3> QED BY <2>2, <3>1, <3>2
  <2>4. DigitsIn(f.from, f.to) \in Seq(Digit)
    <3>1. SubSeq(text, f.from, f.to) \in Seq(Character)
      BY <2>3, Stretch
    <3>2. Kept(SubSeq(text, f.from, f.to), Digit) \in Seq(Character \cap Digit)
      BY <3>1, KeptType
    <3>3. Seq(Character \cap Digit) \subseteq Seq(Digit)
      BY SeqMonotonic
    <3> QED BY <3>2, <3>3 DEF DigitsIn
  <2>5. Compact(f.from, f.to) \in Seq(Nat)
    BY <2>3, CompactType
  <2> DEFINE d == IF f.kind = "iban" THEN Compact(f.from, f.to) ELSE DigitsIn(f.from, f.to)
  <2> SUFFICES ASSUME NEW k \in DOMAIN d, NEW c \in Digit, d[k] \in Digit, c # d[k]
               PROVE  ~Proves(f.kind, [d EXCEPT ![k] = c])
    BY <2>1
  <2>6. CASE f.kind = "pesel"
    <3>1. d \in Seq(Digit) /\ Pesel(d)
      BY <2>2, <2>4, <2>6 DEF Proven
    <3> HIDE DEF d
    <3>2. ~Pesel([d EXCEPT ![k] = c])
      BY <3>1, PeselNotices
    <3> QED BY <2>6, <3>2 DEF Proves
  <2>7. CASE f.kind = "nip"
    <3>1. d \in Seq(Digit) /\ Nip(d)
      BY <2>2, <2>4, <2>7 DEF Proven
    <3> HIDE DEF d
    <3>2. ~Nip([d EXCEPT ![k] = c])
      BY <3>1, NipNotices
    <3> QED BY <2>7, <3>2 DEF Proves
  <2>8. CASE f.kind = "payment_card"
    <3>1. d \in Seq(Digit) /\ Luhn(d)
      BY <2>2, <2>4, <2>8 DEF Proven
    <3> HIDE DEF d
    <3>2. ~Luhn([d EXCEPT ![k] = c])
      BY <3>1, LuhnNotices
    <3> QED BY <2>8, <3>2 DEF Proves
  <2>9. CASE f.kind = "iban"
    <3>1. d \in Seq(Nat) /\ Iban(d)
      BY <2>2, <2>5, <2>9 DEF Proven
    <3> HIDE DEF d
    <3>2. ~Iban([d EXCEPT ![k] = c])
      BY <3>1, IbanNotices
    <3> QED BY <2>9, <3>2 DEF Proves
  <2> QED BY <2>1, <2>6, <2>7, <2>8, <2>9
<1> QED BY <1>1, SInvAlways, PTL

-----------------------------------------------------------------------------
(* What Identifiers(Apart) says of one of them.                            *)
SetOff(a, b) ==
    /\ a \in 1 .. Len(text) /\ b \in 1 .. Len(text) /\ b >= a + 8
    /\ Apart(a, b) /\ (IsNumber(a, b) \/ IsAccount(a, b))

LEMMA NumberIsDigits ==
    ASSUME text \in Seq(Character), NEW a \in Nat \ {0}, NEW b \in Nat, a <= b, b <= Len(text), IsNumber(a, b)
    PROVE  /\ \A j \in a .. b : Is(j, Digit)
           /\ SubSeq(text, a, b) \in Seq(Digit) /\ Len(SubSeq(text, a, b)) = b - a + 1
           /\ DigitsIn(a, b) = SubSeq(text, a, b)
           /\ b - a + 1 \in 9 .. 19
<1> DEFINE d == SubSeq(text, a, b)
<1>1. /\ d \in Seq(Character) /\ Len(d) = b - a + 1
      /\ \A k \in 1 .. b - a + 1 : d[k] = text[a + k - 1]
  BY Stretch
<1>2. Len(text) \in Nat /\ DOMAIN text = 1 .. Len(text) /\ DOMAIN d = 1 .. b - a + 1
  BY <1>1, LenProperties
<1>3. /\ ToSet(d) \subseteq Digit
      /\ \/ Len(d) = 11 \/ Len(d) = 10 \/ Len(d) = 9 \/ Len(d) = 14 \/ Len(d) \in 13 .. 19
  BY DEF IsNumber, Pesel, Nip, Regon
<1>4. \A k \in 1 .. b - a + 1 : d[k] \in Digit
  BY <1>2, <1>3 DEF ToSet
<1>5. ASSUME NEW j \in a .. b PROVE Is(j, Digit)
  <2>1. j - a + 1 \in 1 .. b - a + 1 /\ a + (j - a + 1) - 1 = j /\ j \in 1 .. Len(text)
    BY <1>2
  <2>2. d[j - a + 1] = text[j]
    BY <1>1, <2>1
  <2> QED BY <1>2, <1>4, <2>1, <2>2 DEF Is
<1>6. d \in Seq(Digit)
  <2> HIDE DEF d
  <2> QED BY <1>1, <1>4, SeqNarrows
<1>7. Kept(d, Digit) = d
  BY <1>6, KeptAll
<1>8. Len(d) \in 9 .. 19
  <2>1. PICK n \in Nat : n = Len(d)
    BY <1>1
  <2>2. n = 11 \/ n = 10 \/ n = 9 \/ n = 14 \/ n \in 13 .. 19
    BY <1>3, <2>1
  <2>3. n \in 9 .. 19
    BY <2>2
  <2> QED BY <2>1, <2>3
<1> QED BY <1>1, <1>5, <1>6, <1>7, <1>8 DEF DigitsIn

(* The rest of it, from any of its digits on, is a number that ends there. *)
LEMMA NumberEndsThere ==
    ASSUME text \in Seq(Character), NEW a \in Nat \ {0}, NEW b \in Nat, a <= b, b <= Len(text),
           \A j \in a .. b : Is(j, Digit), b - a + 1 <= MaxDigits,
           ~Is(b + 1, Alphanumeric), ~(Is(b + 1, {Space, Hyphen}) /\ Is(b + 2, Alphanumeric))
    PROVE  /\ NumberEnd(a) = b
           /\ DigitsIn(a, b) = SubSeq(text, a, b)
<1> DEFINE e == NumberEnd(a)
<1>1. Len(text) \in Nat
  BY LenProperties
<1>2. /\ e \in a - 1 .. Len(text)
      /\ \A j \in a .. e : InNumber(a, j)
      /\ ~InNumber(a, e + 1) \/ Len(DigitsIn(a, e)) > MaxDigits
  BY <1>1, NumberEnds
<1> HIDE DEF e
<1>3. DigitsIn(a, b) = SubSeq(text, a, b) /\ Len(DigitsIn(a, b)) = b - a + 1
  <2> DEFINE d == SubSeq(text, a, b)
  <2>1. /\ d \in Seq(Character) /\ Len(d) = b - a + 1
        /\ \A k \in 1 .. b - a + 1 : d[k] = text[a + k - 1]
    BY Stretch
  <2>2. ASSUME NEW k \in 1 .. b - a + 1 PROVE d[k] \in Digit
    <3>1. a + k - 1 \in a .. b
      OBVIOUS
    <3> QED BY <2>1, <3>1 DEF Is
  <2>3. d \in Seq(Digit)
    <3> HIDE DEF d
    <3> QED BY <2>1, <2>2, SeqNarrows
  <2>4. Kept(d, Digit) = d
    BY <2>3, KeptAll
  <2> QED BY <2>1, <2>4 DEF DigitsIn
<1>4. ~(e > b)
  <2> SUFFICES ASSUME e > b PROVE FALSE
    OBVIOUS
  <2>1. b + 1 \in a .. e /\ (b + 1) + 1 = b + 2
    BY <1>2
  <2>2. InNumber(a, b + 1)
    BY <1>2, <2>1
  <2>3. \A j \in {b + 1, b + 2} : Is(j, Digit) => Is(j, Alphanumeric)
    BY DEF Is, Alphanumeric
  <2> QED BY <2>1, <2>2, <2>3 DEF InNumber
<1>5. ~(e < b)
  <2> SUFFICES ASSUME e < b PROVE FALSE
    OBVIOUS
  <2>1. e + 1 \in a .. b /\ e \in Nat /\ a <= e + 1 /\ e <= b
    BY <1>1, <1>2
  <2>2. InNumber(a, e + 1)
    BY <2>1 DEF InNumber
  <2>3. Len(DigitsIn(a, e)) <= Len(DigitsIn(a, b))
    BY <2>1, KeptIsMonotone DEF DigitsIn
  <2>4. Len(DigitsIn(a, e)) \in Nat
    <3>1. SubSeq(text, a, e) \in Seq(Character)
      BY <1>1, <2>1, Stretch
    <3> QED BY <3>1, KeptType, LenProperties DEF DigitsIn
  <2> QED BY <1>2, <1>3, <2>2, <2>3, <2>4 DEF MaxDigits
<1>6. e = b
  BY <1>1, <1>2, <1>4, <1>5
<1> QED BY <1>3, <1>6 DEF e

LEMMA NumberIsFound ==
    ASSUME text \in Seq(Character), NEW a, NEW b, SetOff(a, b), IsNumber(a, b)
    PROVE  /\ FoundAt(a) # NoMatch
           /\ \A f \in FoundAt(a) : f.from = a /\ f.to = b
<1>1. Len(text) \in Nat /\ a \in Nat \ {0} /\ b \in Nat /\ a <= b /\ b <= Len(text) /\ a + 8 <= b
  BY LenProperties DEF SetOff
<1>2. /\ \A j \in a .. b : Is(j, Digit)
      /\ Len(SubSeq(text, a, b)) = b - a + 1
      /\ b - a + 1 \in 9 .. 19
  BY <1>1, NumberIsDigits
<1>3. /\ ~Is(a - 1, Alphanumeric)
      /\ ~Is(b + 1, Alphanumeric) /\ ~(Is(b + 1, {Space, Hyphen}) /\ Is(b + 2, Alphanumeric))
  BY DEF SetOff, Apart, Word
<1>4. text[a] \in Digit
  BY <1>1, <1>2 DEF Is
<1>5. text[a] # At /\ text[a] # Plus /\ text[a] \notin Letter /\ StartsToken(a)
  <2>1. \A x \in Digit : x # At /\ x # Plus /\ x \notin Letter
    BY DEF Digit, At, Plus, Letter, Capital, Small
  <2> QED BY <1>3, <1>4, <2>1 DEF StartsToken
<1>6. FoundAt(a) = ScanNumeric(a)
  BY <1>4, <1>5 DEF FoundAt, FoundInToken
<1>7. NumberEnd(a) = b /\ DigitsIn(a, b) = SubSeq(text, a, b) /\ EndsToken(b)
  <2>1. b - a + 1 <= MaxDigits
    BY <1>1, <1>2 DEF MaxDigits
  <2> QED BY <1>1, <1>2, <1>3, <2>1, NumberEndsThere DEF EndsToken
<1>8. ScanNumber(a) # NoMatch /\ \A f \in ScanNumber(a) : f.from = a /\ f.to = b
  <2> DEFINE d == SubSeq(text, a, b)
             kind == KindOfNumber(d, Len(d) < b - a + 1)
  <2>1. \/ Pesel(d) \/ Nip(d) \/ Regon(d)
        \/ Len(d) \in 13 .. 19 /\ Luhn(d) /\ CardPrefixIsKnown(d)
    BY DEF IsNumber
  <2>2. Len(d) \in 1 .. MaxDigits
    <3>1. PICK n \in Nat : n = b - a + 1
      BY <1>1
    <3>2. n \in 9 .. 19
      BY <1>2, <3>1
    <3>3. n \in 1 .. 19
      BY <3>2
    <3> QED BY <1>2, <3>1, <3>3 DEF MaxDigits
  <2>3. kind # <<>>
    <3> HIDE DEF d
    <3>1. /\ Pesel(d) => Len(d) = 11
          /\ Nip(d) => Len(d) = 10
          /\ Regon(d) => Len(d) \in {9, 14}
      BY DEF Pesel, Nip, Regon
    <3>2. /\ <<"pesel", "checksum">> # <<>> /\ <<"nip", "checksum">> # <<>>
          /\ <<"regon", "checksum">> # <<>> /\ <<"phone_pl", "pattern">> # <<>>
          /\ <<"payment_card", "checksum">> # <<>>
      OBVIOUS
    <3>3. \/ Len(d) = 11 /\ Pesel(d)
          \/ Len(d) = 10 /\ Nip(d)
          \/ Len(d) \in {9, 14} /\ Regon(d)
          \/ Len(d) \in 13 .. 19 /\ ~Regon(d) /\ Luhn(d) /\ CardPrefixIsKnown(d)
      BY <2>1, <3>1
    <3> QED BY <3>2, <3>3 DEF KindOfNumber
  <2>4. ScanNumber(a) = Match(a, b, kind[1], kind[2])
    BY <1>7, <2>2, <2>3 DEF ScanNumber
  <2> HIDE DEF kind
  <2> QED BY <2>4 DEF Match, NoMatch
<1>9. \A f \in ScanPhoneWithPrefix(a) : f.from = a /\ f.to = b
  <2> SUFFICES ASSUME NEW f \in ScanPhoneWithPrefix(a) PROVE f.from = a /\ f.to = b
    OBVIOUS
  <2>1. PICK after \in {a + 3, a + 4} : f.from = a /\ f.to = NumberEnd(after)
    BY <1>1, PhoneMatch
  <2>2. /\ after \in Nat \ {0} /\ after <= b /\ b - after + 1 <= MaxDigits
        /\ \A j \in after .. b : j \in a .. b
    <3>1. b - a + 1 <= 19
      BY <1>1, <1>2
    <3> QED BY <1>1, <2>1, <3>1 DEF MaxDigits
  <2>3. \A j \in after .. b : Is(j, Digit)
    BY <1>2, <2>2
  <2>4. NumberEnd(after) = b
    BY <1>1, <1>3, <2>2, <2>3, NumberEndsThere
  <2> QED BY <2>1, <2>4
<1> QED BY <1>5, <1>6, <1>8, <1>9 DEF ScanNumeric

-----------------------------------------------------------------------------
(* Account numbers.                                                        *)
LEMMA RunIs ==
    ASSUME text \in Seq(Character), NEW m \in Nat \ {0}, NEW b \in Nat, m <= b, b <= Len(text),
           NEW S, \A j \in m .. b : Is(j, S), ~Is(b + 1, S)
    PROVE  EndOfRun(m, S) = b + 1
<1> DEFINE e == EndOfRun(m, S)
<1>1. Len(text) \in Nat /\ DOMAIN text = 1 .. Len(text)
  BY LenProperties
<1>2. /\ e \in m .. Len(text) + 1
      /\ \A j \in m .. e - 1 : j \in DOMAIN text /\ text[j] \in S
      /\ e <= Len(text) => text[e] \notin S
  BY <1>1, RunEnds
<1> HIDE DEF e
<1>3. ~(e <= b)
  <2> SUFFICES ASSUME e <= b PROVE FALSE
    OBVIOUS
  <2>1. e \in m .. b /\ e <= Len(text)
    BY <1>1, <1>2
  <2> QED BY <1>2, <2>1 DEF Is
<1>4. ~(e > b + 1)
  <2> SUFFICES ASSUME e > b + 1 PROVE FALSE
    OBVIOUS
  <2>1. b + 1 \in m .. e - 1
    BY <1>1, <1>2
  <2> QED BY <1>2, <2>1 DEF Is
<1>5. e = b + 1
  BY <1>1, <1>2, <1>3, <1>4
<1> QED BY <1>5 DEF e

LEMMA CompactGrows ==
    ASSUME text \in Seq(Character), NEW a \in Nat \ {0}, NEW b \in Nat,
           a <= b, b <= Len(text), text[b] # Space, NEW to \in Nat, a <= to, to < b
    PROVE  Len(Compact(a, to)) < Len(Compact(a, b))
<1> DEFINE K(j) == Kept(SubSeq(text, a, j), Character \ {Space})
<1>1. Len(text) \in Nat
  BY LenProperties
<1>2. ASSUME NEW j \in Nat, j <= Len(text)
      PROVE  Len(K(j)) \in Nat /\ Len(Compact(a, j)) = Len(K(j))
  <2>1. SubSeq(text, a, j) \in Seq(Character)
    BY <1>2, Stretch
  <2>2. PICK read \in Seq(Character \cap (Character \ {Space})) : read = K(j)
    BY <2>1, KeptType
  <2>3. Compact(a, j) = [k \in DOMAIN read |-> Upper(read[k])]
    BY <2>2 DEF Compact
  <2>4. DOMAIN read = 1 .. Len(read) /\ Len(read) \in Nat
    BY LenProperties
  <2>5. Len([k \in 1 .. Len(read) |-> Upper(read[k])]) = Len(read)
    <3>1. PICK n \in Nat : n = Len(read)
      BY <2>4
    <3> QED BY SMTT(60), <3>1
  <2> QED BY <2>2, <2>3, <2>4, <2>5
<1>3. b - 1 \in Nat /\ (b - 1) + 1 = b /\ to <= b - 1 /\ a <= b - 1 /\ to <= Len(text)
      /\ b - 1 <= Len(text) /\ text[b] \in Character
  <2>1. b \in 1 .. Len(text)
    BY <1>1
  <2> QED BY <1>1, <2>1, ElementOfSeq
<1>4. Len(K(to)) <= Len(K(b - 1))
  <2>1. PICK c \in Nat : c = b - 1
    BY <1>3
  <2>2. a <= to + 1 /\ to <= c /\ c <= Len(text)
    BY <1>3, <2>1
  <2>3. Len(Kept(SubSeq(text, a, to), Character \ {Space})) <= Len(Kept(SubSeq(text, a, c), Character \ {Space}))
    BY <2>2, KeptIsMonotone
  <2> QED BY <2>1, <2>3
<1>5. Len(K(b)) = Len(K(b - 1)) + 1
  <2>1. PICK c \in Nat : c = b - 1
    BY <1>3
  <2>2. a <= c + 1 /\ c + 1 <= Len(text) /\ c + 1 = b
    BY <1>3, <2>1
  <2>3. Len(Kept(SubSeq(text, a, c + 1), Character \ {Space})) =
           IF text[c + 1] \in Character \ {Space} THEN Len(Kept(SubSeq(text, a, c), Character \ {Space})) + 1
           ELSE Len(Kept(SubSeq(text, a, c), Character \ {Space}))
    BY <2>2, KeptGrows
  <2>4. text[c + 1] \in Character \ {Space}
    BY <1>3, <2>2
  <2> QED BY <2>1, <2>2, <2>3, <2>4
<1>6. Len(K(to)) \in Nat /\ Len(K(b - 1)) \in Nat /\ Len(K(b)) \in Nat
      /\ Len(Compact(a, to)) = Len(K(to)) /\ Len(Compact(a, b)) = Len(K(b))
  BY <1>2, <1>3
<1> HIDE DEF K
<1> QED BY <1>4, <1>5, <1>6

(* Four characters in front that are no spaces stay in front.              *)
LEMMA FrontOfCompact ==
    ASSUME text \in Seq(Character), NEW a \in Nat \ {0}, NEW b \in Nat, a + 4 <= b, b <= Len(text),
           \A j \in a .. a + 3 : text[j] # Space
    PROVE  \A k \in 1 .. 4 : Compact(a, b)[k] = Upper(text[a + k - 1])
<1> DEFINE S == Character \ {Space}
           K(j) == Kept(SubSeq(text, a, j), S)
           T == {j \in Nat : a + 3 <= j /\ j <= Len(text) =>
                    /\ K(j) \in Seq(Character) /\ Len(K(j)) >= 4
                    /\ \A k \in 1 .. 4 : K(j)[k] = text[a + k - 1]}
<1>1. Len(text) \in Nat /\ a + 3 \in Nat
  BY LenProperties
<1>2. ASSUME a + 3 <= Len(text)
      PROVE  /\ K(a + 3) \in Seq(Character) /\ Len(K(a + 3)) >= 4
             /\ \A k \in 1 .. 4 : K(a + 3)[k] = text[a + k - 1]
  <2> DEFINE d == SubSeq(text, a, a + 3)
  <2>1. /\ d \in Seq(Character) /\ Len(d) = 4 /\ \A k \in 1 .. 4 : d[k] = text[a + k - 1]
    <3>1. PICK c \in Nat : c = a + 3
      BY <1>1
    <3>2. /\ SubSeq(text, a, c) \in Seq(Character)
          /\ Len(SubSeq(text, a, c)) = IF a <= c THEN c - a + 1 ELSE 0
          /\ \A k \in 1 .. c - a + 1 : SubSeq(text, a, c)[k] = text[a + k - 1]
      BY <1>2, <3>1, Stretch
    <3>3. c - a + 1 = 4 /\ a <= c
      BY <3>1
    <3> QED BY <3>1, <3>2, <3>3
  <2>2. ASSUME NEW k \in 1 .. 4 PROVE d[k] \in S
    <3>1. a + k - 1 \in a .. a + 3 /\ a + k - 1 \in 1 .. Len(text)
      BY <1>1, <1>2
    <3>2. text[a + k - 1] \in Character
      BY <3>1, ElementOfSeq
    <3> QED BY <2>1, <3>1, <3>2
  <2> HIDE DEF d, S
  <2>3. d \in Seq(S)
    BY <2>1, <2>2, SeqNarrows
  <2>4. Kept(d, S) = d
    BY <2>3, KeptAll
  <2>5. K(a + 3) = d
    BY <2>4 DEF d
  <2> HIDE DEF K
  <2> QED BY <2>1, <2>5
<1>3. 0 \in T
  OBVIOUS
<1>4. ASSUME NEW j \in Nat, j \in T PROVE j + 1 \in T
  <2> HIDE DEF S
  <2> SUFFICES ASSUME a + 3 <= j + 1, j + 1 <= Len(text)
               PROVE  /\ K(j + 1) \in Seq(Character) /\ Len(K(j + 1)) >= 4
                      /\ \A k \in 1 .. 4 : K(j + 1)[k] = text[a + k - 1]
    OBVIOUS
  <2>1. CASE j + 1 = a + 3
    BY <1>2, <2>1
  <2>2. CASE j + 1 # a + 3
    <3>1. a + 3 <= j /\ j <= Len(text) /\ a <= j + 1
      BY <1>1, <2>2
    <3>2. /\ K(j) \in Seq(Character) /\ Len(K(j)) >= 4
          /\ \A k \in 1 .. 4 : K(j)[k] = text[a + k - 1]
      BY <1>4, <3>1
    <3>3. K(j + 1) = IF text[j + 1] \in S THEN Append(K(j), text[j + 1]) ELSE K(j)
      BY <3>1, KeptGrows
    <3>4. text[j + 1] \in Character
      <4>1. j + 1 \in 1 .. Len(text)
        BY <1>1
      <4> QED BY <4>1, ElementOfSeq
    <3> HIDE DEF K
    <3>5. /\ Append(K(j), text[j + 1]) \in Seq(Character)
          /\ Len(Append(K(j), text[j + 1])) = Len(K(j)) + 1
          /\ \A k \in 1 .. Len(K(j)) : Append(K(j), text[j + 1])[k] = K(j)[k]
          /\ Len(K(j)) \in Nat
      BY <3>2, <3>4, AppendProperties, LenProperties
    <3>6. Len(K(j)) + 1 >= 4 /\ \A k \in 1 .. 4 : k \in 1 .. Len(K(j))
      BY SMTT(60), <3>2, <3>5
    <3> QED BY <3>2, <3>3, <3>5, <3>6
  <2> QED BY <2>1, <2>2
<1> HIDE DEF T
<1>5. \A j \in Nat : j \in T
  BY <1>3, <1>4, NatSetInduction
<1>6. /\ K(b) \in Seq(Character) /\ Len(K(b)) >= 4
      /\ \A k \in 1 .. 4 : K(b)[k] = text[a + k - 1]
  <2>1. b \in T /\ a + 3 <= b
    BY <1>5
  <2> HIDE DEF K
  <2> QED BY <2>1 DEF T
<1>7. Compact(a, b) = [k \in DOMAIN K(b) |-> Upper(K(b)[k])]
  BY DEF Compact
<1> HIDE DEF K
<1>8. \A k \in 1 .. 4 : k \in DOMAIN K(b)
  <2>1. Len(K(b)) \in Nat /\ DOMAIN K(b) = 1 .. Len(K(b))
    BY <1>6, LenProperties
  <2> QED BY <1>6, <2>1
<1> QED BY <1>6, <1>7, <1>8

LEMMA IbanEndsThere ==
    ASSUME text \in Seq(Character), NEW a, NEW b, SetOff(a, b), IsAccount(a, b)
    PROVE  IbanEnd(a) = b
<1>1. Len(text) \in Nat /\ a \in Nat \ {0} /\ b \in Nat /\ a + 8 <= b /\ b <= Len(text)
  BY LenProperties DEF SetOff
<1>2. /\ ~Is(b + 1, Alphanumeric)
      /\ ~(Is(b + 1, {Space, Hyphen}) /\ Is(b + 2, Alphanumeric))
  BY DEF SetOff, Apart, Word
<1>3. /\ \/ \A i \in a .. b : Is(i, Alphanumeric)
         \/ \A i \in a .. b : Is(i, IF (i - a) % 5 = 4 THEN {Space} ELSE Alphanumeric)
      /\ text[b] # Space /\ Len(Compact(a, b)) <= MaxIban
  <2>1. Len(Compact(a, b)) \in 15 .. 34
    BY DEF IsAccount, Iban
  <2>2. \A x \in 15 .. 34 : x <= 34
    OBVIOUS
  <2> QED BY <2>1, <2>2 DEF IsAccount, MaxIban
<1>4. Space \notin Alphanumeric /\ \A j : Is(j, {Space}) => ~Is(j, Alphanumeric)
  <2>1. Space \notin Alphanumeric
    BY DEF Space, Alphanumeric, Letter, Digit, Capital, Small
  <2> QED BY <2>1 DEF Is
<1> DEFINE InGroup(j) == Is(j, IF (j - a) % 5 = 4 THEN {Space} ELSE Alphanumeric)
           GroupStarts(k) == (k - a) % 5 = 0 /\ \A j \in a .. k : InGroup(j)
           M == {a} \cup {k \in a .. Len(text) : GroupStarts(k)}
           m == Max(M)
           end == GroupEnd(m)
           E == {end} \cup {to \in a .. end : Len(Compact(a, to)) = MaxIban}
<1>5. IbanEnd(a) = Min(E)
  BY DEF IbanEnd
<1>6. m \in M /\ \A y \in M : y <= m
  <2>1. M \in SUBSET (0 .. Len(text)) /\ M # {}
    BY <1>1
  <2> HIDE DEF M
  <2> QED BY <1>1, <2>1, MaxOfBounded
<1>7. m \in a .. b /\ \A j \in m .. b : Is(j, Alphanumeric)
  <2>1. CASE \A i \in a .. b : Is(i, Alphanumeric)
    <3>1. ASSUME NEW k \in M PROVE k = a
      <4>1. CASE k \in a .. Len(text) /\ GroupStarts(k) /\ k # a
        <5>0. k \in Nat /\ a <= k /\ (k - a) % 5 = 0 /\ k # a
          <6> HIDE DEF M, m, end, E
          <6> QED BY <1>1, <4>1
        <5>1. a + 4 \in a .. k /\ ((a + 4) - a) % 5 = 4 /\ a + 4 \in a .. b
          BY <1>1, <5>0
        <5>2. Is(a + 4, {Space}) /\ Is(a + 4, Alphanumeric)
          BY <2>1, <4>1, <5>1
        <5> QED BY <1>4, <5>2
      <4> QED BY <4>1
    <3>2. m = a
      BY <1>6, <3>1
    <3> HIDE DEF m
    <3> QED BY <1>1, <2>1, <3>2
  <2>2. CASE \A i \in a .. b : InGroup(i)
    <3> DEFINE r == (b - a) % 5
    <3>1. r \in 0 .. 4 /\ (b - r - a) % 5 = 0 /\ b - r \in a .. b
      BY <1>1
    <3>2. r # 4
      <4>1. b \in a .. b
        BY <1>1
      <4>2. r = 4 => text[b] = Space
        BY <2>2, <4>1 DEF Is
      <4> QED BY <1>3, <4>2
    <3> HIDE DEF r
    <3>3. b - r \in M
      <4>1. b - r \in a .. Len(text) /\ \A j \in a .. b - r : j \in a .. b
        BY <1>1, <3>1
      <4> QED BY <2>2, <3>1, <4>1
    <3>4. ASSUME NEW k \in M PROVE k <= b
      <4>0. k \in Int /\ (k = a \/ (k \in a .. Len(text) /\ GroupStarts(k)))
        <5> HIDE DEF m, end, E, GroupStarts
        <5>1. k = a \/ (k \in a .. Len(text) /\ GroupStarts(k))
          OBVIOUS
        <5> HIDE DEF M
        <5> QED BY <1>1, <5>1
      <4> SUFFICES ASSUME k > b, k \in a .. Len(text), GroupStarts(k) PROVE FALSE
        <5> HIDE DEF M, m, end, E, GroupStarts
        <5> QED BY <1>1, <4>0
      <4>1. b + 1 \in a .. k /\ b + 1 \in Int
        BY <1>1
      <4>2. InGroup(b + 1)
        BY <4>1
      <4>3. ((b + 1) - a) % 5 = 4 /\ Is(b + 1, {Space})
        BY <1>2, <4>2
      <4>4. k # b + 1
        BY <4>3
      <4>5. b + 2 \in a .. k /\ ((b + 2) - a) % 5 # 4
        BY <1>1, <4>3, <4>4
      <4>6. Is(b + 2, Alphanumeric)
        BY <4>5
      <4> QED BY <1>2, <4>3, <4>6 DEF Is
    <3> HIDE DEF M
    <3>5. m <= b /\ b - r <= m
      BY <1>6, <3>3, <3>4
    <3>6. m \in Int
      <4>1. M \subseteq Int
        BY <1>1 DEF M
      <4> QED BY <1>6, <4>1
    <3> HIDE DEF m
    <3>7. m \in a .. b
      BY <1>1, <3>1, <3>5, <3>6
    <3>8. ASSUME NEW j \in m .. b PROVE Is(j, Alphanumeric)
      <4>1. j \in a .. b /\ j \in b - r .. b
        BY <1>1, <3>1, <3>5, <3>6, <3>7
      <4>2. (j - a) % 5 # 4
        <5>1. j - a = (b - r - a) + (j - (b - r)) /\ j - (b - r) \in 0 .. 3
          BY <1>1, <3>1, <3>2, <4>1
        <5>2. \A x, y \in Int : x % 5 = 0 /\ y \in 0 .. 3 => (x + y) % 5 # 4
          OBVIOUS
        <5>3. b - r - a \in Int
          BY <1>1, <3>1
        <5>4. PICK x \in Int, y \in 0 .. 3 : x = b - r - a /\ y = j - (b - r) /\ j - a = x + y
          BY <5>1, <5>3
        <5>5. (x + y) % 5 # 4
          BY SMTT(60), <3>1, <5>2, <5>4
        <5> QED BY <5>4, <5>5
      <4> QED BY <2>2, <4>1, <4>2
    <3> QED BY <3>7, <3>8
  <2> HIDE DEF m
  <2> QED BY <1>3, <2>1, <2>2
<1> HIDE DEF m
<1>8. end = b
  <2>1. EndOfRun(m, Alphanumeric) = b + 1
    BY <1>1, <1>2, <1>7, RunIs
  <2> QED BY <1>1, <2>1 DEF GroupEnd
<1> HIDE DEF end
<1>9. E = {b}
  <2>1. ASSUME NEW to \in a .. end, Len(Compact(a, to)) = MaxIban PROVE to = b
    <3>1. to \in Nat /\ a <= to /\ to <= b
      BY <1>1, <1>8
    <3>2. to < b => Len(Compact(a, to)) < Len(Compact(a, b))
      <4>1. a <= b
        BY <1>1
      <4>2. PICK c \in Nat : c = to
        BY <3>1
      <4>3. c < b => Len(Compact(a, c)) < Len(Compact(a, b))
        BY <1>1, <1>3, <3>1, <4>1, <4>2, CompactGrows
      <4> QED BY <4>2, <4>3
    <3>3. Len(Compact(a, b)) \in Int
      <4>1. Compact(a, b) \in Seq(Nat)
        BY <1>1, CompactType
      <4> QED BY <4>1, LenProperties
    <3>4. ~(to < b)
      BY <1>3, <2>1, <3>2, <3>3 DEF MaxIban
    <3> QED BY <1>1, <3>1, <3>4
  <2> QED BY <1>8, <2>1
<1>10. Min(E) \in E
  <2>1. E \in SUBSET Nat /\ E # {}
    BY <1>1, <1>9
  <2> HIDE DEF E
  <2> QED BY <2>1, MinOfSome
<1> HIDE DEF E
<1> QED BY <1>5, <1>9, <1>10

LEMMA AccountIsFound ==
    ASSUME text \in Seq(Character), NEW a, NEW b, SetOff(a, b), IsAccount(a, b)
    PROVE  /\ FoundAt(a) # NoMatch
           /\ \A f \in FoundAt(a) : f.from = a /\ f.to = b
<1>1. Len(text) \in Nat /\ a \in Nat \ {0} /\ b \in Nat /\ a + 8 <= b /\ b <= Len(text)
      /\ DOMAIN text = 1 .. Len(text)
  BY LenProperties DEF SetOff
<1>2. StartsToken(a) /\ EndsToken(b)
  BY DEF SetOff, Apart, Word, StartsToken, EndsToken
<1>3. /\ text[a] \in Capital /\ text[a + 1] \in Capital
      /\ Compact(a, b)[3] \in Digit /\ Compact(a, b)[4] \in Digit
  BY DEF IsAccount, Iban
<1>4. /\ a \in DOMAIN text /\ a + 1 \in DOMAIN text /\ a + 2 \in DOMAIN text /\ a + 3 \in DOMAIN text
      /\ \A j \in a .. a + 3 : j \in a .. b /\ (j - a) % 5 # 4
  BY <1>1
<1>5. \A j \in a .. a + 3 : Is(j, Alphanumeric)
  BY <1>4 DEF IsAccount
<1>6. \A x \in Alphanumeric : x # Space /\ (Upper(x) \in Digit => x \in Digit)
  BY DEF Alphanumeric, Letter, Small, Capital, Digit, Space, Upper
<1>7. \A j \in a .. a + 3 : text[j] # Space
  BY <1>5, <1>6 DEF Is
<1>8. \A k \in 1 .. 4 : Compact(a, b)[k] = Upper(text[a + k - 1])
  <2>1. a + 4 <= b
    BY <1>1
  <2> QED BY <1>1, <1>7, <2>1, FrontOfCompact
<1>9. text[a + 2] \in Digit /\ text[a + 3] \in Digit
  <2>1. Compact(a, b)[3] = Upper(text[a + 3 - 1]) /\ Compact(a, b)[4] = Upper(text[a + 4 - 1])
    BY <1>8
  <2>2. a + 3 - 1 = a + 2 /\ a + 4 - 1 = a + 3 /\ a + 2 \in a .. a + 3 /\ a + 3 \in a .. a + 3
    BY <1>1
  <2>3. text[a + 2] \in Alphanumeric /\ text[a + 3] \in Alphanumeric
    BY <1>5, <2>2 DEF Is
  <2>4. Upper(text[a + 2]) \in Digit /\ Upper(text[a + 3]) \in Digit
    BY <1>3, <2>1, <2>2
  <2> QED BY <1>6, <2>3, <2>4
<1>10. IbanEnd(a) = b
  BY IbanEndsThere
<1>11. ScanIban(a) = Match(a, b, "iban", "checksum")
  <2>1. Is(a, Capital) /\ Is(a + 1, Capital) /\ Is(a + 2, Digit) /\ Is(a + 3, Digit)
    BY <1>3, <1>4, <1>9 DEF Is
  <2>2. Iban(Compact(a, b))
    BY DEF IsAccount
  <2> QED BY <1>2, <1>10, <2>1, <2>2 DEF ScanIban
<1>12. text[a] # At /\ text[a] \in Letter /\ text[a] \notin Digit \cup {Plus}
  <2>1. \A x \in Capital : x # At /\ x \in Letter /\ x \notin Digit \cup {Plus}
    BY DEF Capital, At, Letter, Digit, Plus
  <2> QED BY <1>3, <2>1
<1>13. FoundAt(a) = Match(a, b, "iban", "checksum")
  <2>1. ScanIban(a) # NoMatch
    BY <1>11 DEF Match, NoMatch
  <2> QED BY <1>2, <1>11, <1>12, <2>1 DEF FoundAt, FoundInToken
<1> QED BY <1>13 DEF Match, NoMatch

-----------------------------------------------------------------------------
(* No match that begins before it reaches into it.                         *)
LEMMA NoNumberReaches ==
    ASSUME NEW from \in Nat, NEW to \in Nat, NEW a \in Nat, from < a, a <= to,
           \A j \in from .. to : InNumber(from, j),
           ~Is(a - 1, Alphanumeric), ~Is(a - 1, {Hyphen}),
           ~(Is(a - 1, {Space}) /\ Is(a - 2, Alphanumeric))
    PROVE  FALSE
<1>1. a - 1 \in from .. to /\ (a - 1) - 1 = a - 2
  OBVIOUS
<1>2. \A j : Is(j, Digit) => Is(j, Alphanumeric)
  BY DEF Is, Alphanumeric
<1>3. a - 1 > from /\ Is(a - 1, {Space, Hyphen})
  BY <1>1, <1>2 DEF InNumber
<1>4. Is(a - 1, {Space}) /\ ~Is(a - 1, Digit)
  BY <1>2, <1>3 DEF Is
<1>5. a - 2 \in from .. to /\ (a - 2) + 1 = a - 1
  BY <1>3
<1>6. InNumber(from, a - 2)
  BY <1>5
<1> QED BY <1>2, <1>4, <1>5, <1>6 DEF InNumber

LEMMA NothingReaches ==
    ASSUME text \in Seq(Character), NEW a, NEW b, SetOff(a, b),
           NEW i \in 1 .. Len(text), i < a, NEW f \in FoundAt(i)
    PROVE  f.to < a
<1>0. Len(text) \in Nat /\ a \in Nat \ {0} /\ i \in Nat \ {0} /\ a - 1 >= i /\ i <= Len(text)
  BY LenProperties DEF SetOff
<1>1. f.to \in i .. Len(text)
  BY FoundThere
<1>2. f.to \in Nat
  BY <1>0, <1>1
<1> SUFFICES ASSUME a <= f.to PROVE FALSE
  BY <1>0, <1>2
<1>3. /\ ~Is(a - 1, Alphanumeric) /\ ~Is(a - 1, {Plus, Hyphen, Dot, At})
      /\ ~(Is(a - 1, {Space}) /\ Is(a - 2, Alphanumeric))
      /\ ~Is(a - 1, {Hyphen})
  BY DEF SetOff, Apart, Word, Is
<1>4. CASE text[i] = At /\ f \in ScanEmail(i)
  <2>1. \A j \in i + 1 .. f.to : Is(j, Domain)
    BY <1>4, EmailMatch
  <2>2. a - 1 # i
    BY <1>0, <1>3, <1>4, LenProperties DEF Is
  <2>3. a - 1 \in i + 1 .. f.to
    BY <1>0, <1>2, <2>2
  <2> QED BY <1>3, <2>1, <2>3 DEF Is, Domain
<1>5. CASE f \in ScanVatEu(i)
  <2>1. \A j \in i .. f.to : Is(j, Alphanumeric)
    BY <1>5, VatMatch
  <2>2. a - 1 \in i .. f.to
    BY <1>0, <1>2
  <2> QED BY <1>3, <2>1, <2>2
<1>6. CASE f \in ScanIban(i)
  <2>1. \A j \in i .. f.to : \/ Is(j, Alphanumeric)
                             \/ Is(j, {Space}) /\ j > i /\ Is(j - 1, Alphanumeric)
    BY <1>6, IbanMatch
  <2>2. a - 1 \in i .. f.to /\ (a - 1) - 1 = a - 2
    BY <1>0, <1>2
  <2> QED BY <1>3, <2>1, <2>2
<1>7. CASE f \in ScanNumber(i)
  <2>1. f.to = NumberEnd(i)
    BY <1>7, NumberMatch
  <2>2. i <= Len(text) + 1
    BY <1>0
  <2>3. \A j \in i .. f.to : InNumber(i, j)
    BY <1>0, <2>1, <2>2, NumberEnds
  <2> QED BY <1>0, <1>2, <1>3, <2>3, NoNumberReaches
<1>8. CASE f \in ScanPhoneWithPrefix(i)
  <2>1. PICK after \in {i + 3, i + 4} :
                 /\ f.to = NumberEnd(after) /\ f.to \in after .. Len(text)
                 /\ \A j \in i + 1 .. after - 1 : text[j] \in Digit
                 /\ text[i] \in {0, Plus}
    BY <1>8, PhoneMatch
  <2>2. after \in Nat \ {0} /\ after <= Len(text) + 1 /\ i < after
    BY <1>0, <2>1
  <2>3. \A j \in after .. f.to : InNumber(after, j)
    BY <2>1, <2>2, NumberEnds
  <2>4. CASE after < a
    BY <1>0, <1>2, <1>3, <2>2, <2>3, <2>4, NoNumberReaches
  <2>5. CASE ~(after < a)
    <3>1. a - 1 = i \/ a - 1 \in i + 1 .. after - 1
      BY <1>0, <2>2, <2>5
    <3>2. a - 1 \in DOMAIN text
      BY <1>0, <1>1, <1>2, LenProperties
    <3>3. 0 \in Digit
      BY DEF Digit
    <3>4. text[a - 1] \in Digit \/ text[a - 1] = Plus
      BY <2>1, <3>1, <3>3
    <3> QED BY <1>3, <3>2, <3>4 DEF Is, Alphanumeric
  <2> QED BY <2>4, <2>5
<1>9. \/ text[i] = At /\ f \in ScanEmail(i)
      \/ f \in ScanIban(i) \cup ScanVatEu(i) \cup ScanPhoneWithPrefix(i) \cup ScanNumber(i)
  <2>1. f \in FoundInToken(i) => f \in ScanIban(i) \cup ScanVatEu(i) \cup ScanNumeric(i)
    BY DEF FoundInToken, NoMatch
  <2>2. f \in ScanNumeric(i) => f \in ScanPhoneWithPrefix(i) \cup ScanNumber(i)
    BY DEF ScanNumeric, NoMatch
  <2> QED BY <2>1, <2>2 DEF FoundAt, NoMatch
<1> QED BY <1>4, <1>5, <1>6, <1>7, <1>8, <1>9

-----------------------------------------------------------------------------
(* The pass has not gone by one it has not found.                          *)
NothingIsPassed == \A s \in Identifiers(Apart) : index <= s[1] \/ Found(s)

LEMMA IdentifierIsSetOff ==
    \A s \in Identifiers(Apart) : SetOff(s[1], s[2])
BY DEF Identifiers, SetOff

LEMMA NothingPassedAtFirst == ScanInit => NothingIsPassed
<1> SUFFICES ASSUME ScanInit PROVE NothingIsPassed
  OBVIOUS
<1>1. \A s \in Identifiers(Apart) : 1 <= s[1]
  <2> SUFFICES ASSUME NEW s \in Identifiers(Apart) PROVE 1 <= s[1]
    OBVIOUS
  <2>1. SetOff(s[1], s[2])
    BY IdentifierIsSetOff
  <2>2. s[1] \in 1 .. Len(text) /\ Len(text) \in Nat
    BY <2>1, TextsAssumption, LenProperties DEF SetOff, ScanInit
  <2> QED BY <2>2
<1> QED BY <1>1 DEF ScanInit, NothingIsPassed

LEMMA IdentifiersStay ==
    ASSUME UNCHANGED text PROVE Identifiers(Apart)' = Identifiers(Apart)
BY DEF Identifiers, Apart, Word, Is, IsNumber, IsAccount, Compact

LEMMA NothingIsPassedBy == Placed /\ NothingIsPassed /\ [ScanNext]_vars => NothingIsPassed'
<1> SUFFICES ASSUME Placed, NothingIsPassed, [ScanNext]_vars PROVE NothingIsPassed'
  OBVIOUS
<1>1. UNCHANGED text
  BY DEF ScanNext, Report, Advance, vars
<1> SUFFICES ASSUME NEW s \in Identifiers(Apart) PROVE index' <= s[1] \/ Found(s)'
  BY <1>1, IdentifiersStay DEF NothingIsPassed
<1>2. PICK a, b : a = s[1] /\ b = s[2]
  OBVIOUS
<1>3. SetOff(a, b) /\ text \in Seq(Character) /\ a \in Nat /\ index \in Nat \ {0} /\ Len(text) \in Nat
  <2>1. SetOff(s[1], s[2])
    BY IdentifierIsSetOff
  <2>2. SetOff(a, b)
    BY <1>2, <2>1
  <2> QED BY <2>2, LenProperties DEF SetOff, Placed
<1>4. a <= Len(text)
  BY <1>3 DEF SetOff
<1>5. index <= a \/ Found(s)
  BY <1>2 DEF NothingIsPassed
<1>6. /\ index = a => FoundAt(a) # NoMatch
      /\ index = a => \A f \in FoundAt(a) : f.from = a /\ f.to = b
  <2>1. CASE IsNumber(a, b)
    BY <1>3, <2>1, NumberIsFound
  <2>2. CASE IsAccount(a, b)
    BY <1>3, <2>2, AccountIsFound
  <2> QED BY <1>3, <2>1, <2>2 DEF SetOff
<1>7. CASE UNCHANGED vars
  BY <1>2, <1>5, <1>7 DEF vars, Found
<1>8. CASE Advance
  <2>1. index' = index + 1 /\ UNCHANGED findings /\ FoundAt(index) = NoMatch
    BY <1>8 DEF Advance
  <2>2. index # a
    BY <1>6, <2>1
  <2>3. index <= a => index + 1 <= a
    BY <1>3, <2>2
  <2> QED BY <1>2, <1>5, <2>1, <2>3 DEF Found
<1>9. CASE Report
  <2>1. PICK f \in FoundAt(index) :
              /\ index \in 1 .. Len(text) /\ index' = f.to + 1 /\ UNCHANGED text
              /\ Len(findings) \in Nat /\ DOMAIN findings = 1 .. Len(findings)
              /\ DOMAIN findings' = 1 .. Len(findings) + 1
              /\ \A i \in 1 .. Len(findings) : findings'[i] = findings[i]
              /\ findings'[Len(findings) + 1] = f
    BY <1>9, Reported
  <2>2. CASE Found(s)
    <3>1. PICK i \in DOMAIN findings : findings[i].from = s[1] /\ findings[i].to = s[2]
      BY <2>2 DEF Found
    <3>2. i \in DOMAIN findings' /\ findings'[i] = findings[i]
      BY <2>1, <3>1
    <3> QED BY <3>1, <3>2 DEF Found
  <2>3. CASE index = a
    <3>1. f.from = a /\ f.to = b
      BY <1>6, <2>1, <2>3
    <3>2. Len(findings) + 1 \in DOMAIN findings'
      BY <2>1
    <3> QED BY <1>2, <2>1, <3>1, <3>2 DEF Found
  <2>4. CASE index < a
    <3>1. f.to < a
      BY <1>3, <2>1, <2>4, NothingReaches
    <3>2. f.to \in index .. Len(text)
      BY <1>3, <2>1, FoundThere
    <3>3. f.to + 1 <= a
      BY <1>3, <3>1, <3>2
    <3> QED BY <1>2, <2>1, <3>3
  <2>5. index <= a => index = a \/ index < a
    BY <1>3
  <2> QED BY <1>5, <2>2, <2>3, <2>4, <2>5
<1> QED BY <1>7, <1>8, <1>9 DEF ScanNext

(* Nothing that stands apart is stepped over: however long the text and    *)
(* whatever is in it, a number or account number with a right checksum is  *)
(* found where it is (detect, scan_numeric, scan_iban).                    *)
THEOREM NothingSetOffIsMissed == ScanSpec => []SetOffIdentifiersAreFound
<1>1. SInv /\ NothingIsPassed => SetOffIdentifiersAreFound
  <2> SUFFICES ASSUME SInv, NothingIsPassed, Done, NEW s \in Identifiers(Apart) PROVE Found(s)
    BY DEF SetOffIdentifiersAreFound
  <2>1. SetOff(s[1], s[2])
    BY IdentifierIsSetOff
  <2>2. s[1] \in Nat /\ s[1] <= Len(text) /\ Len(text) \in Nat /\ index \in Nat
    BY <2>1, LenProperties DEF SetOff, SInv, Placed
  <2>3. ~(index <= s[1])
    BY <2>2 DEF Done
  <2> QED BY <2>3 DEF NothingIsPassed
<1>2. ScanInit => NothingIsPassed
  BY NothingPassedAtFirst
<1>3. SInv /\ NothingIsPassed /\ [ScanNext]_vars => NothingIsPassed'
  BY NothingIsPassedBy DEF SInv
<1> QED BY <1>1, <1>2, <1>3, SInvAlways, PTL DEF ScanSpec

-----------------------------------------------------------------------------
(* What replace_range does to a sequence: a prefix, the placeholder, and   *)
(* the rest moved to the left.                                             *)
LEMMA ReplaceRangeElements ==
    ASSUME NEW string \in Seq(Nat), NEW s, NEW from \in Nat, NEW to \in Nat,
           s.from = from, s.to = to, from < to, to <= Len(string)
    PROVE  /\ ReplaceRange(string, s) \in Seq(Nat)
           /\ Len(ReplaceRange(string, s)) = Len(string) - (to - from) + 1
           /\ \A m \in 1 .. from : ReplaceRange(string, s)[m] = string[m]
           /\ ReplaceRange(string, s)[from + 1] = Placeholder
           /\ \A m \in from + 2 .. Len(ReplaceRange(string, s)) :
                 ReplaceRange(string, s)[m] = string[m + to - from - 1]
<1> DEFINE left == SubSeq(string, 1, from)
           right == SubSeq(string, to + 1, Len(string))
           head == left \o <<Placeholder>>
           new == ReplaceRange(string, s)
<1>1. Len(string) \in Nat /\ \A m \in 1 .. Len(string) : string[m] \in Nat
  BY ElementOfSeq
<1>2. left \in Seq(Nat) /\ Len(left) = from /\ \A m \in 1 .. from : left[m] = string[m]
  <2>1. \A m \in 1 .. from : string[m] \in Nat
    BY <1>1
  <2>2. /\ left \in Seq(Nat) /\ Len(left) = IF 1 <= from THEN from - 1 + 1 ELSE 0
        /\ \A m \in 1 .. from - 1 + 1 : left[m] = string[1 + m - 1]
    BY <2>1, SubSeqProperties
  <2> HIDE DEF left
  <2>3. QED
    BY <2>2
<1>3. /\ right \in Seq(Nat) /\ Len(right) = Len(string) - to
      /\ \A m \in 1 .. Len(string) - to : right[m] = string[m + to]
  <2>1. \A m \in to + 1 .. Len(string) : string[m] \in Nat
    BY <1>1
  <2>2. /\ right \in Seq(Nat)
        /\ Len(right) = IF to + 1 <= Len(string) THEN Len(string) - (to + 1) + 1 ELSE 0
        /\ \A m \in 1 .. Len(string) - (to + 1) + 1 : right[m] = string[to + 1 + m - 1]
    BY <1>1, <2>1, SubSeqProperties
  <2> HIDE DEF right
  <2>3. ASSUME NEW m \in 1 .. Len(string) - to PROVE right[m] = string[m + to]
    <3>1. m \in 1 .. Len(string) - (to + 1) + 1 /\ to + 1 + m - 1 = m + to
      BY <1>1
    <3>2. QED
      BY <2>2, <3>1
  <2>4. QED
    BY <1>1, <2>2, <2>3
<1> HIDE DEF left, right
<1>4. /\ head \in Seq(Nat) /\ Len(head) = from + 1
      /\ \A m \in 1 .. from : head[m] = left[m]
      /\ head[from + 1] = Placeholder
  <2>1. /\ <<Placeholder>> \in Seq(Nat) /\ Len(<<Placeholder>>) = 1
        /\ <<Placeholder>>[1] = Placeholder
    BY DEF Placeholder
  <2>2. /\ head \in Seq(Nat) /\ Len(head) = Len(left) + 1
        /\ \A m \in 1 .. Len(left) + 1 :
              head[m] = IF m <= Len(left) THEN left[m] ELSE <<Placeholder>>[m - Len(left)]
    BY <1>2, <2>1, ConcatProperties
  <2> HIDE DEF head
  <2>3. from + 1 - from = 1 /\ from + 1 \in 1 .. from + 1 /\ ~(from + 1 <= from)
    OBVIOUS
  <2>4. head[from + 1] = Placeholder
    BY <1>2, <2>1, <2>2, <2>3
  <2>5. QED
    BY <1>2, <2>2, <2>4
<1> HIDE DEF head
<1>5. /\ head \o right \in Seq(Nat) /\ Len(head \o right) = Len(head) + Len(right)
      /\ \A m \in 1 .. Len(head) + Len(right) :
            (head \o right)[m] = IF m <= Len(head) THEN head[m] ELSE right[m - Len(head)]
  <2>1. head \in Seq(Nat) /\ right \in Seq(Nat)
    BY <1>3, <1>4
  <2>2. QED
    BY <2>1, ConcatProperties
<1>6. new = head \o right
  BY DEF ReplaceRange, head, left, right
<1> HIDE DEF new
<1>7. new \in Seq(Nat) /\ Len(new) = Len(string) - (to - from) + 1
  BY <1>1, <1>3, <1>4, <1>5, <1>6
<1>8. /\ \A m \in 1 .. from : new[m] = string[m]
      /\ new[from + 1] = Placeholder
  BY SMTT(60), <1>1, <1>2, <1>3, <1>4, <1>5, <1>6
<1>9. ASSUME NEW m \in from + 2 .. Len(new)
      PROVE  new[m] = string[m + to - from - 1]
  <2>1. /\ m \in 1 .. Len(head) + Len(right) /\ ~(m <= Len(head))
        /\ m - Len(head) \in 1 .. Len(string) - to
        /\ m - Len(head) + to = m + to - from - 1
    BY <1>1, <1>3, <1>4, <1>7
  <2>2. new[m] = right[m - Len(head)]
    BY <1>5, <1>6, <2>1
  <2>3. QED
    BY <1>3, <2>1, <2>2
<1>10. QED
  BY <1>7, <1>8, <1>9 DEF new

-----------------------------------------------------------------------------
(* The inductive invariant.  The spans come by descending start, so the    *)
(* text before the last replaced one is untouched: what is replaced next   *)
(* is still where the finding says.  And a span is skipped only when the   *)
(* last replaced one begins inside it.                                     *)
Typed ==
    /\ \E n \in Nat : spans \in [1 .. n -> Span]
    /\ todo \subseteq DOMAIN spans
    /\ kept \subseteq DOMAIN spans
    /\ last_start \in 0 .. Length
    /\ out \in Seq(Nat)
LeftIsUntouched ==
    /\ last_start <= Len(out)
    /\ \A p \in 1 .. last_start : out[p] = p
RightIsBeyond ==
    \A p \in DOMAIN out : p > last_start => out[p] = Placeholder \/ out[p] > last_start
TodoIsLeft == \A i \in todo : spans[i].from <= last_start
LastIsKept == last_start = Length \/ \E i \in kept : spans[i].from = last_start
HandledAreBroken ==
    \A i \in DOMAIN spans \ todo : Covered(spans[i]) \cap CoveredBy(kept) # {}

MInv == /\ Typed /\ LeftIsUntouched /\ RightIsBeyond /\ TodoIsLeft /\ LastIsKept
        /\ HandledAreBroken /\ OnlySpansAreReplaced

(* What a span is.                                                         *)
LEMMA SpanFacts ==
    ASSUME Typed, NEW i \in DOMAIN spans
    PROVE  /\ spans[i].from \in 0 .. Length - 1 /\ spans[i].to \in 1 .. Length
           /\ spans[i].from < spans[i].to
           /\ Length \in Nat \ {0}
<1>1. spans[i] \in Span
  BY DEF Typed
<1>2. QED
  BY <1>1, LengthAssumption DEF Span

LEMMA InitMInv == Init => MInv
<1> SUFFICES ASSUME Init PROVE MInv
  OBVIOUS
<1>1. Length \in Nat \ {0} /\ MaxSpans \in Nat
  BY LengthAssumption, MaxSpansAssumption
<1>2. out \in Seq(Nat) /\ Len(out) = Length /\ \A p \in 1 .. Length : out[p] = p
  BY <1>1 DEF Init
<1>3. PICK n \in 0 .. MaxSpans : spans \in [1 .. n -> Span]
  BY DEF Init
<1>4. Typed
  BY <1>1, <1>2, <1>3 DEF Init, Typed
<1>5. LeftIsUntouched /\ RightIsBeyond
  BY <1>1, <1>2 DEF Init, LeftIsUntouched, RightIsBeyond
<1>6. TodoIsLeft
  BY <1>1, <1>4, SpanFacts DEF Init, TodoIsLeft
<1>7. LastIsKept /\ HandledAreBroken
  BY DEF Init, LastIsKept, HandledAreBroken
<1>8. OnlySpansAreReplaced
  <2>1. Shown = 1 .. Length
    BY <1>1, <1>2 DEF Shown, Placeholder
  <2>2. CoveredBy(kept) = {}
    BY DEF Init, CoveredBy
  <2>3. QED
    BY <1>1, <1>2, <2>1, <2>2 DEF OnlySpansAreReplaced
<1>9. QED
  BY <1>4, <1>5, <1>6, <1>7, <1>8 DEF MInv

(* A skipped span lost what the last replaced one covers of it.            *)
LEMMA SkipMInv ==
    ASSUME MInv, NEW i \in DOMAIN spans, Skip(i)
    PROVE  MInv'
<1>1. /\ i \in todo /\ spans[i].to > last_start
      /\ todo' = todo \ {i}
      /\ spans' = spans /\ kept' = kept /\ last_start' = last_start /\ out' = out
  BY DEF Skip, IsNext, Overlaps
<1>2. /\ spans[i].from <= last_start /\ last_start \in 0 .. Length /\ Typed
  BY <1>1 DEF MInv, TodoIsLeft, Typed
<1>3. PICK k \in kept : spans[k].from = last_start
  BY <1>1, <1>2, SpanFacts DEF MInv, LastIsKept
<1>4. last_start + 1 \in Covered(spans[i]) /\ last_start + 1 \in Covered(spans[k])
  <2>1. /\ spans[i].from \in Nat /\ spans[i].to \in Nat
        /\ spans[k].from \in Nat /\ spans[k].to \in Nat /\ spans[k].from < spans[k].to
    <3>1. k \in DOMAIN spans
      BY <1>2 DEF Typed
    <3>2. QED
      BY <1>2, <3>1, SpanFacts
  <2>2. QED
    BY <1>1, <1>2, <1>3, <2>1 DEF Covered
<1>5. last_start + 1 \in CoveredBy(kept)
  BY <1>3, <1>4 DEF CoveredBy
<1>6. HandledAreBroken'
  BY <1>1, <1>4, <1>5 DEF MInv, HandledAreBroken, CoveredBy
<1>7. Typed' /\ TodoIsLeft'
  BY <1>1 DEF MInv, Typed, TodoIsLeft
<1>8. LeftIsUntouched' /\ RightIsBeyond' /\ LastIsKept' /\ OnlySpansAreReplaced'
  BY SMTT(60), <1>1 DEF MInv, LeftIsUntouched, RightIsBeyond, LastIsKept, OnlySpansAreReplaced,
              Shown, CoveredBy
<1>9. QED
  BY <1>6, <1>7, <1>8 DEF MInv

(* A replaced span takes out its own positions, which are still in place,  *)
(* and moves no other out of order.                                        *)
LEMMA ReplaceMInv ==
    ASSUME MInv, NEW i \in DOMAIN spans, Replace(i)
    PROVE  MInv'
<1> DEFINE from == spans[i].from
           to == spans[i].to
<1>1. /\ IsNext(i) /\ ~(to > last_start)
      /\ todo' = todo \ {i} /\ kept' = kept \cup {i} /\ last_start' = from
      /\ out' = ReplaceRange(out, spans[i]) /\ spans' = spans
  BY DEF Replace, Overlaps
<1>f. spans[i].from = from /\ spans[i].to = to
  OBVIOUS
<1>2. /\ from \in 0 .. Length - 1 /\ to \in 1 .. Length /\ from < to /\ to <= last_start
      /\ Length \in Nat \ {0} /\ last_start \in 0 .. Length /\ out \in Seq(Nat)
      /\ last_start <= Len(out) /\ Len(out) \in Nat
  BY SMTT(60), <1>1, SpanFacts DEF MInv, Typed, LeftIsUntouched
<1>3. /\ out' \in Seq(Nat) /\ Len(out') = Len(out) - (to - from) + 1
      /\ \A m \in 1 .. from : out'[m] = out[m]
      /\ out'[from + 1] = 0
      /\ \A m \in from + 2 .. Len(out') : out'[m] = out[m + to - from - 1]
  <2> HIDE DEF from, to
  <2>1. from \in Nat /\ to \in Nat /\ to <= Len(out)
    BY <1>2
  <2>2. QED
    <3> DEFINE new == ReplaceRange(out, spans[i])
    <3>1. /\ new \in Seq(Nat)
          /\ Len(new) = Len(out) - (to - from) + 1
          /\ \A m \in 1 .. from : new[m] = out[m]
          /\ new[from + 1] = Placeholder
          /\ \A m \in from + 2 .. Len(new) : new[m] = out[m + to - from - 1]
      BY SMTT(60), <1>2, <1>f, <2>1, ReplaceRangeElements
    <3>2. out' = new
      BY <1>1
    <3> HIDE DEF new
    <3>3. QED
      BY <3>1, <3>2 DEF Placeholder
<1> HIDE DEF from, to
<1>n. Len(out') \in Nat /\ \A m \in 1 .. Len(out') : out'[m] \in Nat
  BY <1>3, ElementOfSeq
<1>4. /\ \A p \in 1 .. last_start : out[p] = p
      /\ \A p \in 1 .. Len(out) : p > last_start => out[p] = 0 \/ out[p] > last_start
      /\ \A p \in 1 .. Len(out) : out[p] \in Nat
  BY <1>2 DEF MInv, LeftIsUntouched, RightIsBeyond, Placeholder
\* What stands at each position of the new string.
<1>5. ASSUME NEW m \in 1 .. Len(out')
      PROVE  \/ m <= from /\ out'[m] = m
             \/ m = from + 1 /\ out'[m] = 0
             \/ /\ m > from + 1 /\ m + to - from - 1 \in to + 1 .. Len(out)
                /\ out'[m] = out[m + to - from - 1]
                /\ out'[m] = 0 \/ out'[m] > to
  <2>1. CASE m <= from
    BY SMTT(60), <1>2, <1>3, <1>4, <2>1
  <2>2. CASE m = from + 1
    BY <1>3, <2>2
  <2>3. CASE m > from + 1
    <3> DEFINE k == m + to - from - 1
    <3>1. m \in from + 2 .. Len(out') /\ k \in to + 1 .. Len(out) /\ k \in 1 .. Len(out)
      BY <1>n, <1>2, <1>3, <2>3
    <3>2. out'[m] = out[k]
      BY <1>3, <3>1
    <3> HIDE DEF k
    <3>3. out[k] = 0 \/ out[k] > to
      <4>1. CASE k <= last_start
        BY <1>2, <1>4, <3>1, <4>1
      <4>2. CASE k > last_start
        BY <1>2, <1>4, <3>1, <4>2
      <4>3. QED
        BY <1>2, <3>1, <4>1, <4>2
    <3>4. QED
      BY <2>3, <3>1, <3>2, <3>3 DEF k
  <2>4. QED
    BY <1>2, <1>n, <2>1, <2>2, <2>3
<1>6. Typed'
  <2>1. from \in 0 .. Length
    BY <1>2
  <2>2. QED
    BY <1>1, <1>3, <1>f, <2>1 DEF MInv, Typed
<1>7. LeftIsUntouched' /\ RightIsBeyond'
  <2>1. from <= Len(out') /\ \A p \in 1 .. from : out'[p] = p
    <3>1. from <= Len(out')
      BY <1>2, <1>3, <1>n
    <3>2. QED
      BY <1>2, <1>5, <1>n, <3>1
  <2>2. \A p \in 1 .. Len(out') : p > from => out'[p] = 0 \/ out'[p] > from
    BY SMTT(60), <1>2, <1>3, <1>5
  <2>3. QED
    BY <1>1, <1>3, <2>1, <2>2 DEF LeftIsUntouched, RightIsBeyond, Placeholder, from
<1>8. TodoIsLeft' /\ LastIsKept'
  <2>1. \A j \in todo' : spans[j].from <= from
    <3>1. ASSUME NEW j \in todo PROVE spans[j].from \in Nat
      BY SMTT(60), SpanFacts DEF MInv, Typed
    <3>2. \A j \in todo : spans[j].from < from \/ spans[j].from = from
      BY <1>1 DEF IsNext, from
    <3>3. QED
      BY SMTT(60), <1>1, <1>2, <3>1, <3>2
  <2>2. QED
    BY <1>1, <2>1 DEF TodoIsLeft, LastIsKept, from
<1>9. CoveredBy(kept)' = CoveredBy(kept) \cup (from + 1 .. to)
  BY <1>1 DEF CoveredBy, Covered, from, to
<1>10. HandledAreBroken'
  <2>1. from + 1 \in Covered(spans[i]) \cap CoveredBy(kept)'
    BY <1>2, <1>9 DEF Covered, from, to
  <2>2. QED
    BY ZenonT(90), <1>1, <1>9, <2>1 DEF MInv, HandledAreBroken
<1>11. OnlySpansAreReplaced'
  <2>1. DOMAIN out = 1 .. Len(out) /\ DOMAIN out' = 1 .. Len(out')
    BY <1>2, <1>3
  <2>2. Shown' = Shown \ (from + 1 .. to)
    <3>1. ASSUME NEW m \in 1 .. Len(out'), out'[m] # 0
          PROVE  out'[m] \in Shown \ (from + 1 .. to)
      <4>1. CASE m <= from
        <5>1. out'[m] = out[m] /\ out[m] = m /\ m \in 1 .. Len(out)
          BY SMTT(60), <1>2, <1>3, <1>4, <4>1
        <5>2. QED
          BY <1>2, <2>1, <3>1, <4>1, <5>1 DEF Shown, Placeholder
      <4>2. CASE m > from
        <5>1. /\ m + to - from - 1 \in 1 .. Len(out) /\ out'[m] = out[m + to - from - 1]
              /\ out'[m] > to
          BY <1>2, <1>5, <3>1, <4>2
        <5>2. QED
          BY SMTT(60), <1>2, <2>1, <3>1, <5>1 DEF Shown, Placeholder
      <4>3. QED
        BY <1>2, <4>1, <4>2
    <3>2. ASSUME NEW k \in 1 .. Len(out), out[k] # 0, out[k] \notin from + 1 .. to
          PROVE  \E m \in 1 .. Len(out') : out'[m] = out[k]
      <4>1. CASE k <= from
        <5>1. k \in 1 .. Len(out') /\ out'[k] = out[k]
          BY <1>2, <1>3, <4>1
        <5>2. QED
          BY <5>1
      <4>2. CASE k > from
        <5>1. k > to
          BY <1>2, <1>4, <3>2, <4>2
        <5>2. k - (to - from) + 1 \in from + 2 .. Len(out')
          BY <1>2, <1>3, <5>1
        <5>3. out'[k - (to - from) + 1] = out[k]
          <6>1. k - (to - from) + 1 + to - from - 1 = k
            BY <1>2
          <6>2. QED
            BY <1>3, <5>2, <6>1
        <5>4. QED
          <6>1. k - (to - from) + 1 \in 1 .. Len(out')
            BY <1>2, <5>2
          <6>2. QED
            BY <5>3, <6>1
      <4>3. QED
        BY <1>2, <4>1, <4>2
    <3>3. QED
      BY ZenonT(90), <2>1, <3>1, <3>2 DEF Shown, Placeholder
  <2>3. Shown' = 1 .. Length \ CoveredBy(kept)'
    BY <1>9, <2>2 DEF MInv, OnlySpansAreReplaced
  <2>4. ASSUME NEW m \in 1 .. Len(out'), NEW n \in 1 .. Len(out'), m < n,
               out'[m] # 0, out'[n] # 0
        PROVE  out'[m] < out'[n]
    <3>1. CASE n <= from
      <4>1. out'[m] = m /\ out'[n] = n
        BY <1>2, <1>5, <2>4, <3>1
      <4>2. QED
        BY <2>4, <4>1
    <3>2. CASE m <= from /\ n > from
      <4>1. out'[m] = m /\ out'[n] > to
        BY <1>2, <1>5, <2>4, <3>2
      <4>2. QED
        BY <1>2, <1>n, <3>2, <4>1
    <3>3. CASE m > from
      <4> DEFINE a == m + to - from - 1
                 b == n + to - from - 1
      <4>1. /\ a \in 1 .. Len(out) /\ out'[m] = out[a]
            /\ b \in 1 .. Len(out) /\ out'[n] = out[b]
            /\ a < b
        BY SMTT(60), <1>2, <1>5, <2>4, <3>3
      <4>2. out[a] \in Shown /\ out[b] \in Shown
        BY <2>1, <2>4, <4>1 DEF Shown, Placeholder
      <4>3. QED
        BY <2>1, <4>1, <4>2 DEF MInv, OnlySpansAreReplaced
    <3>4. QED
      BY <1>2, <2>4, <3>1, <3>2, <3>3
  <2>5. QED
    BY <2>1, <2>3, <2>4 DEF OnlySpansAreReplaced, Shown, Placeholder
<1>12. QED
  BY <1>6, <1>7, <1>8, <1>10, <1>11 DEF MInv

LEMMA StepMInv == MInv /\ [Next]_maskVars => MInv'
<1>1. MInv /\ UNCHANGED maskVars => MInv'
  BY SMTT(60) DEF maskVars, MInv, Typed, LeftIsUntouched, RightIsBeyond, TodoIsLeft, LastIsKept,
         HandledAreBroken, OnlySpansAreReplaced, Shown, CoveredBy
<1>2. QED
  BY <1>1, SkipMInv, ReplaceMInv DEF Next

(* The invariant holds in every reachable state.                           *)
THEOREM Masked == Spec => []MInv
<1>1. QED
  BY InitMInv, StepMInv, PTL DEF Spec

(* For any text and any findings: what is left is what no replaced span    *)
(* covered, once and in its order.                                         *)
THEOREM NothingElseIsReplaced == Spec => []OnlySpansAreReplaced
<1>1. MInv => OnlySpansAreReplaced
  BY DEF MInv
<1>2. QED
  BY <1>1, Masked, PTL

(* However findings overlap, each lost at least one of its characters.     *)
THEOREM EveryFindingIsBroken == Spec => []NoFindingIsLeftWhole
<1>1. MInv => NoFindingIsLeftWhole
  <2> SUFFICES ASSUME MInv, todo = {}, NEW i \in DOMAIN spans
               PROVE  ~(Covered(spans[i]) \subseteq Shown)
    BY DEF NoFindingIsLeftWhole
  <2>1. PICK p \in Covered(spans[i]) : p \in CoveredBy(kept)
    BY DEF MInv, HandledAreBroken
  <2>2. p \notin Shown
    BY <2>1 DEF MInv, OnlySpansAreReplaced
  <2>3. QED
    BY <2>1, <2>2
<1>2. QED
  BY <1>1, Masked, PTL
=============================================================================
