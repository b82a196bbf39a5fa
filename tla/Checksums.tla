----------------------------- MODULE Checksums -----------------------------
(***************************************************************************)
(* The arithmetic of checksums.rs.  A character is the number IBAN         *)
(* arithmetic makes of it: digits are 0 .. 9, capitals 10 .. 35.  All      *)
(* functions take sequences of characters from which the scanner has       *)
(* removed the separators.                                                 *)
(***************************************************************************)
EXTENDS Lists

Digit == 0 .. 9
Capital == 10 .. 35

\* The weights are zipped with the digits: the shorter one ends the sum.
WeightedSum(weights, d) == Total([i \in DOMAIN weights |-> weights[i] * d[i]])

-----------------------------------------------------------------------------
Leap(year) == (year % 4 = 0 /\ year % 100 # 0) \/ year % 400 = 0

DaysIn(year, month) ==
    CASE month \in {1, 3, 5, 7, 8, 10, 12} -> 31
      [] month \in {4, 6, 9, 11} -> 30
      [] month = 2 -> IF Leap(year) THEN 29 ELSE 28

\* The century is in the month: 1 .. 12 is 19xx, 21 .. 32 is 20xx, ... and
\* 81 .. 92 is 18xx.
Century(encoded) == <<1900, 2000, 2100, 2200, 1800>>[encoded \div 20 + 1]

PeselDate(d) ==
    LET two(i) == 10 * d[i] + d[i + 1]
        month == two(3) % 20
    IN /\ month \in 1 .. 12
       /\ two(5) \in 1 .. DaysIn(Century(two(3)) + two(1), month)

PeselWeights == <<1, 3, 7, 9, 1, 3, 7, 9, 1, 3>>
Pesel(d) ==
    /\ Len(d) = 11
    /\ (10 - (WeightedSum(PeselWeights, d) % 10)) % 10 = d[11]
    /\ PeselDate(d)

NipWeights == <<6, 5, 7, 2, 3, 4, 5, 6, 7>>
Nip(d) == Len(d) = 10 /\ WeightedSum(NipWeights, d) % 11 = d[10]

RegonWeights(n) ==
    CASE n = 9 -> <<8, 9, 2, 3, 4, 5, 6, 7>>
      [] n = 14 -> <<2, 4, 8, 5, 0, 9, 7, 3, 6, 1, 2, 4, 8>>
Regon(d) ==
    /\ Len(d) \in {9, 14}
    /\ (WeightedSum(RegonWeights(Len(d)), d) % 11) % 10 = d[Len(d)]

-----------------------------------------------------------------------------
LuhnKeepingTens(d) ==
    /\ Len(d) >= 12
    /\ Total([i \in DOMAIN d |-> d[i] * (1 + ((Len(d) - i) % 2))]) % 10 = 0

\* Every second digit from the right is doubled, and its digits added.
Luhn(d) ==
    LET value(i) == IF (Len(d) - i) % 2 = 0 THEN d[i]
                    ELSE IF d[i] > 4 THEN 2 * d[i] - 9 ELSE 2 * d[i]
    IN Len(d) >= 12 /\ Total([i \in DOMAIN d |-> value(i)]) % 10 = 0

\* Letters stand for two digits, so they shift by 100.
IbanRemainder(chars) ==
    FoldLeft(LAMBDA r, c : (IF c \in Digit THEN 10 * r + c ELSE 100 * r + c) % 97, 0, chars)

Iban(c) ==
    /\ Len(c) \in 15 .. 34
    /\ {c[1], c[2]} \subseteq Capital
    /\ {c[3], c[4]} \subseteq Digit
    /\ IbanRemainder(SubSeq(c, 5, Len(c)) \o SubSeq(c, 1, 4)) = 1
=============================================================================
