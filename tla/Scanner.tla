------------------------------ MODULE Scanner ------------------------------
(***************************************************************************)
(* Layer 1 (deterministic.rs): one pass over the text, one step per turn   *)
(* of the loop in detect.  At each position at most one scan matches; the  *)
(* pass then goes on behind the match.                                     *)
(*                                                                         *)
(* A character is a number: 0 .. 9 digits, 10 .. 35 capitals, 36 .. 61     *)
(* small letters, then the punctuation the scans tell apart.  A span is    *)
(* the first and the last position of a match.                             *)
(***************************************************************************)
EXTENDS Checksums, FiniteSets

CONSTANTS Texts   \* what may be scanned

Space == 62
Hyphen == 63
At == 64
Dot == 65
Plus == 66
LocalOnly == 67    \* _ and %
Other == 68

Small == 36 .. 61
Letter == Capital \cup Small
Alphanumeric == Digit \cup Letter
Character == 0 .. Other

ASSUME TextsAssumption == \A text \in Texts : text \in Seq(Character)

VARIABLES text, index, findings

vars == <<text, index, findings>>

MaxDigits == 19
MaxIban == 34
MaxVatPart == 12

\* The first position from i on that is not in S: where a run of S ends.
EndOfRun(i, S) == Min({j \in i .. Len(text) + 1 : j > Len(text) \/ text[j] \notin S})

Is(i, S) == i \in DOMAIN text /\ text[i] \in S
\* n characters from i on, or what is left of them.
Slice(i, n) == SubSeq(text, i, Min({i + n - 1, Len(text)}))

\* A finding: where, which kind, on which evidence.
Match(from, to, kind, evidence) ==
    {[from |-> from, to |-> to, kind |-> kind, evidence |-> evidence]}
NoMatch == {}

-----------------------------------------------------------------------------
StartsAnywhere(i) == TRUE
StartsToken(i) == ~Is(i - 1, Alphanumeric)
EndsTokenOrSentence(to) == ~Is(to + 1, Alphanumeric \cup {Dot})
EndsToken(to) == ~Is(to + 1, Alphanumeric)

\* A run of digits with single spaces or hyphens between them, given up after
\* one digit too many.
InNumber(from, i) ==
    \/ Is(i, Digit)
    \/ i > from /\ Is(i, {Space, Hyphen}) /\ Is(i + 1, Digit)
DigitsIn(from, to) == Kept(SubSeq(text, from, to), Digit)
NumberEnd(from) ==
    LET whole(to) == \A i \in from .. to : InNumber(from, i)
        stops(to) == \/ ~InNumber(from, to + 1)
                     \/ Len(DigitsIn(from, to)) > MaxDigits
    IN Min({to \in from - 1 .. Len(text) : whole(to) /\ stops(to)})

CardPrefixIsKnown(d) ==
    LET p(n) == FoldLeft(LAMBDA acc, c : 10 * acc + c, 0, SubSeq(d, 1, n))
    IN CASE p(1) = 4 -> Len(d) \in {13, 16, 19}
         [] p(1) = 5 -> p(2) \in 51 .. 55 /\ Len(d) = 16
         [] p(2) \in {34, 37} -> Len(d) = 15
         [] p(4) \in 2221 .. 2720 -> Len(d) = 16
         [] p(2) = 65 \/ p(4) \in 3528 .. 3589 \/ p(4) = 6011 -> Len(d) \in 16 .. 19
         [] p(2) \in {30, 36, 38, 39} -> Len(d) \in 14 .. 19
         [] OTHER -> FALSE

\* +48 or 0048 and nine digits right behind it.
PhoneFrom(i, after) ==
    LET to == NumberEnd(after)
    IN IF Len(DigitsIn(after, to)) = 9 /\ EndsToken(to)
       THEN Match(i, to, "phone_pl", "pattern") ELSE NoMatch
ScanPhoneWithPrefix(i) ==
    CASE Slice(i, 3) = <<Plus, 4, 8>> -> PhoneFrom(i, i + 3)
      [] Slice(i, 4) = <<0, 0, 4, 8>> -> PhoneFrom(i, i + 4)
      [] OTHER -> NoMatch

KindOfNumber(d, separated) ==
    CASE Len(d) = 11 /\ Pesel(d) -> <<"pesel", "checksum">>
      [] Len(d) = 10 /\ Nip(d) -> <<"nip", "checksum">>
      [] Len(d) \in {9, 14} /\ Regon(d) -> <<"regon", "checksum">>
      [] Len(d) = 9 /\ ~Regon(d) /\ separated -> <<"phone_pl", "pattern">>
      [] Len(d) \in 13 .. 19 /\ ~Regon(d) /\ Luhn(d) /\ CardPrefixIsKnown(d) ->
            <<"payment_card", "checksum">>
      [] OTHER -> <<>>

ScanNumber(i) ==
    LET to == NumberEnd(i)
        d == DigitsIn(i, to)
        kind == KindOfNumber(d, Len(d) < to - i + 1)
    IN IF EndsToken(to) /\ Len(d) \in 1 .. MaxDigits /\ kind # <<>>
       THEN Match(i, to, kind[1], kind[2]) ELSE NoMatch

ScanNumeric(i) ==
    IF ScanPhoneWithPrefix(i) # NoMatch THEN ScanPhoneWithPrefix(i)
    ELSE IF text[i] = Plus THEN NoMatch ELSE ScanNumber(i)

-----------------------------------------------------------------------------
Alphabet == <<"A", "B", "C", "D", "E", "F", "G", "H", "I", "J", "K", "L", "M", "N",
              "O", "P", "Q", "R", "S", "T", "U", "V", "W", "X", "Y", "Z">>
Country(i) == Alphabet[text[i] - 9] \o Alphabet[text[i + 1] - 9]

DigitLengths ==
    [c \in {"SK"} |-> {10}] @@ [c \in {"BG"} |-> {9, 10}] @@ [c \in {"CZ"} |-> 8 .. 10]
    @@ [c \in {"DE", "EE", "EL", "GR", "PT"} |-> {9}]
    @@ [c \in {"DK", "FI", "HU", "LU", "MT", "SI"} |-> {8}]
    @@ [c \in {"HR", "IT", "LV"} |-> {11}] @@ [c \in {"LT", "XI"} |-> {9, 12}]
    @@ [c \in {"RO"} |-> 6 .. 10] @@ [c \in {"SE"} |-> {12}]

VatNationalPartIsValid(country, part) ==
    LET n == Len(part)
        shaped(from, to, S) == from <= to /\ \A i \in from .. to : part[i] \in S
        alnum == Digit \cup Capital
    IN CASE country = "AT" -> n = 9 /\ part[1] = 30 /\ shaped(2, 9, Digit)
         [] country = "BE" -> n = 10 /\ shaped(1, 10, Digit) /\ part[1] \in {0, 1}
         [] country = "CY" -> n = 9 /\ shaped(1, 8, Digit) /\ part[9] \in Capital
         [] country = "ES" -> n = 9 /\ shaped(1, 9, alnum) /\ {part[1], part[9]} \cap Capital # {}
         [] country = "FR" -> n = 11 /\ shaped(1, 2, alnum) /\ shaped(3, 11, Digit)
         [] country = "IE" -> n \in {8, 9} /\ part[1] \in Digit /\ shaped(1, n, alnum)
         [] country = "NL" -> n = 12 /\ shaped(1, 9, Digit) /\ part[10] = 11 /\ shaped(11, 12, Digit)
         [] country \in DOMAIN DigitLengths -> n \in DigitLengths[country] /\ shaped(1, n, Digit)
         [] OTHER -> FALSE

\* One character more than any number has is read, so that a longer token
\* does not end there.
ScanVatEu(i) ==
    LET last == Min({EndOfRun(i + 2, Alphanumeric) - 1, i + 2 + MaxVatPart})
        part == SubSeq(text, i + 2, last)
    IN IF ~(Is(i, Capital) /\ Is(i + 1, Capital) /\ EndsToken(last)) THEN NoMatch
       ELSE IF Country(i) = "PL"
            THEN IF Len(part) = 10 /\ ToSet(part) \subseteq Digit /\ Nip(part)
                 THEN Match(i, last, "nip", "checksum") ELSE NoMatch
            ELSE IF VatNationalPartIsValid(Country(i), part)
                 THEN Match(i, last, "vat_eu", "pattern") ELSE NoMatch

-----------------------------------------------------------------------------
Upper(c) == IF c \in Small THEN c - 26 ELSE c
Compact(from, to) ==
    LET kept == Kept(SubSeq(text, from, to), Character \ {Space})
    IN [k \in DOMAIN kept |-> Upper(kept[k])]

\* From a position where a group starts: up to the end of the alphanumerics,
\* and past a space only behind a group of four.
GroupEnd(from) == EndOfRun(from, Alphanumeric) - 1
IbanEnd(from) ==
    LET GroupStarts(i) ==
            /\ (i - from) % 5 = 0
            /\ \A j \in from .. i : Is(j, IF (j - from) % 5 = 4 THEN {Space} ELSE Alphanumeric)
        end == GroupEnd(Max({from} \cup {i \in from .. Len(text) : GroupStarts(i)}))
    IN Min({end} \cup {to \in from .. end : Len(Compact(from, to)) = MaxIban})

ScanIban(i) ==
    LET to == IbanEnd(i)
    IN IF /\ Is(i, Capital) /\ Is(i + 1, Capital) /\ Is(i + 2, Digit) /\ Is(i + 3, Digit)
          /\ EndsToken(to) /\ Iban(Compact(i, to))
       THEN Match(i, to, "iban", "checksum") ELSE NoMatch

-----------------------------------------------------------------------------
LocalPart == Alphanumeric \cup {Dot, LocalOnly, Plus, Hyphen}
Domain == Alphanumeric \cup {Dot, Hyphen}

\* Backwards and forwards from the @, less the punctuation at both ends.
EmailStart(at) ==
    LET first == Min({i \in 1 .. at : \A j \in i .. at - 1 : text[j] \in LocalPart})
    IN EndOfRun(first, {Dot, Hyphen, Plus})
EmailEnd(at) ==
    LET behind == EndOfRun(at + 1, Domain)
    IN Min({i \in at .. behind - 1 : \A j \in i + 1 .. behind - 1 : text[j] = Dot})
ScanEmail(at) ==
    LET from == EmailStart(at)
        to == EmailEnd(at)
        dots == {i \in at + 1 .. to : text[i] = Dot}
        tld == SubSeq(text, Max(dots) + 1, to)
    IN IF /\ dots # {} /\ from < at
          /\ Len(tld) >= 2 /\ ToSet(tld) \subseteq Letter
          /\ at + 1 \notin dots /\ \A i \in dots : i + 1 \notin dots
       THEN Match(from, to, "email", "pattern") ELSE NoMatch

-----------------------------------------------------------------------------
\* What one turn of the loop finds at position i; the earlier scans come first.
FoundInToken(i) ==
    CASE text[i] \in Letter -> IF ScanIban(i) # NoMatch THEN ScanIban(i) ELSE ScanVatEu(i)
      [] text[i] \in Digit \cup {Plus} -> ScanNumeric(i)
      [] OTHER -> NoMatch
FoundAt(i) ==
    IF text[i] = At THEN ScanEmail(i)
    ELSE IF StartsToken(i) THEN FoundInToken(i) ELSE NoMatch

ScanInit == text \in Texts /\ index = 1 /\ findings = <<>>

Report ==
    /\ index <= Len(text)
    /\ \E f \in FoundAt(index) :
          /\ findings' = Append(findings, f)
          /\ index' = f.to + 1
    /\ UNCHANGED text

Advance ==
    /\ index <= Len(text)
    /\ FoundAt(index) = NoMatch
    /\ index' = index + 1
    /\ UNCHANGED <<text, findings>>

ScanNext == Report \/ Advance

ScanSpec == ScanInit /\ [][ScanNext]_vars

-----------------------------------------------------------------------------
Done == index > Len(text)

\* A stretch of text that is a word of its own, and one that nothing joins to
\* another word either: no space or hyphen, no plus, dot or @.
Word(from, to) == ~Is(from - 1, Alphanumeric) /\ ~Is(to + 1, Alphanumeric)
Apart(from, to) ==
    /\ Word(from, to)
    /\ ~Is(from - 1, {Plus, Hyphen, Dot, At})
    /\ ~(Is(from - 1, {Space}) /\ Is(from - 2, Alphanumeric))
    /\ ~(Is(to + 1, {Space, Hyphen}) /\ Is(to + 2, Alphanumeric))

\* How the identifiers with a checksum are written: digits without a break,
\* and account numbers whole or in groups of four.
IsNumber(from, to) ==
    LET d == SubSeq(text, from, to)
    IN /\ ToSet(d) \subseteq Digit
       /\ \/ Pesel(d) \/ Nip(d) \/ Regon(d)
          \/ Len(d) \in 13 .. 19 /\ Luhn(d) /\ CardPrefixIsKnown(d)
IsAccount(from, to) ==
    /\ \/ \A i \in from .. to : Is(i, Alphanumeric)
       \/ \A i \in from .. to : Is(i, IF (i - from) % 5 = 4 THEN {Space} ELSE Alphanumeric)
    /\ text[from] \in Capital /\ text[from + 1] \in Capital
    /\ text[to] # Space
    /\ Iban(Compact(from, to))
Identifiers(Stands(_, _)) ==
    {s \in (1 .. Len(text)) \X (1 .. Len(text)) :
        /\ s[2] >= s[1] + 8 /\ Stands(s[1], s[2])
        /\ IsNumber(s[1], s[2]) \/ IsAccount(s[1], s[2])}

Found(s) == \E i \in DOMAIN findings : findings[i].from = s[1] /\ findings[i].to = s[2]

(* A number that stands apart from other words is found wherever it is and *)
(* whatever came before it: no failed scan and no match steps over it.     *)
SetOffIdentifiersAreFound == Done => \A s \in Identifiers(Apart) : Found(s)

(* "Without this, an 11-digit window inside a 16-digit card number would   *)
(* be offered to the PESEL detector" (starts_token): what is found is a    *)
(* word of its own, comes behind what was found before, and only an e-mail *)
(* address, which is read backwards, may overlap it.                       *)
FindingsAreWholeTokens ==
    \A i \in DOMAIN findings :
        LET f == findings[i]
        IN /\ f.kind # "email" => Word(f.from, f.to)
           /\ \A j \in 1 .. i - 1 :
                /\ findings[j].to < f.to
                /\ f.kind # "email" => findings[j].to < f.from

Proves(kind, d) ==
    CASE kind = "pesel" -> Pesel(d)
      [] kind = "nip" -> Nip(d)
      [] kind = "payment_card" -> Luhn(d)
      [] kind = "iban" -> Iban(d)

(* "They must have no false positives by construction" (checksums.rs): an  *)
(* identifier that may refuse a request stops being one when any one digit *)
(* of it is changed.  REGON folds two remainders into one and weighs one   *)
(* digit with nothing, so it is not among them.                            *)
OneWrongDigitIsNoticed ==
    Done => \A i \in DOMAIN findings :
        findings[i].kind \in {"pesel", "nip", "payment_card", "iban"} =>
            LET f == findings[i]
                d == IF f.kind = "iban" THEN Compact(f.from, f.to) ELSE DigitsIn(f.from, f.to)
            IN \A k \in DOMAIN d, c \in Digit :
                  (d[k] \in Digit /\ c # d[k]) => ~Proves(f.kind, [d EXCEPT ![k] = c])
=============================================================================
