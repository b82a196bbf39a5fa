----------------------------- MODULE MCScanner -----------------------------
(* Texts of up to three fragments: identifiers of every kind, valid and    *)
(* with a wrong digit, whole and grouped, and what may stand around them.  *)
EXTENDS Scanner, TLC

aPesel == <<4, 8, 1, 2, 1, 1, 5, 6, 7, 8, 3>>
wrongPesel == <<4, 8, 1, 2, 1, 1, 5, 6, 7, 8, 4>>
aNip == <<6, 5, 1, 1, 7, 1, 8, 0, 0, 3>>
aRegon == <<1, 2, 3, 4, 5, 6, 7, 8, 5>>
aCard == <<4, 3, 3, 3, 3, 3, 3, 3, 3, 3, 3, 3, 5>>
account == <<23, 24, 9, 3, 8, 6, 0, 1, 1, 1, 1, 7, 9, 4, 7>>
groupedAccount == <<11, 14, 6, 8, Space, 5, 3, 9, 0, Space, 0, 7, 5, 4, Space, 7, 0, 3, 4>>
anEmail == <<46, Dot, 47, At, 48, Dot, 61, 61>>
nineDigits == <<6, 0, 1, Hyphen, 2, 3, 4, Space, 5, 6, 7>>
vatLetters == <<25, 21>>
germanVat == <<13, 14, 1, 2, 3, 4, 5, 6, 7, 8, 9>>
prefix == <<Plus, 4, 8>>

Fragments ==
    {aPesel, wrongPesel, aNip, aRegon, aCard, account, groupedAccount, anEmail, nineDigits,
     vatLetters, germanVat, prefix, <<4, 2>>, <<41, 53>>,
     <<46, At>>, <<Dot, 51, 47>>}
    \cup {<<c>> : c \in {Space, Hyphen, At, Dot, Plus, Other}}

MCTexts == {FlattenSeq(parts) : parts \in UNION {[1 .. n -> Fragments] : n \in 1 .. 3}}
=============================================================================
