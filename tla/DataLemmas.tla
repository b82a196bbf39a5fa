----------------------------- MODULE DataLemmas -----------------------------
(***************************************************************************)
(* Facts about the sequence operators the components are built from, for   *)
(* sequences of any length: FlattenSeq, which joins pieces, the largest    *)
(* and the smallest of a set, Total and Kept.                              *)
(***************************************************************************)
EXTENDS Lists, SequenceTheorems, WellFoundedInduction, TLAPS

(* Induction, for a set of numbers: the form that needs no operator.       *)
LEMMA NatSetInduction ==
    ASSUME NEW T, 0 \in T, \A n \in Nat : n \in T => n + 1 \in T
    PROVE  \A n \in Nat : n \in T
<1> SUFFICES ASSUME NEW m \in Nat, m \notin T PROVE FALSE
  OBVIOUS
<1> DEFINE U == Nat \ T
           R == OpToRel(<, Nat)
<1>1. U \subseteq Nat /\ U # {}
  OBVIOUS
<1>2. \A x, y \in Nat : <<y, x>> \in R <=> y < x
  BY DEF OpToRel
<1>3. IsWellFoundedOn(R, Nat)
  BY NatLessThanWellFounded
<1> HIDE DEF R, U
<1>4. PICK x \in U : \A y \in U : ~(<<y, x>> \in R)
  BY <1>1, <1>3, WFMin
<1>5. x \in Nat /\ x # 0
  BY <1>1 DEF U
<1>6. x - 1 \in Nat /\ x - 1 < x /\ (x - 1) + 1 = x
  BY <1>5
<1>7. x - 1 \notin U
  BY <1>1, <1>2, <1>4, <1>5, <1>6
<1>8. x \in T
  BY <1>6, <1>7 DEF U
<1>9. QED
  BY <1>8, <1>1 DEF U

-----------------------------------------------------------------------------
\* What FlattenSeq computes on its way: f[i] joins the first i pieces.
Joins(f, s, n) == f = [i \in 1 .. n |-> IF i = 1 THEN s[i] ELSE f[i - 1] \o s[i]]

LEMMA JoinExists ==
    ASSUME NEW s PROVE \A n \in Nat : \E f : Joins(f, s, n)
<1> DEFINE T == {n \in Nat : \E f : Joins(f, s, n)}
<1>1. 0 \in T
  <2>1. Joins([i \in 1 .. 0 |-> s], s, 0)
    BY DEF Joins
  <2> QED BY <2>1
<1>2. ASSUME NEW n \in Nat, n \in T PROVE n + 1 \in T
  <2>1. PICK f : Joins(f, s, n)
    BY <1>2
  <2> DEFINE g == [i \in 1 .. n + 1 |-> IF i <= n THEN f[i]
                                       ELSE IF i = 1 THEN s[i] ELSE f[i - 1] \o s[i]]
  <2>2. ASSUME NEW i \in 1 .. n + 1
        PROVE  g[i] = IF i = 1 THEN s[i] ELSE g[i - 1] \o s[i]
    <3>1. CASE i <= n
      <4>1. i \in 1 .. n /\ g[i] = f[i]
        BY <3>1
      <4>2. f[i] = IF i = 1 THEN s[i] ELSE f[i - 1] \o s[i]
        BY <2>1, <4>1 DEF Joins
      <4>3. i # 1 => i - 1 \in 1 .. n + 1 /\ i - 1 <= n /\ g[i - 1] = f[i - 1]
        BY <3>1
      <4> HIDE DEF g
      <4> QED BY <4>1, <4>2, <4>3
    <3>2. CASE i = n + 1
      <4>1. ~(i <= n) /\ g[i] = IF i = 1 THEN s[i] ELSE f[i - 1] \o s[i]
        BY <3>2
      <4>2. i # 1 => i - 1 \in 1 .. n + 1 /\ i - 1 <= n /\ g[i - 1] = f[i - 1]
        BY <3>2
      <4> HIDE DEF g
      <4> QED BY <4>1, <4>2
    <3> QED BY <3>1, <3>2
  <2>3. g = [i \in 1 .. n + 1 |-> g[i]]
    OBVIOUS
  <2> HIDE DEF g
  <2>4. Joins(g, s, n + 1)
    BY <2>2, <2>3 DEF Joins
  <2> QED BY <2>4
<1> HIDE DEF T
<1>3. \A n \in Nat : n \in T
  BY <1>1, <1>2, NatSetInduction
<1> QED BY <1>3 DEF T

(* The first pieces decide what the first steps make.                      *)
LEMMA JoinIsUnique ==
    ASSUME NEW s, NEW t, NEW m \in Nat, NEW n \in Nat, m <= n,
           NEW f, Joins(f, s, m), NEW g, Joins(g, t, n),
           \A i \in 1 .. m : s[i] = t[i]
    PROVE  \A i \in 1 .. m : f[i] = g[i]
<1> DEFINE T == {k \in Nat : k \in 1 .. m => f[k] = g[k]}
<1>1. 0 \in T
  OBVIOUS
<1>2. ASSUME NEW k \in Nat, k \in T PROVE k + 1 \in T
  <2> SUFFICES ASSUME k + 1 \in 1 .. m PROVE f[k + 1] = g[k + 1]
    OBVIOUS
  <2>1. k + 1 \in 1 .. n /\ s[k + 1] = t[k + 1] /\ (k + 1) - 1 = k
    OBVIOUS
  <2>2. f[k + 1] = IF k + 1 = 1 THEN s[k + 1] ELSE f[k] \o s[k + 1]
    BY ZenonT(90), <2>1 DEF Joins
  <2>3. g[k + 1] = IF k + 1 = 1 THEN t[k + 1] ELSE g[k] \o t[k + 1]
    BY ZenonT(90), <2>1 DEF Joins
  <2>4. k + 1 # 1 => f[k] = g[k]
    BY <1>2
  <2> QED BY <2>1, <2>2, <2>3, <2>4
<1> HIDE DEF T
<1>3. \A k \in Nat : k \in T
  BY <1>1, <1>2, NatSetInduction
<1> QED BY <1>3 DEF T

LEMMA FlattenIsJoin ==
    ASSUME NEW E, NEW s \in Seq(E), s # <<>>
    PROVE  \E f : Joins(f, s, Len(s)) /\ FlattenSeq(s) = f[Len(s)]
<1> DEFINE F == CHOOSE f : Joins(f, s, Len(s))
<1>1. Len(s) \in Nat /\ Len(s) # 0
  BY LenProperties, EmptySeq
<1>2. Joins(F, s, Len(s))
  BY <1>1, JoinExists
<1>3. FlattenSeq(s) = F[Len(s)]
  BY <1>1 DEF FlattenSeq, Joins
<1> QED BY <1>2, <1>3

(* The first pieces, and one more.                                         *)
LEMMA FlattenOfNone == FlattenSeq(<<>>) = <<>>
BY EmptySeq DEF FlattenSeq

LEMMA FlattenAppend ==
    ASSUME NEW E, NEW s \in Seq(Seq(E)), NEW p \in Seq(E)
    PROVE  FlattenSeq(Append(s, p)) = FlattenSeq(s) \o p
<1> DEFINE t == Append(s, p)
<1>1. /\ t \in Seq(Seq(E)) /\ Len(t) = Len(s) + 1 /\ Len(s) \in Nat
      /\ t[Len(s) + 1] = p /\ \A i \in 1 .. Len(s) : t[i] = s[i]
  BY AppendProperties, LenProperties
<1> HIDE DEF t
<1>2. t # <<>>
  BY <1>1, EmptySeq
<1>3. PICK g : Joins(g, t, Len(t)) /\ FlattenSeq(t) = g[Len(t)]
  BY <1>1, <1>2, FlattenIsJoin
<1>4. Len(t) \in 1 .. Len(t) /\ Len(t) - 1 = Len(s) /\ Len(t) = Len(s) + 1
  BY <1>1
<1>5. g[Len(t)] = IF Len(t) = 1 THEN t[Len(t)] ELSE g[Len(t) - 1] \o t[Len(t)]
  BY <1>3, <1>4 DEF Joins
<1>6. CASE s = <<>>
  <2>1. Len(t) = 1 /\ g[Len(t)] = p
    BY <1>1, <1>4, <1>5, <1>6, EmptySeq
  <2>2. <<>> \o p = p
    BY ConcatEmptySeq
  <2> QED BY <1>3, <1>6, <2>1, <2>2, FlattenOfNone DEF t
<1>7. CASE s # <<>>
  <2>1. Len(s) # 0
    BY <1>7, EmptySeq
  <2>2. PICK f : Joins(f, s, Len(s)) /\ FlattenSeq(s) = f[Len(s)]
    BY <1>7, FlattenIsJoin
  <2>5. Len(s) \in Nat /\ Len(t) \in Nat /\ Len(s) <= Len(t) /\ Len(s) \in 1 .. Len(s)
    BY <1>1, <2>1
  <2>6. \A i \in 1 .. Len(s) : s[i] = t[i]
    BY <1>1
  <2>7. Joins(f, s, Len(s)) /\ Joins(g, t, Len(t))
    BY <1>3, <2>2
  <2>8. PICK m \in Nat, n \in Nat : m = Len(s) /\ n = Len(t)
    BY <2>5
  <2>9. \A i \in 1 .. m : f[i] = g[i]
    <3>1. m <= n /\ Joins(f, s, m) /\ Joins(g, t, n) /\ \A i \in 1 .. m : s[i] = t[i]
      BY <2>5, <2>6, <2>7, <2>8
    <3> QED BY SMTT(60), <3>1, JoinIsUnique
  <2>3. f[Len(s)] = g[Len(s)]
    BY <2>5, <2>8, <2>9
  <2>4. Len(t) # 1 /\ g[Len(t)] = g[Len(s)] \o p
    BY SMTT(60), <1>1, <1>4, <1>5, <2>1
  <2> QED BY <1>3, <2>2, <2>3, <2>4 DEF t
<1> QED BY <1>6, <1>7

(* Joined pieces are a sequence of what the pieces are sequences of.       *)
LEMMA FlattenType ==
    ASSUME NEW E, NEW s \in Seq(Seq(E)) PROVE FlattenSeq(s) \in Seq(E)
<1>1. CASE s = <<>>
  BY <1>1, FlattenOfNone, EmptySeq
<1>2. CASE s # <<>>
  <2>1. PICK f : Joins(f, s, Len(s)) /\ FlattenSeq(s) = f[Len(s)]
    BY <1>2, FlattenIsJoin
  <2> DEFINE T == {k \in Nat : k \in 1 .. Len(s) => f[k] \in Seq(E)}
  <2>2. 0 \in T
    OBVIOUS
  <2>3. ASSUME NEW k \in Nat, k \in T PROVE k + 1 \in T
    <3> SUFFICES ASSUME k + 1 \in 1 .. Len(s) PROVE f[k + 1] \in Seq(E)
      OBVIOUS
    <3>1. f[k + 1] = IF k + 1 = 1 THEN s[k + 1] ELSE f[(k + 1) - 1] \o s[k + 1]
      BY <2>1 DEF Joins
    <3>2. (k + 1) - 1 = k /\ (k + 1 # 1 => k \in 1 .. Len(s))
      BY LenProperties
    <3>3. s[k + 1] \in Seq(E)
      BY ElementOfSeq
    <3>4. CASE k + 1 = 1
      BY <3>1, <3>3, <3>4
    <3>5. CASE k + 1 # 1
      <4>1. f[k] \in Seq(E)
        BY <2>3, <3>2, <3>5
      <4>2. f[k] \o s[k + 1] \in Seq(E)
        BY <3>3, <4>1, ConcatProperties
      <4> QED BY <3>1, <3>2, <3>5, <4>2
    <3> QED BY <3>4, <3>5
  <2> HIDE DEF T
  <2>4. \A k \in Nat : k \in T
    BY <2>2, <2>3, NatSetInduction
  <2>5. Len(s) \in Nat /\ Len(s) \in 1 .. Len(s)
    BY <1>2, LenProperties, EmptySeq
  <2> QED BY <2>1, <2>4, <2>5 DEF T
<1> QED BY <1>1, <1>2

(* A prefix does not see what is appended behind it.                       *)
LEMMA PrefixOfAppend ==
    ASSUME NEW E, NEW s \in Seq(E), NEW e \in E, NEW k \in 0 .. Len(s)
    PROVE  SubSeq(Append(s, e), 1, k) = SubSeq(s, 1, k)
<1> DEFINE t == Append(s, e)
<1>1. Len(s) \in Nat /\ k \in Nat /\ \A i \in 1 .. k : t[i] = s[i] /\ s[i] \in E
  BY AppendProperties, LenProperties, ElementOfSeq
<1> HIDE DEF t
<1>2. \A i \in 1 .. k : t[i] \in E
  BY <1>1
<1>3. CASE k = 0
  BY <1>3, SubSeqEmpty DEF t
<1>4. CASE k # 0
  <2>1. 1 \in Int /\ k \in Int /\ 1 <= k /\ (k - 1) + 1 = k
    BY <1>4
  <2>2. /\ SubSeq(s, 1, k) \in Seq(E) /\ Len(SubSeq(s, 1, k)) = k
        /\ \A i \in 1 .. k : SubSeq(s, 1, k)[i] = s[i]
    BY <1>1, <2>1, SubSeqProperties
  <2>3. /\ SubSeq(t, 1, k) \in Seq(E) /\ Len(SubSeq(t, 1, k)) = k
        /\ \A i \in 1 .. k : SubSeq(t, 1, k)[i] = t[i]
    BY <1>2, <2>1, SubSeqProperties
  <2>4. SubSeq(t, 1, k) = SubSeq(s, 1, k)
    BY <1>1, <2>2, <2>3, SeqEqual
  <2> QED BY <2>4 DEF t
<1> QED BY <1>3, <1>4

\* How many elements lie before piece i.
StartIn(s, i) == Len(FlattenSeq(SubSeq(s, 1, i - 1)))

(* Where the pieces lie, when one more is put behind them.                 *)
LEMMA PlacesOfAppend ==
    ASSUME NEW E, NEW s \in Seq(Seq(E)), NEW p \in Seq(E)
    PROVE  /\ \A i \in 1 .. Len(s) : StartIn(Append(s, p), i) = StartIn(s, i)
           /\ StartIn(Append(s, p), Len(s) + 1) = Len(FlattenSeq(s))
           /\ Len(FlattenSeq(Append(s, p))) = Len(FlattenSeq(s)) + Len(p)
<1>1. Len(s) \in Nat
  BY LenProperties
<1>2. ASSUME NEW i \in 1 .. Len(s) PROVE StartIn(Append(s, p), i) = StartIn(s, i)
  <2>1. i - 1 \in 0 .. Len(s)
    BY <1>1
  <2>2. SubSeq(Append(s, p), 1, i - 1) = SubSeq(s, 1, i - 1)
    BY <2>1, PrefixOfAppend
  <2> QED BY <2>2 DEF StartIn
<1>3. StartIn(Append(s, p), Len(s) + 1) = Len(FlattenSeq(s))
  <2>1. (Len(s) + 1) - 1 = Len(s) /\ Len(s) \in 0 .. Len(s)
    BY <1>1
  <2>2. SubSeq(Append(s, p), 1, Len(s)) = SubSeq(s, 1, Len(s))
    BY <2>1, PrefixOfAppend
  <2>3. SubSeq(s, 1, Len(s)) = s
    BY SubSeqFull
  <2> QED BY <2>1, <2>2, <2>3 DEF StartIn
<1>4. Len(FlattenSeq(Append(s, p))) = Len(FlattenSeq(s)) + Len(p)
  BY FlattenAppend, FlattenType, ConcatProperties
<1> QED BY <1>2, <1>3, <1>4

-----------------------------------------------------------------------------
(* The largest and the smallest of some numbers.                           *)
LEMMA MaxOfBounded ==
    ASSUME NEW n \in Nat, NEW S \in SUBSET (0 .. n), S # {}
    PROVE  Max(S) \in S /\ \A y \in S : y <= Max(S)
<1> DEFINE HasMax(A) == A # {} => \E x \in A : \A y \in A : x >= y
           T == {k \in Nat : \A A \in SUBSET (0 .. k) : HasMax(A)}
<1>1. 0 \in T
  <2> SUFFICES ASSUME NEW A \in SUBSET (0 .. 0), A # {}
               PROVE  \E x \in A : \A y \in A : x >= y
    OBVIOUS
  <2>0. \A x \in 0 .. 0 : x = 0
    OBVIOUS
  <2>1. A = {0}
    BY <2>0
  <2> QED BY <2>1
<1>2. ASSUME NEW k \in Nat, k \in T PROVE k + 1 \in T
  <2> SUFFICES ASSUME NEW A \in SUBSET (0 .. k + 1), A # {}
               PROVE  \E x \in A : \A y \in A : x >= y
    OBVIOUS
  <2>1. CASE k + 1 \in A
    <3>1. \A y \in A : k + 1 >= y
      OBVIOUS
    <3> QED BY <2>1, <3>1
  <2>2. CASE k + 1 \notin A
    <3>1. A \in SUBSET (0 .. k)
      BY <2>2
    <3> QED BY <1>2, <3>1
  <2> QED BY <2>1, <2>2
<1> HIDE DEF T
<1>3. \A k \in Nat : k \in T
  BY <1>1, <1>2, NatSetInduction
<1>4. \E x \in S : \A y \in S : x >= y
  BY <1>3 DEF T
<1>5. Max(S) \in S /\ \A y \in S : Max(S) >= y
  BY <1>4 DEF Max
<1> QED BY <1>5

LEMMA MinOfSome ==
    ASSUME NEW S \in SUBSET Nat, S # {}
    PROVE  Min(S) \in S /\ \A y \in S : Min(S) <= y
<1> DEFINE T == {k \in Nat : \A j \in 0 .. k : j \notin S}
<1>1. SUFFICES \E x \in S : \A y \in S : x <= y
  BY <1>1 DEF Min
<1>2. SUFFICES ASSUME \A x \in S : \E y \in S : ~(x <= y)
               PROVE  FALSE
  BY <1>2
<1>3. 0 \in T
  <2>1. ASSUME 0 \in S PROVE FALSE
    <3>1. PICK y \in S : ~(0 <= y)
      BY <1>2, <2>1
    <3> QED BY <3>1
  <2> QED BY <2>1
<1>4. ASSUME NEW k \in Nat, k \in T PROVE k + 1 \in T
  <2>1. ASSUME k + 1 \in S PROVE FALSE
    <3>1. PICK y \in S : ~(k + 1 <= y)
      BY <1>2, <2>1
    <3>2. y \in 0 .. k
      BY <3>1
    <3> QED BY <1>4, <3>2
  <2> QED BY <1>4, <2>1
<1> HIDE DEF T
<1>5. \A k \in Nat : k \in T
  BY <1>3, <1>4, NatSetInduction
<1>6. PICK x \in S : TRUE
  OBVIOUS
<1>7. x \in 0 .. x
  OBVIOUS
<1> QED BY <1>5, <1>6, <1>7 DEF T

-----------------------------------------------------------------------------
(* The first so many numbers, and the last of them.                        *)
LEMMA UpTo ==
    ASSUME NEW i \in Nat \ {0}
    PROVE  /\ Max(1 .. i) = i /\ (1 .. i) \ {i} = 1 .. i - 1 /\ 1 .. i # {}
<1>1. 1 .. i \in SUBSET (0 .. i) /\ i \in 1 .. i
  OBVIOUS
<1>2. Max(1 .. i) \in 1 .. i /\ \A y \in 1 .. i : y <= Max(1 .. i)
  BY <1>1, MaxOfBounded
<1> QED BY <1>1, <1>2

\* What Total computes on its way: the sum of any of the numbers.
Adds(f, v, n) ==
    f = [S \in SUBSET (1 .. n) |-> IF S = {} THEN 0 ELSE f[S \ {Max(S)}] + v[Max(S)]]

LEMMA AddsExists == ASSUME NEW v PROVE \A n \in Nat : \E f : Adds(f, v, n)
<1> DEFINE T == {n \in Nat : \E f : Adds(f, v, n)}
<1>1. 0 \in T
  <2>0. \A S \in SUBSET (1 .. 0) : S = {}
    OBVIOUS
  <2>1. Adds([S \in SUBSET (1 .. 0) |-> 0], v, 0)
    BY <2>0 DEF Adds
  <2> QED BY <2>1
<1>2. ASSUME NEW n \in Nat, n \in T PROVE n + 1 \in T
  <2>1. PICK f : Adds(f, v, n)
    BY <1>2
  <2> DEFINE g == [S \in SUBSET (1 .. n + 1) |-> IF n + 1 \in S THEN f[S \ {n + 1}] + v[n + 1]
                                                ELSE f[S]]
  <2>2. ASSUME NEW S \in SUBSET (1 .. n + 1)
        PROVE  g[S] = IF S = {} THEN 0 ELSE g[S \ {Max(S)}] + v[Max(S)]
    <3>1. CASE n + 1 \in S
      <4>1. S \in SUBSET (0 .. n + 1) /\ S # {} /\ n + 1 \in Nat
        BY <3>1
      <4>2. Max(S) \in S /\ \A y \in S : y <= Max(S)
        BY <4>1, MaxOfBounded
      <4>3. Max(S) = n + 1
        <5> HIDE DEF g
        <5>1. n + 1 <= Max(S) /\ Max(S) \in 1 .. n + 1
          BY <3>1, <4>2
        <5> QED BY <5>1
      <4>4. S \ {n + 1} \in SUBSET (1 .. n + 1) /\ n + 1 \notin S \ {n + 1}
        OBVIOUS
      <4>5. g[S \ {n + 1}] = f[S \ {n + 1}] /\ g[S] = f[S \ {n + 1}] + v[n + 1]
        BY <3>1, <4>4
      <4> HIDE DEF g
      <4> QED BY <3>1, <4>3, <4>5
    <3>2. CASE n + 1 \notin S
      <4>1. S \in SUBSET (1 .. n) /\ S \in SUBSET (0 .. n)
        BY <3>2
      <4>2. g[S] = f[S] /\ g[S \ {Max(S)}] = f[S \ {Max(S)}]
        BY <3>2
      <4>3. f[S] = IF S = {} THEN 0 ELSE f[S \ {Max(S)}] + v[Max(S)]
        BY <2>1, <4>1 DEF Adds
      <4> HIDE DEF g
      <4> QED BY <4>2, <4>3
    <3> QED BY <3>1, <3>2
  <2>3. g = [S \in SUBSET (1 .. n + 1) |-> g[S]]
    OBVIOUS
  <2> HIDE DEF g
  <2>4. Adds(g, v, n + 1)
    BY <2>2, <2>3 DEF Adds
  <2> QED BY <2>4
<1> HIDE DEF T
<1>3. \A n \in Nat : n \in T
  BY <1>1, <1>2, NatSetInduction
<1> QED BY <1>3 DEF T

(* Total is the last of the sums of the first so many numbers.             *)
LEMMA TotalIsSum ==
    ASSUME NEW n \in Nat, NEW v, DOMAIN v = 1 .. n, \A i \in 1 .. n : v[i] \in Int
    PROVE  \E p \in [0 .. n -> Int] : /\ p[0] = 0 /\ p[n] = Total(v)
                                      /\ \A i \in 1 .. n : p[i] = p[i - 1] + v[i]
<1> DEFINE F == CHOOSE f : Adds(f, v, n)
<1>1. Adds(F, v, n)
  BY AddsExists
<1>2. Total(v) = F[1 .. n]
  BY DEF Total, FoldLeft, MapThenFoldSet, Adds
<1> HIDE DEF F
<1> DEFINE p == [i \in 0 .. n |-> F[1 .. i]]
<1>3. p[0] = 0 /\ p[n] = Total(v)
  <2>1. 1 .. 0 = {} /\ {} \in SUBSET (1 .. n)
    OBVIOUS
  <2>2. F[{}] = 0
    BY <1>1, <2>1 DEF Adds
  <2> QED BY <1>2, <2>1, <2>2
<1>4. ASSUME NEW i \in 1 .. n PROVE p[i] = p[i - 1] + v[i]
  <2>1. i \in 0 .. n /\ i - 1 \in 0 .. n /\ i \in Nat \ {0} /\ 1 .. i \in SUBSET (1 .. n)
    OBVIOUS
  <2>2. Max(1 .. i) = i /\ (1 .. i) \ {i} = 1 .. i - 1 /\ 1 .. i # {}
    BY <2>1, UpTo
  <2>3. F[1 .. i] = IF 1 .. i = {} THEN 0 ELSE F[(1 .. i) \ {Max(1 .. i)}] + v[Max(1 .. i)]
    BY <1>1, <2>1 DEF Adds
  <2>4. F[1 .. i] = F[1 .. i - 1] + v[i]
    BY <2>2, <2>3
  <2> QED BY <2>1, <2>4
<1> DEFINE T == {k \in Nat : k \in 0 .. n => p[k] \in Int}
<1>5. 0 \in T
  BY <1>3
<1> HIDE DEF p
<1>6. ASSUME NEW k \in Nat, k \in T PROVE k + 1 \in T
  <2> SUFFICES ASSUME k + 1 \in 0 .. n PROVE p[k + 1] \in Int
    OBVIOUS
  <2>1. k + 1 \in 1 .. n /\ k \in 0 .. n /\ (k + 1) - 1 = k
    OBVIOUS
  <2>2. p[k + 1] = p[k] + v[k + 1]
    BY <1>4, <2>1
  <2> QED BY <1>6, <2>1, <2>2
<1> HIDE DEF T
<1>7. \A k \in Nat : k \in T
  BY <1>5, <1>6, NatSetInduction
<1>8. p \in [0 .. n -> Int]
  <2>1. \A i \in 0 .. n : p[i] \in Int
    BY <1>7 DEF T
  <2>2. p = [i \in 0 .. n |-> p[i]]
    BY DEF p
  <2> QED BY <2>1, <2>2
<1> QED BY <1>3, <1>4, <1>8

(* One number changed changes the total by as much.                        *)
LEMMA TotalOfOneChange ==
    ASSUME NEW n \in Nat, NEW k \in 1 .. n,
           NEW v, DOMAIN v = 1 .. n, \A i \in 1 .. n : v[i] \in Int,
           NEW w, DOMAIN w = 1 .. n, \A i \in 1 .. n : w[i] \in Int,
           \A i \in 1 .. n : i # k => w[i] = v[i]
    PROVE  Total(v) \in Int /\ Total(w) = Total(v) + (w[k] - v[k])
<1>1. PICK p \in [0 .. n -> Int] : /\ p[0] = 0 /\ p[n] = Total(v)
                                   /\ \A i \in 1 .. n : p[i] = p[i - 1] + v[i]
  BY TotalIsSum
<1>2. PICK q \in [0 .. n -> Int] : /\ q[0] = 0 /\ q[n] = Total(w)
                                   /\ \A i \in 1 .. n : q[i] = q[i - 1] + w[i]
  BY TotalIsSum
<1> DEFINE T == {j \in Nat : j \in 0 .. n => q[j] = p[j] + (IF j < k THEN 0 ELSE w[k] - v[k])}
<1>3. 0 \in T
  BY <1>1, <1>2
<1>4. ASSUME NEW j \in Nat, j \in T PROVE j + 1 \in T
  <2> SUFFICES ASSUME j + 1 \in 0 .. n
               PROVE  q[j + 1] = p[j + 1] + (IF j + 1 < k THEN 0 ELSE w[k] - v[k])
    OBVIOUS
  <2>1. j + 1 \in 1 .. n /\ j \in 0 .. n /\ (j + 1) - 1 = j
    OBVIOUS
  <2>2. q[j + 1] = q[j] + w[j + 1] /\ p[j + 1] = p[j] + v[j + 1]
    BY <1>1, <1>2, <2>1
  <2>3. q[j] = p[j] + (IF j < k THEN 0 ELSE w[k] - v[k])
    BY <1>4, <2>1
  <2>4. p[j] \in Int /\ q[j] \in Int /\ v[j + 1] \in Int /\ w[j + 1] \in Int /\ w[k] \in Int /\ v[k] \in Int
    BY <2>1
  <2>5. CASE j + 1 = k
    <3>1. j < k /\ ~(j + 1 < k)
      BY <2>5
    <3>2. q[j] = p[j]
      BY <2>3, <2>4, <3>1
    <3>3. q[k] = p[j] + w[k] /\ p[k] = p[j] + v[k]
      BY <2>2, <2>5, <3>2
    <3>4. \A a, x, y \in Int : a + y = (a + x) + (y - x)
      OBVIOUS
    <3>5. p[j] + w[k] = (p[j] + v[k]) + (w[k] - v[k])
      BY SMTT(60), <2>4, <3>4
    <3>6. q[k] = p[k] + (w[k] - v[k])
      BY <3>3, <3>5
    <3> QED BY <2>5, <3>1, <3>6
  <2>6. CASE j + 1 # k
    <3>1. w[j + 1] = v[j + 1] /\ (j + 1 < k <=> j < k)
      BY <2>1, <2>6
    <3> DEFINE d == IF j < k THEN 0 ELSE w[k] - v[k]
    <3>2. \A a, x, e \in Int : (a + e) + x = (a + x) + e
      OBVIOUS
    <3>3. d \in Int /\ q[j] = p[j] + d
      BY <2>3, <2>4
    <3>4. d = IF j + 1 < k THEN 0 ELSE w[k] - v[k]
      BY <3>1
    <3> HIDE DEF d
    <3>5. (p[j] + d) + v[j + 1] = (p[j] + v[j + 1]) + d
      BY SMTT(60), <2>4, <3>2, <3>3
    <3>6. q[j + 1] = p[j + 1] + d
      BY <2>2, <3>1, <3>3, <3>5
    <3> QED BY <3>4, <3>6
  <2> QED BY <2>5, <2>6
<1> HIDE DEF T
<1>5. \A j \in Nat : j \in T
  BY <1>3, <1>4, NatSetInduction
<1>6. n \in T /\ n \in 0 .. n /\ ~(n < k) /\ p[n] \in Int
  BY <1>5
<1> QED BY <1>1, <1>2, <1>6 DEF T

-----------------------------------------------------------------------------
(* A sequence whose elements are all in a smaller set.                     *)
LEMMA SeqNarrows ==
    ASSUME NEW E, NEW q \in Seq(E), NEW S, \A k \in 1 .. Len(q) : q[k] \in S PROVE q \in Seq(S)
<1>1. Len(q) \in Nat /\ q = [k \in 1 .. Len(q) |-> q[k]]
  BY LenProperties
<1> QED BY <1>1

(* Kept, one element after the other.                                      *)
LEMMA KeptOfNone == ASSUME NEW S PROVE Kept(<<>>, S) = <<>>
<1>1. [i \in DOMAIN <<>> |-> IF <<>>[i] \in S THEN << <<>>[i] >> ELSE <<>>] = <<>>
  OBVIOUS
<1> QED BY <1>1, FlattenOfNone DEF Kept

LEMMA KeptType == ASSUME NEW E, NEW S, NEW s \in Seq(E) PROVE Kept(s, S) \in Seq(E \cap S)
<1> DEFINE P == [i \in DOMAIN s |-> IF s[i] \in S THEN <<s[i]>> ELSE <<>>]
<1>1. DOMAIN s = 1 .. Len(s) /\ Len(s) \in Nat /\ \A i \in 1 .. Len(s) : s[i] \in E
  BY LenProperties, ElementOfSeq
<1>2. ASSUME NEW i \in 1 .. Len(s)
      PROVE  (IF s[i] \in S THEN <<s[i]>> ELSE <<>>) \in Seq(E \cap S)
  <2>1. s[i] \in S => s[i] \in E \cap S
    BY <1>1
  <2>2. \A x \in E \cap S : <<x>> \in Seq(E \cap S)
    OBVIOUS
  <2> QED BY <2>1, <2>2, EmptySeq
<1>3. P \in Seq(Seq(E \cap S))
  BY <1>1, <1>2
<1> HIDE DEF P
<1>4. FlattenSeq(P) \in Seq(E \cap S)
  BY <1>3, FlattenType
<1> QED BY <1>4 DEF Kept, P

LEMMA KeptAppend ==
    ASSUME NEW E, NEW S, NEW s \in Seq(E), NEW x \in E
    PROVE  /\ Kept(Append(s, x), S) = IF x \in S THEN Append(Kept(s, S), x) ELSE Kept(s, S)
           /\ Kept(s, S) \in Seq(E)
<1> DEFINE P(t) == [i \in DOMAIN t |-> IF t[i] \in S THEN <<t[i]>> ELSE <<>>]
           one == IF x \in S THEN <<x>> ELSE <<>>
<1>1. /\ Append(s, x) \in Seq(E) /\ Len(Append(s, x)) = Len(s) + 1 /\ Len(s) \in Nat
      /\ Append(s, x)[Len(s) + 1] = x /\ \A i \in 1 .. Len(s) : Append(s, x)[i] = s[i]
      /\ DOMAIN s = 1 .. Len(s) /\ DOMAIN Append(s, x) = 1 .. Len(s) + 1
      /\ \A i \in 1 .. Len(s) : s[i] \in E
  BY AppendProperties, LenProperties, ElementOfSeq
<1>2. one \in Seq(E)
  OBVIOUS
<1>3. ASSUME NEW t \in Seq(E) PROVE P(t) \in Seq(Seq(E)) /\ Len(P(t)) = Len(t)
  <2>1. DOMAIN t = 1 .. Len(t) /\ Len(t) \in Nat /\ \A i \in 1 .. Len(t) : t[i] \in E
    BY LenProperties, ElementOfSeq
  <2>2. \A i \in 1 .. Len(t) : (IF t[i] \in S THEN <<t[i]>> ELSE <<>>) \in Seq(E)
    BY <2>1
  <2> QED BY <2>1, <2>2
<1>4. P(Append(s, x)) = Append(P(s), one)
  <2>1. P(s) \in Seq(Seq(E)) /\ Len(P(s)) = Len(s) /\ P(Append(s, x)) \in Seq(Seq(E))
        /\ Len(P(Append(s, x))) = Len(s) + 1
    BY <1>1, <1>3
  <2>2. /\ Append(P(s), one) \in Seq(Seq(E)) /\ Len(Append(P(s), one)) = Len(s) + 1
        /\ Append(P(s), one)[Len(s) + 1] = one
        /\ \A i \in 1 .. Len(s) : Append(P(s), one)[i] = P(s)[i]
    BY <1>2, <2>1, AppendProperties
  <2>3. ASSUME NEW i \in 1 .. Len(s) + 1 PROVE P(Append(s, x))[i] = Append(P(s), one)[i]
    <3>1. CASE i = Len(s) + 1
      BY <1>1, <2>2, <3>1
    <3>2. CASE i \in 1 .. Len(s)
      BY <1>1, <2>2, <3>2
    <3> QED BY <1>1, <3>1, <3>2
  <2> HIDE DEF P, one
  <2> QED BY <2>1, <2>2, <2>3, SeqEqual
<1>5. P(s) \in Seq(Seq(E))
  BY <1>3
<1>6. Kept(s, S) = FlattenSeq(P(s)) /\ Kept(Append(s, x), S) = FlattenSeq(P(Append(s, x)))
  BY DEF Kept
<1> HIDE DEF P
<1>7. Kept(Append(s, x), S) = Kept(s, S) \o one
  BY <1>2, <1>4, <1>5, <1>6, FlattenAppend
<1>8. Kept(s, S) \in Seq(E)
  BY <1>5, <1>6, FlattenType
<1>9. CASE x \in S
  BY <1>7, <1>8, <1>9, AppendIsConcat
<1>10. CASE x \notin S
  BY <1>7, <1>8, <1>10, ConcatEmptySeq
<1> QED BY <1>8, <1>9, <1>10

(* A stretch of a sequence, and one element more.                          *)
LEMMA StretchGrows ==
    ASSUME NEW E, NEW s \in Seq(E), NEW a \in Nat \ {0}, NEW b \in Nat, a <= b + 1, b + 1 <= Len(s)
    PROVE  /\ SubSeq(s, a, b + 1) = Append(SubSeq(s, a, b), s[b + 1])
           /\ SubSeq(s, a, b) \in Seq(E) /\ s[b + 1] \in E
<1>1. Len(s) \in Nat
  BY LenProperties
<1>2. a \in 1 .. Len(s) /\ b + 1 \in a .. Len(s) /\ b + 1 \in 1 .. Len(s) /\ (b + 1) - 1 = b
  BY <1>1
<1>3. SubSeq(s, a, b + 1) = SubSeq(s, a, b) \o <<s[b + 1]>> /\ s[b + 1] \in E
  BY <1>2, SubSeqRecursiveSecond, ElementOfSeq
<1>4. a \in Int /\ b \in Int /\ \A i \in a .. b : i \in 1 .. Len(s)
  BY <1>1
<1>5. \A i \in a .. b : s[i] \in E
  BY <1>4, ElementOfSeq
<1>6. SubSeq(s, a, b) \in Seq(E)
  BY <1>4, <1>5, SubSeqProperties
<1> QED BY <1>3, <1>6, AppendIsConcat

LEMMA KeptGrows ==
    ASSUME NEW E, NEW S, NEW s \in Seq(E), NEW a \in Nat \ {0}, NEW b \in Nat,
           a <= b + 1, b + 1 <= Len(s)
    PROVE  LET k == Kept(SubSeq(s, a, b), S)
               l == Kept(SubSeq(s, a, b + 1), S)
           IN  /\ l = IF s[b + 1] \in S THEN Append(k, s[b + 1]) ELSE k
               /\ Len(l) = IF s[b + 1] \in S THEN Len(k) + 1 ELSE Len(k)
               /\ k \in Seq(E) /\ Len(k) \in Nat
<1> DEFINE k == Kept(SubSeq(s, a, b), S)
           l == Kept(SubSeq(s, a, b + 1), S)
<1>1. /\ SubSeq(s, a, b + 1) = Append(SubSeq(s, a, b), s[b + 1])
      /\ SubSeq(s, a, b) \in Seq(E) /\ s[b + 1] \in E
  BY StretchGrows
<1>2. l = (IF s[b + 1] \in S THEN Append(k, s[b + 1]) ELSE k) /\ k \in Seq(E)
  <2>1. PICK q \in Seq(E) : q = SubSeq(s, a, b)
    BY <1>1
  <2>2. PICK x \in E : x = s[b + 1]
    BY <1>1
  <2>3. Kept(Append(q, x), S) = (IF x \in S THEN Append(Kept(q, S), x) ELSE Kept(q, S))
        /\ Kept(q, S) \in Seq(E)
    BY KeptAppend
  <2> QED BY <1>1, <2>1, <2>2, <2>3
<1> HIDE DEF k, l
<1>3. Len(k) \in Nat /\ Len(Append(k, s[b + 1])) = Len(k) + 1
  BY <1>1, <1>2, LenProperties, AppendProperties
<1>4. Len(l) = IF s[b + 1] \in S THEN Len(k) + 1 ELSE Len(k)
  BY <1>2, <1>3
<1> QED BY <1>2, <1>3, <1>4 DEF k, l

(* Longer stretches keep at least as much.                                 *)
LEMMA KeptIsMonotone ==
    ASSUME NEW E, NEW S, NEW s \in Seq(E), NEW a \in Nat \ {0}, NEW b \in Nat, NEW c \in Nat,
           a <= b + 1, b <= c, c <= Len(s)
    PROVE  Len(Kept(SubSeq(s, a, b), S)) <= Len(Kept(SubSeq(s, a, c), S))
<1> DEFINE K(j) == Len(Kept(SubSeq(s, a, j), S))
           T == {j \in Nat : b <= j /\ j <= Len(s) => K(b) <= K(j)}
<1>0. Len(s) \in Nat
  BY LenProperties
<1>1. ASSUME NEW j \in Nat, b <= j, j <= Len(s) PROVE K(j) \in Nat
  <2>1. \A i \in a .. j : i \in 1 .. Len(s)
    BY <1>0, <1>1
  <2>2. \A i \in a .. j : s[i] \in E
    BY <2>1, ElementOfSeq
  <2>3. SubSeq(s, a, j) \in Seq(E)
    BY <2>2, SubSeqProperties
  <2> QED BY <2>3, KeptType, LenProperties
<1>2. b <= Len(s)
  BY <1>0
<1>3. 0 \in T
  <2> SUFFICES ASSUME b <= 0, 0 <= Len(s) PROVE K(b) <= K(0)
    OBVIOUS
  <2>1. b = 0
    OBVIOUS
  <2>2. K(b) \in Nat
    BY <1>1, <1>2
  <2> HIDE DEF K
  <2> QED BY <2>1, <2>2
<1>4. ASSUME NEW j \in Nat, j \in T PROVE j + 1 \in T
  <2> SUFFICES ASSUME b <= j + 1, j + 1 <= Len(s) PROVE K(b) <= K(j + 1)
    OBVIOUS
  <2>1. K(b) \in Nat /\ K(j + 1) \in Nat
    BY <1>1, <1>2
  <2>2. CASE b = j + 1
    <3> HIDE DEF K
    <3> QED BY <2>1, <2>2
  <2>3. CASE b # j + 1
    <3>1. b <= j /\ j <= Len(s) /\ a <= j + 1
      BY <1>0, <2>3
    <3>2. K(b) <= K(j) /\ K(j) \in Nat
      BY <1>1, <1>4, <3>1
    <3>3. K(j + 1) = IF s[j + 1] \in S THEN K(j) + 1 ELSE K(j)
      BY <3>1, KeptGrows
    <3> HIDE DEF K
    <3> QED BY <2>1, <3>2, <3>3
  <2> QED BY <2>2, <2>3
<1> HIDE DEF T
<1>5. \A j \in Nat : j \in T
  BY <1>3, <1>4, NatSetInduction
<1> QED BY <1>5 DEF T

(* Where everything is kept, nothing changes.                              *)
LEMMA KeptAll == ASSUME NEW S, NEW s \in Seq(S) PROVE Kept(s, S) = s
<1> DEFINE T == {j \in Nat : j <= Len(s) => Kept(SubSeq(s, 1, j), S) = SubSeq(s, 1, j)}
<1>0. Len(s) \in Nat
  BY LenProperties
<1>3. 0 \in T
  <2>1. SubSeq(s, 1, 0) = <<>>
    BY SubSeqEmpty
  <2> QED BY <2>1, KeptOfNone
<1>4. ASSUME NEW j \in Nat, j \in T PROVE j + 1 \in T
  <2> SUFFICES ASSUME j + 1 <= Len(s)
               PROVE  Kept(SubSeq(s, 1, j + 1), S) = SubSeq(s, 1, j + 1)
    OBVIOUS
  <2>1. j <= Len(s) /\ 1 <= j + 1 /\ j + 1 \in 1 .. Len(s) /\ 1 \in Nat \ {0}
    BY <1>0
  <2>2. Kept(SubSeq(s, 1, j), S) = SubSeq(s, 1, j) /\ s[j + 1] \in S
    BY <1>4, <2>1, ElementOfSeq
  <2>3. SubSeq(s, 1, j + 1) = Append(SubSeq(s, 1, j), s[j + 1])
    BY <2>1, StretchGrows
  <2>4. Kept(SubSeq(s, 1, j + 1), S) = Append(Kept(SubSeq(s, 1, j), S), s[j + 1])
    BY <2>1, <2>2, KeptGrows
  <2> QED BY <2>2, <2>3, <2>4
<1> HIDE DEF T
<1>5. \A j \in Nat : j \in T
  BY <1>3, <1>4, NatSetInduction
<1>6. Kept(SubSeq(s, 1, Len(s)), S) = SubSeq(s, 1, Len(s))
  BY <1>0, <1>5 DEF T
<1> QED BY <1>6, SubSeqFull

(* A first element that is not kept makes no difference.                   *)
LEMMA KeptSkipsFirst ==
    ASSUME NEW E, NEW S, NEW s \in Seq(E), NEW a \in Nat \ {0}, NEW b \in Nat,
           a <= b, b <= Len(s), s[a] \notin S
    PROVE  Kept(SubSeq(s, a, b), S) = Kept(SubSeq(s, a + 1, b), S)
<1> DEFINE T == {j \in Nat : a <= j /\ j <= b =>
                     Kept(SubSeq(s, a, j), S) = Kept(SubSeq(s, a + 1, j), S)}
<1>0. Len(s) \in Nat
  BY LenProperties
<1>3. 0 \in T
  OBVIOUS
<1>4. ASSUME NEW j \in Nat, j \in T PROVE j + 1 \in T
  <2> SUFFICES ASSUME a <= j + 1, j + 1 <= b
               PROVE  Kept(SubSeq(s, a, j + 1), S) = Kept(SubSeq(s, a + 1, j + 1), S)
    OBVIOUS
  <2>0. j + 1 <= Len(s) /\ a + 1 \in Nat \ {0}
    BY <1>0
  <2>1. Kept(SubSeq(s, a, j + 1), S) = IF s[j + 1] \in S THEN Append(Kept(SubSeq(s, a, j), S), s[j + 1])
                                       ELSE Kept(SubSeq(s, a, j), S)
    BY <2>0, KeptGrows
  <2>2. CASE j + 1 = a
    <3>1. SubSeq(s, a, j) = <<>> /\ SubSeq(s, a + 1, j + 1) = <<>>
      BY <2>2, SubSeqEmpty
    <3> QED BY <2>1, <2>2, <3>1
  <2>3. CASE j + 1 # a
    <3>1. a <= j /\ j <= b /\ a + 1 <= j + 1
      BY <2>3
    <3>2. Kept(SubSeq(s, a + 1, j + 1), S) =
            IF s[j + 1] \in S THEN Append(Kept(SubSeq(s, a + 1, j), S), s[j + 1])
            ELSE Kept(SubSeq(s, a + 1, j), S)
      BY SMTT(60), <2>0, <3>1, KeptGrows
    <3>3. Kept(SubSeq(s, a, j), S) = Kept(SubSeq(s, a + 1, j), S)
      BY <1>4, <3>1
    <3> QED BY <2>1, <3>2, <3>3
  <2> QED BY <2>2, <2>3
<1> HIDE DEF T
<1>5. \A j \in Nat : j \in T
  BY <1>3, <1>4, NatSetInduction
<1> QED BY <1>5 DEF T

-----------------------------------------------------------------------------
(* Induction over sequences, one element after the other.                  *)
LEMMA SeqInduction ==
    ASSUME NEW E, NEW T, <<>> \in T,
           \A s \in Seq(E) : \A e \in E : s \in T => Append(s, e) \in T
    PROVE  Seq(E) \subseteq T
<1> DEFINE U == {n \in Nat : \A s \in Seq(E) : Len(s) = n => s \in T}
<1>1. 0 \in U
  <2>1. \A s \in Seq(E) : Len(s) = 0 => s = <<>>
    BY EmptySeq
  <2> QED BY <2>1
<1>2. ASSUME NEW n \in Nat, n \in U PROVE n + 1 \in U
  <2> SUFFICES ASSUME NEW s \in Seq(E), Len(s) = n + 1 PROVE s \in T
    OBVIOUS
  <2>1. 1 \in Nat \ {0} /\ 1 <= n + 1 /\ n + 1 <= Len(s)
    OBVIOUS
  <2>2. /\ SubSeq(s, 1, n + 1) = Append(SubSeq(s, 1, n), s[n + 1])
        /\ SubSeq(s, 1, n) \in Seq(E) /\ s[n + 1] \in E
    BY <2>1, StretchGrows
  <2>3. SubSeq(s, 1, n + 1) = s /\ Len(SubSeq(s, 1, n)) = n
    OBVIOUS
  <2>4. SubSeq(s, 1, n) \in T
    BY <1>2, <2>2, <2>3
  <2> QED BY <2>2, <2>3, <2>4
<1> HIDE DEF U
<1>3. \A n \in Nat : n \in U
  BY <1>1, <1>2, NatSetInduction
<1> SUFFICES ASSUME NEW s \in Seq(E) PROVE s \in T
  OBVIOUS
<1>4. Len(s) \in Nat
  BY LenProperties
<1> QED BY <1>3, <1>4 DEF U

(* A sequence mapped element by element, and one more element.             *)
LEMMA MapAppend ==
    ASSUME NEW E, NEW f, NEW s \in Seq(E), NEW x \in E
    PROVE  [i \in DOMAIN Append(s, x) |-> f[Append(s, x)[i]]]
             = Append([i \in DOMAIN s |-> f[s[i]]], f[x])
<1> DEFINE a == Append(s, x)
           m == [i \in DOMAIN s |-> f[s[i]]]
           l == [i \in DOMAIN a |-> f[a[i]]]
           D == {f[e] : e \in E}
<1>1. /\ a \in Seq(E) /\ Len(a) = Len(s) + 1 /\ Len(s) \in Nat
      /\ a[Len(s) + 1] = x /\ \A i \in 1 .. Len(s) : a[i] = s[i]
      /\ DOMAIN s = 1 .. Len(s) /\ DOMAIN a = 1 .. Len(s) + 1
      /\ \A i \in 1 .. Len(s) : s[i] \in E
  BY AppendProperties, LenProperties, ElementOfSeq
<1>2. m \in Seq(D) /\ Len(m) = Len(s) /\ f[x] \in D
  BY <1>1
<1>3. /\ Append(m, f[x]) \in Seq(D) /\ Len(Append(m, f[x])) = Len(s) + 1
      /\ \A i \in 1 .. Len(s) : Append(m, f[x])[i] = m[i]
      /\ Append(m, f[x])[Len(s) + 1] = f[x]
  BY <1>2, AppendProperties
<1>4. l \in Seq(D) /\ Len(l) = Len(s) + 1
  <2>1. \A i \in 1 .. Len(s) + 1 : a[i] \in E
    BY <1>1, ElementOfSeq
  <2> QED BY <1>1, <2>1
<1>5. \A i \in 1 .. Len(s) + 1 : l[i] = Append(m, f[x])[i]
  <2> SUFFICES ASSUME NEW i \in 1 .. Len(s) + 1 PROVE l[i] = Append(m, f[x])[i]
    OBVIOUS
  <2>1. l[i] = f[a[i]]
    BY <1>1
  <2>2. CASE i \in 1 .. Len(s)
    BY <1>1, <1>3, <2>1, <2>2
  <2>3. CASE i = Len(s) + 1
    BY <1>1, <1>3, <2>1, <2>3
  <2> QED BY <1>1, <2>2, <2>3
<1> HIDE DEF l, m, a
<1>6. Append(m, f[x]) = l
  BY <1>3, <1>4, <1>5, SeqEqual
<1> QED BY <1>6 DEF l, m, a

LEMMA MapOfNone == ASSUME NEW f PROVE [i \in DOMAIN <<>> |-> f[<<>>[i]]] = <<>>
OBVIOUS

(* One more number adds as much to the total.                              *)
LEMMA TotalOfAppend ==
    ASSUME NEW n \in Nat, NEW v, DOMAIN v = 1 .. n, \A i \in 1 .. n : v[i] \in Int,
           NEW w, DOMAIN w = 1 .. n + 1, \A i \in 1 .. n : w[i] = v[i], w[n + 1] \in Int
    PROVE  Total(v) \in Int /\ Total(w) = Total(v) + w[n + 1]
<1>1. PICK p \in [0 .. n -> Int] : /\ p[0] = 0 /\ p[n] = Total(v)
                                   /\ \A i \in 1 .. n : p[i] = p[i - 1] + v[i]
  BY TotalIsSum
<1> DEFINE N == n + 1
<1>0. N \in Nat /\ DOMAIN w = 1 .. N /\ \A i \in 1 .. N : w[i] \in Int
  BY SMTT(60) DEF N
<1>2. \E q \in [0 .. N -> Int] : /\ q[0] = 0 /\ q[N] = Total(w)
                                   /\ \A i \in 1 .. N : q[i] = q[i - 1] + w[i]
  <2> HIDE DEF N
  <2> QED BY <1>0, TotalIsSum
<1>3. PICK q \in [0 .. n + 1 -> Int] : /\ q[0] = 0 /\ q[n + 1] = Total(w)
                                   /\ \A i \in 1 .. n + 1 : q[i] = q[i - 1] + w[i]
  BY <1>2 DEF N
<1> DEFINE T == {j \in Nat : j \in 0 .. n => q[j] = p[j]}
<1>4. 0 \in T
  BY <1>1, <1>3
<1>5. ASSUME NEW j \in Nat, j \in T PROVE j + 1 \in T
  <2> SUFFICES ASSUME j + 1 \in 0 .. n PROVE q[j + 1] = p[j + 1]
    OBVIOUS
  <2>1. j + 1 \in 1 .. n /\ j + 1 \in 1 .. n + 1 /\ j \in 0 .. n /\ (j + 1) - 1 = j
    OBVIOUS
  <2>2. q[j + 1] = q[j] + w[j + 1] /\ p[j + 1] = p[j] + v[j + 1] /\ w[j + 1] = v[j + 1]
    BY <1>1, <1>3, <2>1
  <2> QED BY <1>5, <2>1, <2>2
<1> HIDE DEF T
<1>6. \A j \in Nat : j \in T
  BY <1>4, <1>5, NatSetInduction
<1>7. q[n] = p[n] /\ q[n + 1] = q[n] + w[n + 1] /\ p[n] \in Int
  <2>1. n + 1 \in 1 .. n + 1 /\ (n + 1) - 1 = n /\ n \in 0 .. n
    OBVIOUS
  <2> QED BY <1>3, <1>6, <2>1 DEF T
<1> QED BY <1>1, <1>3, <1>7

(* Pieces joined in two goes.                                              *)
LEMMA ConcatAppend ==
    ASSUME NEW E, NEW s \in Seq(E), NEW t \in Seq(E), NEW e \in E
    PROVE  s \o Append(t, e) = Append(s \o t, e)
OBVIOUS

LEMMA FlattenConcat ==
    ASSUME NEW E, NEW s \in Seq(Seq(E)), NEW t \in Seq(Seq(E))
    PROVE  FlattenSeq(s \o t) = FlattenSeq(s) \o FlattenSeq(t)
<1> DEFINE T == {r \in Seq(Seq(E)) : FlattenSeq(s \o r) = FlattenSeq(s) \o FlattenSeq(r)}
<1>1. <<>> \in T
  <2>1. FlattenSeq(s) \in Seq(E) /\ FlattenSeq(<<>>) = <<>> /\ s \o <<>> = s
    BY FlattenType, FlattenOfNone
  <2>2. FlattenSeq(s) \o <<>> = FlattenSeq(s)
    BY <2>1
  <2> QED BY <2>1, <2>2
<1>2. ASSUME NEW r \in Seq(Seq(E)), NEW p \in Seq(E), r \in T PROVE Append(r, p) \in T
  <2>1. s \o Append(r, p) = Append(s \o r, p) /\ s \o r \in Seq(Seq(E)) /\ Append(r, p) \in Seq(Seq(E))
    BY SMTT(60), ConcatAppend
  <2>2. /\ FlattenSeq(Append(s \o r, p)) = FlattenSeq(s \o r) \o p
        /\ FlattenSeq(Append(r, p)) = FlattenSeq(r) \o p
    BY <2>1, FlattenAppend
  <2>3. FlattenSeq(s) \in Seq(E) /\ FlattenSeq(r) \in Seq(E)
    BY FlattenType
  <2>4. (FlattenSeq(s) \o FlattenSeq(r)) \o p = FlattenSeq(s) \o (FlattenSeq(r) \o p)
    BY SMTT(60), <2>3
  <2> QED BY <1>2, <2>1, <2>2, <2>4
<1> HIDE DEF T
<1>3. Seq(Seq(E)) \subseteq T
  BY <1>1, <1>2, SeqInduction
<1> QED BY <1>3 DEF T

LEMMA KeptConcat ==
    ASSUME NEW E, NEW S, NEW s \in Seq(E), NEW t \in Seq(E)
    PROVE  Kept(s \o t, S) = Kept(s, S) \o Kept(t, S)
<1> DEFINE T == {r \in Seq(E) : Kept(s \o r, S) = Kept(s, S) \o Kept(r, S)}
<1>1. <<>> \in T
  <2>1. Kept(s, S) \in Seq(E \cap S) /\ Kept(<<>>, S) = <<>> /\ s \o <<>> = s
    BY KeptType, KeptOfNone
  <2>2. Kept(s, S) \o <<>> = Kept(s, S)
    BY <2>1
  <2> QED BY <2>1, <2>2
<1>2. ASSUME NEW r \in Seq(E), NEW x \in E, r \in T PROVE Append(r, x) \in T
  <2>1. s \o Append(r, x) = Append(s \o r, x) /\ s \o r \in Seq(E) /\ Append(r, x) \in Seq(E)
    BY ConcatAppend
  <2>2. /\ Kept(Append(s \o r, x), S) = IF x \in S THEN Append(Kept(s \o r, S), x) ELSE Kept(s \o r, S)
        /\ Kept(Append(r, x), S) = IF x \in S THEN Append(Kept(r, S), x) ELSE Kept(r, S)
        /\ Kept(s, S) \in Seq(E) /\ Kept(r, S) \in Seq(E)
    <3> HIDE DEF T
    <3>1. Kept(s, S) \in Seq(E)
      BY KeptAppend
    <3>2. Kept(Append(s \o r, x), S) = IF x \in S THEN Append(Kept(s \o r, S), x) ELSE Kept(s \o r, S)
      BY <2>1, KeptAppend
    <3> QED BY <3>1, <3>2, KeptAppend
  <2>3. Append(Kept(s, S) \o Kept(r, S), x) = Kept(s, S) \o Append(Kept(r, S), x)
    <3> DEFINE k == Kept(s, S)
               l == Kept(r, S)
    <3>1. k \in Seq(E) /\ l \in Seq(E)
      BY <2>2
    <3> HIDE DEF k, l, T
    <3>2. k \o Append(l, x) = Append(k \o l, x)
      BY <3>1, ConcatAppend
    <3> QED BY <3>2 DEF k, l
  <2>4. CASE x \in S
    BY <1>2, <2>1, <2>2, <2>3, <2>4
  <2>5. CASE x \notin S
    BY <1>2, <2>1, <2>2, <2>5
  <2> QED BY <2>4, <2>5
<1> HIDE DEF T
<1>3. Seq(E) \subseteq T
  BY <1>1, <1>2, SeqInduction
<1> QED BY <1>3 DEF T

(* Nothing is kept where there is nothing of the kind.                     *)
LEMMA NothingKept ==
    ASSUME NEW E, NEW S, NEW s \in Seq(E)
    PROVE  Kept(s, S) = <<>> <=> \A i \in 1 .. Len(s) : s[i] \notin S
<1> DEFINE T == {r \in Seq(E) : Kept(r, S) = <<>> <=> \A i \in 1 .. Len(r) : r[i] \notin S}
<1>1. <<>> \in T
  BY KeptOfNone
<1>2. ASSUME NEW r \in Seq(E), NEW x \in E, r \in T PROVE Append(r, x) \in T
  <2>1. /\ Append(r, x) \in Seq(E) /\ Len(Append(r, x)) = Len(r) + 1 /\ Len(r) \in Nat
        /\ Append(r, x)[Len(r) + 1] = x /\ \A i \in 1 .. Len(r) : Append(r, x)[i] = r[i]
    BY AppendProperties, LenProperties
  <2>2. /\ Kept(Append(r, x), S) = IF x \in S THEN Append(Kept(r, S), x) ELSE Kept(r, S)
        /\ Kept(r, S) \in Seq(E)
    BY KeptAppend
  <2>3. Append(Kept(r, S), x) # <<>>
    BY SMTT(60), <2>2
  <2> DEFINE a == Append(r, x)
             n == Len(r)
  <2>4. \A i \in 1 .. n + 1 : i \in 1 .. n \/ i = n + 1
    BY <2>1
  <2>5. 1 .. n \subseteq 1 .. n + 1 /\ n + 1 \in 1 .. n + 1
    BY <2>1
  <2> HIDE DEF a, n
  <2>6. (\A i \in 1 .. n + 1 : a[i] \notin S) <=> (x \notin S /\ \A i \in 1 .. n : r[i] \notin S)
    BY <2>1, <2>4, <2>5 DEF a, n
  <2> QED BY <1>2, <2>1, <2>2, <2>3, <2>6 DEF a, n
<1> HIDE DEF T
<1>3. Seq(E) \subseteq T
  BY <1>1, <1>2, SeqInduction
<1> QED BY <1>3 DEF T

(* A sequence one longer than another that it starts with.                 *)
LEMMA LongerByOne ==
    ASSUME NEW D, NEW m \in Seq(D), NEW l \in Seq(D), Len(l) = Len(m) + 1,
           \A i \in 1 .. Len(m) : l[i] = m[i]
    PROVE  l = Append(m, l[Len(l)]) /\ l[Len(l)] \in D
<1>1. Len(m) \in Nat /\ Len(l) \in 1 .. Len(l)
  BY LenProperties
<1>2. l[Len(l)] \in D
  BY <1>1, ElementOfSeq
<1> DEFINE x == l[Len(l)]
           a == Append(m, x)
<1>3. /\ a \in Seq(D) /\ Len(a) = Len(m) + 1
      /\ \A i \in 1 .. Len(m) : a[i] = m[i]
      /\ a[Len(m) + 1] = x
  BY <1>2, AppendProperties
<1>4. \A i \in 1 .. Len(l) : i \in 1 .. Len(m) \/ i = Len(m) + 1
  BY <1>1
<1> HIDE DEF a
<1>5. \A i \in 1 .. Len(l) : a[i] = l[i]
  BY <1>3, <1>4
<1>6. a = l
  BY <1>3, <1>5, SeqEqual
<1> QED BY <1>2, <1>6 DEF a

(* Where the elements of a joined sequence come from.                      *)
LEMMA ConcatElements ==
    ASSUME NEW D, NEW s \in Seq(D), NEW t \in Seq(D)
    PROVE  /\ s \o t \in Seq(D) /\ Len(s \o t) = Len(s) + Len(t)
           /\ \A i \in 1 .. Len(s) : (s \o t)[i] = s[i]
           /\ \A i \in 1 .. Len(t) : (s \o t)[Len(s) + i] = t[i]
BY ConcatProperties

(* Behind the last element of the kind nothing more is kept.               *)
LEMMA KeptRest ==
    ASSUME NEW E, NEW S, NEW s \in Seq(E), NEW m \in 0 .. Len(s),
           \A i \in m + 1 .. Len(s) : s[i] \notin S
    PROVE  Kept(s, S) = Kept(SubSeq(s, 1, m), S)
<1> DEFINE K(j) == Kept(SubSeq(s, 1, j), S)
           T == {j \in Nat : m + j <= Len(s) => K(m + j) = K(m)}
<1>1. Len(s) \in Nat /\ m \in Nat /\ m <= Len(s) /\ SubSeq(s, 1, Len(s)) = s
  BY LenProperties
<1>2. 0 \in T
  BY <1>1
<1>3. ASSUME NEW j \in Nat, j \in T PROVE j + 1 \in T
  <2> SUFFICES ASSUME m + (j + 1) <= Len(s) PROVE K(m + (j + 1)) = K(m)
    OBVIOUS
  <2> DEFINE b == m + j
  <2>1. b \in Nat /\ 1 \in Nat \ {0} /\ 1 <= b + 1 /\ b + 1 <= Len(s) /\ m + (j + 1) = b + 1 /\ b <= Len(s)
    BY <1>1
  <2>2. s[b + 1] \notin S
    BY <1>1, <2>1
  <2>3. K(b) = K(m)
    BY <1>3, <2>1
  <2> HIDE DEF b
  <2>4. K(b + 1) = IF s[b + 1] \in S THEN Append(K(b), s[b + 1]) ELSE K(b)
    BY <2>1, KeptGrows
  <2> QED BY <2>1, <2>2, <2>3, <2>4
<1> HIDE DEF T
<1>4. \A j \in Nat : j \in T
  BY <1>2, <1>3, NatSetInduction
<1>5. Len(s) - m \in T /\ m + (Len(s) - m) = Len(s)
  BY <1>1, <1>4
<1>6. K(Len(s)) = K(m)
  BY <1>1, <1>5 DEF T
<1> QED BY <1>1, <1>6

(* Numbers kept are in order, and all of them.                             *)
InOrder(q) == \A i, j \in 1 .. Len(q) : i < j => q[i] < q[j]
ElementsOf(q) == {q[i] : i \in 1 .. Len(q)}

LEMMA KeptNumbers ==
    ASSUME NEW n \in Nat, NEW S
    PROVE  LET K == Kept([i \in 1 .. n |-> i], S)
           IN  K \in Seq(Nat) /\ InOrder(K) /\ ElementsOf(K) = S \cap 1 .. n
<1> DEFINE s == [i \in 1 .. n |-> i]
           K(j) == Kept(SubSeq(s, 1, j), S)
           T == {j \in Nat : j <= n => /\ K(j) \in Seq(Nat) /\ InOrder(K(j))
                                       /\ ElementsOf(K(j)) = S \cap 1 .. j}
<1>1. s \in Seq(Nat) /\ Len(s) = n /\ SubSeq(s, 1, n) = s /\ SubSeq(s, 1, 0) = <<>>
  OBVIOUS
<1>2. \A i \in 1 .. n : s[i] = i
  OBVIOUS
<1> HIDE DEF s
<1>3. 0 \in T
  <2>1. K(0) = <<>>
    BY <1>1, KeptOfNone
  <2> HIDE DEF K
  <2>2. Len(<<>>) = 0 /\ 1 .. 0 = {} /\ <<>> \in Seq(Nat)
    OBVIOUS
  <2> QED BY <2>1, <2>2 DEF InOrder, ElementsOf
<1>4. ASSUME NEW b \in Nat, b \in T PROVE b + 1 \in T
  <2> SUFFICES ASSUME b + 1 <= n
               PROVE  /\ K(b + 1) \in Seq(Nat) /\ InOrder(K(b + 1))
                      /\ ElementsOf(K(b + 1)) = S \cap 1 .. b + 1
    OBVIOUS
  <2>1. K(b) \in Seq(Nat) /\ InOrder(K(b)) /\ ElementsOf(K(b)) = S \cap 1 .. b
    BY <1>4
  <2>2. 1 \in Nat \ {0} /\ 1 <= b + 1 /\ b + 1 <= Len(s) /\ s[b + 1] = b + 1
    BY <1>1, <1>2
  <2>3. K(b + 1) = IF s[b + 1] \in S THEN Append(K(b), s[b + 1]) ELSE K(b)
    BY SMTT(60), <1>1, <2>2, KeptGrows
  <2>4. 1 .. b + 1 = 1 .. b \cup {b + 1}
    OBVIOUS
  <2> DEFINE k == K(b)
             l == Append(k, b + 1)
             c == Len(k)
  <2> HIDE DEF K
  <2>5. CASE b + 1 \notin S
    <3>1. K(b + 1) = K(b)
      BY <2>2, <2>3, <2>5
    <3> QED BY <2>1, <2>4, <2>5, <3>1
  <2>6. CASE b + 1 \in S
    <3>1. K(b + 1) = l
      BY <2>2, <2>3, <2>6
    <3>2. /\ l \in Seq(Nat) /\ Len(l) = c + 1 /\ l[c + 1] = b + 1 /\ c \in Nat
          /\ \A i \in 1 .. c : l[i] = k[i]
      BY <2>1, AppendProperties, LenProperties
    <3> HIDE DEF k, l, c
    <3>3. \A i \in 1 .. c : k[i] \in 1 .. b
      BY <2>1 DEF ElementsOf, k, c
    <3>4. \A i \in 1 .. c + 1 : i \in 1 .. c \/ i = c + 1
      BY <3>2
    <3>5. ASSUME NEW i \in 1 .. c + 1, NEW j \in 1 .. c + 1, i < j PROVE l[i] < l[j]
      <4>1. i \in 1 .. c
        BY <3>2, <3>5
      <4>2. CASE j \in 1 .. c
        BY <2>1, <3>2, <3>5, <4>1, <4>2 DEF InOrder, k, c
      <4>3. CASE j = c + 1
        <5>1. l[i] \in 1 .. b /\ l[j] = b + 1
          BY <3>2, <3>3, <4>1, <4>3
        <5> QED BY <5>1
      <4> QED BY <3>4, <4>2, <4>3
    <3>6. InOrder(l)
      BY <3>2, <3>5 DEF InOrder
    <3>7. 1 .. c \subseteq 1 .. c + 1 /\ c + 1 \in 1 .. c + 1
      BY <3>2
    <3>8. ElementsOf(l) = ElementsOf(k) \cup {b + 1}
      BY <3>2, <3>4, <3>7 DEF ElementsOf, c
    <3> QED BY <2>1, <2>4, <2>6, <3>1, <3>2, <3>6, <3>8 DEF k
  <2> QED BY <2>5, <2>6
<1> HIDE DEF T
<1>5. \A j \in Nat : j \in T
  BY <1>3, <1>4, NatSetInduction
<1>6. n \in T
  BY <1>5
<1>7. K(n) \in Seq(Nat) /\ InOrder(K(n)) /\ ElementsOf(K(n)) = S \cap 1 .. n
  BY <1>6 DEF T
<1>8. K(n) = Kept(s, S)
  BY <1>1
<1> HIDE DEF K
<1> QED BY <1>7, <1>8 DEF s

(* The first m numbers, kept, are themselves.                              *)
LEMMA KeptFirst ==
    ASSUME NEW n \in Nat, NEW m \in 0 .. n
    PROVE  Kept([i \in 1 .. n |-> i], 1 .. m) = [i \in 1 .. m |-> i]
<1> DEFINE s == [i \in 1 .. n |-> i]
           f == [i \in 1 .. m |-> i]
<1>1. s \in Seq(Nat) /\ Len(s) = n /\ \A i \in 1 .. n : s[i] = i
  OBVIOUS
<1>2. SubSeq(s, 1, m) = f
  <2>1. m \in Nat /\ m <= n
    OBVIOUS
  <2> QED BY <2>1
<1>3. f \in Seq(1 .. m)
  OBVIOUS
<1>4. \A i \in m + 1 .. n : i \in 1 .. n /\ i \notin 1 .. m
  OBVIOUS
<1> HIDE DEF s, f
<1>5. Kept(f, 1 .. m) = f
  <2> DEFINE M == 1 .. m
  <2>1. f \in Seq(M)
    BY <1>3
  <2> HIDE DEF M
  <2>2. Kept(f, M) = f
    BY <2>1, KeptAll
  <2> QED BY <2>2 DEF M
<1>6. Kept(s, 1 .. m) = Kept(SubSeq(s, 1, m), 1 .. m)
  <2> DEFINE M == 1 .. m
  <2>1. \A i \in m + 1 .. Len(s) : s[i] \notin M
    BY <1>1, <1>4
  <2>2. m \in 0 .. Len(s)
    BY <1>1
  <2> HIDE DEF M
  <2>3. Kept(s, M) = Kept(SubSeq(s, 1, m), M)
    BY <1>1, <2>1, <2>2, KeptRest
  <2> QED BY <2>3 DEF M
<1> QED BY <1>2, <1>5, <1>6 DEF s, f
=============================================================================
