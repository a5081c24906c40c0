----------------------------- MODULE Induction -----------------------------
(***************************************************************************)
(* Induction and recursion over the natural numbers, said of sets and      *)
(* functions and not of predicates and operators: the library's theorem    *)
(* WFMin, that a well-founded relation has minimal elements, applied to    *)
(* the numbers without a property.  With them, that tuples of numbers do   *)
(* not fall for ever, what is made of sequences joined one behind the      *)
(* other, what linking and unlinking do to linked lists and to the walks   *)
(* along their pointers, what sequences have in common as their beginning, *)
(* what they are when they grow at the end, and what is left of names read *)
(* one by one.                                                             *)
(***************************************************************************)
EXTENDS Integers, SequencesExt, FiniteSets, WellFoundedInduction, SequenceTheorems,
        FiniteSetTheorems, TLAPS

\* A set of numbers that has an element has a smallest one.
LEMMA LeastNumber ==
  ASSUME NEW S, S \subseteq Nat, S # {}
  PROVE  \E x \in S : \A y \in S : x <= y
<1> DEFINE Less == {pair \in Nat \X Nat : pair[1] < pair[2]}
<1>1. Less = OpToRel(<, Nat)
  BY DEF OpToRel
<1>2. IsWellFoundedOn(OpToRel(<, Nat), Nat)
  BY NatLessThanWellFounded
<1>3. IsWellFoundedOn(Less, Nat)
  BY <1>1, <1>2
<1> HIDE DEF Less
<1>4. \E x \in S : \A y \in S : ~(<<y, x>> \in Less)
  BY <1>3, WFMin
<1>5. PICK x \in S : \A y \in S : ~(<<y, x>> \in Less)
  BY <1>4
<1>6. ASSUME NEW y \in S PROVE x <= y
  <2>1. ~(<<y, x>> \in Less) /\ x \in Nat /\ y \in Nat
    BY <1>5, <1>6
  <2>2. ~(y < x)
    BY <2>1 DEF Less
  <2> QED BY <2>1, <2>2
<1> QED BY <1>6

\* A set of numbers with 0 and with the successor of each holds them all.
LEMMA SetInduction ==
  ASSUME NEW S, 0 \in S, \A n \in Nat : n \in S => n + 1 \in S
  PROVE  \A n \in Nat : n \in S
<1> SUFFICES ASSUME Nat \ S # {} PROVE FALSE
  OBVIOUS
<1>1. PICK n \in Nat \ S : \A m \in Nat \ S : n <= m
  <2> DEFINE T == Nat \ S
  <2>1. T \subseteq Nat /\ T # {}
    OBVIOUS
  <2> HIDE DEF T
  <2>2. \E x \in T : \A y \in T : x <= y
    BY <2>1, LeastNumber
  <2> QED BY <2>2 DEF T
<1>2. n # 0 /\ n \in Nat
  OBVIOUS
<1>3. n - 1 \in Nat /\ ~(n <= n - 1) /\ (n - 1) + 1 = n
  BY <1>2
<1>4. n - 1 \in S
  BY <1>1, <1>3
<1> QED BY <1>3, <1>4

\* The same for the numbers up to N.
LEMMA IntervalInduction ==
  ASSUME NEW N \in Nat, NEW S, 0 \in S, \A n \in 1 .. N : n - 1 \in S => n \in S
  PROVE  \A n \in 0 .. N : n \in S
<1> DEFINE T == {n \in Nat : n \in 0 .. N => n \in S}
<1>1. 0 \in T
  OBVIOUS
<1>2. \A n \in Nat : n \in T => n + 1 \in T
  <2> SUFFICES ASSUME NEW n \in Nat, n \in T, n + 1 \in 0 .. N PROVE n + 1 \in S
    OBVIOUS
  <2>1. n + 1 \in 1 .. N /\ n \in 0 .. N /\ (n + 1) - 1 = n
    OBVIOUS
  <2> QED BY <2>1
<1>3. \A n \in Nat : n \in T
  <2> HIDE DEF T
  <2> QED BY <1>1, <1>2, SetInduction
<1>4. \A n \in 0 .. N : n \in Nat
  OBVIOUS
<1> QED BY <1>3, <1>4

\* Tuples of naturals ordered by their first difference have no endless descent.
LEMMA TuplesEnd ==
  ASSUME NEW N \in Nat,
         NEW f \in [Nat -> [1 .. N -> Nat]]
  PROVE  \E n \in Nat :
           ~ \E k \in 1 .. N : f[n + 1][k] < f[n][k] /\ \A j \in 1 .. k - 1 : f[n + 1][j] = f[n][j]
<1> DEFINE S == [1 .. N -> Nat]
           Lower(r, s, k) == r[k] < s[k] /\ \A j \in 1 .. k - 1 : r[j] = s[j]
           Less == {pair \in S \X S : \E k \in 1 .. N : Lower(pair[1], pair[2], k)}
<1>1. ASSUME NEW T, T \subseteq S, T # {}
      PROVE  \E s \in T : \A t \in T : \A k \in 1 .. N : ~Lower(t, s, k)
  <2> DEFINE Least(n) == \E s \in T : \A t \in T : \A k \in 1 .. n : ~Lower(t, s, k)
             G == {n \in 0 .. N : Least(n)}
  <2>1. 0 \in G
    <3>1. Least(0)
      BY <1>1
    <3> QED BY <3>1
  <2>2. ASSUME NEW n \in 1 .. N, n - 1 \in G PROVE n \in G
    <3>1. PICK s \in T : \A t \in T : \A k \in 1 .. n - 1 : ~Lower(t, s, k)
      BY <2>2
    <3> DEFINE Like == {t \in T : \A j \in 1 .. n - 1 : t[j] = s[j]}
               Nth == {t[n] : t \in Like}
    <3>2. s \in Like /\ Like \subseteq T
      OBVIOUS
    <3>3. Nth \subseteq Nat /\ Nth # {}
      <4>1. \A t \in Like : t \in S
        BY <1>1, <3>2
      <4>2. \A t \in S : t[n] \in Nat
        OBVIOUS
      <4> HIDE DEF S, Like
      <4> QED BY <3>2, <4>1, <4>2
    <3> HIDE DEF Nth
    <3>4. PICK m \in Nth : \A y \in Nth : m <= y
      BY <3>3, LeastNumber
    <3>5. PICK u \in Like : u[n] = m
      BY <3>4 DEF Nth
    <3>6. ASSUME NEW t \in T, NEW k \in 1 .. n, Lower(t, u, k) PROVE FALSE
      <4>1. \A j \in 1 .. n - 1 : u[j] = s[j]
        BY <3>5
      <4>2. CASE k = n
        <5>1. t \in Like
          BY <3>6, <4>1, <4>2
        <5>2. t[n] \in Nth
          BY <5>1 DEF Nth
        <5>3. t[n] < m
          BY <3>5, <3>6, <4>2
        <5>4. t[n] \in Nat /\ m \in Nat
          BY <3>3, <5>2
        <5>5. m <= t[n]
          BY <3>4, <5>2
        <5> HIDE DEF Like
        <5> QED BY ONLY <5>3, <5>4, <5>5
      <4>3. CASE k \in 1 .. n - 1
        <5>1. Lower(t, s, k)
          BY <3>6, <4>1, <4>3
        <5> QED BY <3>1, <4>3, <5>1
      <4> QED BY <4>2, <4>3
    <3>7. Least(n)
      BY <3>2, <3>5, <3>6
    <3> QED BY <3>7
  <2> HIDE DEF G
  <2>3. N \in G
    <3>1. \A n \in 1 .. N : n - 1 \in G => n \in G
      BY <2>2
    <3>2. \A n \in 0 .. N : n \in G
      BY ONLY N \in Nat, <2>1, <3>1, IntervalInduction
    <3> QED BY <3>2
  <2>4. Least(N)
    BY <2>3 DEF G
  <2> QED BY <2>4
<1>2. \A T \in SUBSET S : T # {} => \E x \in T : \A y \in T : ~(<<y, x>> \in Less)
  <2> SUFFICES ASSUME NEW T \in SUBSET S, T # {}
               PROVE  \E x \in T : \A y \in T : ~(<<y, x>> \in Less)
    OBVIOUS
  <2> HIDE DEF S, Lower
  <2>1. \E s \in T : \A t \in T : \A k \in 1 .. N : ~Lower(t, s, k)
    BY <1>1
  <2>2. PICK s \in T : \A t \in T : \A k \in 1 .. N : ~Lower(t, s, k)
    BY <2>1
  <2>3. ASSUME NEW y \in T, <<y, s>> \in Less PROVE FALSE
    BY <2>2, <2>3
  <2> QED BY <2>3
<1>3. IsWellFoundedOn(Less, S)
  <2> HIDE DEF Less, S
  <2> QED BY <1>2, MinWF
<1>4. PICK n \in Nat : <<f[n + 1], f[n]>> \notin Less
  <2> HIDE DEF Less
  <2> QED BY <1>3 DEF IsWellFoundedOn
<1>5. f[n] \in S /\ f[n + 1] \in S
  OBVIOUS
<1> QED BY <1>4, <1>5

\* The smallest and the largest, where they are known.
LEMMA MinIs ==
  ASSUME NEW S, S \subseteq Int, NEW m \in S, \A x \in S : m <= x
  PROVE  Min(S) = m
<1> DEFINE Smallest(x) == \A y \in S : x <= y
<1>1. Smallest(m)
  OBVIOUS
<1>2. Min(S) = CHOOSE x \in S : Smallest(x)
  BY DEF Min
<1> HIDE DEF Smallest
<1>3. Min(S) \in S /\ Smallest(Min(S))
  BY <1>1, <1>2
<1>4. Min(S) <= m /\ m <= Min(S)
  BY <1>3 DEF Smallest
<1>5. Min(S) \in Int /\ m \in Int
  BY <1>3
<1> QED BY <1>4, <1>5

\* The greatest of a set of numbers.
LEMMA MaxIs ==
  ASSUME NEW S, S \subseteq Int, NEW m \in S, \A x \in S : x <= m
  PROVE  Max(S) = m
<1> DEFINE Largest(x) == \A y \in S : x >= y
<1>1. Largest(m)
  OBVIOUS
<1>2. Max(S) = CHOOSE x \in S : Largest(x)
  BY DEF Max
<1> HIDE DEF Largest
<1>3. Max(S) \in S /\ Largest(Max(S))
  BY <1>1, <1>2
<1>4. Max(S) >= m /\ Max(S) <= m
  BY <1>3 DEF Largest
<1>5. Max(S) \in Int /\ m \in Int
  BY <1>3
<1> QED BY <1>4, <1>5

\* A set of numbers up to n has a largest one.
LEMMA MaxUpTo ==
  ASSUME NEW n \in Nat, NEW S, S # {}, \A x \in S : x \in 0 .. n
  PROVE  Max(S) \in S /\ \A x \in S : x <= Max(S)
<1> DEFINE T == {n - x : x \in S}
<1>1. T \subseteq Nat /\ T # {}
  OBVIOUS
<1>2. PICK y \in T : \A z \in T : y <= z
  <2> HIDE DEF T
  <2> QED BY <1>1, LeastNumber
<1>3. PICK m \in S : y = n - m
  BY <1>2
<1>4. ASSUME NEW x \in S PROVE x <= m
  <2>1. n - m <= n - x
    BY <1>2, <1>3
  <2>2. x \in 0 .. n /\ m \in 0 .. n
    BY <1>3
  <2> QED BY <2>1, <2>2
<1>5. S \subseteq Int
  OBVIOUS
<1> HIDE DEF T
<1>6. Max(S) = m
  BY <1>3, <1>4, <1>5, MaxIs
<1> QED BY <1>4, <1>6

\* A function on 0 .. N that begins with c and whose value at each further
\* number F makes of the number and of the value before; there is one.
IsRecursive(g, N, V, c, F) ==
  /\ g \in [0 .. N -> V]
  /\ g[0] = c
  /\ \A i \in 1 .. N : g[i] = F[<<i, g[i - 1]>>]

\* A function can be made of its first value and of the steps.
LEMMA IntervalRecursion ==
  ASSUME NEW N \in Nat, NEW V, NEW c \in V, NEW F \in [(1 .. N) \X V -> V]
  PROVE  \E g : IsRecursive(g, N, V, c, F)
<1> DEFINE S == {n \in 0 .. N : \E g \in [0 .. n -> V] :
                    g[0] = c /\ \A i \in 1 .. n : g[i] = F[<<i, g[i - 1]>>]}
<1>1. 0 \in S
  <2>1. [i \in 0 .. 0 |-> c] \in [0 .. 0 -> V] /\ [i \in 0 .. 0 |-> c][0] = c
    OBVIOUS
  <2>2. 1 .. 0 = {} /\ 0 \in 0 .. N
    OBVIOUS
  <2> QED BY <2>1, <2>2
<1>2. ASSUME NEW n \in 1 .. N, n - 1 \in S PROVE n \in S
  <2>0. n \in Int /\ n >= 1 /\ n <= N /\ n - 1 \in Nat
    OBVIOUS
  <2>1. PICK g \in [0 .. n - 1 -> V] : g[0] = c /\ \A i \in 1 .. n - 1 : g[i] = F[<<i, g[i - 1]>>]
    BY <1>2
  <2> DEFINE v == F[<<n, g[n - 1]>>]
             h == [i \in 0 .. n |-> IF i = n THEN v ELSE g[i]]
  <2>2. v \in V
    <3>1. n - 1 \in 0 .. n - 1
      BY <2>0
    <3>2. <<n, g[n - 1]>> \in (1 .. N) \X V
      BY <3>1
    <3> QED BY <3>2
  <2>3. \A i \in 0 .. n - 1 : i \in 0 .. n /\ i # n
    BY <2>0
  <2>4. \A i \in 0 .. n - 1 : h[i] = g[i]
    BY <2>3
  <2>5. n \in 0 .. n /\ h[n] = v
    BY <2>0
  <2>6. h \in [0 .. n -> V]
    <3>1. \A i \in 0 .. n : i # n => i \in 0 .. n - 1
      BY <2>0
    <3> QED BY <3>1, <2>2
  <2>7. h[0] = c
    <3>1. 0 \in 0 .. n - 1
      BY <2>0
    <3> QED BY <3>1, <2>1, <2>4
  <2>8. ASSUME NEW i \in 1 .. n PROVE h[i] = F[<<i, h[i - 1]>>]
    <3>1. i - 1 \in 0 .. n - 1
      BY <2>0
    <3>2. h[i - 1] = g[i - 1]
      BY <3>1, <2>4
    <3> HIDE DEF h
    <3>3. CASE i = n
      BY <3>2, <3>3, <2>5
    <3>4. CASE i # n
      <4>1. i \in 1 .. n - 1 /\ i \in 0 .. n - 1
        BY <3>4, <2>0
      <4> QED BY <4>1, <3>2, <2>4, <2>1
    <3> QED BY <3>3, <3>4
  <2> HIDE DEF h
  <2>9. n \in 0 .. N
    BY <2>0
  <2> QED BY <2>6, <2>7, <2>8, <2>9
<1>3. \A n \in 0 .. N : n \in S
  <2> HIDE DEF S
  <2> QED BY <1>1, <1>2, IntervalInduction
<1>4. N \in S
  <2> HIDE DEF S
  <2> QED BY <1>3
<1> QED BY <1>4 DEF IsRecursive

-----------------------------------------------------------------------------
(***************************************************************************)
(* Sequences joined.                                                       *)
(***************************************************************************)

\* The first elements of a sequence.
LEMMA FirstOfSeq ==
  ASSUME NEW S, NEW s \in Seq(S), NEW k \in Nat, k <= Len(s)
  PROVE  /\ SubSeq(s, 1, k) \in Seq(S) /\ Len(SubSeq(s, 1, k)) = k
         /\ \A i \in 1 .. k : SubSeq(s, 1, k)[i] = s[i]
<1>1. \A i \in 1 .. k : s[i] \in S
  <2>1. \A i \in 1 .. k : i \in 1 .. Len(s)
    BY LenProperties
  <2> QED BY <2>1, ElementOfSeq
<1>2. /\ SubSeq(s, 1, k) \in Seq(S)
      /\ Len(SubSeq(s, 1, k)) = IF 1 <= k THEN k - 1 + 1 ELSE 0
      /\ \A i \in 1 .. k - 1 + 1 : SubSeq(s, 1, k)[i] = s[1 + i - 1]
  BY <1>1, SubSeqProperties
<1> QED BY <1>2

\* Two sequences joined.
LEMMA Joined ==
  ASSUME NEW S, NEW s \in Seq(S), NEW t \in Seq(S)
  PROVE  /\ s \o t \in Seq(S) /\ Len(s) \in Nat /\ Len(t) \in Nat
         /\ Len(s \o t) = Len(s) + Len(t)
         /\ \A i \in 1 .. Len(s) : (s \o t)[i] = s[i]
         /\ \A i \in 1 .. Len(t) : (s \o t)[Len(s) + i] = t[i]
<1>1. Len(s) \in Nat /\ Len(t) \in Nat
  BY LenProperties
<1>2. /\ s \o t \in Seq(S) /\ Len(s \o t) = Len(s) + Len(t)
      /\ \A i \in 1 .. Len(s) + Len(t) :
           (s \o t)[i] = IF i <= Len(s) THEN s[i] ELSE t[i - Len(s)]
  BY ConcatProperties
<1>3. \A i \in 1 .. Len(s) : i \in 1 .. Len(s) + Len(t) /\ i <= Len(s)
  BY <1>1
<1>4. \A i \in 1 .. Len(t) : /\ Len(s) + i \in 1 .. Len(s) + Len(t)
                            /\ ~(Len(s) + i <= Len(s)) /\ (Len(s) + i) - Len(s) = i
  BY <1>1
<1> QED BY <1>1, <1>2, <1>3, <1>4

\* g[i] is what the first i of the sequences ss make.
Flattens(g, ss, S) ==
  /\ g[0] = << >>
  /\ \A i \in 0 .. Len(ss) : g[i] \in Seq(S)
  /\ \A i \in 1 .. Len(ss) : g[i] = g[i - 1] \o ss[i]

\* What joins them step by step is what FlattenSeq makes of them.
LEMMA FlattenIs ==
  ASSUME NEW S, NEW ss \in Seq(Seq(S)), NEW g, Flattens(g, ss, S)
  PROVE  FlattenSeq(ss) = g[Len(ss)]
<1> DEFINE N == Len(ss)
           Is(h) == h = [i \in 1 .. N |-> IF i = 1 THEN ss[i] ELSE h[i - 1] \o ss[i]]
           flatten == CHOOSE h : Is(h)
           sums == [i \in 1 .. N |-> g[i]]
<1>1. FlattenSeq(ss) = IF N = 0 THEN ss ELSE flatten[N]
  BY DEF FlattenSeq
<1>2. N \in Nat
  BY LenProperties
<1>3. N = 0 => ss = << >>
  BY EmptySeq
<1> HIDE DEF N
<1>4. ASSUME N # 0 PROVE flatten[N] = g[N]
  <2>1. g[0] = << >> /\ \A i \in 1 .. N : g[i] = g[i - 1] \o ss[i]
    BY DEF Flattens, N
  <2>2. \A i \in 1 .. N : i # 1 => i - 1 \in 1 .. N /\ i - 1 \in 0 .. N
    BY <1>2
  <2>3. 1 \in 1 .. N /\ 1 - 1 = 0
    BY <1>2, <1>4
  <2>4. g[1] = ss[1]
    <3>1. ss[1] \in Seq(S)
      BY <2>3, ElementOfSeq DEF N
    <3>2. << >> \o ss[1] = ss[1]
      BY <3>1, ConcatEmptySeq
    <3> QED BY <2>1, <2>3, <3>2
  <2>5. Is(sums)
    <3>1. \A i \in 1 .. N : sums[i] = IF i = 1 THEN ss[i] ELSE sums[i - 1] \o ss[i]
      BY <2>1, <2>2, <2>4
    <3>2. sums = [i \in 1 .. N |-> sums[i]]
      OBVIOUS
    <3> HIDE DEF sums
    <3> QED BY <3>1, <3>2
  <2>6. Is(flatten)
    <3> HIDE DEF Is
    <3> QED BY <2>5
  <2> HIDE DEF flatten, sums
  <2>7. \A i \in 1 .. N : flatten[i] = IF i = 1 THEN ss[i] ELSE flatten[i - 1] \o ss[i]
    BY <2>6
  <2> DEFINE Good == {i \in 0 .. N : i # 0 => flatten[i] = g[i]}
  <2>8. 0 \in Good
    BY <1>2
  <2>9. ASSUME NEW i \in 1 .. N, i - 1 \in Good PROVE i \in Good
    <3>1. i \in 0 .. N
      BY <1>2
    <3>2. CASE i = 1
      BY <2>4, <2>7, <3>1, <3>2
    <3>3. CASE i # 1
      <4>1. i - 1 \in 1 .. N /\ i - 1 # 0
        BY <1>2, <3>3
      <4>2. flatten[i - 1] = g[i - 1]
        BY <2>9, <4>1
      <4>3. flatten[i] = flatten[i - 1] \o ss[i] /\ g[i] = g[i - 1] \o ss[i]
        BY <2>1, <2>7, <3>3
      <4> QED BY <3>1, <4>2, <4>3
    <3> QED BY <3>2, <3>3
  <2>10. \A i \in 0 .. N : i \in Good
    <3> HIDE DEF Good
    <3> QED BY <1>2, <2>8, <2>9, IntervalInduction
  <2> QED BY <1>2, <1>4, <2>10
<1> QED BY <1>1, <1>3, <1>4 DEF Flattens, N

\* There is such a function.
LEMMA FlattenExists ==
  ASSUME NEW S, NEW ss \in Seq(Seq(S))
  PROVE  \E g : Flattens(g, ss, S)
<1> DEFINE N == Len(ss)
           V == Seq(S)
           F == [p \in (1 .. N) \X V |-> p[2] \o ss[p[1]]]
<1>1. N \in Nat /\ \A i \in 1 .. N : ss[i] \in Seq(S)
  BY LenProperties, ElementOfSeq
<1>2. << >> \in V
  OBVIOUS
<1>3. F \in [(1 .. N) \X V -> V]
  <2> SUFFICES ASSUME NEW p \in (1 .. N) \X V PROVE p[2] \o ss[p[1]] \in V
    OBVIOUS
  <2>1. p[1] \in 1 .. N /\ p[2] \in Seq(S)
    OBVIOUS
  <2> QED BY <1>1, <2>1, ConcatProperties
<1>4. \A i \in 1 .. N, s \in V : F[<<i, s>>] = s \o ss[i]
  OBVIOUS
<1> HIDE DEF N, V, F
<1>5. PICK g : IsRecursive(g, N, V, << >>, F)
  BY <1>1, <1>2, <1>3, IntervalRecursion
<1>6. ASSUME NEW i \in 1 .. N PROVE g[i] = g[i - 1] \o ss[i]
  <2>1. i - 1 \in 0 .. N
    BY <1>1
  <2> QED BY <1>4, <1>5, <2>1 DEF IsRecursive
<1>7. Flattens(g, ss, S)
  BY <1>5, <1>6 DEF Flattens, IsRecursive, N, V
<1> QED BY <1>7

\* One sequence more is joined behind the others.
LEMMA FlattenAppend ==
  ASSUME NEW S, NEW ss \in Seq(Seq(S)), NEW s \in Seq(S)
  PROVE  /\ FlattenSeq(ss) \in Seq(S)
         /\ FlattenSeq(Append(ss, s)) = FlattenSeq(ss) \o s
<1> DEFINE t == Append(ss, s)
<1>1. /\ t \in Seq(Seq(S)) /\ Len(t) = Len(ss) + 1 /\ Len(ss) \in Nat
      /\ t[Len(ss) + 1] = s /\ \A i \in 1 .. Len(ss) : t[i] = ss[i]
  BY AppendProperties, LenProperties
<1> HIDE DEF t
<1>2. PICK g : Flattens(g, t, S)
  BY <1>1, FlattenExists
<1>3. FlattenSeq(t) = g[Len(ss) + 1]
  BY <1>1, <1>2, FlattenIs
<1>4. Flattens(g, ss, S)
  <2>1. \A i \in 0 .. Len(ss) : i \in 0 .. Len(ss) + 1
    BY <1>1
  <2>2. \A i \in 1 .. Len(ss) : i \in 1 .. Len(ss) + 1
    BY <1>1
  <2> QED BY <1>1, <1>2, <2>1, <2>2 DEF Flattens
<1>5. FlattenSeq(ss) = g[Len(ss)]
  BY <1>4, FlattenIs
<1>6. g[Len(ss) + 1] = g[Len(ss)] \o s /\ g[Len(ss)] \in Seq(S)
  <2>1. Len(ss) + 1 \in 1 .. Len(t) /\ (Len(ss) + 1) - 1 = Len(ss) /\ Len(ss) \in 0 .. Len(ss)
    BY <1>1
  <2> QED BY <1>1, <1>2, <1>4, <2>1 DEF Flattens
<1> QED BY <1>3, <1>5, <1>6 DEF t

(***************************************************************************)
(* The lists: what is reached from a pointer, as a sequence.               *)
(***************************************************************************)

\* From h on the pointers nx lead through the nodes of s, each once, and end.
IsWalk(s, h, nx, Cells, null) ==
  /\ s \in Seq(Cells)
  /\ \A i, j \in 1 .. Len(s) : s[i] = s[j] => i = j
  /\ h = IF s = << >> THEN null ELSE s[1]
  /\ \A i \in 1 .. Len(s) : nx[s[i]] = IF i = Len(s) THEN null ELSE s[i + 1]

\* What is in a sequence.
LEMMA Elements ==
  ASSUME NEW S, NEW s \in Seq(S)
  PROVE  /\ Len(s) \in Nat /\ \A i \in 1 .. Len(s) : s[i] \in S /\ s[i] \in ToSet(s)
         /\ ToSet(s) \subseteq S /\ \A x \in ToSet(s) : \E i \in 1 .. Len(s) : x = s[i]
<1>1. Len(s) \in Nat /\ DOMAIN s = 1 .. Len(s)
  BY ONLY LenProperties, s \in Seq(S)
<1>2. \A i \in 1 .. Len(s) : s[i] \in S
  BY ONLY ElementOfSeq, s \in Seq(S)
<1> QED BY <1>1, <1>2 DEF ToSet

\* Appending adds one element.
LEMMA Appended ==
  ASSUME NEW S, NEW s \in Seq(S), NEW x \in S
  PROVE  Append(s, x) \in Seq(S) /\ ToSet(Append(s, x)) = ToSet(s) \cup {x}
<1> DEFINE t == Append(s, x)
<1>1. /\ t \in Seq(S) /\ Len(t) = Len(s) + 1 /\ Len(s) \in Nat
      /\ t[Len(s) + 1] = x /\ \A i \in 1 .. Len(s) : t[i] = s[i]
  BY AppendProperties, LenProperties
<1> HIDE DEF t
<1>2. DOMAIN t = 1 .. Len(s) + 1 /\ DOMAIN s = 1 .. Len(s)
  BY <1>1, LenProperties
<1>3. 1 .. Len(s) + 1 = 1 .. Len(s) \cup {Len(s) + 1}
  BY <1>1
<1>4. ToSet(t) = ToSet(s) \cup {x}
  BY <1>1, <1>2, <1>3 DEF ToSet
<1> QED BY <1>1, <1>4 DEF t

\* A sequence that repeats nothing has at most as many elements as there are.
LEMMA WalkIsShort ==
  ASSUME NEW Cells, NEW null, null \notin Cells, IsFiniteSet(Cells),
         NEW s \in Seq(Cells), \A i, j \in 1 .. Len(s) : s[i] = s[j] => i = j
  PROVE  Cardinality(Cells) \in Nat /\ Len(s) <= Cardinality(Cells)
<1>1. Len(s) \in Nat /\ s \in [1 .. Len(s) -> Cells]
  BY ONLY s \in Seq(Cells), LenProperties
<1>2. IsFiniteSet(1 .. Len(s)) /\ Cardinality(1 .. Len(s)) = Len(s)
  <2>1. 0 \in Int /\ 1 \in Int /\ Len(s) \in Int /\ (1 > Len(s) => Len(s) = 0) /\ Len(s) - 1 + 1 = Len(s)
    BY ONLY <1>1
  <2> QED BY <2>1, FS_Interval
<1>3. IsFiniteSet(Cells) /\ Cardinality(Cells) \in Nat
  BY FS_CardinalityType
<1>4. ~(Cardinality(Cells) < Cardinality(1 .. Len(s)))
  BY <1>1, <1>2, <1>3, FS_PigeonHole
<1> QED BY <1>1, <1>2, <1>3, <1>4

\* What is reached from h, found by as many steps as there are objects.
ListFrom(h, nx, Cells, null) ==
  LET at[i \in 0 .. Cardinality(Cells)] ==
        IF i = 0 THEN h ELSE IF at[i - 1] = null THEN null ELSE nx[at[i - 1]]
      linked == {i \in DOMAIN at : at[i] # null}
  IN  [i \in 1 .. Cardinality(linked) |-> at[i - 1]]

\* These steps find the whole walk.
LEMMA ListFromIs ==
  ASSUME NEW Cells, NEW null, null \notin Cells, IsFiniteSet(Cells),
         NEW s, NEW h, NEW nx, IsWalk(s, h, nx, Cells, null)
  PROVE  ListFrom(h, nx, Cells, null) = s
<1>0. s \in Seq(Cells)
  BY DEF IsWalk
<1> DEFINE N == Cardinality(Cells)
           Is(g) == g = [i \in 0 .. N |-> IF i = 0 THEN h
                                         ELSE IF g[i - 1] = null THEN null ELSE nx[g[i - 1]]]
           at == CHOOSE g : Is(g)
           linked == {i \in DOMAIN at : at[i] # null}
           walk == [i \in 0 .. N |-> IF i < Len(s) THEN s[i + 1] ELSE null]
<1>1. ListFrom(h, nx, Cells, null) = [i \in 1 .. Cardinality(linked) |-> at[i - 1]]
  BY DEF ListFrom
<1>2. /\ N \in Nat /\ Len(s) \in Nat /\ Len(s) <= N
      /\ \A i \in 1 .. Len(s) : s[i] \in Cells /\ s[i] # null
  <2>1. N \in Nat /\ Len(s) <= N
    BY <1>0, WalkIsShort DEF IsWalk
  <2> HIDE DEF N
  <2>2. Len(s) \in Nat /\ \A i \in 1 .. Len(s) : s[i] \in Cells
    BY <1>0, Elements
  <2> QED BY <2>1, <2>2
<1> HIDE DEF N
<1>3. \A i \in 0 .. N : walk[i] = IF i < Len(s) THEN s[i + 1] ELSE null
  OBVIOUS
<1>4. walk[0] = h
  <2>1. s = << >> <=> Len(s) = 0
    BY ONLY <1>0, EmptySeq
  <2> QED BY <1>2, <1>3, <2>1 DEF IsWalk
<1>5. ASSUME NEW i \in 1 .. N
      PROVE  walk[i] = IF walk[i - 1] = null THEN null ELSE nx[walk[i - 1]]
  <2>1. i \in 0 .. N /\ i - 1 \in 0 .. N /\ (i - 1) + 1 = i /\ i \in Nat
    BY <1>2
  <2>2. walk[i] = (IF i < Len(s) THEN s[i + 1] ELSE null)
    BY <1>3, <2>1
  <2>3. walk[i - 1] = (IF i - 1 < Len(s) THEN s[i] ELSE null)
    BY <1>3, <2>1
  <2> HIDE DEF walk
  <2>4. CASE i - 1 < Len(s)
    <3>1. i \in 1 .. Len(s) /\ walk[i - 1] = s[i] /\ s[i] # null
      BY <1>2, <2>1, <2>3, <2>4
    <3>2. nx[s[i]] = IF i = Len(s) THEN null ELSE s[i + 1]
      BY <3>1 DEF IsWalk
    <3>3. i < Len(s) <=> i # Len(s)
      BY <1>2, <3>1
    <3> QED BY <2>2, <3>1, <3>2, <3>3
  <2>5. CASE ~(i - 1 < Len(s))
    <3>1. ~(i < Len(s))
      BY <1>2, <2>1, <2>5
    <3> QED BY <2>2, <2>3, <2>5, <3>1
  <2> QED BY <2>4, <2>5
<1>6. Is(walk)
  <2>1. \A i \in 0 .. N : i # 0 => i \in 1 .. N
    BY <1>2
  <2>2. \A i \in 0 .. N : walk[i] = IF i = 0 THEN h
                                   ELSE IF walk[i - 1] = null THEN null ELSE nx[walk[i - 1]]
    <3> HIDE DEF walk
    <3> QED BY <1>4, <1>5, <2>1
  <2>3. walk = [i \in 0 .. N |-> walk[i]]
    OBVIOUS
  <2> HIDE DEF walk
  <2> QED BY <2>2, <2>3
<1> HIDE DEF walk
<1>7. Is(at)
  <2> HIDE DEF Is
  <2> QED BY <1>6
<1>8. \A i \in 0 .. N : at[i] = walk[i]
  <2> DEFINE Same == {i \in 0 .. N : at[i] = walk[i]}
  <2> HIDE DEF at
  <2>1. 0 \in 0 .. N /\ \A i \in 1 .. N : i \in 0 .. N /\ i # 0
    BY <1>2
  <2>2. at[0] = h /\ \A i \in 1 .. N : at[i] = IF at[i - 1] = null THEN null ELSE nx[at[i - 1]]
    BY <1>7, <2>1
  <2>3. 0 \in Same
    BY <1>4, <2>1, <2>2
  <2>4. ASSUME NEW i \in 1 .. N, i - 1 \in Same PROVE i \in Same
    <3>1. at[i] = walk[i]
      BY <1>5, <2>2, <2>4
    <3> QED BY <2>1, <3>1
  <2>5. \A i \in 0 .. N : i \in Same
    <3> HIDE DEF Same
    <3> QED BY <1>2, <2>3, <2>4, IntervalInduction
  <2> QED BY <2>5
<1>9. DOMAIN at = 0 .. N
  <2> HIDE DEF at
  <2> QED BY <1>7
<1> HIDE DEF at
<1>10. \A i \in 0 .. N : at[i] # null <=> i < Len(s)
  <2>1. \A i \in 0 .. N : i < Len(s) => i + 1 \in 1 .. Len(s)
    BY <1>2
  <2> QED BY <1>2, <1>3, <1>8, <2>1 DEF walk
<1>11. linked = 0 .. Len(s) - 1
  <2>1. \A i : i \in 0 .. Len(s) - 1 <=> i \in 0 .. N /\ i < Len(s)
    BY <1>2
  <2> QED BY <1>9, <1>10, <2>1
<1>12. Cardinality(linked) = Len(s)
  <2> HIDE DEF linked
  <2>1. 0 \in Int /\ Len(s) - 1 \in Int /\ (0 > Len(s) - 1 => Len(s) = 0) /\ Len(s) - 1 - 0 + 1 = Len(s)
    BY <1>2
  <2>2. Cardinality(0 .. Len(s) - 1) = IF 0 > Len(s) - 1 THEN 0 ELSE Len(s) - 1 - 0 + 1
    BY <2>1, FS_Interval
  <2> QED BY <1>11, <2>1, <2>2
<1> HIDE DEF linked
<1>13. \A i \in 1 .. Len(s) : at[i - 1] = s[i]
  <2> SUFFICES ASSUME NEW i \in 1 .. Len(s) PROVE at[i - 1] = s[i]
    OBVIOUS
  <2>1. i - 1 \in 0 .. N /\ i - 1 < Len(s) /\ (i - 1) + 1 = i
    BY <1>2
  <2> QED BY <1>3, <1>8, <2>1 DEF walk
<1>14. s = [i \in 1 .. Len(s) |-> s[i]]
  BY ONLY <1>0, LenProperties
<1> QED BY <1>1, <1>12, <1>13, <1>14

\* A sequence without its k-th element.
LEMMA RemovedAt ==
  ASSUME NEW S, NEW s \in Seq(S), NEW k \in 1 .. Len(s)
  PROVE  /\ RemoveAt(s, k) \in Seq(S) /\ Len(RemoveAt(s, k)) = Len(s) - 1
         /\ Len(s) \in Nat /\ Len(s) - 1 \in Nat
         /\ \A i \in 1 .. Len(s) - 1 : RemoveAt(s, k)[i] = IF i < k THEN s[i] ELSE s[i + 1]
<1> DEFINE front == SubSeq(s, 1, k - 1)
           back  == SubSeq(s, k + 1, Len(s))
<1>1. Len(s) \in Nat /\ k \in Int /\ 1 <= k /\ k <= Len(s) /\ \A i \in 1 .. Len(s) : s[i] \in S
  BY Elements
<1>2. /\ front \in Seq(S) /\ Len(front) = k - 1
      /\ \A i \in 1 .. k - 1 : front[i] = s[i]
  <2>1. \A i \in 1 .. k - 1 : s[i] \in S
    BY <1>1
  <2>2. /\ front \in Seq(S) /\ Len(front) = (IF 1 <= k - 1 THEN k - 1 - 1 + 1 ELSE 0)
        /\ \A i \in 1 .. k - 1 - 1 + 1 : front[i] = s[1 + i - 1]
    BY <1>1, <2>1, SubSeqProperties
  <2> HIDE DEF front
  <2> QED BY <1>1, <2>2
<1>3. /\ back \in Seq(S) /\ Len(back) = Len(s) - k
      /\ \A i \in 1 .. Len(s) - k : back[i] = s[k + i]
  <2>1. \A i \in k + 1 .. Len(s) : s[i] \in S
    BY <1>1
  <2>2. /\ back \in Seq(S) /\ Len(back) = (IF k + 1 <= Len(s) THEN Len(s) - (k + 1) + 1 ELSE 0)
        /\ \A i \in 1 .. Len(s) - (k + 1) + 1 : back[i] = s[k + 1 + i - 1]
    BY <1>1, <2>1, SubSeqProperties
  <2> HIDE DEF back
  <2> QED BY <1>1, <2>2
<1>4. RemoveAt(s, k) = front \o back
  BY DEF RemoveAt
<1> HIDE DEF front, back
<1>5. /\ front \o back \in Seq(S) /\ Len(front \o back) = Len(front) + Len(back)
      /\ \A i \in 1 .. Len(front) + Len(back) :
           (front \o back)[i] = IF i <= Len(front) THEN front[i] ELSE back[i - Len(front)]
  BY <1>2, <1>3, ConcatProperties
<1>6. ASSUME NEW i \in 1 .. Len(s) - 1
      PROVE  (front \o back)[i] = IF i < k THEN s[i] ELSE s[i + 1]
  <2>1. i \in Int /\ i \in 1 .. Len(front) + Len(back)
    BY <1>1, <1>2, <1>3
  <2>2. CASE i < k
    <3>1. i <= Len(front) /\ i \in 1 .. k - 1
      BY <1>1, <1>2, <2>1, <2>2
    <3> QED BY <1>2, <1>5, <2>1, <2>2, <3>1
  <2>3. CASE ~(i < k)
    <3>1. ~(i <= Len(front)) /\ i - (k - 1) \in 1 .. Len(s) - k /\ k + (i - (k - 1)) = i + 1
      BY <1>1, <1>2, <2>1, <2>3
    <3> QED BY <1>2, <1>3, <1>5, <2>1, <2>3, <3>1
  <2> QED BY <2>2, <2>3
<1>7. Len(RemoveAt(s, k)) = Len(s) - 1 /\ RemoveAt(s, k) \in Seq(S)
  BY <1>1, <1>2, <1>3, <1>4, <1>5
<1>8. \A i \in 1 .. Len(s) - 1 : RemoveAt(s, k)[i] = IF i < k THEN s[i] ELSE s[i + 1]
  BY ONLY <1>4, <1>6
<1> QED BY <1>1, <1>7, <1>8

\* What is reached is determined by the pointers of the nodes reached.
LEMMA SameWalk ==
  ASSUME NEW Cells, NEW null, null \notin Cells,
         NEW s, NEW h, NEW nx, NEW nx2, IsWalk(s, h, nx, Cells, null),
         \A i \in 1 .. Len(s) : nx2[s[i]] = nx[s[i]]
  PROVE  IsWalk(s, h, nx2, Cells, null)
BY DEF IsWalk

\* The pointers after that of n was set to h.
Pointed(nx, n, h) == [nx EXCEPT ![n] = h]

\* A node linked in front is reached first.
LEMMA LinkedWalk ==
  ASSUME NEW Cells, NEW null, null \notin Cells,
         NEW s, NEW h, NEW nx \in [Cells -> Cells \cup {null}], IsWalk(s, h, nx, Cells, null),
         NEW n \in Cells, n \notin ToSet(s)
  PROVE  /\ IsWalk(<<n>> \o s, n, Pointed(nx, n, h), Cells, null)
         /\ ToSet(<<n>> \o s) = ToSet(s) \cup {n}
<1> DEFINE t == <<n>> \o s
           nx2 == Pointed(nx, n, h)
<1>1. /\ s \in Seq(Cells) /\ Len(s) \in Nat
      /\ \A i \in 1 .. Len(s) : s[i] \in Cells /\ s[i] \in ToSet(s) /\ s[i] # n
      /\ \A x \in ToSet(s) : \E i \in 1 .. Len(s) : x = s[i]
  <2>1. s \in Seq(Cells)
    BY DEF IsWalk
  <2> QED BY <2>1, Elements
<1>2. /\ t \in Seq(Cells) /\ Len(t) = Len(s) + 1 /\ t[1] = n
      /\ \A i \in 2 .. Len(s) + 1 : t[i] = s[i - 1]
  <2>1. <<n>> \in Seq(Cells) /\ Len(<<n>>) = 1 /\ <<n>>[1] = n
    OBVIOUS
  <2>2. /\ t \in Seq(Cells) /\ Len(t) = 1 + Len(s)
        /\ \A i \in 1 .. 1 + Len(s) : t[i] = IF i <= 1 THEN <<n>>[i] ELSE s[i - 1]
    BY <1>1, <2>1, ConcatProperties
  <2> HIDE DEF t
  <2> QED BY <1>1, <2>1, <2>2
<1>3. /\ nx2[n] = h /\ \A i \in 1 .. Len(s) : nx2[s[i]] = nx[s[i]]
  BY <1>1 DEF Pointed
<1> HIDE DEF t, nx2
<1>4. \A i, j \in 1 .. Len(t) : t[i] = t[j] => i = j
  <2> SUFFICES ASSUME NEW i \in 1 .. Len(t), NEW j \in 1 .. Len(t), t[i] = t[j] PROVE i = j
    OBVIOUS
  <2>1. \A m \in 1 .. Len(t) : m \in Int /\ (m = 1 \/ (m \in 2 .. Len(s) + 1 /\ m - 1 \in 1 .. Len(s)))
    BY <1>1, <1>2
  <2>2. ASSUME NEW m \in 1 .. Len(t), m # 1 PROVE t[m] # t[1]
    <3>1. m \in 2 .. Len(s) + 1 /\ m - 1 \in 1 .. Len(s)
      BY <2>1, <2>2
    <3>2. t[m] = s[m - 1]
      BY <3>1, <1>2
    <3>3. s[m - 1] # n
      BY <3>1, <1>1
    <3> QED BY ONLY <3>2, <3>3, <1>2
  <2>4. 1 \in 1 .. Len(t)
    BY ONLY <1>1, <1>2
  <2>3. CASE i # 1 /\ j # 1
    <3>1. s[i - 1] = s[j - 1] /\ i - 1 \in 1 .. Len(s) /\ j - 1 \in 1 .. Len(s)
      BY <1>2, <2>1, <2>3
    <3>2. i - 1 = j - 1
      BY <3>1 DEF IsWalk
    <3> QED BY <2>1, <3>2
  <2> QED BY <2>2, <2>3, <2>4
<1>5. t # << >> /\ n = t[1]
  BY <1>1, <1>2
<1>6. ASSUME NEW i \in 1 .. Len(t) PROVE nx2[t[i]] = IF i = Len(t) THEN null ELSE t[i + 1]
  <2>1. i \in Int /\ (i = 1 \/ (i \in 2 .. Len(s) + 1 /\ i - 1 \in 1 .. Len(s)))
    BY <1>1, <1>2
  <2>2. s = << >> <=> Len(s) = 0
    BY ONLY <1>1, EmptySeq
  <2>3. CASE i = 1
    <3>1. CASE Len(s) = 0
      BY <1>2, <1>3, <2>2, <2>3, <3>1 DEF IsWalk
    <3>2. CASE Len(s) # 0
      <4>1. 2 \in 2 .. Len(s) + 1 /\ i # Len(t) /\ i + 1 = 2 /\ 2 - 1 = 1
        BY <1>1, <1>2, <2>3, <3>2
      <4>2. t[i + 1] = s[1]
        BY <1>2, <4>1
      <4>3. nx2[t[i]] = h
        BY <1>2, <1>3, <2>3
      <4>4. h = s[1]
        BY <2>2, <3>2 DEF IsWalk
      <4> QED BY <4>1, <4>2, <4>3, <4>4
    <3> QED BY <3>1, <3>2
  <2>4. CASE i # 1
    <3>1. i - 1 \in 1 .. Len(s) /\ t[i] = s[i - 1] /\ (i - 1) + 1 = i /\ (i + 1) - 1 = i
      BY <1>2, <2>1, <2>4
    <3>2. nx2[t[i]] = IF i - 1 = Len(s) THEN null ELSE s[i]
      <4>1. nx[s[i - 1]] = IF i - 1 = Len(s) THEN null ELSE s[i - 1 + 1]
        BY <3>1 DEF IsWalk
      <4> QED BY <1>3, <3>1, <4>1
    <3>3. i - 1 = Len(s) <=> i = Len(t)
      BY <1>1, <1>2, <2>1
    <3>4. i # Len(t) => i + 1 \in 2 .. Len(s) + 1
      BY <1>1, <1>2, <2>1, <3>1
    <3> QED BY <1>2, <3>1, <3>2, <3>3, <3>4
  <2> QED BY <2>3, <2>4
<1>7. ToSet(t) = ToSet(s) \cup {n}
  <2>1. \A x \in ToSet(t) : \E i \in 1 .. Len(t) : x = t[i]
    BY <1>2, Elements
  <2>2. \A i \in 1 .. Len(t) : t[i] \in ToSet(t)
    BY <1>2, Elements
  <2>3. \A m \in 1 .. Len(t) : m = 1 \/ (m \in 2 .. Len(s) + 1 /\ m - 1 \in 1 .. Len(s))
    BY <1>1, <1>2
  <2>4. ASSUME NEW x \in ToSet(t) PROVE x \in ToSet(s) \cup {n}
    <3>1. PICK i \in 1 .. Len(t) : x = t[i]
      BY <2>1
    <3>2. CASE i = 1
      BY <1>2, <3>1, <3>2
    <3>3. CASE i \in 2 .. Len(s) + 1 /\ i - 1 \in 1 .. Len(s)
      <4>1. x = s[i - 1] /\ s[i - 1] \in ToSet(s)
        BY <1>1, <1>2, <3>1, <3>3
      <4> QED BY <4>1
    <3> QED BY <2>3, <3>2, <3>3
  <2>5. n \in ToSet(t)
    <3>1. 1 \in 1 .. Len(t)
      BY <1>1, <1>2
    <3> QED BY <1>2, <2>2, <3>1
  <2>6. ASSUME NEW x \in ToSet(s) PROVE x \in ToSet(t)
    <3>1. PICK i \in 1 .. Len(s) : x = s[i]
      BY <1>1
    <3>2. i + 1 \in 2 .. Len(s) + 1 /\ i + 1 \in 1 .. Len(t) /\ (i + 1) - 1 = i
      BY <1>1, <1>2
    <3> QED BY <1>2, <2>2, <3>1, <3>2
  <2> QED BY <2>4, <2>5, <2>6
<1>8. IsWalk(t, n, nx2, Cells, null)
  BY <1>2, <1>4, <1>5, <1>6 DEF IsWalk
<1> QED BY <1>7, <1>8 DEF t, nx2

\* The pointers after n was unlinked, when the nodes of K are in the lists.
Bypassed(nx, K, n) == [m \in DOMAIN nx |-> IF m \in K /\ nx[m] = n THEN nx[n] ELSE nx[m]]

\* t has what s has, but for n.
LacksOnly(t, s, n) == ToSet(t) = ToSet(s) \ {n}

\* Where the node before the k-th is in a list, or there is none, the walk goes
\* on behind the k-th, and begins there if it was the first.
LEMMA UnlinkedWalk ==
  ASSUME NEW Cells, NEW null, null \notin Cells,
         NEW s, NEW h, NEW nx \in [Cells -> Cells \cup {null}], IsWalk(s, h, nx, Cells, null),
         NEW K, NEW n \in Cells, NEW k \in 1 .. Len(s), s[k] = n,
         k > 1 => s[k - 1] \in K
  PROVE  /\ IsWalk(RemoveAt(s, k), IF k = 1 THEN nx[n] ELSE h, Bypassed(nx, K, n), Cells, null)
         /\ LacksOnly(RemoveAt(s, k), s, n)
<1> DEFINE t == RemoveAt(s, k)
           b == Bypassed(nx, K, n)
<1>1. /\ s \in Seq(Cells) /\ Len(s) \in Nat /\ k \in Int /\ 1 <= k /\ k <= Len(s)
      /\ \A i \in 1 .. Len(s) : s[i] \in Cells /\ s[i] # null /\ s[i] \in ToSet(s)
      /\ \A x \in ToSet(s) : \E i \in 1 .. Len(s) : x = s[i]
  <2>1. s \in Seq(Cells)
    BY DEF IsWalk
  <2>2. /\ Len(s) \in Nat /\ \A i \in 1 .. Len(s) : s[i] \in Cells /\ s[i] \in ToSet(s)
        /\ \A x \in ToSet(s) : \E i \in 1 .. Len(s) : x = s[i]
    BY <2>1, Elements
  <2> QED BY <2>1, <2>2
<1>2. /\ t \in Seq(Cells) /\ Len(t) = Len(s) - 1 /\ Len(t) \in Nat
      /\ \A i \in 1 .. Len(t) : t[i] = IF i < k THEN s[i] ELSE s[i + 1]
  <2>1. /\ t \in Seq(Cells) /\ Len(t) = Len(s) - 1 /\ Len(s) - 1 \in Nat
        /\ \A i \in 1 .. Len(s) - 1 : t[i] = IF i < k THEN s[i] ELSE s[i + 1]
    BY ONLY k \in 1 .. Len(s), <1>1, RemovedAt
  <2> HIDE DEF t
  <2> QED BY ONLY <2>1
<1> HIDE DEF t
<1>3. \A i, j \in 1 .. Len(s) : s[i] = s[j] => i = j
  BY DEF IsWalk
<1>4. \A i \in 1 .. Len(s) : nx[s[i]] = IF i = Len(s) THEN null ELSE s[i + 1]
  BY DEF IsWalk
<1>5. \A i \in 1 .. Len(s) : b[s[i]] = IF s[i] \in K /\ nx[s[i]] = n THEN nx[n] ELSE nx[s[i]]
  BY <1>1 DEF Bypassed
<1> HIDE DEF b
\* The position in s of what is at i now.
<1> DEFINE old(i) == IF i < k THEN i ELSE i + 1
<1>6. \A i \in 1 .. Len(t) : /\ i \in Int /\ old(i) \in 1 .. Len(s) /\ old(i) # k /\ t[i] = s[old(i)]
  BY <1>1, <1>2
<1>7. \A i, j \in 1 .. Len(t) : t[i] = t[j] => i = j
  <2> SUFFICES ASSUME NEW i \in 1 .. Len(t), NEW j \in 1 .. Len(t), t[i] = t[j] PROVE i = j
    OBVIOUS
  <2>1. old(i) = old(j)
    <3> HIDE DEF old
    <3> QED BY <1>3, <1>6
  <2>2. i \in Int /\ j \in Int
    BY <1>6
  <2> QED BY <1>1, <2>1, <2>2
<1>8. ASSUME NEW i \in 1 .. Len(s), nx[s[i]] = n PROVE k > 1 /\ i = k - 1
  <2>1. i # Len(s) /\ s[i + 1] = n
    BY <1>1, <1>4, <1>8
  <2>2. i \in Int /\ i + 1 \in 1 .. Len(s)
    BY <1>1, <2>1
  <2>3. i + 1 = k
    BY <1>3, <2>1, <2>2
  <2> QED BY <1>1, <2>2, <2>3
<1>9. nx[n] = IF k = Len(s) THEN null ELSE s[k + 1]
  BY <1>4
<1>10. ASSUME NEW i \in 1 .. Len(t) PROVE b[t[i]] = IF i = Len(t) THEN null ELSE t[i + 1]
  <2>1. i \in Int /\ i >= 1 /\ i <= Len(s) - 1 /\ Len(t) = Len(s) - 1
    BY <1>1, <1>2
  <2>2. CASE i < k - 1
    <3>1. i \in 1 .. Len(s) /\ i + 1 \in 1 .. Len(t) /\ i + 1 < k /\ i < k /\ i # Len(s) /\ i # Len(t)
          /\ i # k - 1
      BY <1>1, <2>1, <2>2
    <3>2. t[i] = s[i] /\ t[i + 1] = s[i + 1]
      BY <1>2, <3>1
    <3>3. b[s[i]] = s[i + 1]
      BY <1>4, <1>5, <1>8, <3>1
    <3> QED BY <3>1, <3>2, <3>3
  <2>3. CASE i = k - 1
    <3>1. i \in 1 .. Len(s) /\ i < k /\ k > 1 /\ i # Len(s) /\ i + 1 = k
      BY <1>1, <2>1, <2>3
    <3>2. t[i] = s[i] /\ s[i] \in K /\ nx[s[i]] = n
      BY <1>2, <1>4, <2>3, <3>1
    <3>3. b[s[i]] = nx[n]
      BY <1>5, <3>1, <3>2
    <3>4. k = Len(s) <=> i = Len(t)
      BY <1>1, <2>1, <2>3
    <3>5. i # Len(t) => i + 1 \in 1 .. Len(t) /\ ~(i + 1 < k)
      BY <1>1, <2>1, <2>3
    <3>6. i # Len(t) => t[i + 1] = s[k + 1]
      BY <1>2, <3>1, <3>5
    <3> QED BY <1>9, <3>2, <3>3, <3>4, <3>6
  <2>4. CASE i >= k
    <3>1. /\ i + 1 \in 1 .. Len(s) /\ ~(i < k) /\ i + 1 # k - 1 /\ i + 1 \in Int
          /\ (i + 1 = Len(s) <=> i = Len(t))
      BY <1>1, <2>1, <2>4
    <3>2. t[i] = s[i + 1]
      BY <1>2, <3>1
    <3>3. b[s[i + 1]] = IF i + 1 = Len(s) THEN null ELSE s[(i + 1) + 1]
      BY <1>4, <1>5, <1>8, <3>1
    <3>4. i # Len(t) => i + 1 \in 1 .. Len(t) /\ ~(i + 1 < k)
      BY <1>1, <2>1, <2>4
    <3>5. i # Len(t) => t[i + 1] = s[(i + 1) + 1]
      BY <1>2, <3>4
    <3> QED BY <3>1, <3>2, <3>3, <3>5
  <2> QED BY <1>1, <2>1, <2>2, <2>3, <2>4
<1>11. (IF k = 1 THEN nx[n] ELSE h) = IF t = << >> THEN null ELSE t[1]
  <2>1. t = << >> <=> Len(t) = 0
    BY ONLY <1>2, EmptySeq
  <2>2. CASE k = 1
    <3>1. CASE Len(t) = 0
      BY <1>1, <1>2, <1>9, <2>1, <2>2, <3>1
    <3>2. CASE Len(t) # 0
      <4>1. 1 \in 1 .. Len(t) /\ ~(1 < k) /\ k # Len(s) /\ k + 1 = 1 + 1
        BY <1>1, <1>2, <2>2, <3>2
      <4>2. t[1] = s[1 + 1]
        BY <1>2, <4>1
      <4> QED BY <1>9, <2>1, <2>2, <3>2, <4>1, <4>2
    <3> QED BY <3>1, <3>2
  <2>3. CASE k # 1
    <3>1. 1 \in 1 .. Len(t) /\ 1 < k /\ Len(t) # 0 /\ Len(s) # 0
      BY <1>1, <1>2, <2>3
    <3>2. t[1] = s[1]
      BY <1>2, <3>1
    <3>3. s # << >>
      BY <1>1, <3>1
    <3>4. h = s[1]
      BY <3>3 DEF IsWalk
    <3> QED BY <2>1, <2>3, <3>1, <3>2, <3>4
  <2> QED BY <2>2, <2>3
<1>12. IsWalk(t, IF k = 1 THEN nx[n] ELSE h, b, Cells, null)
  BY <1>2, <1>7, <1>10, <1>11 DEF IsWalk
<1>13. ToSet(t) = ToSet(s) \ {n}
  <2>1. \A x \in ToSet(t) : \E i \in 1 .. Len(t) : x = t[i]
    BY <1>2, Elements
  <2>2. \A i \in 1 .. Len(t) : t[i] \in ToSet(t)
    BY <1>2, Elements
  <2>3. ASSUME NEW x \in ToSet(t) PROVE x \in ToSet(s) \ {n}
    <3>1. PICK i \in 1 .. Len(t) : x = t[i]
      BY <2>1
    <3> HIDE DEF old
    <3> QED BY <1>1, <1>3, <1>6, <3>1
  <2>4. ASSUME NEW x \in ToSet(s) \ {n} PROVE x \in ToSet(t)
    <3>1. PICK j \in 1 .. Len(s) : x = s[j]
      BY <1>1
    <3>2. j # k /\ j \in Int
      BY <1>1, <3>1
    <3>3. CASE j < k
      <4>1. j \in 1 .. Len(t) /\ t[j] = s[j]
        BY <1>1, <1>2, <3>2, <3>3
      <4> QED BY <2>2, <3>1, <4>1
    <3>4. CASE ~(j < k)
      <4>1. j - 1 \in 1 .. Len(t) /\ ~(j - 1 < k) /\ (j - 1) + 1 = j
        BY <1>1, <1>2, <3>2, <3>4
      <4>2. t[j - 1] = s[j]
        BY <1>2, <4>1
      <4> QED BY <2>2, <3>1, <4>1, <4>2
    <3> QED BY <3>3, <3>4
  <2> QED BY <2>3, <2>4
<1> QED BY <1>12, <1>13 DEF t, b, LacksOnly

\* A walk that does not come to n from a node of the lists goes on as it was.
LEMMA BypassedWalk ==
  ASSUME NEW Cells, NEW null, null \notin Cells,
         NEW s, NEW h, NEW nx \in [Cells -> Cells \cup {null}], IsWalk(s, h, nx, Cells, null),
         NEW K, NEW n \in Cells,
         \A k \in 1 .. Len(s) : s[k] = n => k = 1 \/ s[k - 1] \notin K
  PROVE  IsWalk(s, h, Bypassed(nx, K, n), Cells, null)
<1> DEFINE b == Bypassed(nx, K, n)
<1>1. /\ Len(s) \in Nat /\ \A i \in 1 .. Len(s) : s[i] \in Cells
  <2>1. s \in Seq(Cells)
    BY DEF IsWalk
  <2> QED BY <2>1, Elements
<1>2. ASSUME NEW i \in 1 .. Len(s) PROVE b[s[i]] = nx[s[i]]
  <2>1. b[s[i]] = IF s[i] \in K /\ nx[s[i]] = n THEN nx[n] ELSE nx[s[i]]
    BY <1>1 DEF Bypassed
  <2> HIDE DEF b
  <2>2. ASSUME s[i] \in K, nx[s[i]] = n PROVE FALSE
    <3>1. nx[s[i]] = IF i = Len(s) THEN null ELSE s[i + 1]
      BY DEF IsWalk
    <3>2. i # Len(s) /\ s[i + 1] = n
      BY <2>2, <3>1
    <3>3. i + 1 \in 1 .. Len(s) /\ (i + 1) - 1 = i /\ i + 1 # 1
      BY <1>1, <3>2
    <3> QED BY <2>2, <3>2, <3>3
  <2> QED BY <2>1, <2>2
<1> HIDE DEF b
<1>3. IsWalk(s, h, b, Cells, null)
  BY <1>2, SameWalk
<1> QED BY <1>3 DEF b

\* So unlinking a node takes at most that node out of what a pointer leads to.
LEMMA WalkKept ==
  ASSUME NEW Cells, NEW null, null \notin Cells,
         NEW s, NEW h, NEW nx \in [Cells -> Cells \cup {null}], IsWalk(s, h, nx, Cells, null),
         NEW K, NEW n \in Cells
  PROVE  \E t : /\ IsWalk(t, h, Bypassed(nx, K, n), Cells, null)
                /\ ToSet(t) \subseteq ToSet(s) /\ ToSet(s) \ {n} \subseteq ToSet(t)
<1>1. CASE \A k \in 1 .. Len(s) : s[k] = n => k = 1 \/ s[k - 1] \notin K
  BY <1>1, BypassedWalk
<1>2. ASSUME NEW k \in 1 .. Len(s), s[k] = n, k # 1, s[k - 1] \in K
      PROVE  \E t : /\ IsWalk(t, h, Bypassed(nx, K, n), Cells, null)
                    /\ ToSet(t) \subseteq ToSet(s) /\ ToSet(s) \ {n} \subseteq ToSet(t)
  <2>1. IsWalk(RemoveAt(s, k), IF k = 1 THEN nx[n] ELSE h, Bypassed(nx, K, n), Cells, null)
    BY <1>2, UnlinkedWalk
  <2>2. LacksOnly(RemoveAt(s, k), s, n)
    BY <1>2, UnlinkedWalk
  <2>3. IsWalk(RemoveAt(s, k), h, Bypassed(nx, K, n), Cells, null)
    BY <1>2, <2>1
  <2>4. /\ ToSet(RemoveAt(s, k)) \subseteq ToSet(s)
        /\ ToSet(s) \ {n} \subseteq ToSet(RemoveAt(s, k))
    BY <2>2 DEF LacksOnly
  <2> QED BY <2>3, <2>4
<1> QED BY <1>1, <1>2

\* Behind the first node the walk goes on without it.
LEMMA RestOfWalk ==
  ASSUME NEW Cells, NEW null, null \notin Cells,
         NEW s, NEW h, NEW nx \in [Cells -> Cells \cup {null}], IsWalk(s, h, nx, Cells, null), h # null
  PROVE  /\ h \in ToSet(s)
         /\ \E t : IsWalk(t, nx[h], nx, Cells, null) /\ ToSet(t) = ToSet(s) \ {h}
<1>1. s \in Seq(Cells) /\ s # << >> /\ h = s[1]
  BY DEF IsWalk
<1>2. Len(s) \in Nat /\ Len(s) # 0 /\ \A i \in 1 .. Len(s) : s[i] \in Cells /\ s[i] \in ToSet(s)
  BY <1>1, Elements, EmptySeq
<1>3. 1 \in 1 .. Len(s) /\ h \in Cells /\ h \in ToSet(s)
  BY <1>1, <1>2
<1>4. /\ IsWalk(RemoveAt(s, 1), IF 1 = 1 THEN nx[h] ELSE h, Bypassed(nx, {}, h), Cells, null)
      /\ LacksOnly(RemoveAt(s, 1), s, h)
  <2>1. 1 > 1 => s[1 - 1] \in {}
    OBVIOUS
  <2> QED BY <1>1, <1>3, <2>1, UnlinkedWalk
<1>5. Bypassed(nx, {}, h) = nx
  BY DEF Bypassed
<1>6. ToSet(RemoveAt(s, 1)) = ToSet(s) \ {h}
  BY <1>4 DEF LacksOnly
<1> QED BY <1>3, <1>4, <1>5, <1>6

\* Nothing is reached from NULL.
LEMMA NoWalk ==
  ASSUME NEW Cells, NEW null, null \notin Cells,
         NEW s, NEW nx, IsWalk(s, null, nx, Cells, null)
  PROVE  s = << >> /\ ToSet(s) = {}
<1>1. s \in Seq(Cells)
  BY DEF IsWalk
<1>2. s = << >>
  <2> SUFFICES ASSUME s # << >> PROVE FALSE
    OBVIOUS
  <2>1. Len(s) \in Nat /\ Len(s) # 0 /\ \A i \in 1 .. Len(s) : s[i] \in Cells
    BY <1>1, Elements, EmptySeq
  <2>2. s[1] \in Cells /\ s[1] = null
    BY <2>1 DEF IsWalk
  <2> QED BY <2>2
<1> QED BY <1>2 DEF ToSet

------------------------------------------------------------

\* Several lists, no two of which share an object, and the objects in them.
Separate(hd, nx, Cells, null) ==
  /\ \A l \in DOMAIN hd : IsWalk(ListFrom(hd[l], nx, Cells, null), hd[l], nx, Cells, null)
  /\ \A k, l \in DOMAIN hd :
       k # l => ToSet(ListFrom(hd[k], nx, Cells, null)) \cap ToSet(ListFrom(hd[l], nx, Cells, null)) = {}
InLists(hd, nx, Cells, null) == UNION {ToSet(ListFrom(hd[l], nx, Cells, null)) : l \in DOMAIN hd}

\* When nothing is linked they are empty.
LEMMA EmptyLists ==
  ASSUME NEW Cells, NEW null, null \notin Cells, IsFiniteSet(Cells), NEW nx, NEW hd,
         \A l \in DOMAIN hd : hd[l] = null
  PROVE  Separate(hd, nx, Cells, null) /\ InLists(hd, nx, Cells, null) = {}
<1>1. IsWalk(<< >>, null, nx, Cells, null) /\ ToSet(<< >>) = {}
  BY DEF IsWalk, ToSet
<1>2. ListFrom(null, nx, Cells, null) = << >>
  BY <1>1, ListFromIs
<1> QED BY <1>1, <1>2 DEF Separate, InLists

\* What linking n in front of list l does, and unlinking it.
Links(l, n, hd, nx, hd2, nx2) ==
  nx2 = Pointed(nx, n, hd[l]) /\ hd2 = Pointed(hd, l, n)
Unlinks(l, n, hd, nx, hd2, nx2, K) ==
  nx2 = Bypassed(nx, K, n) /\ hd2 = Pointed(hd, l, IF hd[l] = n THEN nx[n] ELSE hd[l])

\* List l is new now, and the others are what they were.
Becomes(l, new, hd, nx, hd2, nx2, Cells, null) ==
  /\ Separate(hd2, nx2, Cells, null)
  /\ ListFrom(hd2[l], nx2, Cells, null) = new
  /\ \A k \in DOMAIN hd \ {l} : ListFrom(hd2[k], nx2, Cells, null) = ListFrom(hd[k], nx, Cells, null)

\* Linking an object in front of one changes that one as it would a sequence,
\* and no other.
LEMMA LinkedLists ==
  ASSUME NEW Cells, NEW null, null \notin Cells, IsFiniteSet(Cells), NEW Ls,
         NEW nx \in [Cells -> Cells \cup {null}], NEW hd \in [Ls -> Cells \cup {null}],
         Separate(hd, nx, Cells, null), NEW l \in Ls, NEW n \in Cells,
         n \notin InLists(hd, nx, Cells, null),
         NEW hd2, NEW nx2, Links(l, n, hd, nx, hd2, nx2)
  PROVE  /\ Becomes(l, <<n>> \o ListFrom(hd[l], nx, Cells, null), hd, nx, hd2, nx2, Cells, null)
         /\ ToSet(<<n>> \o ListFrom(hd[l], nx, Cells, null)) = ToSet(ListFrom(hd[l], nx, Cells, null)) \cup {n}
<1> DEFINE old(k) == ListFrom(hd[k], nx, Cells, null)
           new(k) == ListFrom(hd2[k], nx2, Cells, null)
<1>1. /\ DOMAIN hd = Ls /\ DOMAIN hd2 = Ls
      /\ hd2[l] = n /\ \A k \in Ls \ {l} : hd2[k] = hd[k]
      /\ nx2 = Pointed(nx, n, hd[l]) /\ \A m \in Cells : m # n => nx2[m] = nx[m]
  BY DEF Links, Pointed
<1>2. \A k \in Ls : /\ IsWalk(old(k), hd[k], nx, Cells, null) /\ old(k) \in Seq(Cells)
                    /\ n \notin ToSet(old(k))
  BY <1>1 DEF Separate, IsWalk, InLists
<1>3. \A j, k \in Ls : j # k => ToSet(old(j)) \cap ToSet(old(k)) = {}
  BY <1>1 DEF Separate
<1> HIDE DEF old
<1>4. IsWalk(<<n>> \o old(l), n, nx2, Cells, null) /\ ToSet(<<n>> \o old(l)) = ToSet(old(l)) \cup {n}
  <2>1. IsWalk(old(l), hd[l], nx, Cells, null) /\ n \notin ToSet(old(l))
    BY <1>2
  <2> QED BY ONLY <2>1, null \notin Cells, nx \in [Cells -> Cells \cup {null}], n \in Cells,
                  <1>1, LinkedWalk
<1>5. new(l) = <<n>> \o old(l)
  <2>1. ListFrom(n, nx2, Cells, null) = <<n>> \o old(l)
    BY ONLY <1>4, null \notin Cells, IsFiniteSet(Cells), ListFromIs
  <2> QED BY ONLY <1>1, <2>1
<1>6. ASSUME NEW k \in Ls \ {l} PROVE new(k) = old(k) /\ IsWalk(old(k), hd2[k], nx2, Cells, null)
  <2>1. \A i \in 1 .. Len(old(k)) : nx2[old(k)[i]] = nx[old(k)[i]]
    <3>1. \A i \in 1 .. Len(old(k)) : old(k)[i] \in Cells /\ old(k)[i] # n
      BY <1>2, Elements
    <3> QED BY <1>1, <3>1
  <2>2. IsWalk(old(k), hd[k], nx2, Cells, null)
    BY <1>2, <2>1, SameWalk
  <2> QED BY <1>1, <2>2, ListFromIs
<1> HIDE DEF new
<1>7. ToSet(new(l)) = ToSet(old(l)) \cup {n}
  BY <1>4, <1>5
<1>8. ASSUME NEW k \in Ls PROVE IsWalk(new(k), hd2[k], nx2, Cells, null)
  <2>1. CASE k = l
    BY ONLY <2>1, <1>1, <1>4, <1>5
  <2>2. CASE k \in Ls \ {l}
    BY ONLY <2>2, <1>6
  <2> QED BY <2>1, <2>2
<1>9. ASSUME NEW j \in Ls, NEW k \in Ls, j # k PROVE ToSet(new(j)) \cap ToSet(new(k)) = {}
  <2>1. CASE j = l
    BY <1>2, <1>3, <1>6, <1>7, <1>9, <2>1
  <2>2. CASE k = l
    BY <1>2, <1>3, <1>6, <1>7, <1>9, <2>2
  <2>3. CASE j # l /\ k # l
    BY <1>3, <1>6, <1>9, <2>3
  <2> QED BY <2>1, <2>2, <2>3
<1>10. Separate(hd2, nx2, Cells, null)
  <2>1. \A k \in DOMAIN hd2 : IsWalk(new(k), hd2[k], nx2, Cells, null)
    BY ONLY <1>1, <1>8
  <2>2. \A j, k \in DOMAIN hd2 : j # k => ToSet(new(j)) \cap ToSet(new(k)) = {}
    BY ONLY <1>1, <1>9
  <2> QED BY ONLY <2>1, <2>2 DEF Separate, new
<1>11. ToSet(<<n>> \o old(l)) = ToSet(old(l)) \cup {n} /\ \A k \in DOMAIN hd \ {l} : new(k) = old(k)
  BY ONLY <1>1, <1>5, <1>6, <1>7
<1> QED BY ONLY <1>5, <1>10, <1>11 DEF Becomes, old, new

\* So does unlinking one.
LEMMA UnlinkedLists ==
  ASSUME NEW Cells, NEW null, null \notin Cells, IsFiniteSet(Cells), NEW Ls,
         NEW nx \in [Cells -> Cells \cup {null}], NEW hd \in [Ls -> Cells \cup {null}],
         Separate(hd, nx, Cells, null), NEW l \in Ls, NEW n \in Cells,
         n \in ToSet(ListFrom(hd[l], nx, Cells, null)),
         NEW hd2, NEW nx2, Unlinks(l, n, hd, nx, hd2, nx2, InLists(hd, nx, Cells, null))
  PROVE  \E k \in 1 .. Len(ListFrom(hd[l], nx, Cells, null)) :
           LET t == RemoveAt(ListFrom(hd[l], nx, Cells, null), k)
           IN  /\ ListFrom(hd[l], nx, Cells, null)[k] = n
               /\ Becomes(l, t, hd, nx, hd2, nx2, Cells, null)
               /\ LacksOnly(t, ListFrom(hd[l], nx, Cells, null), n)
<1> DEFINE old(k) == ListFrom(hd[k], nx, Cells, null)
           new(k) == ListFrom(hd2[k], nx2, Cells, null)
           K == InLists(hd, nx, Cells, null)
<1>1. /\ DOMAIN hd = Ls /\ DOMAIN hd2 = Ls
      /\ hd2[l] = (IF hd[l] = n THEN nx[n] ELSE hd[l]) /\ \A k \in Ls \ {l} : hd2[k] = hd[k]
  BY DEF Unlinks, Pointed
<1>2. \A k \in Ls : /\ IsWalk(old(k), hd[k], nx, Cells, null) /\ old(k) \in Seq(Cells)
                    /\ ToSet(old(k)) \subseteq K
  BY <1>1 DEF Separate, IsWalk, InLists
<1>3. \A j, k \in Ls : j # k => ToSet(old(j)) \cap ToSet(old(k)) = {}
  BY <1>1 DEF Separate
<1>4. n \in ToSet(old(l)) /\ nx2 = Bypassed(nx, K, n)
  BY DEF Unlinks
<1> HIDE DEF old, K
<1>5. PICK at \in 1 .. Len(old(l)) : old(l)[at] = n
  BY <1>2, <1>4, Elements
<1>6. Len(old(l)) \in Nat /\ \A i \in 1 .. Len(old(l)) : old(l)[i] \in K
  BY <1>2, Elements
<1>7. /\ IsWalk(RemoveAt(old(l), at), IF at = 1 THEN nx[n] ELSE hd[l], nx2, Cells, null)
      /\ LacksOnly(RemoveAt(old(l), at), old(l), n)
  <2>1. at > 1 => old(l)[at - 1] \in K
    <3>1. at > 1 => at - 1 \in 1 .. Len(old(l))
      BY <1>6
    <3> QED BY <1>6, <3>1
  <2> QED BY <1>2, <1>4, <1>5, <2>1, UnlinkedWalk
<1>8. hd2[l] = IF at = 1 THEN nx[n] ELSE hd[l]
  <2>1. hd[l] = old(l)[1] /\ 1 \in 1 .. Len(old(l))
    <3>1. Len(old(l)) # 0
      BY <1>5, <1>6
    <3>2. old(l) # << >>
      BY <1>2, <3>1, EmptySeq
    <3> QED BY <1>2, <1>6, <3>1, <3>2 DEF IsWalk
  <2>2. hd[l] = n <=> at = 1
    BY <1>2, <1>5, <2>1 DEF IsWalk
  <2> QED BY <1>1, <2>2
<1>9. new(l) = RemoveAt(old(l), at)
  BY <1>7, <1>8, ListFromIs
<1>10. ASSUME NEW k \in Ls \ {l} PROVE new(k) = old(k) /\ IsWalk(old(k), hd2[k], nx2, Cells, null)
  <2>1. n \notin ToSet(old(k))
    BY <1>3, <1>4
  <2>2. \A i \in 1 .. Len(old(k)) : old(k)[i] # n
    BY <1>2, <2>1, Elements
  <2>3. IsWalk(old(k), hd[k], nx2, Cells, null)
    BY <1>2, <1>4, <2>2, BypassedWalk
  <2> QED BY <1>1, <2>3, ListFromIs
<1> HIDE DEF new
<1>11. ToSet(new(l)) = ToSet(old(l)) \ {n}
  BY <1>7, <1>9 DEF LacksOnly
<1>12. \A k \in Ls : IsWalk(new(k), hd2[k], nx2, Cells, null)
  BY <1>1, <1>7, <1>8, <1>9, <1>10
<1>13. \A k \in Ls : ToSet(new(k)) \subseteq ToSet(old(k))
  BY <1>10, <1>11
<1>14. \A j, k \in Ls : j # k => ToSet(new(j)) \cap ToSet(new(k)) = {}
  BY <1>3, <1>13
<1>15. Separate(hd2, nx2, Cells, null)
  <2>1. \A k \in DOMAIN hd2 : IsWalk(new(k), hd2[k], nx2, Cells, null)
    BY ONLY <1>1, <1>12
  <2>2. \A j, k \in DOMAIN hd2 : j # k => ToSet(new(j)) \cap ToSet(new(k)) = {}
    BY ONLY <1>1, <1>14
  <2> QED BY ONLY <2>1, <2>2 DEF Separate, new
<1>16. \A k \in DOMAIN hd \ {l} : new(k) = old(k)
  BY ONLY <1>1, <1>10
<1>17. Becomes(l, RemoveAt(old(l), at), hd, nx, hd2, nx2, Cells, null)
  BY ONLY <1>9, <1>15, <1>16 DEF Becomes, old, new
<1> QED BY ONLY <1>5, <1>7, <1>17 DEF old

-----------------------------------------------------------------------------
(***************************************************************************)
(* Beginnings of sequences.                                                *)
(***************************************************************************)

\* Beginning with, element by element.
LEMMA PrefixIs ==
  ASSUME NEW S, NEW s \in Seq(S), NEW t \in Seq(S)
  PROVE  /\ Len(s) \in Nat /\ Len(t) \in Nat
         /\ IsPrefix(s, t) <=> Len(s) <= Len(t) /\ \A i \in 1 .. Len(s) : s[i] = t[i]
<1>1. Len(s) \in Nat /\ Len(t) \in Nat
  OBVIOUS
<1>2. SubSeq(s, 1, Len(s)) = [i \in 1 .. Len(s) |-> s[i]] /\ SubSeq(s, 1, Len(s)) = s
  OBVIOUS
<1>3. ASSUME Len(s) <= Len(t)
      PROVE  SubSeq(s, 1, Len(s)) = SubSeq(t, 1, Len(s)) <=> \A i \in 1 .. Len(s) : s[i] = t[i]
  <2>1. /\ SubSeq(t, 1, Len(s)) \in Seq(S) /\ Len(SubSeq(t, 1, Len(s))) = Len(s)
        /\ \A i \in 1 .. Len(s) : SubSeq(t, 1, Len(s))[i] = t[i]
    BY <1>1, <1>3, FirstOfSeq
  <2> DEFINE u == SubSeq(t, 1, Len(s))
  <2>2. u \in Seq(S) /\ Len(u) = Len(s) /\ \A i \in 1 .. Len(s) : u[i] = t[i]
    BY <2>1
  <2> HIDE DEF u
  <2>3. s = u <=> \A i \in 1 .. Len(s) : s[i] = t[i]
    BY ONLY s \in Seq(S), <2>2, SeqEqual
  <2> QED BY <1>2, <2>3 DEF u
<1> QED BY <1>1, <1>3 DEF IsPrefix

\* A beginning that is as long is the same.
LEMMA SamePrefix ==
  ASSUME NEW S, NEW s \in Seq(S), NEW t \in Seq(S), IsPrefix(s, t), Len(t) <= Len(s)
  PROVE  s = t
<1>1. Len(s) = Len(t) /\ \A i \in 1 .. Len(s) : s[i] = t[i]
  BY PrefixIs
<1> QED BY ONLY <1>1, s \in Seq(S), t \in Seq(S), SeqEqual

\* The beginning of a beginning.
LEMMA PrefixOfPrefix ==
  ASSUME NEW S, NEW s \in Seq(S), NEW t \in Seq(S), NEW u \in Seq(S), IsPrefix(s, t), IsPrefix(t, u)
  PROVE  IsPrefix(s, u)
<1>1. /\ Len(s) \in Nat /\ Len(t) \in Nat /\ Len(u) \in Nat /\ Len(s) <= Len(t) /\ Len(t) <= Len(u)
      /\ \A i \in 1 .. Len(s) : s[i] = t[i]
      /\ \A i \in 1 .. Len(t) : t[i] = u[i]
  BY PrefixIs
<1>2. \A i \in 1 .. Len(s) : s[i] = u[i]
  BY <1>1
<1> QED BY <1>1, <1>2, PrefixIs

\* A sequence without its last element.
LEMMA FrontIs ==
  ASSUME NEW S, NEW s \in Seq(S), s # << >>
  PROVE  /\ Front(s) \in Seq(S) /\ Len(Front(s)) = Len(s) - 1 /\ Len(s) \in Nat /\ Len(s) > 0
         /\ \A i \in 1 .. Len(s) - 1 : Front(s)[i] = s[i]
         /\ IsPrefix(Front(s), s)
<1>1. Len(s) \in Nat /\ Len(s) > 0
  BY EmptySeq
<1>2. Len(s) - 1 \in Nat /\ Len(s) - 1 <= Len(s)
  BY <1>1
<1>3. /\ Front(s) \in Seq(S) /\ Len(Front(s)) = Len(s) - 1
      /\ \A i \in 1 .. Len(s) - 1 : Front(s)[i] = s[i]
  BY <1>2, FirstOfSeq DEF Front
<1>4. IsPrefix(Front(s), s)
  BY <1>2, <1>3, PrefixIs
<1> QED BY <1>1, <1>3, <1>4

\* What begins with a word is the word and the rest.
LEMMA PrefixRest ==
  ASSUME NEW S, NEW s \in Seq(S), NEW t \in Seq(S), IsPrefix(s, t)
  PROVE  /\ SubSeq(t, Len(s) + 1, Len(t)) \in Seq(S)
         /\ s \o SubSeq(t, Len(s) + 1, Len(t)) = t
<1> DEFINE n == Len(s)
           m == Len(t)
           r == SubSeq(t, n + 1, m)
<1>1. n \in Nat /\ m \in Nat /\ n <= m /\ \A i \in 1 .. n : s[i] = t[i]
  BY PrefixIs
<1>2. \A i \in n + 1 .. m : t[i] \in S
  BY <1>1, ElementOfSeq
<1>3. n + 1 \in Int /\ m \in Int
  BY <1>1
<1>4. /\ r \in Seq(S) /\ Len(r) = IF n + 1 <= m THEN m - (n + 1) + 1 ELSE 0
      /\ \A i \in 1 .. m - (n + 1) + 1 : r[i] = t[n + 1 + i - 1]
  BY ONLY <1>2, <1>3, SubSeqProperties
<1> HIDE DEF n, m, r
<1>5. Len(s) = n /\ Len(t) = m
  BY DEF n, m
<1>6. Len(r) = m - n
  BY <1>1, <1>4
<1>7. \A i \in 1 .. m - n : r[i] = t[n + i]
  <2> TAKE i \in 1 .. m - n
  <2>1. i \in 1 .. m - (n + 1) + 1 /\ n + 1 + i - 1 = n + i
    BY <1>1
  <2> QED BY <1>4, <2>1
<1>8. /\ s \o r \in Seq(S) /\ Len(s \o r) = Len(s) + Len(r)
      /\ \A i \in 1 .. Len(s) : (s \o r)[i] = s[i]
      /\ \A i \in 1 .. Len(r) : (s \o r)[Len(s) + i] = r[i]
  <2>1. s \in Seq(S) /\ r \in Seq(S)
    BY <1>4
  <2> QED BY ONLY <2>1, Joined
<1> DEFINE u == s \o r
<1>9. /\ u \in Seq(S) /\ Len(u) = m
      /\ \A i \in 1 .. n : u[i] = s[i]
      /\ \A i \in 1 .. m - n : u[n + i] = r[i]
  BY <1>1, <1>5, <1>6, <1>8
<1> HIDE DEF u
<1>10. ASSUME NEW i \in 1 .. m PROVE u[i] = t[i]
  <2>1. CASE i <= n
    BY <1>1, <1>9, <2>1
  <2>2. CASE i > n
    <3>1. i - n \in 1 .. m - n /\ n + (i - n) = i
      BY <1>1, <2>2
    <3> QED BY <1>7, <1>9, <3>1
  <2> QED BY <1>1, <2>1, <2>2
<1>11. Len(u) = Len(t) /\ \A i \in 1 .. Len(u) : u[i] = t[i]
  BY <1>5, <1>9, <1>10
<1>12. u = t
  BY ONLY <1>9, <1>11, t \in Seq(S), SeqEqual
<1> QED BY <1>4, <1>12 DEF u, r, n, m

\* s begins every sequence of T.
BeginsAll(s, T) == \A t \in T : IsPrefix(s, t)

\* What all have in common is the longest of these.
LEMMA CommonIs ==
  ASSUME NEW S, NEW T, T \subseteq Seq(S), NEW c \in T, NEW w \in Seq(S), BeginsAll(w, T),
         \A v \in Seq(S) : BeginsAll(v, T) => Len(v) <= Len(w)
  PROVE  LongestCommonPrefix(T) = w
<1>1. c \in Seq(S)
  OBVIOUS
<1>2. ASSUME NEW v \in CommonPrefixes(T) PROVE v \in Seq(S) /\ BeginsAll(v, T)
  <2>1. PICK t \in T : v \in Prefixes(t)
    BY DEF CommonPrefixes
  <2>2. t \in Seq(S)
    OBVIOUS
  <2>3. PICK k \in 0 .. Len(t) : v = SubSeq(t, 1, k)
    BY <2>1 DEF Prefixes
  <2>4. k \in Nat /\ k <= Len(t)
    BY <2>2
  <2>5. v \in Seq(S)
    BY ONLY <2>2, <2>3, <2>4, FirstOfSeq
  <2> QED BY <2>5 DEF CommonPrefixes, BeginsAll
<1>3. w \in CommonPrefixes(T)
  <2>1. IsPrefix(w, c) /\ Len(w) \in Nat /\ Len(c) \in Nat /\ Len(w) <= Len(c)
    BY <1>1, PrefixIs DEF BeginsAll
  <2>2. w = SubSeq(c, 1, Len(w))
    <3>1. SubSeq(w, 1, Len(w)) = w
      OBVIOUS
    <3> QED BY <2>1, <3>1 DEF IsPrefix
  <2>3. w \in Prefixes(c)
    <3>1. \E l \in 0 .. Len(c) : w = SubSeq(c, 1, l)
      <4>1. Len(w) \in 0 .. Len(c)
        BY <2>1
      <4> QED BY <2>2, <4>1
    <3> QED BY <3>1 DEF Prefixes
  <2>4. w \in UNION {Prefixes(seq) : seq \in T}
    BY <2>3
  <2>5. \A t \in T : IsPrefix(w, t)
    BY DEF BeginsAll
  <2> QED BY <2>4, <2>5 DEF CommonPrefixes
<1>4. \A v \in CommonPrefixes(T) : Len(v) <= Len(w)
  BY <1>2
<1>5. ASSUME NEW v \in CommonPrefixes(T), \A u \in CommonPrefixes(T) : Len(u) <= Len(v)
      PROVE  v = w
  <2>1. v \in Seq(S) /\ IsPrefix(v, c) /\ IsPrefix(w, c) /\ Len(w) <= Len(v) /\ Len(v) <= Len(w)
    BY <1>2, <1>3, <1>4, <1>5 DEF BeginsAll
  <2>2. /\ Len(v) = Len(w) /\ \A i \in 1 .. Len(v) : v[i] = c[i]
        /\ \A i \in 1 .. Len(w) : w[i] = c[i]
    BY <1>1, <2>1, PrefixIs
  <2>3. Len(v) = Len(w) /\ \A i \in 1 .. Len(v) : v[i] = w[i]
    BY <2>2
  <2> QED BY ONLY <2>1, <2>3, w \in Seq(S), SeqEqual
<1> QED BY <1>3, <1>4, <1>5 DEF LongestCommonPrefix

\* It is one of the sequences, if this one begins them all.
LEMMA CommonIsOne ==
  ASSUME NEW S, NEW T, T \subseteq Seq(S), NEW w \in T, BeginsAll(w, T)
  PROVE  LongestCommonPrefix(T) = w
<1>1. \A v \in Seq(S) : BeginsAll(v, T) => Len(v) <= Len(w)
  BY DEF BeginsAll, IsPrefix
<1> QED BY <1>1, CommonIs

\* It is the longest beginning that was found before one got lost.
LEMMA CommonIsFront ==
  ASSUME NEW S, NEW T, T \subseteq Seq(S), NEW c \in T, NEW t \in T, NEW x \in Seq(S), x # << >>,
         IsPrefix(x, c), ~IsPrefix(x, t), BeginsAll(Front(x), T)
  PROVE  LongestCommonPrefix(T) = Front(x)
<1>1. /\ Front(x) \in Seq(S) /\ Len(Front(x)) = Len(x) - 1 /\ Len(x) \in Nat
      /\ c \in Seq(S) /\ t \in Seq(S)
  BY FrontIs
<1>2. ASSUME NEW v \in Seq(S), BeginsAll(v, T), Len(v) > Len(Front(x)) PROVE FALSE
  <2>1. /\ IsPrefix(v, c) /\ IsPrefix(v, t)
        /\ Len(v) <= Len(c) /\ Len(v) <= Len(t) /\ Len(v) \in Nat /\ Len(t) \in Nat
        /\ \A i \in 1 .. Len(v) : v[i] = c[i] /\ v[i] = t[i]
    BY <1>1, <1>2, PrefixIs DEF BeginsAll
  <2>2. \A i \in 1 .. Len(x) : x[i] = c[i]
    BY <1>1, PrefixIs
  <2>3. Len(x) <= Len(v)
    BY <1>1, <1>2, <2>1
  <2>4. Len(x) <= Len(t) /\ \A i \in 1 .. Len(x) : x[i] = t[i]
    BY <1>1, <2>1, <2>2, <2>3
  <2> QED BY <1>1, <2>4, PrefixIs
<1>3. \A v \in Seq(S) : Len(v) \in Nat
  OBVIOUS
<1>4. \A v \in Seq(S) : BeginsAll(v, T) => Len(v) <= Len(Front(x))
  BY <1>1, <1>2, <1>3
<1> QED BY <1>1, <1>4, CommonIs

(***************************************************************************)
(* Sequences that grow at the end.                                         *)
(***************************************************************************)

\* A set that holds the empty sequence, and with a sequence every one that has
\* one element more, holds them all.
LEMMA AppendInduction ==
  ASSUME NEW S, NEW G, << >> \in G,
         \A s \in Seq(S) : s \in G => \A x \in S : Append(s, x) \in G
  PROVE  \A s \in Seq(S) : s \in G
<1> DEFINE T == {n \in Nat : \A s \in Seq(S) : Len(s) = n => s \in G}
<1>1. 0 \in T
  <2>1. \A s \in Seq(S) : Len(s) = 0 => s = << >>
    BY EmptySeq
  <2> QED BY <2>1
<1>2. ASSUME NEW n \in Nat, n \in T PROVE n + 1 \in T
  <2> SUFFICES ASSUME NEW s \in Seq(S), Len(s) = n + 1 PROVE s \in G
    OBVIOUS
  <2>1. Len(<< >>) = 0 /\ n + 1 # 0
    OBVIOUS
  <2>2. s # << >>
    BY <2>1
  <2>3. PICK t \in Seq(S), x \in S : s = Append(t, x)
    BY <2>2, SequenceEmptyOrAppend
  <2>4. Len(s) = Len(t) + 1 /\ Len(t) \in Nat
    BY ONLY <2>3, t \in Seq(S), x \in S, AppendProperties, LenProperties
  <2>5. Len(t) = n
    BY ONLY <2>4, Len(s) = n + 1, n \in Nat
  <2>6. t \in G
    BY <1>2, <2>5
  <2> QED BY <2>3, <2>6
<1>3. \A n \in Nat : n \in T
  <2> HIDE DEF T
  <2> QED BY <1>1, <1>2, SetInduction
<1>4. \A s \in Seq(S) : Len(s) \in Nat
  BY LenProperties
<1> QED BY <1>3, <1>4

\* What is in a sequence with one element more, and what it begins with.
LEMMA AppendFacts ==
  ASSUME NEW S, NEW s \in Seq(S), NEW x \in S
  PROVE  /\ Append(s, x) \in Seq(S) /\ Append(s, x) # << >>
         /\ Len(s) \in Nat /\ Len(Append(s, x)) = Len(s) + 1
         /\ \A i \in 1 .. Len(s) : s[i] \in S /\ Append(s, x)[i] = s[i]
         /\ Append(s, x)[Len(s) + 1] = x
         /\ Front(Append(s, x)) = s /\ Last(Append(s, x)) = x
         /\ Append(s, x)[1] = IF s = << >> THEN x ELSE s[1]
<1> DEFINE a == Append(s, x)
<1>1. /\ a \in Seq(S) /\ a # << >> /\ Len(a) = Len(s) + 1 /\ Len(s) \in Nat
      /\ \A i \in 1 .. Len(s) : a[i] = s[i] /\ s[i] \in S
      /\ a[Len(s) + 1] = x
  BY AppendProperties, LenProperties, ElementOfSeq
<1> HIDE DEF a
<1>2. Last(a) = x
  BY <1>1 DEF Last
<1>3. Front(a) = s
  <2>1. Front(a) \in Seq(S) /\ Len(Front(a)) = Len(s) /\ \A i \in 1 .. Len(s) : Front(a)[i] = a[i]
    <3>1. /\ Front(a) \in Seq(S) /\ Len(Front(a)) = Len(a) - 1
          /\ \A i \in 1 .. Len(a) - 1 : Front(a)[i] = a[i]
      BY <1>1, FrontIs
    <3>2. Len(a) - 1 = Len(s)
      BY <1>1
    <3> QED BY <3>1, <3>2
  <2>2. \A i \in 1 .. Len(Front(a)) : Front(a)[i] = s[i]
    BY <1>1, <2>1
  <2> QED BY ONLY <2>1, <2>2, SeqEqual, s \in Seq(S)
<1>4. a[1] = IF s = << >> THEN x ELSE s[1]
  <2>1. CASE s = << >>
    <3>1. Len(s) + 1 = 1
      BY <2>1
    <3> QED BY <2>1, <3>1, <1>1
  <2>2. CASE s # << >>
    <3>1. Len(s) \in Nat \ {0}
      BY ONLY <2>2, EmptySeq, s \in Seq(S)
    <3> QED BY <2>2, <3>1, <1>1
  <2> QED BY <2>1, <2>2
<1> QED BY <1>1, <1>2, <1>3, <1>4 DEF a

\* A sequence that has an element is one to which its last was appended.
LEMMA FrontLast ==
  ASSUME NEW S, NEW s \in Seq(S), s # << >>
  PROVE  /\ Front(s) \in Seq(S) /\ Last(s) \in S /\ s = Append(Front(s), Last(s))
         /\ Len(s) \in Nat /\ Len(s) >= 1 /\ Last(s) = s[Len(s)]
<1>1. PICK t \in Seq(S), x \in S : s = Append(t, x)
  BY SequenceEmptyOrAppend
<1>2. Front(s) = t /\ Last(s) = x
  BY <1>1, AppendFacts
<1>3. Len(s) \in Nat \ {0}
  BY EmptySeq
<1> QED BY <1>1, <1>2, <1>3 DEF Last

\* A part of s is the same part of what was made by appending to it.
LEMMA SubSeqOfAppend ==
  ASSUME NEW S, NEW s \in Seq(S), NEW x \in S, NEW i \in Nat, NEW j \in Nat, 1 <= i, j <= Len(s)
  PROVE  SubSeq(Append(s, x), i, j) = SubSeq(s, i, j)
<1> DEFINE a == Append(s, x)
<1>1. Len(s) \in Nat /\ \A k \in 1 .. Len(s) : s[k] \in S /\ a[k] = s[k]
  BY AppendFacts
<1> HIDE DEF a
<1>2. \A k \in i .. j : s[k] \in S /\ a[k] = s[k]
  BY <1>1
<1>3. \A k \in i .. j : a[k] \in S
  BY <1>2
<1>4. /\ SubSeq(a, i, j) \in Seq(S) /\ Len(SubSeq(a, i, j)) = (IF i <= j THEN j - i + 1 ELSE 0)
      /\ \A k \in 1 .. j - i + 1 : SubSeq(a, i, j)[k] = a[i + k - 1]
  BY ONLY <1>3, i \in Nat, j \in Nat, SubSeqProperties
<1>5. /\ SubSeq(s, i, j) \in Seq(S) /\ Len(SubSeq(s, i, j)) = (IF i <= j THEN j - i + 1 ELSE 0)
      /\ \A k \in 1 .. j - i + 1 : SubSeq(s, i, j)[k] = s[i + k - 1]
  BY ONLY <1>2, i \in Nat, j \in Nat, SubSeqProperties
<1>6. ASSUME NEW k \in 1 .. Len(SubSeq(a, i, j)) PROVE SubSeq(a, i, j)[k] = SubSeq(s, i, j)[k]
  <2>1. k \in 1 .. j - i + 1 /\ i + k - 1 \in i .. j
    BY <1>4
  <2> QED BY <1>2, <1>4, <1>5, <2>1
<1>7. SubSeq(a, i, j) = SubSeq(s, i, j)
  BY ONLY <1>4, <1>5, <1>6, SeqEqual
<1> QED BY <1>7 DEF a

\* A part that ends at the end grows with it.
LEMMA SubSeqGrows ==
  ASSUME NEW S, NEW s \in Seq(S), NEW x \in S, NEW i \in 1 .. Len(s) + 1
  PROVE  SubSeq(Append(s, x), i, Len(s) + 1) = Append(SubSeq(s, i, Len(s)), x)
<1> DEFINE a == Append(s, x)
           b == SubSeq(s, i, Len(s))
           c == SubSeq(a, i, Len(s) + 1)
           n == Len(s)
<1>1. n \in Nat /\ \A k \in 1 .. n : s[k] \in S /\ a[k] = s[k]
  BY AppendFacts
<1>2. a[n + 1] = x
  BY AppendFacts
<1> HIDE DEF a
<1>3. i \in Int /\ 1 <= i /\ i <= n + 1
  BY <1>1
<1>4. \A k \in i .. n : s[k] \in S /\ a[k] = s[k]
  BY <1>1, <1>3
<1>5. \A k \in i .. n + 1 : a[k] \in S
  BY <1>1, <1>2, <1>3
<1>6. /\ b \in Seq(S) /\ Len(b) = (IF i <= n THEN n - i + 1 ELSE 0)
      /\ \A k \in 1 .. n - i + 1 : b[k] = s[i + k - 1]
  BY ONLY <1>1, <1>3, <1>4, SubSeqProperties
<1>7. /\ c \in Seq(S) /\ Len(c) = (IF i <= n + 1 THEN (n + 1) - i + 1 ELSE 0)
      /\ \A k \in 1 .. (n + 1) - i + 1 : c[k] = a[i + k - 1]
  BY ONLY <1>1, <1>3, <1>5, SubSeqProperties
<1> HIDE DEF b, c, n
<1>8. Len(b) = n - i + 1 /\ Len(c) = Len(b) + 1 /\ Len(b) \in Nat
  BY <1>1, <1>3, <1>6, <1>7
<1>9. /\ Append(b, x) \in Seq(S) /\ Len(Append(b, x)) = Len(b) + 1
      /\ \A k \in 1 .. Len(b) : Append(b, x)[k] = b[k]
      /\ Append(b, x)[Len(b) + 1] = x
  BY ONLY <1>6, AppendProperties, x \in S
<1>10. ASSUME NEW k \in 1 .. Len(c) PROVE c[k] = Append(b, x)[k]
  <2>1. c[k] = a[i + k - 1]
    BY <1>1, <1>3, <1>7, <1>8
  <2>2. CASE k = Len(b) + 1
    <3>1. i + k - 1 = n + 1
      BY <1>1, <1>3, <1>8, <2>2
    <3> QED BY <1>2, <1>9, <2>1, <2>2, <3>1
  <2>3. CASE k \in 1 .. Len(b)
    <3>1. i + k - 1 \in i .. n /\ k \in 1 .. n - i + 1
      BY <1>1, <1>3, <1>8, <2>3
    <3> QED BY <1>4, <1>6, <1>9, <2>1, <2>3, <3>1
  <2> QED BY <2>2, <2>3, <1>8
<1>11. c = Append(b, x)
  BY ONLY <1>7, <1>8, <1>9, <1>10, SeqEqual
<1> QED BY <1>11 DEF a, b, c, n


\* Joining in either order, as a predicate to be instantiated.
Joins(x, y, z) == (x \o y) \o z = x \o (y \o z)

\* It does not matter which are joined first.
LEMMA JoinsAlways ==
  ASSUME NEW S, NEW x \in Seq(S), NEW y \in Seq(S), NEW z \in Seq(S)
  PROVE  Joins(x, y, z) /\ x \o y \in Seq(S)
<1>1. (x \o y) \o z = x \o (y \o z)
  BY ConcatAssociative
<1>2. x \o y \in Seq(S)
  BY ConcatProperties
<1> QED BY <1>1, <1>2 DEF Joins

JoinsLast(f, r, l, w) == (f \o (r \o l)) \o w = f \o (r \o (l \o w))

\* Nor with four of them.
LEMMA JoinedFour ==
  ASSUME NEW S, NEW f \in Seq(S), NEW r \in Seq(S), NEW l \in Seq(S), NEW w \in Seq(S)
  PROVE  JoinsLast(f, r, l, w)
<1>1. r \o l \in Seq(S) /\ Joins(r, l, w)
  BY ONLY r \in Seq(S), l \in Seq(S), w \in Seq(S), JoinsAlways
<1>2. Joins(f, r \o l, w)
  BY ONLY <1>1, f \in Seq(S), w \in Seq(S), JoinsAlways
<1> QED BY <1>1, <1>2 DEF Joins, JoinsLast

JoinsAppend(S, b, t, x) == b \o Append(t, x) = Append(b \o t, x) /\ b \o t \in Seq(S)

\* One element more behind two that are joined.
LEMMA AppendJoined ==
  ASSUME NEW S, NEW b \in Seq(S), NEW t \in Seq(S), NEW x \in S
  PROVE  JoinsAppend(S, b, t, x)
<1>1. <<x>> \in Seq(S)
  OBVIOUS
<1>2. Joins(b, t, <<x>>) /\ b \o t \in Seq(S)
  BY ONLY <1>1, b \in Seq(S), t \in Seq(S), JoinsAlways
<1>3. Append(t, x) = t \o <<x>>
  BY ONLY t \in Seq(S), x \in S, AppendIsConcat
<1>4. Append(b \o t, x) = (b \o t) \o <<x>>
  BY ONLY <1>2, x \in S, AppendIsConcat
<1> QED BY <1>2, <1>3, <1>4 DEF Joins, JoinsAppend

-----------------------------------------------------------------------------
(***************************************************************************)
(* Names read one by one, of which "up" takes the one before away and      *)
(* "same" does nothing: what is left, counted.                             *)
(***************************************************************************)

\* What is kept when one more name is read.
Kept(so, name, up, same) ==
  CASE name = up   -> IF so = << >> THEN << >> ELSE Front(so)
    [] name = same -> so
    [] OTHER       -> Append(so, name)

\* done[i] is what the first i names of p leave.
ReadsNames(done, p, V, up, same) ==
  /\ done \in [0 .. Len(p) -> V]
  /\ done[0] = << >>
  /\ \A i \in 1 .. Len(p) : done[i] = Kept(done[i - 1], p[i], up, same)

\* Names are kept.
LEMMA KeptType ==
  ASSUME NEW S, NEW so \in Seq(S), NEW name \in S, NEW up, NEW same
  PROVE  Kept(so, name, up, same) \in Seq(S)
<1>1. so # << >> => Front(so) \in Seq(S)
  BY FrontIs
<1>2. Append(so, name) \in Seq(S) /\ << >> \in Seq(S)
  OBVIOUS
<1>3. CASE name = up
  BY <1>1, <1>2, <1>3 DEF Kept
<1>4. CASE name # up /\ name = same
  BY <1>4 DEF Kept
<1>5. CASE name # up /\ name # same
  BY <1>2, <1>5 DEF Kept
<1> QED BY <1>3, <1>4, <1>5

\* There is such a reading, and whatever is defined by its steps is one.
LEMMA ReadingExists ==
  ASSUME NEW S, NEW p \in Seq(S), NEW up, NEW same
  PROVE  \E g : ReadsNames(g, p, Seq(S), up, same)
<1> DEFINE V == Seq(S)
           F == [pair \in (1 .. Len(p)) \X V |-> Kept(pair[2], p[pair[1]], up, same)]
<1>0. Len(p) \in Nat /\ \A i \in 1 .. Len(p) : p[i] \in S
  BY ONLY LenProperties, ElementOfSeq, p \in Seq(S)
<1>1. F \in [(1 .. Len(p)) \X V -> V]
  <2> SUFFICES ASSUME NEW pair \in (1 .. Len(p)) \X V
               PROVE  Kept(pair[2], p[pair[1]], up, same) \in V
    OBVIOUS
  <2>1. pair[2] \in Seq(S) /\ p[pair[1]] \in S
    BY <1>0
  <2> QED BY <2>1, KeptType
<1>2. << >> \in V
  OBVIOUS
<1>3. PICK g : IsRecursive(g, Len(p), V, << >>, F)
  <2> HIDE DEF F, V
  <2> QED BY <1>0, <1>1, <1>2, IntervalRecursion
<1>4. g \in [0 .. Len(p) -> V] /\ g[0] = << >> /\ \A i \in 1 .. Len(p) : g[i] = F[<<i, g[i - 1]>>]
  <2> HIDE DEF F, V
  <2> QED BY <1>3 DEF IsRecursive
<1>5. ASSUME NEW i \in 1 .. Len(p) PROVE g[i] = Kept(g[i - 1], p[i], up, same)
  <2> HIDE DEF V
  <2>1. i - 1 \in 0 .. Len(p)
    BY <1>0
  <2>2. <<i, g[i - 1]>> \in (1 .. Len(p)) \X V
    BY <2>1, <1>4
  <2>3. F[<<i, g[i - 1]>>] = Kept(g[i - 1], p[i], up, same)
    BY <2>2
  <2> HIDE DEF F
  <2> QED BY <1>4, <2>3
<1>6. ReadsNames(g, p, Seq(S), up, same)
  BY <1>4, <1>5 DEF ReadsNames
<1> QED BY <1>6

\* The function defined by the steps of reading.
Reading(p, up, same) ==
  CHOOSE g : g = [i \in 0 .. Len(p) |-> IF i = 0 THEN << >> ELSE Kept(g[i - 1], p[i], up, same)]

\* The function reads the names.
LEMMA ReadingReads ==
  ASSUME NEW S, NEW p \in Seq(S), NEW up, NEW same
  PROVE  ReadsNames(Reading(p, up, same), p, Seq(S), up, same)
<1> DEFINE Is(g) == g = [i \in 0 .. Len(p) |-> IF i = 0 THEN << >> ELSE Kept(g[i - 1], p[i], up, same)]
           done  == Reading(p, up, same)
<1>0. Len(p) \in Nat
  BY ONLY LenProperties, p \in Seq(S)
<1>1. PICK g : ReadsNames(g, p, Seq(S), up, same)
  BY ReadingExists
<1>2. /\ g \in [0 .. Len(p) -> Seq(S)] /\ g[0] = << >>
      /\ \A i \in 1 .. Len(p) : g[i] = Kept(g[i - 1], p[i], up, same)
  BY <1>1 DEF ReadsNames
<1>3. Is(g)
  <2>1. \A i \in 0 .. Len(p) : i # 0 => i \in 1 .. Len(p)
    BY <1>0
  <2>2. \A i \in 0 .. Len(p) : g[i] = IF i = 0 THEN << >> ELSE Kept(g[i - 1], p[i], up, same)
    BY <1>2, <2>1
  <2> QED BY <1>2, <2>2
<1>4. done = CHOOSE h : Is(h)
  BY DEF Reading
<1> HIDE DEF done
<1>5. Is(done)
  <2> HIDE DEF Is
  <2> QED BY <1>3, <1>4
<1>6. done[0] = << >> /\ \A i \in 1 .. Len(p) : done[i] = Kept(done[i - 1], p[i], up, same)
  <2>1. 0 \in 0 .. Len(p) /\ \A i \in 1 .. Len(p) : i \in 0 .. Len(p) /\ i # 0
    BY <1>0
  <2> QED BY <1>5, <2>1
<1> DEFINE Agree == {i \in 0 .. Len(p) : done[i] = g[i]}
<1>7. 0 \in Agree
  BY <1>0, <1>2, <1>6
<1>8. ASSUME NEW i \in 1 .. Len(p), i - 1 \in Agree PROVE i \in Agree
  <2>1. done[i] = g[i] /\ i \in 0 .. Len(p)
    BY <1>0, <1>2, <1>6, <1>8
  <2> QED BY <2>1
<1>9. \A i \in 0 .. Len(p) : i \in Agree
  <2> HIDE DEF Agree
  <2> QED BY <1>0, <1>7, <1>8, IntervalInduction
<1>10. \A i \in 0 .. Len(p) : done[i] \in Seq(S)
  BY <1>2, <1>9
<1>11. done = [i \in 0 .. Len(p) |-> done[i]]
  BY <1>5
<1>12. done \in [0 .. Len(p) -> Seq(S)]
  BY <1>10, <1>11
<1> QED BY <1>6, <1>12 DEF ReadsNames, done

CountIn(P, i, j) == Cardinality({k \in i + 1 .. j : k \in P})

\* Counting one place more.
LEMMA CountNext ==
  ASSUME NEW P, NEW i \in Nat, NEW j \in Nat, i <= j
  PROVE  /\ CountIn(P, i, i) = 0
         /\ CountIn(P, i, j) \in Nat
         /\ CountIn(P, i, j + 1) = CountIn(P, i, j) + (IF j + 1 \in P THEN 1 ELSE 0)
<1> DEFINE A == {k \in i + 1 .. j : k \in P}
           B == {k \in i + 1 .. j + 1 : k \in P}
<1>1. IsFiniteSet(A) /\ Cardinality(A) \in Nat
  <2>1. A \in SUBSET (i + 1 .. j)
    OBVIOUS
  <2> HIDE DEF A
  <2>2. IsFiniteSet(i + 1 .. j)
    BY FS_Interval
  <2>3. IsFiniteSet(A)
    BY <2>1, <2>2, FS_Subset
  <2> QED BY <2>3, FS_CardinalityType
<1>2. {k \in i + 1 .. i : k \in P} = {}
  OBVIOUS
<1>3. \A k \in i + 1 .. j + 1 : k \in i + 1 .. j \/ k = j + 1
  OBVIOUS
<1>4. j + 1 \notin A /\ i + 1 .. j \subseteq i + 1 .. j + 1 /\ j + 1 \in i + 1 .. j + 1
  OBVIOUS
<1>5. CASE j + 1 \in P
  <2>1. B = A \cup {j + 1}
    BY <1>3, <1>4, <1>5
  <2> HIDE DEF A, B
  <2>2. Cardinality(A \cup {j + 1}) = Cardinality(A) + 1
    BY <1>1, <1>4, FS_AddElement
  <2> QED BY <1>1, <1>2, <1>5, <2>1, <2>2, FS_EmptySet DEF CountIn, A, B
<1>6. CASE j + 1 \notin P
  <2>1. B = A
    BY <1>3, <1>4, <1>6
  <2> HIDE DEF A, B
  <2>2. Cardinality(A) + 0 = Cardinality(A)
    BY <1>1
  <2> QED BY <1>1, <1>2, <1>6, <2>1, <2>2, FS_EmptySet DEF CountIn, A, B
<1> QED BY <1>5, <1>6

One(P, k) == IF k \in P THEN 1 ELSE 0

\* Going on from i, each place of P adds one.
CountsOnward(P, i, j) ==
  /\ CountIn(P, i, i) = 0 /\ CountIn(P, i, j) \in Nat
  /\ CountIn(P, i, j + 1) = CountIn(P, i, j) + One(P, j + 1)

\* The same for all places at once.
LEMMA CountGoesOn ==
  \A P : \A i, j \in Nat : i <= j => CountsOnward(P, i, j)
BY CountNext DEF CountsOnward, One

\* The first place counts, and then those behind it.
LEMMA FirstCounted ==
  ASSUME NEW P, NEW n \in Nat, n >= 1
  PROVE  /\ CountIn(P, 0, n) \in Nat /\ CountIn(P, 1, n) \in Nat
         /\ CountIn(P, 0, n) = One(P, 1) + CountIn(P, 1, n)
<1> DEFINE G == {k \in Nat : /\ CountIn(P, 0, k + 1) \in Nat /\ CountIn(P, 1, k + 1) \in Nat
                             /\ CountIn(P, 0, k + 1) = One(P, 1) + CountIn(P, 1, k + 1)}
<1>1. 0 \in G
  <2>1. /\ CountIn(P, 0, 0) = 0 /\ CountIn(P, 0, 0 + 1) = CountIn(P, 0, 0) + One(P, 0 + 1)
        /\ CountIn(P, 1, 1) = 0
    BY CountNext DEF One
  <2>2. One(P, 1) \in Nat
    BY DEF One
  <2> QED BY <2>1, <2>2
<1>2. ASSUME NEW k \in Nat, k \in G PROVE k + 1 \in G
  <2>1. k + 1 \in Nat /\ 1 <= k + 1 /\ 0 <= k + 1
    OBVIOUS
  <2>2. CountsOnward(P, 0, k + 1) /\ CountsOnward(P, 1, k + 1)
    BY <2>1, CountGoesOn
  <2>3. /\ CountIn(P, 0, (k + 1) + 1) = CountIn(P, 0, k + 1) + One(P, (k + 1) + 1)
        /\ CountIn(P, 1, (k + 1) + 1) = CountIn(P, 1, k + 1) + One(P, (k + 1) + 1)
    BY <2>2 DEF CountsOnward
  <2>4. One(P, 1) \in Nat /\ One(P, (k + 1) + 1) \in Nat
    BY DEF One
  <2> QED BY <1>2, <2>3, <2>4
<1>3. \A k \in Nat : k \in G
  <2> HIDE DEF G
  <2> QED BY <1>1, <1>2, SetInduction
<1>4. n - 1 \in Nat /\ (n - 1) + 1 = n
  OBVIOUS
<1> QED BY <1>3, <1>4

UpPlaces(p, up)    == {k \in Nat : p[k] = up}
PlainPlaces(p, up, same) == {k \in Nat : p[k] \notin {up, same}}

Ups(p, up, i, j)      == CountIn(UpPlaces(p, up), i, j)
Ordinary(p, up, same, i, j) == CountIn(PlainPlaces(p, up, same), i, j)

\* The name at i is kept when the first j names have been read.
Lasts(p, up, same, i, j) ==
  /\ p[i] \notin {up, same}
  /\ \A l \in i .. j : Ups(p, up, i, l) <= Ordinary(p, up, same, i, l)

\* The names kept after j: the m names at the places t, of which the last
\* outweighs none of the up behind it, and each one before one more.
IsStack(m, t, kept, p, up, same, j) ==
  /\ m \in Nat /\ Len(kept) = m
  /\ t \in [1 .. m -> 1 .. j]
  /\ \A x, y \in 1 .. m : x < y => t[x] < t[y]
  /\ \A x \in 1 .. m : /\ kept[x] = p[t[x]]
                       /\ Ordinary(p, up, same, t[x], j) = Ups(p, up, t[x], j) + (m - x)
  /\ \A i \in 1 .. j : Lasts(p, up, same, i, j) <=> \E x \in 1 .. m : t[x] = i

\* How the counts go on with the next name.
CountsOn(p, up, same, i, j) ==
  /\ Ups(p, up, i, i) = 0 /\ Ordinary(p, up, same, i, i) = 0
  /\ Ups(p, up, i, j) \in Nat /\ Ordinary(p, up, same, i, j) \in Nat
  /\ Ups(p, up, i, j + 1) = Ups(p, up, i, j) + (IF p[j + 1] = up THEN 1 ELSE 0)
  /\ Ordinary(p, up, same, i, j + 1) =
       Ordinary(p, up, same, i, j) + (IF p[j + 1] \notin {up, same} THEN 1 ELSE 0)

\* One name more is "up", ordinary or neither.
LEMMA UpsNext ==
  ASSUME NEW p, NEW up, NEW same, NEW i \in Nat, NEW j \in Nat, i <= j
  PROVE  CountsOn(p, up, same, i, j)
<1>1. /\ j + 1 \in UpPlaces(p, up) <=> p[j + 1] = up
      /\ j + 1 \in PlainPlaces(p, up, same) <=> p[j + 1] \notin {up, same}
  BY DEF UpPlaces, PlainPlaces
<1>2. /\ CountIn(UpPlaces(p, up), i, i) = 0 /\ CountIn(UpPlaces(p, up), i, j) \in Nat
      /\ CountIn(UpPlaces(p, up), i, j + 1) =
           CountIn(UpPlaces(p, up), i, j) + (IF j + 1 \in UpPlaces(p, up) THEN 1 ELSE 0)
  BY CountNext
<1>3. /\ CountIn(PlainPlaces(p, up, same), i, i) = 0 /\ CountIn(PlainPlaces(p, up, same), i, j) \in Nat
      /\ CountIn(PlainPlaces(p, up, same), i, j + 1) =
           CountIn(PlainPlaces(p, up, same), i, j) + (IF j + 1 \in PlainPlaces(p, up, same) THEN 1 ELSE 0)
  BY CountNext
<1> QED BY <1>1, <1>2, <1>3 DEF CountsOn, Ups, Ordinary

\* A name that lasts so far is taken away by too many "up" only.
LEMMA LastsNext ==
  ASSUME NEW p, NEW up, NEW same, NEW j \in Nat
  PROVE  /\ \A i \in 1 .. j : Lasts(p, up, same, i, j + 1) <=>
              Lasts(p, up, same, i, j) /\ Ups(p, up, i, j + 1) <= Ordinary(p, up, same, i, j + 1)
         /\ Lasts(p, up, same, j + 1, j + 1) <=> p[j + 1] \notin {up, same}
<1>1. ASSUME NEW i \in 1 .. j
      PROVE  Lasts(p, up, same, i, j + 1)
               <=> Lasts(p, up, same, i, j) /\ Ups(p, up, i, j + 1) <= Ordinary(p, up, same, i, j + 1)
  <2>1. i .. j + 1 = (i .. j) \cup {j + 1}
    OBVIOUS
  <2> QED BY <2>1 DEF Lasts
<1>2. Ups(p, up, j + 1, j + 1) = 0 /\ Ordinary(p, up, same, j + 1, j + 1) = 0
  BY UpsNext DEF CountsOn
<1>3. (j + 1) .. (j + 1) = {j + 1}
  OBVIOUS
<1>4. Lasts(p, up, same, j + 1, j + 1) <=> p[j + 1] \notin {up, same}
  BY <1>2, <1>3 DEF Lasts
<1> QED BY <1>1, <1>4

\* A name goes on top.
LEMMA StackPush ==
  ASSUME NEW S, NEW p, NEW up, NEW same, NEW j \in Nat, NEW m, NEW t, NEW kept \in Seq(S),
         IsStack(m, t, kept, p, up, same, j),
         p[j + 1] \in S, p[j + 1] \notin {up, same}
  PROVE  \E t2 : IsStack(m + 1, t2, Append(kept, p[j + 1]), p, up, same, j + 1)
<1> DEFINE new == Append(kept, p[j + 1])
           t2  == [x \in 1 .. m + 1 |-> IF x = m + 1 THEN j + 1 ELSE t[x]]
<1>1. /\ m \in Nat /\ Len(kept) = m /\ t \in [1 .. m -> 1 .. j]
      /\ \A x, y \in 1 .. m : x < y => t[x] < t[y]
      /\ \A x \in 1 .. m : kept[x] = p[t[x]]
      /\ \A x \in 1 .. m : Ordinary(p, up, same, t[x], j) = Ups(p, up, t[x], j) + (m - x)
      /\ \A i \in 1 .. j : Lasts(p, up, same, i, j) <=> \E x \in 1 .. m : t[x] = i
  BY DEF IsStack
<1>2. /\ Len(new) = m + 1 /\ new[m + 1] = p[j + 1]
      /\ \A x \in 1 .. m : new[x] = kept[x]
  BY <1>1, AppendProperties
<1>3. \A x \in 1 .. m + 1 : x \in Int /\ (x = m + 1 \/ (x \in 1 .. m /\ x # m + 1))
  BY <1>1
<1>4. \A x \in 1 .. m : x \in 1 .. m + 1 /\ x # m + 1
  BY <1>1
<1>5. t2[m + 1] = j + 1 /\ \A x \in 1 .. m : t2[x] = t[x]
  BY <1>1, <1>4
<1>6. \A x \in 1 .. m : t[x] \in Nat /\ t[x] >= 1 /\ t[x] <= j
  BY <1>1
<1>7. t2 \in [1 .. m + 1 -> 1 .. j + 1]
  <2>1. \A x \in 1 .. m : t[x] \in 1 .. j + 1
    BY <1>6
  <2> QED BY <2>1, <1>3
<1> HIDE DEF new, t2
<1>8. ASSUME NEW x \in 1 .. m + 1, NEW y \in 1 .. m + 1, x < y PROVE t2[x] < t2[y]
  <2>1. x \in 1 .. m
    BY <1>1, <1>8
  <2>2. CASE y = m + 1
    BY <2>1, <2>2, <1>5, <1>6
  <2>3. CASE y \in 1 .. m
    BY <2>1, <2>3, <1>1, <1>5, <1>8
  <2> QED BY <2>2, <2>3, <1>3
<1>9. ASSUME NEW x \in 1 .. m + 1 PROVE new[x] = p[t2[x]]
  BY <1>1, <1>2, <1>3, <1>5
<1>10. ASSUME NEW x \in 1 .. m + 1
       PROVE  Ordinary(p, up, same, t2[x], j + 1) = Ups(p, up, t2[x], j + 1) + ((m + 1) - x)
  <2>1. CASE x = m + 1
    <3>1. Ups(p, up, j + 1, j + 1) = 0 /\ Ordinary(p, up, same, j + 1, j + 1) = 0
      BY UpsNext DEF CountsOn
    <3> QED BY <3>1, <2>1, <1>1, <1>5
  <2>2. CASE x \in 1 .. m
    <3> DEFINE i == t[x]
    <3>1. i \in Nat /\ i <= j /\ t2[x] = i
      BY <2>2, <1>5, <1>6
    <3>2. Ordinary(p, up, same, i, j) = Ups(p, up, i, j) + (m - x)
      BY <2>2, <1>1
    <3> HIDE DEF i
    <3>0. CountsOn(p, up, same, i, j)
      BY <3>1, UpsNext
    <3>3. /\ Ups(p, up, i, j) \in Nat /\ Ordinary(p, up, same, i, j) \in Nat
          /\ Ups(p, up, i, j + 1) = Ups(p, up, i, j) + (IF p[j + 1] = up THEN 1 ELSE 0)
          /\ Ordinary(p, up, same, i, j + 1) = Ordinary(p, up, same, i, j)
               + (IF p[j + 1] \notin {up, same} THEN 1 ELSE 0)
      BY <3>0 DEF CountsOn
    <3>4. Ups(p, up, i, j + 1) = Ups(p, up, i, j)
          /\ Ordinary(p, up, same, i, j + 1) = Ordinary(p, up, same, i, j) + 1
      BY <3>3
    <3>5. x \in Int /\ m \in Int
      BY <2>2, <1>1
    <3> QED BY ONLY <3>1, <3>2, <3>3, <3>4, <3>5
  <2> QED BY <2>1, <2>2, <1>3
<1>11. ASSUME NEW i \in 1 .. j + 1 PROVE Lasts(p, up, same, i, j + 1) <=> \E x \in 1 .. m + 1 : t2[x] = i
  <2>1. CASE i = j + 1
    <3>1. Lasts(p, up, same, i, j + 1)
      BY <2>1, LastsNext
    <3>2. m + 1 \in 1 .. m + 1
      BY <1>1
    <3> QED BY <3>1, <3>2, <2>1, <1>5
  <2>2. CASE i \in 1 .. j /\ i # j + 1
    <3>1. Lasts(p, up, same, i, j + 1)
            <=> Lasts(p, up, same, i, j) /\ Ups(p, up, i, j + 1) <= Ordinary(p, up, same, i, j + 1)
      BY <2>2, LastsNext
    <3>2. Lasts(p, up, same, i, j) => Ups(p, up, i, j + 1) <= Ordinary(p, up, same, i, j + 1)
      <4>1. Lasts(p, up, same, i, j) => Ups(p, up, i, j) <= Ordinary(p, up, same, i, j)
        <5>1. j \in i .. j
          BY <2>2
        <5> QED BY <5>1 DEF Lasts
      <4>2. /\ Ups(p, up, i, j) \in Nat /\ Ordinary(p, up, same, i, j) \in Nat
            /\ Ups(p, up, i, j + 1) = Ups(p, up, i, j) + (IF p[j + 1] = up THEN 1 ELSE 0)
            /\ Ordinary(p, up, same, i, j + 1) = Ordinary(p, up, same, i, j)
                 + (IF p[j + 1] \notin {up, same} THEN 1 ELSE 0)
        <5>1. i \in Nat /\ i <= j
          BY <2>2
        <5>2. CountsOn(p, up, same, i, j)
          BY <5>1, UpsNext
        <5> QED BY <5>2 DEF CountsOn
      <4>3. Ups(p, up, i, j + 1) = Ups(p, up, i, j)
            /\ Ordinary(p, up, same, i, j + 1) = Ordinary(p, up, same, i, j) + 1
        BY <4>2
      <4> QED BY <4>1, <4>2, <4>3
    <3>3. (\E x \in 1 .. m + 1 : t2[x] = i) <=> (\E x \in 1 .. m : t[x] = i)
      BY <2>2, <1>3, <1>4, <1>5
    <3> QED BY <3>1, <3>2, <3>3, <2>2, <1>1
  <2> QED BY <2>1, <2>2
<1>12. m + 1 \in Nat
  BY <1>1
<1>13. IsStack(m + 1, t2, new, p, up, same, j + 1)
  BY <1>2, <1>7, <1>8, <1>9, <1>10, <1>11, <1>12 DEF IsStack
<1> QED BY <1>13 DEF new

\* same changes nothing.
LEMMA StackSame ==
  ASSUME NEW p, NEW up, NEW same, NEW j \in Nat, NEW m, NEW t, NEW kept, IsStack(m, t, kept, p, up, same, j),
         p[j + 1] # up, p[j + 1] = same
  PROVE  IsStack(m, t, kept, p, up, same, j + 1)
<1>1. /\ m \in Nat /\ Len(kept) = m /\ t \in [1 .. m -> 1 .. j]
      /\ \A x, y \in 1 .. m : x < y => t[x] < t[y]
      /\ \A x \in 1 .. m : kept[x] = p[t[x]]
      /\ \A x \in 1 .. m : Ordinary(p, up, same, t[x], j) = Ups(p, up, t[x], j) + (m - x)
      /\ \A i \in 1 .. j : Lasts(p, up, same, i, j) <=> \E x \in 1 .. m : t[x] = i
  BY DEF IsStack
<1>2. \A x \in 1 .. m : t[x] \in 1 .. j
  BY <1>1
<1>3. t \in [1 .. m -> 1 .. j + 1]
  BY <1>1
<1>4. ASSUME NEW i \in 1 .. j
      PROVE  Ups(p, up, i, j + 1) = Ups(p, up, i, j)
             /\ Ordinary(p, up, same, i, j + 1) = Ordinary(p, up, same, i, j)
             /\ Ups(p, up, i, j) \in Nat /\ Ordinary(p, up, same, i, j) \in Nat
  <2>1. i \in Nat /\ i <= j
    OBVIOUS
  <2>0. CountsOn(p, up, same, i, j)
    BY <2>1, UpsNext
  <2>2. /\ Ups(p, up, i, j) \in Nat /\ Ordinary(p, up, same, i, j) \in Nat
        /\ Ups(p, up, i, j + 1) = Ups(p, up, i, j) + (IF p[j + 1] = up THEN 1 ELSE 0)
        /\ Ordinary(p, up, same, i, j + 1) = Ordinary(p, up, same, i, j)
             + (IF p[j + 1] \notin {up, same} THEN 1 ELSE 0)
    BY <2>0 DEF CountsOn
  <2> QED BY <2>2
<1>5. ASSUME NEW i \in 1 .. j + 1 PROVE Lasts(p, up, same, i, j + 1) <=> \E x \in 1 .. m : t[x] = i
  <2>1. CASE i = j + 1
    <3>1. ~Lasts(p, up, same, i, j + 1)
      BY <2>1, LastsNext
    <3> QED BY <3>1, <2>1, <1>2
  <2>2. CASE i \in 1 .. j
    <3>1. Lasts(p, up, same, i, j + 1)
            <=> Lasts(p, up, same, i, j) /\ Ups(p, up, i, j + 1) <= Ordinary(p, up, same, i, j + 1)
      BY <2>2, LastsNext
    <3>2. Lasts(p, up, same, i, j) => Ups(p, up, i, j) <= Ordinary(p, up, same, i, j)
      <4>1. j \in i .. j
        BY <2>2
      <4> QED BY <4>1 DEF Lasts
    <3> QED BY <3>1, <3>2, <2>2, <1>1, <1>4
  <2> QED BY <2>1, <2>2
<1>6. \A x \in 1 .. m : Ordinary(p, up, same, t[x], j + 1) = Ups(p, up, t[x], j + 1) + (m - x)
  BY <1>1, <1>2, <1>4
<1> QED BY <1>1, <1>3, <1>5, <1>6 DEF IsStack

\* up takes the name on top away, if there is one.
LEMMA StackPop ==
  ASSUME NEW S, NEW p, NEW up, NEW same, NEW j \in Nat, NEW m, NEW t, NEW kept \in Seq(S),
         IsStack(m, t, kept, p, up, same, j),
         p[j + 1] = up
  PROVE  \E m2, t2 : IsStack(m2, t2, IF kept = << >> THEN << >> ELSE Front(kept), p, up, same, j + 1)
<1>1. /\ m \in Nat /\ Len(kept) = m /\ t \in [1 .. m -> 1 .. j]
      /\ \A x, y \in 1 .. m : x < y => t[x] < t[y]
      /\ \A x \in 1 .. m : kept[x] = p[t[x]]
      /\ \A x \in 1 .. m : Ordinary(p, up, same, t[x], j) = Ups(p, up, t[x], j) + (m - x)
      /\ \A i \in 1 .. j : Lasts(p, up, same, i, j) <=> \E x \in 1 .. m : t[x] = i
  BY DEF IsStack
<1>2. \A x \in 1 .. m : t[x] \in 1 .. j
  BY <1>1
<1>3. ASSUME NEW i \in 1 .. j
      PROVE  Ups(p, up, i, j + 1) = Ups(p, up, i, j) + 1
             /\ Ordinary(p, up, same, i, j + 1) = Ordinary(p, up, same, i, j)
             /\ Ups(p, up, i, j) \in Nat /\ Ordinary(p, up, same, i, j) \in Nat
  <2>1. i \in Nat /\ i <= j
    OBVIOUS
  <2>0. CountsOn(p, up, same, i, j)
    BY <2>1, UpsNext
  <2>2. /\ Ups(p, up, i, j) \in Nat /\ Ordinary(p, up, same, i, j) \in Nat
        /\ Ups(p, up, i, j + 1) = Ups(p, up, i, j) + (IF p[j + 1] = up THEN 1 ELSE 0)
        /\ Ordinary(p, up, same, i, j + 1) = Ordinary(p, up, same, i, j)
             + (IF p[j + 1] \notin {up, same} THEN 1 ELSE 0)
    BY <2>0 DEF CountsOn
  <2> QED BY <2>2
<1>4. ~Lasts(p, up, same, j + 1, j + 1)
  BY LastsNext
<1>5. \A i \in 1 .. j + 1 : i = j + 1 \/ i \in 1 .. j
  OBVIOUS
<1>6. \A i \in 1 .. j : Lasts(p, up, same, i, j + 1)
        <=> Lasts(p, up, same, i, j) /\ Ups(p, up, i, j + 1) <= Ordinary(p, up, same, i, j + 1)
  BY LastsNext
<1>7. CASE kept = << >>
  <2>1. m = 0 /\ 1 .. m = {}
    BY <1>1, <1>7
  <2>2. \A i \in 1 .. j + 1 : ~Lasts(p, up, same, i, j + 1)
    BY <2>1, <1>1, <1>4, <1>5, <1>6
  <2>3. t \in [1 .. m -> 1 .. j + 1]
    BY <1>1
  <2>4. IsStack(m, t, << >>, p, up, same, j + 1)
    BY <2>1, <2>2, <2>3, <1>1, <1>7 DEF IsStack
  <2> QED BY <2>4, <1>7
<1>8. CASE kept # << >>
  <2> DEFINE n   == m - 1
             t2  == [x \in 1 .. n |-> t[x]]
             new == Front(kept)
  <2>1. n \in Nat /\ m \in 1 .. m /\ m = n + 1
    BY <1>1, <1>8, EmptySeq
  <2>2. Len(new) = n /\ \A x \in 1 .. n : new[x] = kept[x]
    <3>1. \A x \in 1 .. n : kept[x] \in S
      BY <1>1, <2>1, ElementOfSeq
    <3>2. new = SubSeq(kept, 1, n)
      BY <1>1 DEF Front
    <3> HIDE DEF n, new
    <3>3. /\ Len(SubSeq(kept, 1, n)) = (IF 1 <= n THEN n - 1 + 1 ELSE 0)
          /\ \A x \in 1 .. n - 1 + 1 : SubSeq(kept, 1, n)[x] = kept[1 + x - 1]
      BY <3>1, <2>1, SubSeqProperties
    <3>4. \A x \in 1 .. n : x \in 1 .. n - 1 + 1 /\ 1 + x - 1 = x
      BY <2>1
    <3> QED BY <3>2, <3>3, <3>4, <2>1
  <2> HIDE DEF n, new
  <2>3. \A x \in 1 .. n : x \in 1 .. m /\ x \in Int /\ m - x >= 1 /\ n - x = (m - x) - 1
    BY <2>1
  <2>4. \A x \in 1 .. n : t2[x] = t[x]
    OBVIOUS
  <2>5. t2 \in [1 .. n -> 1 .. j + 1]
    BY <2>3, <1>1
  <2> HIDE DEF t2
  <2>6. \A x, y \in 1 .. n : x < y => t2[x] < t2[y]
    BY <2>3, <2>4, <1>1
  <2>7. ASSUME NEW x \in 1 .. n
        PROVE  new[x] = p[t2[x]] /\ Ordinary(p, up, same, t2[x], j + 1) = Ups(p, up, t2[x], j + 1) + (n - x)
    <3>1. new[x] = p[t2[x]]
      BY <2>2, <2>3, <2>4, <1>1
    <3> DEFINE i == t[x]
    <3>2. i \in 1 .. j /\ t2[x] = i /\ Ordinary(p, up, same, i, j) = Ups(p, up, i, j) + (m - x)
      BY <2>3, <2>4, <1>1
    <3> HIDE DEF i
    <3>3. /\ Ups(p, up, i, j + 1) = Ups(p, up, i, j) + 1
          /\ Ordinary(p, up, same, i, j + 1) = Ordinary(p, up, same, i, j)
          /\ Ups(p, up, i, j) \in Nat /\ Ordinary(p, up, same, i, j) \in Nat
      BY <3>2, <1>3
    <3>4. Ordinary(p, up, same, i, j + 1) = Ups(p, up, i, j + 1) + (n - x)
      BY <3>2, <3>3, <2>1, <2>3
    <3> QED BY <3>1, <3>2, <3>4
  <2>8. ASSUME NEW i \in 1 .. j + 1 PROVE Lasts(p, up, same, i, j + 1) <=> \E x \in 1 .. n : t2[x] = i
    <3>1. CASE i = j + 1
      BY <3>1, <1>2, <1>4, <2>3, <2>4
    <3>2. CASE i \in 1 .. j
      <4>1. ASSUME NEW x \in 1 .. n, t2[x] = i PROVE Lasts(p, up, same, i, j + 1)
        <5>1. x \in 1 .. m /\ t[x] = i
          BY <4>1, <2>3, <2>4
        <5>2. Lasts(p, up, same, i, j) /\ Ordinary(p, up, same, i, j) = Ups(p, up, i, j) + (m - x)
          BY <5>1, <3>2, <1>1
        <5>3. Ups(p, up, i, j + 1) <= Ordinary(p, up, same, i, j + 1)
          <6>1. /\ Ups(p, up, i, j + 1) = Ups(p, up, i, j) + 1
                /\ Ordinary(p, up, same, i, j + 1) = Ordinary(p, up, same, i, j)
                /\ Ups(p, up, i, j) \in Nat
            BY <3>2, <1>3
          <6>2. x \in Int /\ m \in Int /\ m - x >= 1
            BY <5>1, <1>1, <2>3, <4>1
          <6> QED BY ONLY <5>2, <6>1, <6>2
        <5> QED BY <5>2, <5>3, <3>2, <1>6
      <4>2. ASSUME Lasts(p, up, same, i, j + 1) PROVE \E x \in 1 .. n : t2[x] = i
        <5>1. Lasts(p, up, same, i, j) /\ Ups(p, up, i, j + 1) <= Ordinary(p, up, same, i, j + 1)
          BY <4>2, <3>2, <1>6
        <5>2. PICK x \in 1 .. m : t[x] = i
          BY <5>1, <3>2, <1>1
        <5>3. Ordinary(p, up, same, i, j) = Ups(p, up, i, j) + (m - x)
          BY <5>2, <1>1
        <5>4. x # m
          <6>1. x = m => m - x = 0
            BY <1>1
          <6> QED BY <6>1, <5>1, <5>3, <3>2, <1>3
        <5>5. x \in 1 .. n
          BY <5>4, <2>1
        <5> QED BY <5>2, <5>5, <2>4
      <4> QED BY <4>1, <4>2
    <3> QED BY <3>1, <3>2, <1>5
  <2>9. IsStack(n, t2, new, p, up, same, j + 1)
    BY <2>1, <2>2, <2>5, <2>6, <2>7, <2>8 DEF IsStack
  <2> QED BY <2>9, <1>8 DEF new
<1> QED BY <1>7, <1>8

\* What is kept is such a stack after each name.
LEMMA StackOfNames ==
  ASSUME NEW S, NEW p \in Seq(S), NEW up, NEW same, up # same,
         NEW done, ReadsNames(done, p, Seq(S), up, same)
  PROVE  done[Len(p)] \in Seq(S) /\ \E m, t : IsStack(m, t, done[Len(p)], p, up, same, Len(p))
<1>0. Len(p) \in Nat /\ \A i \in 1 .. Len(p) : p[i] \in S
  BY ONLY LenProperties, ElementOfSeq, p \in Seq(S)
<1>2. /\ \A i \in 0 .. Len(p) : done[i] \in Seq(S)
      /\ done[0] = << >>
      /\ \A i \in 1 .. Len(p) : done[i] = Kept(done[i - 1], p[i], up, same)
  BY DEF ReadsNames
<1> DEFINE Good == {j \in 0 .. Len(p) : \E m, t : IsStack(m, t, done[j], p, up, same, j)}
<1>3. 0 \in Good
  <2> DEFINE t == [x \in 1 .. 0 |-> 0]
  <2>1. 1 .. 0 = {} /\ 0 \in 0 .. Len(p) /\ Len(<< >>) = 0
    BY <1>0
  <2>2. IsStack(0, t, << >>, p, up, same, 0)
    BY <2>1 DEF IsStack
  <2> HIDE DEF t
  <2> QED BY <2>1, <2>2, <1>2
<1>4. ASSUME NEW i \in 1 .. Len(p), i - 1 \in Good PROVE i \in Good
  <2> DEFINE j == i - 1
             so == done[j]
  <2>1. j \in Nat /\ j + 1 = i /\ j \in 0 .. Len(p) /\ i \in 0 .. Len(p)
    BY <1>0
  <2>2. so \in Seq(S) /\ done[i] = Kept(so, p[i], up, same) /\ p[i] \in S
    BY <1>0, <1>2, <2>1
  <2>3. PICK m, t : IsStack(m, t, so, p, up, same, j)
    BY <1>4
  <2> HIDE DEF j, so
  <2>4. \E m2, t2 : IsStack(m2, t2, Kept(so, p[j + 1], up, same), p, up, same, j + 1)
    <3>1. CASE p[j + 1] = up
      <4>1. Kept(so, p[j + 1], up, same) = IF so = << >> THEN << >> ELSE Front(so)
        BY <3>1 DEF Kept
      <4> QED BY <4>1, <3>1, <2>1, <2>2, <2>3, StackPop
    <3>2. CASE p[j + 1] # up /\ p[j + 1] = same
      <4>1. Kept(so, p[j + 1], up, same) = so
        BY <3>2 DEF Kept
      <4> QED BY <4>1, <3>2, <2>1, <2>3, StackSame
    <3>3. CASE p[j + 1] \notin {up, same}
      <4>1. Kept(so, p[j + 1], up, same) = Append(so, p[j + 1])
        BY <3>3 DEF Kept
      <4> QED BY <4>1, <3>3, <2>1, <2>2, <2>3, StackPush
    <3> QED BY <3>1, <3>2, <3>3
  <2>5. \E m2, t2 : IsStack(m2, t2, done[i], p, up, same, i)
    BY <2>1, <2>2, <2>4
  <2> QED BY <2>1, <2>5
<1>5. \A i \in 0 .. Len(p) : i \in Good
  <2> HIDE DEF Good
  <2> QED BY <1>0, <1>3, <1>4, IntervalInduction
<1>6. Len(p) \in 0 .. Len(p)
  BY <1>0
<1>7. \E m, t : IsStack(m, t, done[Len(p)], p, up, same, Len(p))
  BY <1>5, <1>6
<1> QED BY <1>2, <1>6, <1>7

\* Of an ascending list, n places are the first n.
Ascends(t, m, N) ==
  t \in [1 .. m -> 1 .. N] /\ \A x, y \in 1 .. m : x < y => t[x] < t[y]

CountsUp(t, m) ==
  /\ \A n \in 0 .. m : Cardinality({t[x] : x \in 1 .. n}) = n
  /\ \A n \in 1 .. m : {i \in {t[x] : x \in 1 .. m} : i <= t[n]} = {t[x] : x \in 1 .. n}

\* An ascending list counts itself up.
LEMMA Ascending ==
  ASSUME NEW m \in Nat, NEW N \in Nat, NEW t, Ascends(t, m, N)
  PROVE  CountsUp(t, m)
<1> DEFINE First(n) == {t[x] : x \in 1 .. n}
           Good == {n \in 0 .. m : IsFiniteSet(First(n)) /\ Cardinality(First(n)) = n}
<1>0. \A x \in 1 .. m : /\ t[x] \in Int /\ x \in Int
                         /\ \A y \in 1 .. m : x < y => t[x] < t[y]
  BY DEF Ascends
<1>1. 0 \in Good
  <2>1. First(0) = {} /\ 0 \in 0 .. m
    OBVIOUS
  <2> HIDE DEF First
  <2>2. IsFiniteSet(First(0)) /\ Cardinality(First(0)) = 0
    BY <2>1, FS_EmptySet
  <2> QED BY <2>1, <2>2
<1>2. ASSUME NEW n \in 1 .. m, n - 1 \in Good PROVE n \in Good
  <2>1. IsFiniteSet(First(n - 1)) /\ Cardinality(First(n - 1)) = n - 1
    BY <1>2
  <2>2. \A x \in 1 .. n : x \in 1 .. n - 1 \/ x = n
    OBVIOUS
  <2>3. \A x \in 1 .. n - 1 : x \in 1 .. n /\ x \in 1 .. m /\ x < n
    OBVIOUS
  <2>4. n \in 1 .. n /\ n \in Int /\ n \in 0 .. m /\ (n - 1) + 1 = n
    OBVIOUS
  <2>5. First(n) = First(n - 1) \cup {t[n]}
    BY <2>2, <2>3, <2>4
  <2>6. t[n] \notin First(n - 1)
    <3> SUFFICES ASSUME NEW x \in 1 .. n - 1, t[x] = t[n] PROVE FALSE
      OBVIOUS
    <3>1. t[x] < t[n] /\ t[x] \in Int
      BY <2>3, <1>0
    <3> QED BY <3>1
  <2> DEFINE A == First(n - 1)
             v == t[n]
  <2> HIDE DEF First
  <2>7. IsFiniteSet(First(n)) /\ Cardinality(First(n)) = n
    <3>1. IsFiniteSet(A) /\ v \notin A /\ Cardinality(A) = n - 1
      BY <2>1, <2>6
    <3> HIDE DEF A, v
    <3>2. IsFiniteSet(A \cup {v}) /\ Cardinality(A \cup {v}) = Cardinality(A) + 1
      BY <3>1, FS_AddElement
    <3> QED BY <3>1, <3>2, <2>4, <2>5 DEF A, v
  <2> QED BY <2>4, <2>7
<1>3. \A n \in 0 .. m : n \in Good
  <2> HIDE DEF Good
  <2> QED BY <1>1, <1>2, IntervalInduction
<1>4. ASSUME NEW n \in 1 .. m PROVE {i \in First(m) : i <= t[n]} = First(n)
  <2>1. ASSUME NEW x \in 1 .. m, t[x] <= t[n] PROVE x \in 1 .. n
    <3>1. ~(n < x)
      <4>1. n < x => t[n] < t[x]
        BY <1>0
      <4> QED BY <4>1, <2>1, <1>0
    <3> QED BY <3>1, <1>0
  <2>2. ASSUME NEW x \in 1 .. n PROVE x \in 1 .. m /\ t[x] <= t[n]
    <3>1. x \in 1 .. m /\ (x < n \/ x = n)
      BY <1>0
    <3>2. x < n => t[x] < t[n]
      BY <3>1, <1>0
    <3> QED BY <3>1, <3>2, <1>0
  <2> QED BY <2>1, <2>2
<1> QED BY <1>3, <1>4 DEF CountsUp

\* The names that last, as their places in p, and these names in their order.
Survivors(p, up, same) ==
  {i \in DOMAIN p :
     /\ p[i] \notin {up, same}
     /\ \A j \in i .. Cardinality(DOMAIN p) :
          Cardinality({k \in i + 1 .. j : p[k] = up})
            <= Cardinality({k \in i + 1 .. j : p[k] \notin {up, same}})}

Picked(kept, p) ==
  [n \in 1 .. Cardinality(kept) |->
     p[CHOOSE i \in kept : Cardinality({k \in kept : k <= i}) = n]]

\* The survivors are those that last to the end.
LEMMA SurvivorsLast ==
  ASSUME NEW S, NEW p \in Seq(S), NEW up, NEW same
  PROVE  Survivors(p, up, same) = {i \in 1 .. Len(p) : Lasts(p, up, same, i, Len(p))}
<1>0. Len(p) \in Nat /\ DOMAIN p = 1 .. Len(p)
  BY ONLY LenProperties, p \in Seq(S)
<1>1. Cardinality(DOMAIN p) = Len(p)
  <2>1. 0 \in Int /\ 1 \in Int /\ Len(p) \in Int /\ (1 > Len(p) => Len(p) = 0) /\ Len(p) - 1 + 1 = Len(p)
    BY ONLY <1>0
  <2>2. Cardinality(1 .. Len(p)) = Len(p)
    BY <2>1, FS_Interval
  <2> QED BY <1>0, <2>2
<1>2. ASSUME NEW i \in 1 .. Len(p), NEW j \in i .. Len(p)
      PROVE  /\ Cardinality({k \in i + 1 .. j : p[k] = up}) = Ups(p, up, i, j)
             /\ Cardinality({k \in i + 1 .. j : p[k] \notin {up, same}}) = Ordinary(p, up, same, i, j)
  <2>1. \A k \in i + 1 .. j : k \in Nat
    BY <1>0
  <2>2. {k \in i + 1 .. j : p[k] = up} = {k \in i + 1 .. j : k \in UpPlaces(p, up)}
    BY <2>1 DEF UpPlaces
  <2>3. {k \in i + 1 .. j : p[k] \notin {up, same}} = {k \in i + 1 .. j : k \in PlainPlaces(p, up, same)}
    BY <2>1 DEF PlainPlaces
  <2> QED BY <2>2, <2>3 DEF Ups, Ordinary, CountIn
<1>3. \A i \in 1 .. Len(p) : i \in Survivors(p, up, same) <=> Lasts(p, up, same, i, Len(p))
  BY <1>0, <1>1, <1>2 DEF Survivors, Lasts
<1>4. Survivors(p, up, same) \subseteq 1 .. Len(p)
  BY <1>0 DEF Survivors
<1> QED BY <1>3, <1>4

\* Reading the names one by one keeps the names that survive.
LEMMA ReadingKeepsSurvivors ==
  ASSUME NEW S, NEW p \in Seq(S), NEW up, NEW same, up # same,
         NEW done, ReadsNames(done, p, Seq(S), up, same)
  PROVE  done[Len(p)] = Picked(Survivors(p, up, same), p)
<1> DEFINE d    == done[Len(p)]
           kept == Survivors(p, up, same)
           Upto(i) == {k \in kept : k <= i}
           Nth(n)  == CHOOSE i \in kept : Cardinality(Upto(i)) = n
<1>0. Len(p) \in Nat /\ DOMAIN p = 1 .. Len(p)
  BY ONLY LenProperties, p \in Seq(S)
<1>1. d \in Seq(S) /\ \E m, t : IsStack(m, t, d, p, up, same, Len(p))
  BY StackOfNames
<1>2. Picked(kept, p) = [n \in 1 .. Cardinality(kept) |-> p[Nth(n)]]
  BY DEF Picked
<1> HIDE DEF d
<1>3. PICK m, t : IsStack(m, t, d, p, up, same, Len(p))
  BY <1>1
<1>4. /\ m \in Nat /\ Len(d) = m /\ t \in [1 .. m -> 1 .. Len(p)]
      /\ \A x, y \in 1 .. m : x < y => t[x] < t[y]
      /\ \A x \in 1 .. m : d[x] = p[t[x]]
      /\ \A i \in 1 .. Len(p) : Lasts(p, up, same, i, Len(p)) <=> \E x \in 1 .. m : t[x] = i
  BY <1>3 DEF IsStack
<1>5. kept = {t[x] : x \in 1 .. m}
  <2>1. kept = {i \in 1 .. Len(p) : Lasts(p, up, same, i, Len(p))}
    BY SurvivorsLast
  <2>2. \A x \in 1 .. m : t[x] \in 1 .. Len(p)
    BY <1>4
  <2> HIDE DEF kept
  <2> QED BY <2>1, <2>2, <1>4
<1> HIDE DEF kept
<1>6. /\ \A n \in 0 .. m : Cardinality({t[x] : x \in 1 .. n}) = n
      /\ \A n \in 1 .. m : {i \in {t[x] : x \in 1 .. m} : i <= t[n]} = {t[x] : x \in 1 .. n}
  <2>1. Ascends(t, m, Len(p))
    BY <1>4 DEF Ascends
  <2>2. CountsUp(t, m)
    BY <1>0, <1>4, <2>1, Ascending
  <2> QED BY <2>2 DEF CountsUp
<1>7. Cardinality(kept) = m
  <2>1. m \in 0 .. m
    BY <1>4
  <2> QED BY <2>1, <1>5, <1>6
<1>8. \A n \in 1 .. m : Cardinality(Upto(t[n])) = n
  <2> SUFFICES ASSUME NEW n \in 1 .. m PROVE Cardinality(Upto(t[n])) = n
    OBVIOUS
  <2>1. n \in 0 .. m
    BY <1>4
  <2>2. Upto(t[n]) = {t[x] : x \in 1 .. n}
    BY <1>5, <1>6
  <2> QED BY <2>1, <2>2, <1>6
<1> HIDE DEF Upto
<1>9. ASSUME NEW n \in 1 .. m PROVE Nth(n) = t[n]
  <2>1. t[n] \in kept /\ Cardinality(Upto(t[n])) = n
    BY <1>5, <1>8
  <2>2. Nth(n) \in kept /\ Cardinality(Upto(Nth(n))) = n
    BY <2>1
  <2> HIDE DEF Nth
  <2>3. PICK x \in 1 .. m : Nth(n) = t[x]
    BY <2>2, <1>5
  <2>4. x = n
    BY <2>2, <2>3, <1>8
  <2> QED BY <2>3, <2>4
<1> HIDE DEF Nth
<1>10. Picked(kept, p) = [n \in 1 .. m |-> d[n]]
  BY <1>2, <1>4, <1>7, <1>9
<1>11. d = [n \in 1 .. Len(d) |-> d[n]]
  BY ONLY <1>1, LenProperties
<1> QED BY <1>4, <1>10, <1>11 DEF d, kept

=============================================================================
