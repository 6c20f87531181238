------------------------- MODULE AmountParser_proofs -------------------------
(***************************************************************************)
(* An amount is worth exactly what it says, or is refused: for texts of    *)
(* any length, any count of decimals and any word.  Powers, the parser's   *)
(* loop and the number a text spells are recursive functions; that they    *)
(* exist and what they satisfy is shown with the least element of a set of *)
(* counterexamples.                                                        *)
(***************************************************************************)
EXTENDS AmountParser, WellFoundedInduction, TLAPS

-----------------------------------------------------------------------------
(* Induction and recursion.                                                *)

LEMMA LeastElement ==
  ASSUME NEW T, T \subseteq Nat, T # {}
  PROVE  \E x \in T : \A y \in T : x <= y
<1> DEFINE R == OpToRel(<, Nat)
<1>1. IsWellFoundedOn(R, Nat)
  BY NatLessThanWellFounded
<1>2. R = {ss \in Nat \X Nat : ss[1] < ss[2]}
  BY DEF OpToRel
<1> HIDE DEF R
<1>3. \E x \in T : \A y \in T : ~ (<<y, x>> \in R)
  BY <1>1, WFMin
<1>4. \A x, y \in T : ~ (<<y, x>> \in R) => x <= y
  BY <1>2
<1> QED
  BY <1>3, <1>4

(* A set that holds 0, and n + 1 with n, up to some number.                *)
LEMMA UpToN ==
  ASSUME NEW n \in Nat, NEW P, 0 \in P,
         \A m \in 0..n : m < n /\ m \in P => m + 1 \in P
  PROVE  \A m \in 0..n : m \in P
<1> DEFINE T == {m \in 0..n : m \notin P}
<1> SUFFICES ASSUME T # {} PROVE FALSE
  OBVIOUS
<1>1. PICK x \in T : \A y \in T : x <= y
  <2>1. T \subseteq Nat
    OBVIOUS
  <2> QED
    BY <2>1, LeastElement
<1>2. x \in 0..n /\ x # 0 /\ x \notin P
  OBVIOUS
<1>3. x - 1 \in 0..n /\ x - 1 < n /\ (x - 1) + 1 = x
  BY <1>2
<1>4. x - 1 \in P
  BY <1>1, <1>3
<1> QED
  BY <1>2, <1>3, <1>4

(* A function by recursion over an interval: its first value and a step.   *)
IsRecursion(f, n, S, a, g) ==
  /\ f \in [0..n -> S]
  /\ f[0] = a
  /\ \A i \in 1..n : f[i] = g[<<i, f[i - 1]>>]

LEMMA RecursionExists ==
  ASSUME NEW n \in Nat, NEW S, NEW a \in S, NEW g,
         \A i \in 1..n, x \in S : g[<<i, x>>] \in S
  PROVE  \E f : IsRecursion(f, n, S, a, g)
<1> DEFINE P == {m \in 0..n : \E f : IsRecursion(f, m, S, a, g)}
<1>1. 0 \in P
  <2> DEFINE f == [i \in 0..0 |-> a]
  <2>1. IsRecursion(f, 0, S, a, g)
    BY DEF IsRecursion
  <2> QED
    BY <2>1
<1>2. ASSUME NEW m \in 0..n, m < n, m \in P PROVE m + 1 \in P
  <2>1. PICK f : IsRecursion(f, m, S, a, g)
    BY <1>2
  <2> DEFINE h == [i \in 0..m + 1 |-> IF i = m + 1 THEN g[<<m + 1, f[m]>>] ELSE f[i]]
  <2>2. f \in [0..m -> S] /\ f[0] = a /\ \A i \in 1..m : f[i] = g[<<i, f[i - 1]>>]
    BY <2>1 DEF IsRecursion
  <2>3. m \in Nat /\ m + 1 \in 1..n /\ m \in 0..m
    BY <1>2
  <2>4. g[<<m + 1, f[m]>>] \in S
    BY <2>2, <2>3
  <2>5. h \in [0..m + 1 -> S]
    BY <2>2, <2>3, <2>4
  <2>6. h[0] = a
    BY <2>2, <2>3
  <2>7. ASSUME NEW i \in 1..m + 1 PROVE h[i] = g[<<i, h[i - 1]>>]
    <3>1. i - 1 \in 0..m /\ i - 1 # m + 1 /\ h[i - 1] = f[i - 1]
      BY <2>3
    <3>2. CASE i = m + 1
      <4>1. h[i] = g[<<m + 1, f[m]>>]
        BY <2>3, <3>2
      <4>2. i - 1 = m
        BY <2>3, <3>2
      <4> HIDE DEF h
      <4> QED
        BY <3>1, <3>2, <4>1, <4>2
    <3>3. CASE i # m + 1
      <4>1. i \in 1..m
        BY <2>3, <3>3
      <4> QED
        BY <2>2, <2>3, <3>1, <3>3, <4>1
    <3> QED
      BY <3>2, <3>3
  <2>8. IsRecursion(h, m + 1, S, a, g)
    BY <2>5, <2>6, <2>7 DEF IsRecursion
  <2> QED
    BY <2>3, <2>8
<1> HIDE DEF P
<1>3. \A m \in 0..n : m \in P
  BY <1>1, <1>2, UpToN
<1>4. n \in P
  BY <1>3
<1> QED
  BY <1>4 DEF P

LEMMA RecursionUnique ==
  ASSUME NEW S, NEW a, NEW g, NEW n \in Nat, NEW m \in 0..n, NEW f, NEW h,
         IsRecursion(f, n, S, a, g), IsRecursion(h, m, S, a, g)
  PROVE  f[m] = h[m]
<1> DEFINE P == {i \in 0..m : f[i] = h[i]}
<1>1. 0 \in P
  BY DEF IsRecursion
<1>2. ASSUME NEW i \in 0..m, i < m, i \in P PROVE i + 1 \in P
  <2>1. i + 1 \in 1..m /\ i + 1 \in 1..n /\ (i + 1) - 1 = i /\ i + 1 \in 0..m
    BY <1>2
  <2>2. f[i + 1] = g[<<i + 1, f[i]>>] /\ h[i + 1] = g[<<i + 1, h[i]>>]
    BY <2>1 DEF IsRecursion
  <2> QED
    BY <1>2, <2>1, <2>2
<1> HIDE DEF P
<1>3. \A i \in 0..m : i \in P
  BY <1>1, <1>2, UpToN
<1>4. m \in P
  BY <1>3
<1> QED
  BY <1>4 DEF P

(* Products that the solver does not find by itself.                       *)
LEMMA ProductNotLess ==
  ASSUME NEW a \in Nat, NEW b \in Nat, b # 0
  PROVE  a * b \in Nat /\ a <= a * b
OBVIOUS

LEMMA ProductAssociates ==
  ASSUME NEW a \in Nat, NEW b \in Nat, NEW c \in Nat
  PROVE  (a * b) * c = a * (b * c)
OBVIOUS

LEMMA ProductDistributes ==
  ASSUME NEW a \in Nat, NEW b \in Nat, NEW c \in Nat
  PROVE  (a + b) * c = a * c + b * c
OBVIOUS

-----------------------------------------------------------------------------
(* Powers of ten.                                                          *)

LEMMA Pow10Recursion ==
  /\ Pow10 \in [Nat -> Nat]
  /\ Pow10[0] = 1
  /\ \A n \in Nat : Pow10[n + 1] = 10 * Pow10[n]
<1> DEFINE g == [e \in Nat \X Nat |-> 10 * e[2]]
           q(n) == CHOOSE f : IsRecursion(f, n, Nat, 1, g)
           p == [n \in Nat |-> q(n)[n]]
<1>1. \A i \in Nat, x \in Nat : g[<<i, x>>] = 10 * x
  OBVIOUS
<1> HIDE DEF g
<1>2. ASSUME NEW n \in Nat PROVE IsRecursion(q(n), n, Nat, 1, g)
  <2>1. ASSUME NEW i \in 1..n, NEW x \in Nat PROVE g[<<i, x>>] \in Nat
    <3>1. i \in Nat /\ 10 * x \in Nat
      OBVIOUS
    <3> QED
      BY <1>1, <3>1
  <2>2. \E f : IsRecursion(f, n, Nat, 1, g)
    BY <2>1, RecursionExists
  <2> QED
    BY <2>2
<1> HIDE DEF q
<1>3. ASSUME NEW n \in Nat PROVE p[n] \in Nat
  BY <1>2 DEF IsRecursion
<1>4. p[0] = 1
  BY <1>2 DEF IsRecursion
<1>5. ASSUME NEW n \in Nat PROVE p[n + 1] = 10 * p[n]
  <2>1. IsRecursion(q(n + 1), n + 1, Nat, 1, g) /\ IsRecursion(q(n), n, Nat, 1, g)
    BY <1>2
  <2>2. q(n + 1)[n] = q(n)[n]
    <3>1. n + 1 \in Nat /\ n \in 0..n + 1
      OBVIOUS
    <3> QED
      BY <2>1, <3>1, RecursionUnique
  <2>3. q(n + 1)[n + 1] = g[<<n + 1, q(n + 1)[n]>>]
    <3>1. n + 1 \in 1..n + 1 /\ (n + 1) - 1 = n
      OBVIOUS
    <3> QED
      BY <2>1, <3>1 DEF IsRecursion
  <2>4. q(n)[n] \in Nat
    BY <2>1 DEF IsRecursion
  <2> QED
    BY <1>1, <2>2, <2>3, <2>4
<1> HIDE DEF p
<1>6. p = [n \in Nat |-> IF n = 0 THEN 1 ELSE 10 * p[n - 1]]
  <2>1. p = [n \in Nat |-> p[n]]
    BY DEF p
  <2>2. ASSUME NEW n \in Nat PROVE p[n] = IF n = 0 THEN 1 ELSE 10 * p[n - 1]
    <3>1. CASE n = 0
      BY <1>4, <3>1
    <3>2. CASE n # 0
      <4>1. n - 1 \in Nat /\ (n - 1) + 1 = n
        BY <3>2
      <4> QED
        BY <1>5, <3>2, <4>1
    <3> QED
      BY <3>1, <3>2
  <2> QED
    BY <2>1, <2>2
<1>7. Pow10 = [n \in Nat |-> IF n = 0 THEN 1 ELSE 10 * Pow10[n - 1]]
  BY <1>6 DEF Pow10
<1>8. \A n \in Nat : Pow10[n] = p[n]
  <2>1. ASSUME NEW n \in Nat PROVE Pow10[n] = p[n]
    <3> DEFINE P == {i \in 0..n : Pow10[i] = p[i]}
    <3>1. 0 \in P
      BY <1>4, <1>7
    <3>2. ASSUME NEW i \in 0..n, i < n, i \in P PROVE i + 1 \in P
      <4>1. i + 1 \in Nat /\ i + 1 # 0 /\ (i + 1) - 1 = i /\ i \in Nat
        OBVIOUS
      <4>2. Pow10[i + 1] = 10 * Pow10[i]
        BY <1>7, <4>1
      <4> QED
        BY <1>5, <3>2, <4>1, <4>2
    <3> HIDE DEF P
    <3>3. n \in P
      <4>1. \A i \in 0..n : i \in P
        BY <3>1, <3>2, UpToN
      <4> QED
        BY <4>1
    <3> QED
      BY <3>3 DEF P
  <2> QED
    BY <2>1
<1> QED
  BY <1>3, <1>4, <1>5, <1>7, <1>8

LEMMA Pow10Positive == \A n \in Nat : Pow10[n] \in Nat /\ Pow10[n] # 0
<1>1. ASSUME NEW n \in Nat PROVE Pow10[n] # 0
  <2> DEFINE P == {i \in 0..n : Pow10[i] # 0}
  <2>1. 0 \in P
    BY Pow10Recursion
  <2>2. ASSUME NEW i \in 0..n, i < n, i \in P PROVE i + 1 \in P
    <3>1. i \in Nat /\ Pow10[i] \in Nat /\ Pow10[i + 1] = 10 * Pow10[i]
      BY Pow10Recursion
    <3> QED
      BY <2>2, <3>1
  <2> HIDE DEF P
  <2>3. \A i \in 0..n : i \in P
    BY <2>1, <2>2, UpToN
  <2>4. n \in P
    BY <2>3
  <2> QED
    BY <2>4 DEF P
<1> QED
  BY <1>1, Pow10Recursion

LEMMA Pow10Sum ==
  ASSUME NEW m \in Nat, NEW n \in Nat
  PROVE  Pow10[m + n] = Pow10[m] * Pow10[n]
<1> DEFINE P == {i \in 0..n : Pow10[m + i] = Pow10[m] * Pow10[i]}
<1>1. 0 \in P
  BY Pow10Recursion
<1>2. ASSUME NEW i \in 0..n, i < n, i \in P PROVE i + 1 \in P
  <2>1. /\ Pow10[i + 1] = 10 * Pow10[i]
        /\ Pow10[m + i + 1] = 10 * Pow10[m + i]
        /\ Pow10[m] \in Nat /\ Pow10[i] \in Nat
    BY Pow10Recursion
  <2>2. m + (i + 1) = m + i + 1
    OBVIOUS
  <2>3. 10 * (Pow10[m] * Pow10[i]) = Pow10[m] * (10 * Pow10[i])
    BY <2>1
  <2> QED
    BY <1>2, <2>1, <2>2, <2>3
<1> HIDE DEF P
<1>3. \A i \in 0..n : i \in P
  BY <1>1, <1>2, UpToN
<1>4. n \in P
  BY <1>3
<1> QED
  BY <1>4 DEF P

-----------------------------------------------------------------------------
(* The number a text spells, and what the parser's loop reads of it.       *)

Characters == Digit \cup {Dot, OtherCharacter}

LEMMA SpelledRecursion ==
  ASSUME NEW s \in Seq(Characters)
  PROVE  /\ Spelled(s) \in [0..Len(s) -> Nat]
         /\ Spelled(s)[0] = 0
         /\ \A n \in 1..Len(s) :
              Spelled(s)[n] = IF s[n] \in Digit THEN 10 * Spelled(s)[n - 1] + s[n]
                              ELSE Spelled(s)[n - 1]
<1> DEFINE l == Len(s)
           next(c, x) == IF c \in Digit THEN 10 * x + c ELSE x
           g == [e \in (1..l) \X Nat |-> next(s[e[1]], e[2])]
<1>1. l \in Nat
  OBVIOUS
<1>2. ASSUME NEW i \in 1..l, NEW x \in Nat PROVE g[<<i, x>>] = next(s[i], x) /\ g[<<i, x>>] \in Nat
  <2>1. \A c : next(c, x) \in Nat
    BY DEF Digit
  <2>2. g[<<i, x>>] = next(s[i], x)
    OBVIOUS
  <2> QED
    BY <2>1, <2>2
<1> HIDE DEF g, l
<1>3. PICK f : IsRecursion(f, l, Nat, 0, g)
  BY <1>1, <1>2, RecursionExists
<1>4. f \in [0..l -> Nat] /\ f[0] = 0 /\ \A n \in 1..l : f[n] = next(s[n], f[n - 1])
  <2>1. f \in [0..l -> Nat] /\ f[0] = 0 /\ \A n \in 1..l : f[n] = g[<<n, f[n - 1]>>]
    BY <1>3 DEF IsRecursion
  <2>2. ASSUME NEW n \in 1..l PROVE f[n] = next(s[n], f[n - 1])
    <3>1. n - 1 \in 0..l
      BY <1>1
    <3>2. f[n - 1] \in Nat
      BY <2>1, <3>1
    <3> QED
      BY <1>2, <2>1, <3>2
  <2> QED
    BY <2>1, <2>2
<1>5. f = [n \in 0..l |-> IF n = 0 THEN 0 ELSE next(s[n], f[n - 1])]
  <2>1. f = [n \in 0..l |-> f[n]]
    BY <1>4
  <2>2. ASSUME NEW n \in 0..l PROVE f[n] = IF n = 0 THEN 0 ELSE next(s[n], f[n - 1])
    <3>1. n = 0 \/ n \in 1..l
      BY <1>1
    <3> QED
      BY <1>4, <3>1
  <2> QED
    BY <2>1, <2>2
<1>6. Spelled(s) = [n \in 0..l |-> IF n = 0 THEN 0 ELSE next(s[n], Spelled(s)[n - 1])]
  BY <1>5 DEF Spelled, l
<1>7. ASSUME NEW n \in 0..l PROVE Spelled(s)[n] \in Nat
  <2> DEFINE P == {i \in 0..n : Spelled(s)[i] \in Nat}
  <2>1. 0 \in P
    BY <1>1, <1>6
  <2>2. ASSUME NEW i \in 0..n, i < n, i \in P PROVE i + 1 \in P
    <3>1. i + 1 \in 0..l /\ i + 1 # 0 /\ (i + 1) - 1 = i /\ i + 1 \in 0..n
      BY <1>1, <2>2
    <3>2. Spelled(s)[i + 1] = next(s[i + 1], Spelled(s)[i])
      BY <1>6, <3>1
    <3>3. Spelled(s)[i] \in Nat
      BY <2>2
    <3>4. \A c, x : x \in Nat => next(c, x) \in Nat
      BY DEF Digit
    <3> HIDE DEF next
    <3>5. Spelled(s)[i + 1] \in Nat
      BY <3>2, <3>3, <3>4
    <3> QED
      BY <3>1, <3>5
  <2> HIDE DEF P
  <2>3. \A i \in 0..n : i \in P
    BY <1>1, <2>1, <2>2, UpToN
  <2>4. n \in P
    BY <1>1, <2>3
  <2> QED
    BY <2>4 DEF P
<1>8. \A n \in 1..l : n \in 0..l /\ n # 0
  BY <1>1
<1>9. /\ Spelled(s) \in [0..l -> Nat] /\ Spelled(s)[0] = 0
      /\ \A n \in 1..l : Spelled(s)[n] = next(s[n], Spelled(s)[n - 1])
  BY <1>1, <1>6, <1>7, <1>8
<1> QED
  BY <1>9 DEF l

(* One byte of parse_u64_decimal's loop.                                   *)
WithDigit(read, c) ==
  IF c \notin Digit THEN {}
  ELSE UNION {CheckedAdd(m, c) : m \in UNION {CheckedMul(k, 10) : k \in read}}

UpToMax(v) == IF v <= MaxU64 THEN {v} ELSE {}

LEMMA ReadRecursion ==
  ASSUME NEW s \in Seq(Characters)
  PROVE  /\ ReadSoFar(s)[0] = {0}
         /\ \A n \in 1..Len(s) : ReadSoFar(s)[n] = WithDigit(ReadSoFar(s)[n - 1], s[n])
<1> DEFINE l == Len(s)
           S == SUBSET Nat
           g == [e \in (1..l) \X S |-> WithDigit(e[2], s[e[1]])]
<1>1. l \in Nat
  OBVIOUS
<1>2. ASSUME NEW i \in 1..l, NEW x \in S
      PROVE  g[<<i, x>>] = WithDigit(x, s[i]) /\ g[<<i, x>>] \in S
  <2>1. \A c : WithDigit(x, c) \in S
    BY MaxU64Assumption DEF WithDigit, CheckedAdd
  <2>2. g[<<i, x>>] = WithDigit(x, s[i])
    OBVIOUS
  <2> QED
    BY <2>1, <2>2
<1> HIDE DEF g, l
<1>3. PICK f : IsRecursion(f, l, S, {0}, g)
  <2>1. {0} \in S
    OBVIOUS
  <2> HIDE DEF S
  <2> QED
    BY <1>1, <1>2, <2>1, RecursionExists
<1>4. f \in [0..l -> S] /\ f[0] = {0} /\ \A n \in 1..l : f[n] = WithDigit(f[n - 1], s[n])
  <2>1. f \in [0..l -> S] /\ f[0] = {0} /\ \A n \in 1..l : f[n] = g[<<n, f[n - 1]>>]
    BY <1>3 DEF IsRecursion
  <2>2. ASSUME NEW n \in 1..l PROVE f[n] = WithDigit(f[n - 1], s[n])
    <3>1. n - 1 \in 0..l
      BY <1>1
    <3>2. f[n - 1] \in S
      BY <2>1, <3>1
    <3> QED
      BY <1>2, <2>1, <3>2
  <2> QED
    BY <2>1, <2>2
<1>5. f = [n \in 0..l |-> IF n = 0 THEN {0} ELSE WithDigit(f[n - 1], s[n])]
  <2>1. f = [n \in 0..l |-> f[n]]
    BY <1>4
  <2>2. ASSUME NEW n \in 0..l PROVE f[n] = IF n = 0 THEN {0} ELSE WithDigit(f[n - 1], s[n])
    <3>1. n = 0 \/ n \in 1..l
      BY <1>1
    <3> QED
      BY <1>4, <3>1
  <2> QED
    BY <2>1, <2>2
<1>6. ReadSoFar(s) = [n \in 0..l |-> IF n = 0 THEN {0} ELSE WithDigit(ReadSoFar(s)[n - 1], s[n])]
  BY <1>5 DEF ReadSoFar, WithDigit, l
<1>7. \A n \in 1..l : n \in 0..l /\ n # 0
  BY <1>1
<1>8. /\ ReadSoFar(s)[0] = {0}
      /\ \A n \in 1..l : ReadSoFar(s)[n] = WithDigit(ReadSoFar(s)[n - 1], s[n])
  <2> DEFINE r == ReadSoFar(s)
  <2>1. r = [n \in 0..l |-> IF n = 0 THEN {0} ELSE WithDigit(r[n - 1], s[n])]
    BY <1>6
  <2>2. 0 \in 0..l
    BY <1>1
  <2> HIDE DEF r
  <2>3. r[0] = {0} /\ \A n \in 1..l : r[n] = WithDigit(r[n - 1], s[n])
    BY <1>7, <2>1, <2>2
  <2> QED
    BY <2>3 DEF r
<1> QED
  BY <1>8 DEF l

LEMMA CheckedFits == \A v \in Nat : {v} \cap 0..MaxU64 = UpToMax(v)
BY MaxU64Assumption DEF UpToMax

LEMMA OneMoreDigit ==
  ASSUME NEW v \in Nat, NEW c \in Digit
  PROVE  WithDigit(UpToMax(v), c) = UpToMax(10 * v + c)
<1> DEFINE w == 10 * v
<1>1. c \in Nat /\ w \in Nat /\ w = v * 10 /\ v <= w
  BY DEF Digit
<1>2. WithDigit(UpToMax(v), c) = UNION {CheckedAdd(m, c) : m \in UNION {CheckedMul(k, 10) : k \in UpToMax(v)}}
  BY DEF WithDigit
<1>3. CheckedMul(v, 10) = UpToMax(w)
  BY <1>1, CheckedFits DEF CheckedMul
<1> HIDE DEF w
<1>4. CheckedAdd(w, c) = UpToMax(w + c)
  BY <1>1, CheckedFits DEF CheckedAdd
<1>5. CASE v > MaxU64
  <2>1. UpToMax(v) = {} /\ UpToMax(w + c) = {}
    BY <1>1, <1>5, MaxU64Assumption DEF UpToMax
  <2> QED
    BY <1>2, <2>1 DEF w
<1>6. CASE v <= MaxU64 /\ w > MaxU64
  <2>1. UpToMax(v) = {v} /\ UpToMax(w) = {} /\ UpToMax(w + c) = {}
    BY <1>1, <1>6, MaxU64Assumption DEF UpToMax
  <2> QED
    BY <1>2, <1>3, <2>1 DEF w
<1>7. CASE w <= MaxU64
  <2>1. UpToMax(v) = {v} /\ UpToMax(w) = {w}
    BY <1>1, <1>7, MaxU64Assumption DEF UpToMax
  <2>2. WithDigit(UpToMax(v), c) = CheckedAdd(w, c)
    BY <1>2, <1>3, <2>1
  <2> QED
    BY <1>4, <2>2 DEF w
<1> QED
  BY <1>1, <1>5, <1>6, <1>7, MaxU64Assumption

AllDigits(s, n) == \A i \in 1..n : s[i] \in Digit

(* parse_u64_decimal reads the number its bytes spell, if they are digits  *)
(* and it fits.                                                            *)
LEMMA LoopReads ==
  ASSUME NEW s \in Seq(Characters), NEW n \in 0..Len(s)
  PROVE  ReadSoFar(s)[n] = IF AllDigits(s, n) THEN UpToMax(Spelled(s)[n]) ELSE {}
<1> DEFINE P == {i \in 0..n : ReadSoFar(s)[i] = IF AllDigits(s, i) THEN UpToMax(Spelled(s)[i]) ELSE {}}
<1>1. n \in Nat /\ Len(s) \in Nat
  OBVIOUS
<1>2. 0 \in P
  <2>1. AllDigits(s, 0)
    BY DEF AllDigits
  <2> QED
    BY <1>1, <2>1, ReadRecursion, SpelledRecursion, MaxU64Assumption DEF UpToMax
<1>3. ASSUME NEW i \in 0..n, i < n, i \in P PROVE i + 1 \in P
  <2> DEFINE v == Spelled(s)[i]
             c == s[i + 1]
  <2>1. i + 1 \in 1..Len(s) /\ i \in 0..Len(s) /\ (i + 1) - 1 = i /\ i + 1 \in 0..n
    BY <1>1, <1>3
  <2>2. v \in Nat
    BY <2>1, SpelledRecursion
  <2>3. /\ ReadSoFar(s)[i + 1] = WithDigit(ReadSoFar(s)[i], c)
        /\ Spelled(s)[i + 1] = IF c \in Digit THEN 10 * v + c ELSE v
    BY <2>1, ReadRecursion, SpelledRecursion
  <2>4. ReadSoFar(s)[i] = IF AllDigits(s, i) THEN UpToMax(v) ELSE {}
    BY <1>3
  <2>5. AllDigits(s, i + 1) <=> AllDigits(s, i) /\ c \in Digit
    BY <2>1 DEF AllDigits
  <2> HIDE DEF v, c
  <2>6. ReadSoFar(s)[i + 1] = IF AllDigits(s, i + 1) THEN UpToMax(Spelled(s)[i + 1]) ELSE {}
    <3>1. CASE c \notin Digit
      BY <2>3, <2>5, <3>1 DEF WithDigit
    <3>2. CASE c \in Digit /\ ~ AllDigits(s, i)
      BY <2>3, <2>4, <2>5, <3>2 DEF WithDigit
    <3>3. CASE c \in Digit /\ AllDigits(s, i)
      BY <2>2, <2>3, <2>4, <2>5, <3>3, OneMoreDigit
    <3> QED
      BY <3>1, <3>2, <3>3
  <2> QED
    BY <2>1, <2>6
<1> HIDE DEF P
<1>4. \A i \in 0..n : i \in P
  BY <1>1, <1>2, <1>3, UpToN
<1>5. n \in P
  BY <1>1, <1>4
<1> QED
  BY <1>5 DEF P

-----------------------------------------------------------------------------
(* The two sides of the dot.                                               *)

LEMMA FirstDot ==
  ASSUME NEW s \in Seq(Characters)
  PROVE  /\ BeforeDot(s) \in 0..Len(s)
         /\ \A i \in 1..BeforeDot(s) : s[i] # Dot
         /\ BeforeDot(s) < Len(s) => s[BeforeDot(s) + 1] = Dot
<1> DEFINE l == Len(s)
           T == {i \in 0..l : i < l => s[i + 1] = Dot}
<1>1. l \in Nat
  OBVIOUS
<1> HIDE DEF l
<1>2. l \in T /\ T \subseteq Nat
  BY <1>1
<1>3. PICK k \in T : \A i \in T : k <= i
  BY <1>2, LeastElement
<1>4. k \in 0..l /\ (k < l => s[k + 1] = Dot)
  OBVIOUS
<1>5. ASSUME NEW i \in 1..k PROVE s[i] # Dot
  <2>1. i - 1 \in 0..l /\ i - 1 < l /\ (i - 1) + 1 = i /\ ~ (k <= i - 1)
    BY <1>1, <1>4
  <2>2. i - 1 \notin T
    BY <1>3, <2>1
  <2> QED
    BY <2>1, <2>2
<1>6. \E x \in 0..l : (\A i \in 1..x : s[i] # Dot) /\ (x < l => s[x + 1] = Dot)
  BY <1>4, <1>5
<1> QED
  BY <1>6 DEF BeforeDot, l

LEMMA Parts ==
  ASSUME NEW s \in Seq(Characters)
  PROVE  /\ Whole(s) \in Seq(Characters) /\ Len(Whole(s)) = BeforeDot(s)
         /\ \A i \in 1..BeforeDot(s) : Whole(s)[i] = s[i]
         /\ Fractional(s) \in Seq(Characters)
         /\ Len(Fractional(s)) = IF BeforeDot(s) < Len(s) THEN Len(s) - BeforeDot(s) - 1 ELSE 0
         /\ \A i \in 1..Len(Fractional(s)) : Fractional(s)[i] = s[BeforeDot(s) + 1 + i]
<1> DEFINE k == BeforeDot(s)
<1>1. k \in 0..Len(s) /\ Len(s) \in Nat
  BY FirstDot
<1> HIDE DEF k
<1>2. /\ SubSeq(s, 1, k) \in Seq(Characters) /\ Len(SubSeq(s, 1, k)) = k
      /\ \A i \in 1..k : SubSeq(s, 1, k)[i] = s[i]
  BY <1>1
<1>3. /\ SubSeq(s, k + 2, Len(s)) \in Seq(Characters)
      /\ Len(SubSeq(s, k + 2, Len(s))) = IF k < Len(s) THEN Len(s) - k - 1 ELSE 0
      /\ \A i \in 1..Len(SubSeq(s, k + 2, Len(s))) : SubSeq(s, k + 2, Len(s))[i] = s[k + 1 + i]
  BY <1>1
<1> QED
  BY <1>2, <1>3 DEF Whole, Fractional, k

LEMMA SpelledPrefix ==
  ASSUME NEW s \in Seq(Characters), NEW t \in Seq(Characters),
         NEW k \in 0..Len(s), k <= Len(t), \A i \in 1..k : s[i] = t[i]
  PROVE  Spelled(s)[k] = Spelled(t)[k]
<1> DEFINE P == {i \in 0..k : Spelled(s)[i] = Spelled(t)[i]}
<1>1. k \in Nat /\ Len(s) \in Nat /\ Len(t) \in Nat
  OBVIOUS
<1>2. 0 \in P
  BY <1>1, SpelledRecursion
<1>3. ASSUME NEW i \in 0..k, i < k, i \in P PROVE i + 1 \in P
  <2>1. /\ i + 1 \in 1..Len(s) /\ i + 1 \in 1..Len(t) /\ i + 1 \in 1..k /\ i + 1 \in 0..k
        /\ (i + 1) - 1 = i
    BY <1>1, <1>3
  <2>2. s[i + 1] = t[i + 1] /\ Spelled(s)[i] = Spelled(t)[i]
    BY <1>3, <2>1
  <2>3. Spelled(s)[i + 1] = IF s[i + 1] \in Digit THEN 10 * Spelled(s)[i] + s[i + 1] ELSE Spelled(s)[i]
    BY <2>1, SpelledRecursion
  <2>4. Spelled(t)[i + 1] = IF t[i + 1] \in Digit THEN 10 * Spelled(t)[i] + t[i + 1] ELSE Spelled(t)[i]
    BY <2>1, SpelledRecursion
  <2>5. Spelled(s)[i + 1] = Spelled(t)[i + 1]
    BY <2>2, <2>3, <2>4
  <2> QED
    BY <2>1, <2>5
<1> HIDE DEF P
<1>4. \A i \in 0..k : i \in P
  BY <1>1, <1>2, <1>3, UpToN
<1>5. k \in P
  BY <1>1, <1>4
<1> QED
  BY <1>5 DEF P

(* What an amount spells is put together from what its two sides spell.    *)
LEMMA SpelledParts ==
  ASSUME NEW s \in Seq(Characters), AllDigits(Fractional(s), Len(Fractional(s)))
  PROVE  Spelled(s)[Len(s)]
           = Spelled(Whole(s))[Len(Whole(s))] * Pow10[Len(Fractional(s))]
             + Spelled(Fractional(s))[Len(Fractional(s))]
<1> DEFINE k == BeforeDot(s)
           f == Fractional(s)
           w == Spelled(Whole(s))[k]
           P == {i \in 0..Len(f) : Spelled(s)[k + 1 + i] = w * Pow10[i] + Spelled(f)[i]}
<1>1. k \in 0..Len(s) /\ Len(s) \in Nat /\ (k < Len(s) => s[k + 1] = Dot)
  BY FirstDot
<1>2. /\ Whole(s) \in Seq(Characters) /\ Len(Whole(s)) = k
      /\ \A i \in 1..k : Whole(s)[i] = s[i]
      /\ f \in Seq(Characters)
      /\ Len(f) = IF k < Len(s) THEN Len(s) - k - 1 ELSE 0
      /\ \A i \in 1..Len(f) : f[i] = s[k + 1 + i]
  BY Parts
<1>3. \A i \in 1..Len(f) : f[i] \in Digit
  BY DEF AllDigits
<1> HIDE DEF k, f
<1>4. Spelled(s)[k] = w
  <2>1. k <= Len(Whole(s)) /\ \A i \in 1..k : s[i] = Whole(s)[i]
    BY <1>1, <1>2
  <2> QED
    BY <1>1, <1>2, <2>1, SpelledPrefix
<1>5. w \in Nat
  <2>1. k \in 0..Len(Whole(s))
    BY <1>1, <1>2
  <2>2. Spelled(Whole(s)) \in [0..Len(Whole(s)) -> Nat]
    BY <1>2, SpelledRecursion
  <2> QED
    BY <2>1, <2>2
<1> HIDE DEF w, P
<1> DEFINE l == Len(f)
<1>6. l \in Nat
  BY <1>2
<1>7. /\ Spelled(f) \in [0..l -> Nat] /\ Spelled(f)[0] = 0
      /\ \A n \in 1..l : Spelled(f)[n] = IF f[n] \in Digit THEN 10 * Spelled(f)[n - 1] + f[n]
                                         ELSE Spelled(f)[n - 1]
  BY <1>2, SpelledRecursion
<1>8. k < Len(s) => Len(s) = k + 1 + l
  BY <1>1, <1>2, <1>6
<1> HIDE DEF l
<1>9. CASE k = Len(s)
  <2>1. l = 0 /\ Spelled(f)[l] = 0 /\ Pow10[l] = 1
    BY <1>1, <1>2, <1>9, <1>7, Pow10Recursion DEF l
  <2>2. Spelled(s)[Len(s)] = w * Pow10[l] + Spelled(f)[l]
    BY <1>4, <1>5, <1>9, <2>1
  <2> QED
    BY <1>2, <2>2 DEF f, w, l
<1>10. CASE k < Len(s)
  <2>1. 0 \in P
    <3>1. k + 1 \in 1..Len(s) /\ (k + 1) - 1 = k /\ s[k + 1] \notin Digit
      BY <1>1, <1>10 DEF Dot, Digit
    <3>2. Spelled(s)[k + 1] = w
      BY <1>4, <3>1, SpelledRecursion
    <3>3. Spelled(f)[0] = 0 /\ Pow10[0] = 1 /\ k + 1 + 0 = k + 1 /\ 0 \in 0..l
      BY <1>1, <1>6, <1>7, Pow10Recursion
    <3>4. Spelled(s)[k + 1 + 0] = w * Pow10[0] + Spelled(f)[0]
      BY <1>5, <3>2, <3>3
    <3> QED
      BY <3>3, <3>4 DEF P, l
  <2>2. ASSUME NEW i \in 0..l, i < l, i \in P PROVE i + 1 \in P
    <3> DEFINE c == f[i + 1]
               x == Spelled(f)[i]
               y == Pow10[i]
    <3>1. /\ i \in Nat /\ k \in Nat
          /\ i + 1 \in 1..l /\ i + 1 \in 0..l /\ (i + 1) - 1 = i
      BY <1>1, <1>6, <2>2
    <3>2. k + 1 + (i + 1) \in 1..Len(s) /\ (k + 1 + (i + 1)) - 1 = k + 1 + i
      BY <1>10, <1>6, <1>8, <3>1
    <3>3. c \in Digit /\ s[k + 1 + (i + 1)] = c
      BY <1>2, <1>3, <3>1 DEF l
    <3>4. Spelled(s)[k + 1 + (i + 1)] = 10 * Spelled(s)[k + 1 + i] + c
      BY <3>2, <3>3, SpelledRecursion
    <3>5. Spelled(f)[i + 1] = 10 * x + c
      BY <1>7, <3>1, <3>3
    <3>6. Pow10[i + 1] = 10 * y /\ y \in Nat
      BY <3>1, Pow10Recursion
    <3>7. Spelled(s)[k + 1 + i] = w * y + x
      BY <2>2 DEF P
    <3>8. c \in Nat
      BY <3>3 DEF Digit
    <3>9. x \in Nat
      BY <1>7
    <3> HIDE DEF c, x, y
    <3>10. 10 * (w * y + x) + c = w * (10 * y) + (10 * x + c)
      BY <1>5, <3>6, <3>8, <3>9
    <3>11. Spelled(s)[k + 1 + (i + 1)] = w * Pow10[i + 1] + Spelled(f)[i + 1]
      BY <3>4, <3>5, <3>6, <3>7, <3>10
    <3> QED
      BY <3>1, <3>11 DEF P, l
  <2>3. l \in P
    <3>1. \A i \in 0..l : i \in P
      BY <1>6, <2>1, <2>2, UpToN
    <3> QED
      BY <1>6, <3>1
  <2>4. Spelled(s)[k + 1 + l] = w * Pow10[l] + Spelled(f)[l]
    BY <2>3 DEF P
  <2>5. Spelled(s)[Len(s)] = w * Pow10[l] + Spelled(f)[l]
    BY <1>10, <1>8, <2>4
  <2> QED
    BY <1>2, <2>5 DEF f, w, l
<1> QED
  BY <1>1, <1>9, <1>10

(* The text is an amount exactly when its two sides are digits and they    *)
(* are not both empty.                                                     *)
LEMMA IsAmountParts ==
  ASSUME NEW s \in Seq(Characters)
  PROVE  IsAmount(s) <=> /\ AllDigits(Whole(s), Len(Whole(s)))
                         /\ AllDigits(Fractional(s), Len(Fractional(s)))
                         /\ ~ (Len(Whole(s)) = 0 /\ Len(Fractional(s)) = 0)
<1> DEFINE k == BeforeDot(s)
           n == Len(s)
           w == Whole(s)
           f == Fractional(s)
           l == Len(f)
<1>1. /\ k \in 0..n /\ n \in Nat /\ k \in Nat /\ (k < n => s[k + 1] = Dot)
      /\ \A i \in 1..k : s[i] # Dot
  BY FirstDot
<1>2. /\ Len(w) = k /\ \A i \in 1..k : w[i] = s[i]
      /\ l \in Nat /\ l = IF k < n THEN n - k - 1 ELSE 0
      /\ \A i \in 1..l : f[i] = s[k + 1 + i]
  BY Parts
<1>3. IsAmount(s) <=> /\ \E i \in 1..n : s[i] \in Digit
                      /\ \A i \in 1..n : s[i] \in Digit \/ (s[i] = Dot /\ \A j \in 1..i-1 : s[j] # Dot)
  BY DEF IsAmount
<1> HIDE DEF k, n, w, f, l
<1>4. k < n => n = k + 1 + l
  BY <1>1, <1>2
<1>5. ASSUME NEW i \in 1..n PROVE i \in 1..k \/ (k < n /\ i = k + 1) \/ (i - (k + 1) \in 1..l /\ k < n)
  BY <1>1, <1>2, <1>4
<1>6. ASSUME IsAmount(s) PROVE AllDigits(w, k) /\ AllDigits(f, l) /\ ~ (k = 0 /\ l = 0)
  <2>1. ASSUME NEW i \in 1..k PROVE w[i] \in Digit
    <3>1. i \in 1..n
      BY <1>1
    <3> QED
      BY <1>1, <1>2, <1>3, <1>6, <3>1
  <2>2. ASSUME NEW i \in 1..l PROVE f[i] \in Digit
    <3>1. k < n /\ k + 1 + i \in 1..n /\ k + 1 \in 1..(k + 1 + i) - 1
      BY <1>1, <1>2
    <3>2. s[k + 1] = Dot
      BY <1>1, <3>1
    <3> QED
      BY <1>2, <1>3, <1>6, <3>1, <3>2
  <2>3. ~ (k = 0 /\ l = 0)
    <3>1. PICK i \in 1..n : s[i] \in Digit
      BY <1>3, <1>6
    <3>2. ~ (k < n /\ i = k + 1)
      BY <1>1, <3>1 DEF Dot, Digit
    <3> QED
      BY <1>1, <1>2, <1>5, <3>2
  <2> QED
    BY <2>1, <2>2, <2>3 DEF AllDigits
<1>7. ASSUME AllDigits(w, k), AllDigits(f, l), ~ (k = 0 /\ l = 0) PROVE IsAmount(s)
  <2>1. /\ \A i \in 1..k : s[i] \in Digit
        /\ \A i \in 1..l : s[k + 1 + i] \in Digit
    BY <1>2, <1>7 DEF AllDigits
  <2>2. \E i \in 1..n : s[i] \in Digit
    <3>1. CASE k # 0
      <4>1. k \in 1..k /\ k \in 1..n
        BY <1>1, <3>1
      <4> QED
        BY <2>1, <4>1
    <3>2. CASE l # 0
      <4>1. l \in 1..l /\ k + 1 + l \in 1..n
        BY <1>1, <1>2, <3>2
      <4> QED
        BY <2>1, <4>1
    <3> QED
      BY <1>7, <3>1, <3>2
  <2>3. ASSUME NEW i \in 1..n PROVE s[i] \in Digit \/ (s[i] = Dot /\ \A j \in 1..i-1 : s[j] # Dot)
    <3>1. CASE i \in 1..k
      BY <2>1, <3>1
    <3>2. CASE k < n /\ i = k + 1
      <4>1. s[i] = Dot
        BY <1>1, <3>2
      <4>2. i - 1 = k
        BY <1>1, <3>2
      <4> QED
        BY <1>1, <4>1, <4>2
    <3>3. CASE i - (k + 1) \in 1..l
      <4> DEFINE j == i - (k + 1)
      <4>1. k + 1 + j = i
        BY <1>1
      <4>2. j \in 1..l
        BY <3>3
      <4> HIDE DEF j
      <4> QED
        BY <2>1, <4>1, <4>2
    <3> QED
      BY <1>5, <3>1, <3>2, <3>3
  <2> QED
    BY <1>3, <2>2, <2>3
<1>8. IsAmount(s) <=> AllDigits(w, Len(w)) /\ AllDigits(f, l) /\ ~ (Len(w) = 0 /\ l = 0)
  BY <1>2, <1>6, <1>7
<1> QED
  BY <1>8 DEF w, f, l

(* An amount has as many digits after the point as its text after the dot. *)
LEMMA FracParts ==
  ASSUME NEW s \in Seq(Characters), IsAmount(s)
  PROVE  Amount(s).frac = Len(Fractional(s))
<1> DEFINE k == BeforeDot(s)
           n == Len(s)
           l == Len(Fractional(s))
<1>1. /\ k \in 0..n /\ n \in Nat /\ (k < n => s[k + 1] = Dot)
      /\ \A i \in 1..k : s[i] # Dot
  BY FirstDot
<1>2. l = IF k < n THEN n - k - 1 ELSE 0
  BY Parts
<1>3. \A i \in 1..n : s[i] \in Digit \/ (s[i] = Dot /\ \A j \in 1..i-1 : s[j] # Dot)
  BY DEF IsAmount
<1>4. Dots(s) = {i \in 1..n : s[i] = Dot}
  BY DEF Dots
<1>5. Amount(s).frac = IF Dots(s) = {} THEN 0 ELSE n - (CHOOSE i \in Dots(s) : TRUE)
  BY DEF Amount
<1> HIDE DEF k, n, l
<1>6. CASE k = n
  <2>1. Dots(s) = {}
    BY <1>1, <1>4, <1>6
  <2> QED
    BY <1>1, <1>2, <1>5, <1>6, <2>1 DEF l
<1>7. CASE k < n
  <2>1. k + 1 \in 1..n /\ s[k + 1] = Dot
    BY <1>1, <1>7
  <2>2. ASSUME NEW i \in Dots(s) PROVE i = k + 1
    <3>1. i \in 1..n /\ s[i] = Dot /\ s[i] \notin Digit
      BY <1>4 DEF Dot, Digit
    <3>2. k + 1 \notin 1..i - 1
      BY <1>3, <2>1, <3>1
    <3>3. i \notin 1..k
      BY <1>1, <3>1
    <3> QED
      BY <1>1, <1>7, <3>1, <3>2, <3>3
  <2>3. Dots(s) = {k + 1}
    BY <1>4, <2>1, <2>2
  <2>4. (CHOOSE i \in Dots(s) : TRUE) = k + 1
    BY <2>3
  <2>5. Amount(s).frac = n - (k + 1)
    BY <1>5, <2>3, <2>4
  <2> QED
    BY <1>1, <1>2, <1>7, <2>5 DEF l
<1> QED
  BY <1>1, <1>6, <1>7

-----------------------------------------------------------------------------
(* The arithmetic: a part overflows only if the whole does.                *)

LEMMA OrNothingReads ==
  ASSUME NEW s \in Seq(Characters)
  PROVE  OrNothing(s) = IF AllDigits(s, Len(s)) THEN UpToMax(Spelled(s)[Len(s)]) ELSE {}
<1>1. CASE s = << >>
  <2>1. Len(s) = 0 /\ AllDigits(s, 0)
    BY <1>1 DEF AllDigits
  <2>2. Spelled(s)[0] = 0
    BY SpelledRecursion
  <2>3. UpToMax(0) = {0}
    BY MaxU64Assumption DEF UpToMax
  <2> QED
    BY <1>1, <2>1, <2>2, <2>3 DEF OrNothing
<1>2. CASE s # << >>
  <2>1. Len(s) \in 0..Len(s)
    OBVIOUS
  <2>2. OrNothing(s) = ReadSoFar(s)[Len(s)]
    BY <1>2 DEF OrNothing, ParseU64Decimal
  <2> QED
    BY <2>1, <2>2, LoopReads
<1> QED
  BY <1>1, <1>2

LEMMA PowerUpTo == \A n \in Nat : CheckedPow10(n) = UpToMax(Pow10[n])
BY Pow10Recursion, CheckedFits DEF CheckedPow10

LEMMA ProductUpTo ==
  ASSUME NEW x \in Nat, NEW y \in Nat, y # 0, y <= MaxU64
  PROVE  UNION {CheckedMul(v, p) : v \in UpToMax(x), p \in UpToMax(y)} = UpToMax(x * y)
<1>1. x * y \in Nat /\ x <= x * y
  BY ProductNotLess
<1>2. UpToMax(y) = {y}
  BY DEF UpToMax
<1>3. CheckedMul(x, y) = UpToMax(x * y)
  BY <1>1, CheckedFits DEF CheckedMul
<1>4. CASE x <= MaxU64
  <2>1. UpToMax(x) = {x}
    BY <1>4 DEF UpToMax
  <2> QED
    BY <1>2, <1>3, <2>1
<1>5. CASE ~ (x <= MaxU64)
  <2> DEFINE z == x * y
  <2>1. z \in Nat /\ x <= z
    BY <1>1
  <2> HIDE DEF z
  <2>2. UpToMax(x) = {} /\ UpToMax(z) = {}
    BY <1>5, <2>1, MaxU64Assumption DEF UpToMax
  <2>3. UNION {CheckedMul(v, p) : v \in UpToMax(x), p \in UpToMax(y)} = {}
    BY <2>2
  <2> QED
    BY <2>2, <2>3 DEF z
<1> QED
  BY <1>4, <1>5

Sums(A, B) == UNION {CheckedAdd(v, r) : v \in A, r \in B}

LEMMA SumUpTo ==
  ASSUME NEW x \in Nat, NEW y \in Nat
  PROVE  Sums(UpToMax(x), UpToMax(y)) = UpToMax(x + y)
<1>1. CheckedAdd(x, y) = UpToMax(x + y)
  BY CheckedFits DEF CheckedAdd
<1>2. CASE x <= MaxU64 /\ y <= MaxU64
  <2>1. UpToMax(x) = {x} /\ UpToMax(y) = {y}
    BY <1>2 DEF UpToMax
  <2> QED
    BY <1>1, <2>1 DEF Sums
<1>3. CASE ~ (x <= MaxU64 /\ y <= MaxU64)
  <2>1. UpToMax(x) = {} \/ UpToMax(y) = {}
    BY <1>3 DEF UpToMax
  <2>2. UpToMax(x + y) = {}
    BY <1>3, MaxU64Assumption DEF UpToMax
  <2>3. Sums(UpToMax(x), UpToMax(y)) = {}
    BY <2>1 DEF Sums
  <2> QED
    BY <2>2, <2>3
<1> QED
  BY <1>2, <1>3

(* The parser on any text and any count of decimals.                       *)
LEMMA ParserExact ==
  ASSUME NEW s \in Seq(Characters), NEW d \in Nat
  PROVE  ParseUiAmountToBaseUnits(s, d)
           = IF IsAmount(s) THEN ToBaseUnits(Amount(s), d) ELSE {}
<1> DEFINE w == Whole(s)
           f == Fractional(s)
           l == Len(f)
           x == Spelled(w)[Len(w)]
           y == Spelled(f)[l]
           whole == UNION {CheckedMul(v, m) : v \in OrNothing(w), m \in CheckedPow10(d)}
           fractional == UNION {CheckedMul(v, m) : v \in OrNothing(f), m \in CheckedPow10(d - l)}
           sum == Sums(whole, fractional)
<1>1. /\ w \in Seq(Characters) /\ f \in Seq(Characters) /\ l \in Nat
      /\ (w = << >> <=> Len(w) = 0) /\ (f = << >> <=> l = 0)
  BY Parts
<1>2. x \in Nat /\ y \in Nat
  <2>1. \A t \in Seq(Characters) : Spelled(t)[Len(t)] \in Nat
    <3>1. ASSUME NEW t \in Seq(Characters) PROVE Spelled(t)[Len(t)] \in Nat
      <4>1. Len(t) \in 0..Len(t)
        OBVIOUS
      <4>2. Spelled(t) \in [0..Len(t) -> Nat]
        BY SpelledRecursion
      <4> QED
        BY <4>1, <4>2
    <3> QED
      BY <3>1
  <2> QED
    BY <1>1, <2>1
<1>3. /\ OrNothing(w) = IF AllDigits(w, Len(w)) THEN UpToMax(x) ELSE {}
      /\ OrNothing(f) = IF AllDigits(f, l) THEN UpToMax(y) ELSE {}
  BY <1>1, OrNothingReads
<1>4. IsAmount(s) <=> AllDigits(w, Len(w)) /\ AllDigits(f, l) /\ ~ (Len(w) = 0 /\ l = 0)
  BY IsAmountParts
<1>5. ParseUiAmountToBaseUnits(s, d) = IF (w = << >> /\ f = << >>) \/ l > d THEN {} ELSE sum
  BY DEF ParseUiAmountToBaseUnits, Sums
<1>6. IsAmount(s) => Amount(s).frac = l /\ Amount(s).digits = Spelled(s)[Len(s)]
  BY FracParts DEF Amount
<1>7. AllDigits(f, l) => Spelled(s)[Len(s)] = x * Pow10[l] + y
  BY SpelledParts
<1>8. \A a : ToBaseUnits(a, d) = {n \in 0..MaxU64 : /\ a.frac <= d
                                                   /\ Pow10[d] <= MaxU64
                                                   /\ n = a.digits * Pow10[d - a.frac]}
  BY DEF ToBaseUnits
<1> HIDE DEF w, f, l, x, y, sum
<1>9. CASE (w = << >> /\ f = << >>) \/ l > d
  <2>1. ParseUiAmountToBaseUnits(s, d) = {}
    BY <1>5, <1>9
  <2>2. CASE w = << >> /\ f = << >>
    BY <1>1, <1>4, <2>1, <2>2
  <2>3. CASE l > d
    BY <1>1, <1>6, <1>8, <2>1, <2>3
  <2> QED
    BY <1>9, <2>2, <2>3
<1>10. CASE ~ (AllDigits(w, Len(w)) /\ AllDigits(f, l))
  <2>1. OrNothing(w) = {} \/ OrNothing(f) = {}
    BY <1>3, <1>10
  <2>2. whole = {} \/ fractional = {}
    BY <2>1
  <2>3. sum = {}
    BY <2>2 DEF sum, Sums
  <2> QED
    BY <1>4, <1>5, <1>10, <2>3
<1>11. CASE l <= d /\ IsAmount(s)
  <2> DEFINE F == Pow10[l]
             P == Pow10[d]
             Q == Pow10[d - l]
  <2>1. d - l \in Nat /\ l + (d - l) = d
    BY <1>1, <1>11
  <2>2. /\ F \in Nat /\ P \in Nat /\ Q \in Nat /\ F # 0 /\ Q # 0
        /\ P = F * Q
    BY <1>1, <2>1, Pow10Positive, Pow10Sum
  <2>3. Q <= P
    <3>1. Q <= Q * F /\ Q * F = F * Q
      BY <2>2, ProductNotLess
    <3> QED
      BY <2>2, <3>1
  <2>4. P # 0
    BY <2>2, <2>3
  <2>5. CheckedPow10(d) = UpToMax(P) /\ CheckedPow10(d - l) = UpToMax(Q)
    BY <2>1, PowerUpTo
  <2>6. OrNothing(w) = UpToMax(x) /\ OrNothing(f) = UpToMax(y)
    BY <1>3, <1>4, <1>11
  <2>7. ParseUiAmountToBaseUnits(s, d) = sum
    BY <1>1, <1>4, <1>5, <1>11
  <2>8. ToBaseUnits(Amount(s), d) = {n \in 0..MaxU64 : P <= MaxU64 /\ n = (x * F + y) * Q}
    BY <1>1, <1>4, <1>6, <1>7, <1>8, <1>11
  <2> HIDE DEF F, P, Q
  <2>9. CASE P <= MaxU64
    <3>1. Q <= MaxU64
      BY <2>2, <2>3, <2>9, MaxU64Assumption
    <3> DEFINE X == x * P
               Y == y * Q
    <3>2. whole = UpToMax(X) /\ fractional = UpToMax(Y)
      BY <1>2, <2>2, <2>4, <2>5, <2>6, <2>9, <3>1, ProductUpTo
    <3>3. X \in Nat /\ Y \in Nat
      BY <1>2, <2>2
    <3>4. (x * F + y) * Q = X + Y
      <4>1. x * F \in Nat
        BY <1>2, <2>2
      <4>2. (x * F + y) * Q = (x * F) * Q + y * Q
        BY <1>2, <2>2, <4>1, ProductDistributes
      <4>3. (x * F) * Q = x * (F * Q)
        BY <1>2, <2>2, ProductAssociates
      <4> QED
        BY <2>2, <4>2, <4>3
    <3> HIDE DEF X, Y
    <3>5. sum = UpToMax(X + Y)
      <4> HIDE DEF whole, fractional
      <4>1. sum = Sums(UpToMax(X), UpToMax(Y))
        BY <3>2 DEF sum
      <4> QED
        BY <3>3, <4>1, SumUpTo
    <3>6. ToBaseUnits(Amount(s), d) = {X + Y} \cap 0..MaxU64
      BY <2>8, <2>9, <3>4
    <3>7. {X + Y} \cap 0..MaxU64 = UpToMax(X + Y)
      BY <3>3, CheckedFits
    <3> QED
      BY <1>11, <2>7, <3>5, <3>6, <3>7
  <2>10. CASE ~ (P <= MaxU64)
    <3>1. CheckedPow10(d) = {}
      BY <2>5, <2>10 DEF UpToMax
    <3>2. sum = {}
      <4>1. whole = {}
        BY <3>1
      <4> QED
        BY <4>1 DEF sum, Sums
    <3>3. ToBaseUnits(Amount(s), d) = {}
      BY <2>8, <2>10
    <3> QED
      BY <1>11, <2>7, <3>2, <3>3
  <2> QED
    BY <2>9, <2>10
<1> QED
  BY <1>1, <1>4, <1>9, <1>10, <1>11

-----------------------------------------------------------------------------
TypeInvariant == text \in Seq(Characters) /\ decimals \in Nat

(* Whatever is typed, to any length and for any count of decimals, the     *)
(* parser answers with exactly the units the text is worth, or refuses it  *)
(* where they do not fit.                                                  *)
THEOREM AmountsAlwaysExact == Spec => []AmountsExact
<1>1. Init => TypeInvariant
  BY TypedAssumption DEF Init, TypeInvariant
<1>2. TypeInvariant /\ [Type]_vars => TypeInvariant'
  <2> SUFFICES ASSUME TypeInvariant, [Type]_vars PROVE TypeInvariant'
    OBVIOUS
  <2>1. CASE Type
    <3>1. PICK c \in DigitsTyped \cup {Dot, OtherCharacter} : text' = Append(text, c)
      BY <2>1 DEF Type
    <3>2. c \in Characters
      BY TypedAssumption DEF Characters
    <3>3. text' \in Seq(Characters)
      BY <3>1, <3>2 DEF TypeInvariant
    <3> QED
      BY <2>1, <3>3 DEF Type, TypeInvariant
  <2>2. CASE UNCHANGED vars
    BY <2>2 DEF vars, TypeInvariant
  <2> QED
    BY <2>1, <2>2
<1>3. TypeInvariant => AmountsExact
  BY ParserExact DEF TypeInvariant, AmountsExact
<1> QED
  BY <1>1, <1>2, <1>3, PTL DEF Spec

=============================================================================
