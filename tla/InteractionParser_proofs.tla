----------------------- MODULE InteractionParser_proofs -----------------------
(***************************************************************************)
(* Whatever the program reads in a text that is JSON, JSON.parse reads in  *)
(* it too: for any text, any nesting and any order of its fields.  And it  *)
(* does read every command in a text of the shape that Discord gives it.   *)
(***************************************************************************)
EXTENDS InteractionParser, WellFoundedInduction, TLAPS

-----------------------------------------------------------------------------
(* Induction over indices.                                                 *)

LEMMA LeastElement ==
  ASSUME NEW T, T \subseteq Nat, T # {}
  PROVE  \E x \in T : \A y \in T : x <= y
<1> DEFINE R == OpToRel(<, Nat)
<1>1. IsWellFoundedOn(R, Nat)
  BY NatLessThanWellFounded
<1>2. R = {ss \in Nat \X Nat : ss[1] < ss[2]}
  BY DEF OpToRel
<1> HIDE DEF R
<1>3. \E x \in T : \A y \in T : ~ (<<y, x>> \in R)
  BY <1>1, WFMin
<1>4. \A x, y \in T : ~ (<<y, x>> \in R) => x <= y
  BY <1>2
<1> QED
  BY <1>3, <1>4

(* A set that holds a number if it holds all that are larger, up to n.     *)
LEMMA FromTheEnd ==
  ASSUME NEW n \in Nat, NEW P,
         \A i \in 1..n : (\A k \in i+1..n : k \in P) => i \in P
  PROVE  \A i \in 1..n : i \in P
<1> DEFINE T == {m \in 0..n-1 : n - m \notin P}
<1> SUFFICES ASSUME NEW i \in 1..n, i \notin P PROVE FALSE
  OBVIOUS
<1>1. n - i \in T /\ T \subseteq Nat
  <2>1. n - i \in 0..n-1 /\ n - (n - i) = i
    OBVIOUS
  <2>2. n - i \in T
    BY <2>1
  <2> QED
    BY <2>2
<1>2. T # {}
  BY <1>1
<1>3. PICK x \in T : \A y \in T : x <= y
  BY <1>1, <1>2, LeastElement
<1>4. n - x \in 1..n /\ n - x \notin P
  OBVIOUS
<1>5. ASSUME NEW k \in n-x+1..n PROVE k \in P
  <2>1. n - k \in 0..n-1 /\ n - (n - k) = k /\ ~ (x <= n - k)
    BY <1>4
  <2> QED
    BY <1>3, <2>1
<1> QED
  BY <1>4, <1>5

(* The first number from a on that has a property, here: is in a set.      *)
LEMMA FirstFrom ==
  ASSUME NEW a \in Nat, NEW b \in Nat, NEW T, \E k \in a..b : k \in T
  PROVE  \E k \in a..b : k \in T /\ \A n \in a..k-1 : n \notin T
<1> DEFINE U == {k \in a..b : k \in T}
<1>1. U # {} /\ U \subseteq Nat
  OBVIOUS
<1>2. PICK k \in U : \A n \in U : k <= n
  BY <1>1, LeastElement
<1>3. k \in a..b /\ k \in T
  OBVIOUS
<1>4. ASSUME NEW n \in a..k-1 PROVE n \notin T
  <2>1. n \in a..b /\ ~ (k <= n)
    BY <1>3
  <2> QED
    BY <1>2, <2>1
<1> QED
  BY <1>3, <1>4

-----------------------------------------------------------------------------
(* The loops of the two parsers: what they read at an index is one turn,   *)
(* and what they read later.                                               *)

LEMMA LoopsRecursion ==
  ASSUME NEW s \in Seq(Symbols)
  PROVE  \A i \in 1..Len(s)+1, where \in Places :
           Loops(s)[i][where] = Loop(s, [k \in i+1..Len(s)+1 |-> Loops(s)[k]], where, i)
<1> DEFINE l == Len(s) + 1
           Turn(f, i) == [where \in Places |-> Loop(s, [k \in i+1..l |-> f[k]], where, i)]
           Reads(f, m) == f = [i \in m..l |-> Turn(f, i)]
<1>1. l \in Nat /\ l >= 1
  OBVIOUS
<1> HIDE DEF l, Turn
<1>2. \E f : Reads(f, 1)
  <2> DEFINE P == {m \in 1..l : \E f : Reads(f, m)}
  <2>1. ASSUME NEW m \in 1..l, \A k \in m+1..l : k \in P PROVE m \in P
    <3>1. \E f : f = [i \in m+1..l |-> Turn(f, i)]
      <4>1. CASE m = l
        <5> DEFINE e == [i \in m+1..l |-> 0]
        <5>1. m+1..l = {}
          BY <1>1, <4>1
        <5>2. e = [i \in m+1..l |-> Turn(e, i)]
          BY <5>1
        <5> QED
          BY <5>2
      <4>2. CASE m # l
        <5>1. m + 1 \in m+1..l
          BY <1>1, <4>2
        <5> QED
          BY <2>1, <5>1
      <4> QED
        BY <4>1, <4>2
    <3>2. PICK f : f = [i \in m+1..l |-> Turn(f, i)]
      BY <3>1
    <3> DEFINE h == [i \in m..l |-> IF i = m THEN Turn(f, m) ELSE f[i]]
    <3>3. ASSUME NEW i \in m..l PROVE h[i] = Turn(h, i)
      <4>1. \A k \in i+1..l : h[k] = f[k]
        BY <1>1
      <4>2. Turn(h, i) = Turn(f, i)
        <5>1. [k \in i+1..l |-> h[k]] = [k \in i+1..l |-> f[k]]
          BY <4>1
        <5> HIDE DEF h
        <5> QED
          BY <5>1 DEF Turn
      <4>3. CASE i = m
        BY <4>2, <4>3
      <4>4. CASE i # m
        <5>1. i \in m+1..l
          BY <1>1, <4>4
        <5>2. f[i] = Turn(f, i)
          BY <3>2, <5>1
        <5>3. h[i] = f[i]
          BY <4>4
        <5> QED
          BY <4>2, <5>2, <5>3
      <4> QED
        BY <4>3, <4>4
    <3>4. Reads(h, m)
      <4>1. h = [i \in m..l |-> h[i]]
        OBVIOUS
      <4> HIDE DEF h
      <4> QED
        BY <3>3, <4>1
    <3> QED
      BY <3>4
  <2> HIDE DEF P
  <2>2. \A m \in 1..l : m \in P
    BY <1>1, <2>1, FromTheEnd
  <2> QED
    BY <1>1, <2>2 DEF P
<1>3. Loops(s) = CHOOSE f : Reads(f, 1)
  BY DEF Loops, Turn, l
<1>4. Reads(Loops(s), 1)
  <2> HIDE DEF Reads
  <2> QED
    BY <1>2, <1>3
<1>5. \A i \in 1..l : Loops(s)[i] = Turn(Loops(s), i)
  BY <1>4
<1> QED
  BY <1>5 DEF Turn, l

LEMMA JsonRecursion ==
  ASSUME NEW s \in Seq(Symbols)
  PROVE  \A i \in 1..Len(s)+1, kind \in {"obj", "arr"} :
           JsonLists(s)[i][kind] = JsonItems(s, [k \in i+1..Len(s)+1 |-> JsonLists(s)[k]], kind, i)
<1> DEFINE l == Len(s) + 1
           Turn(f, i) == [kind \in {"obj", "arr"} |-> JsonItems(s, [k \in i+1..l |-> f[k]], kind, i)]
           Reads(f, m) == f = [i \in m..l |-> Turn(f, i)]
<1>1. l \in Nat /\ l >= 1
  OBVIOUS
<1> HIDE DEF l, Turn
<1>2. \E f : Reads(f, 1)
  <2> DEFINE P == {m \in 1..l : \E f : Reads(f, m)}
  <2>1. ASSUME NEW m \in 1..l, \A k \in m+1..l : k \in P PROVE m \in P
    <3>1. \E f : f = [i \in m+1..l |-> Turn(f, i)]
      <4>1. CASE m = l
        <5> DEFINE e == [i \in m+1..l |-> 0]
        <5>1. m+1..l = {}
          BY <1>1, <4>1
        <5>2. e = [i \in m+1..l |-> Turn(e, i)]
          BY <5>1
        <5> QED
          BY <5>2
      <4>2. CASE m # l
        <5>1. m + 1 \in m+1..l
          BY <1>1, <4>2
        <5> QED
          BY <2>1, <5>1
      <4> QED
        BY <4>1, <4>2
    <3>2. PICK f : f = [i \in m+1..l |-> Turn(f, i)]
      BY <3>1
    <3> DEFINE h == [i \in m..l |-> IF i = m THEN Turn(f, m) ELSE f[i]]
    <3>3. ASSUME NEW i \in m..l PROVE h[i] = Turn(h, i)
      <4>1. \A k \in i+1..l : h[k] = f[k]
        BY <1>1
      <4>2. Turn(h, i) = Turn(f, i)
        <5>1. [k \in i+1..l |-> h[k]] = [k \in i+1..l |-> f[k]]
          BY <4>1
        <5> HIDE DEF h
        <5> QED
          BY <5>1 DEF Turn
      <4>3. CASE i = m
        BY <4>2, <4>3
      <4>4. CASE i # m
        <5>1. i \in m+1..l
          BY <1>1, <4>4
        <5>2. f[i] = Turn(f, i)
          BY <3>2, <5>1
        <5>3. h[i] = f[i]
          BY <4>4
        <5> QED
          BY <4>2, <5>2, <5>3
      <4> QED
        BY <4>3, <4>4
    <3>4. Reads(h, m)
      <4>1. h = [i \in m..l |-> h[i]]
        OBVIOUS
      <4> HIDE DEF h
      <4> QED
        BY <3>3, <4>1
    <3> QED
      BY <3>4
  <2> HIDE DEF P
  <2>2. \A m \in 1..l : m \in P
    BY <1>1, <2>1, FromTheEnd
  <2> QED
    BY <1>1, <2>2 DEF P
<1>3. JsonLists(s) = CHOOSE f : Reads(f, 1)
  BY DEF JsonLists, Turn, l
<1>4. Reads(JsonLists(s), 1)
  <2> HIDE DEF Reads
  <2> QED
    BY <1>2, <1>3
<1>5. \A i \in 1..l : JsonLists(s)[i] = Turn(JsonLists(s), i)
  BY <1>4
<1> QED
  BY <1>5 DEF Turn, l

-----------------------------------------------------------------------------
(* Tokens: blanks, strings and numbers.                                    *)

LEMMA Whitespace ==
  ASSUME NEW s \in Seq(Symbols), NEW i \in 1..Len(s)+1
  PROVE  /\ ConsumeWs(s, i) \in i..Len(s)+1
         /\ ~ At(s, ConsumeWs(s, i), Blank)
         /\ ~ At(s, i, Blank) => ConsumeWs(s, i) = i
<1> DEFINE l == Len(s) + 1
           T == {k \in Nat : ~ At(s, k, Blank)}
           Is(k) == (\A j \in i..k-1 : s[j] = Blank) /\ ~ At(s, k, Blank)
<1>1. l \in Nat /\ i \in 1..l /\ l \in i..l /\ l \in T
  BY DEF At
<1>2. ConsumeWs(s, i) = CHOOSE k \in i..l : Is(k)
  BY DEF ConsumeWs
<1> HIDE DEF l
<1>3. PICK k \in i..l : k \in T /\ \A n \in i..k-1 : n \notin T
  <2>1. i \in Nat
    BY <1>1
  <2> HIDE DEF T
  <2> QED
    BY <1>1, <2>1, FirstFrom
<1>4. Is(k)
  <2>1. ASSUME NEW j \in i..k-1 PROVE s[j] = Blank
    <3>1. j \notin T /\ j \in Nat
      BY <1>1, <1>3
    <3> QED
      BY <3>1 DEF At
  <2> QED
    BY <1>3, <2>1
<1>5. ConsumeWs(s, i) \in i..l /\ Is(ConsumeWs(s, i))
  <2> HIDE DEF Is
  <2> QED
    BY <1>2, <1>3, <1>4
<1>6. ASSUME ~ At(s, i, Blank) PROVE ConsumeWs(s, i) = i
  <2> DEFINE c == ConsumeWs(s, i)
  <2>1. c \in i..l /\ \A j \in i..c-1 : s[j] = Blank
    BY <1>5
  <2> HIDE DEF c
  <2>2. CASE c # i
    <3>1. i \in i..c-1 /\ i \in 1..Len(s)
      BY <1>1, <2>1, <2>2 DEF l
    <3> QED
      BY <1>6, <2>1, <3>1 DEF At
  <2> QED
    BY <2>2 DEF c
<1> QED
  BY <1>5, <1>6 DEF l

(* The backslashes that stand before k, as far back as i.                  *)
Run(s, i, k, r) ==
  /\ r \in 0..k-i
  /\ \A m \in k-r..k-1 : s[m] = Backslash
  /\ k - r = i \/ s[k - r - 1] # Backslash

LEMMA RunExists ==
  ASSUME NEW s, NEW i \in Nat, NEW k \in Nat, i <= k
  PROVE  \E r : Run(s, i, k, r)
<1> DEFINE T == {r \in 0..k-i : k - r = i \/ s[k - r - 1] # Backslash}
<1>1. k - i \in T /\ T \subseteq Nat
  <2>1. k - i \in 0..k-i /\ k - (k - i) = i
    OBVIOUS
  <2>2. k - i \in T
    BY <2>1
  <2> QED
    BY <2>2
<1>2. PICK r \in T : \A q \in T : r <= q
  <2>1. T # {}
    BY <1>1
  <2> QED
    BY <1>1, <2>1, LeastElement
<1>3. r \in 0..k-i /\ (k - r = i \/ s[k - r - 1] # Backslash)
  OBVIOUS
<1>4. ASSUME NEW m \in k-r..k-1 PROVE s[m] = Backslash
  <2> DEFINE q == k - m - 1
  <2>1. q \in 0..k-i /\ k - q - 1 = m /\ ~ (r <= q)
    BY <1>3
  <2>2. q \notin T
    BY <1>2, <2>1
  <2> QED
    BY <2>1, <2>2
<1> QED
  BY <1>3, <1>4 DEF Run

LEMMA RunUnique ==
  ASSUME NEW s, NEW i \in Nat, NEW k \in Nat, NEW r, NEW q, Run(s, i, k, r), Run(s, i, k, q)
  PROVE  r = q
<1>1. /\ r \in 0..k-i /\ (\A m \in k-r..k-1 : s[m] = Backslash)
      /\ k - r = i \/ s[k - r - 1] # Backslash
  BY DEF Run
<1>2. /\ q \in 0..k-i /\ (\A m \in k-q..k-1 : s[m] = Backslash)
      /\ k - q = i \/ s[k - q - 1] # Backslash
  BY DEF Run
<1>3. CASE r < q
  <2>1. k - r - 1 \in k-q..k-1 /\ k - r # i
    BY <1>1, <1>2, <1>3
  <2> QED
    BY <1>1, <1>2, <2>1
<1>4. CASE q < r
  <2>1. k - q - 1 \in k-r..k-1 /\ k - q # i
    BY <1>1, <1>2, <1>4
  <2> QED
    BY <1>1, <1>2, <2>1
<1> QED
  BY <1>1, <1>2, <1>3, <1>4

LEMMA RunNext ==
  ASSUME NEW s, NEW i \in Nat, NEW k \in Nat, i <= k
  PROVE  /\ s[k] # Backslash => Run(s, i, k + 1, 0)
         /\ \A r : s[k] = Backslash /\ Run(s, i, k, r) => Run(s, i, k + 1, r + 1)
<1>1. ASSUME s[k] # Backslash PROVE Run(s, i, k + 1, 0)
  <2>1. 0 \in 0..k+1-i /\ (k + 1) - 0 - 1 = k /\ (k + 1) - 0..(k + 1) - 1 = {}
    OBVIOUS
  <2> QED
    BY <1>1, <2>1 DEF Run
<1>2. ASSUME NEW r, s[k] = Backslash, Run(s, i, k, r) PROVE Run(s, i, k + 1, r + 1)
  <2>1. /\ r \in 0..k-i /\ (\A m \in k-r..k-1 : s[m] = Backslash)
        /\ k - r = i \/ s[k - r - 1] # Backslash
    BY <1>2 DEF Run
  <2>2. /\ r + 1 \in 0..k+1-i /\ (k + 1) - (r + 1) = k - r /\ (k + 1) - 1 = k
        /\ \A m \in k-r..k : m = k \/ m \in k-r..k-1
    BY <2>1
  <2> QED
    BY <1>2, <2>1, <2>2 DEF Run
<1> QED
  BY <1>1, <1>2

Even(s, i, k) == \E n \in Nat : Run(s, i, k, 2 * n)

LEMMA EvenNext ==
  ASSUME NEW s, NEW i \in Nat, NEW k \in Nat, i <= k
  PROVE  Even(s, i, k + 1) <=> ~ (s[k] = Backslash /\ Even(s, i, k))
<1>1. CASE s[k] # Backslash
  <2>1. Run(s, i, k + 1, 0) /\ 0 = 2 * 0
    BY <1>1, RunNext
  <2> QED
    BY <1>1, <2>1 DEF Even
<1>2. CASE s[k] = Backslash
  <2>1. PICK r : Run(s, i, k, r)
    BY RunExists
  <2>2. Run(s, i, k + 1, r + 1) /\ r \in Nat
    BY <1>2, <2>1, RunNext DEF Run
  <2>3. Even(s, i, k) <=> \E n \in Nat : r = 2 * n
    BY <2>1, RunUnique DEF Even
  <2>4. Even(s, i, k + 1) <=> \E n \in Nat : r + 1 = 2 * n
    <3>1. k + 1 \in Nat
      OBVIOUS
    <3> QED
      BY <2>2, <3>1, RunUnique DEF Even
  <2>5. (\E n \in Nat : r + 1 = 2 * n) <=> ~ \E n \in Nat : r = 2 * n
    <3>1. PICK h \in Nat : r = 2 * h \/ r = 2 * h + 1
      <4>1. r \div 2 \in Nat /\ (r = 2 * (r \div 2) \/ r = 2 * (r \div 2) + 1)
        BY <2>2
      <4> QED
        BY <4>1
    <3>2. r = 2 * h + 1 => r + 1 = 2 * (h + 1) /\ h + 1 \in Nat
      BY <2>2
    <3>3. \A n \in Nat : ~ (r = 2 * h /\ r + 1 = 2 * n) /\ ~ (r = 2 * h + 1 /\ r = 2 * n)
      BY <2>2
    <3> QED
      BY <3>1, <3>2, <3>3
  <2> QED
    BY <1>2, <2>3, <2>4, <2>5
<1> QED
  BY <1>1, <1>2


(* The flag of parse_string's loop says what the count of backslashes does.*)
LEMMA Escapes ==
  ASSUME NEW s, NEW i \in Nat, NEW k \in Nat, i <= k
  PROVE  EndsString(s, i, k) <=> EndsJsonString(s, i, k)
<1> DEFINE Flag(f, n) == n # i /\ s[n - 1] = Backslash /\ ~ f[n - 1]
           e == [n \in i..k |-> ~ Even(s, i, n)]
           escaped == CHOOSE f : f = [n \in i..k |-> Flag(f, n)]
<1>1. Even(s, i, i)
  <2>1. 0 \in 0..i-i /\ i - 0 = i /\ i - 0..i - 1 = {} /\ 0 = 2 * 0
    OBVIOUS
  <2> QED
    BY <2>1 DEF Even, Run
<1>2. ASSUME NEW n \in i..k, n # i
      PROVE  n - 1 \in i..k /\ (Even(s, i, n) <=> ~ (s[n - 1] = Backslash /\ Even(s, i, n - 1)))
  <2>1. n - 1 \in i..k /\ n - 1 \in Nat /\ i <= n - 1 /\ (n - 1) + 1 = n
    BY <1>2
  <2>2. Even(s, i, (n - 1) + 1) <=> ~ (s[n - 1] = Backslash /\ Even(s, i, n - 1))
    BY <2>1, EvenNext
  <2> QED
    BY <2>1, <2>2
<1>3. e = [n \in i..k |-> Flag(e, n)]
  <2>1. ASSUME NEW n \in i..k PROVE (~ Even(s, i, n)) = Flag(e, n)
    <3>1. CASE n = i
      BY <1>1, <3>1
    <3>2. CASE n # i
      <4>1. n - 1 \in i..k /\ (Even(s, i, n) <=> ~ (s[n - 1] = Backslash /\ Even(s, i, n - 1)))
        BY <1>2, <3>2
      <4>2. e[n - 1] = ~ Even(s, i, n - 1)
        BY <4>1
      <4> HIDE DEF e
      <4>3. Flag(e, n) <=> ~ Even(s, i, n)
        BY <3>2, <4>1, <4>2
      <4> QED
        BY <4>3
    <3> QED
      BY <3>1, <3>2
  <2> QED
    BY <2>1
<1>4. escaped = [n \in i..k |-> Flag(escaped, n)]
  <2> HIDE DEF e, Flag
  <2> QED
    BY <1>3
<1> HIDE DEF escaped
<1>5. ASSUME NEW n \in i..k PROVE escaped[n] <=> ~ Even(s, i, n)
  <2> DEFINE T == {m \in i..k : ~ (escaped[m] <=> ~ Even(s, i, m))}
  <2>1. CASE T # {}
    <3>1. T \subseteq Nat
      OBVIOUS
    <3>2. PICK m \in T : \A q \in T : m <= q
      <4> HIDE DEF T
      <4> QED
        BY <2>1, <3>1, LeastElement
    <3>3. m \in i..k /\ ~ (escaped[m] <=> ~ Even(s, i, m)) /\ escaped[m] = Flag(escaped, m)
      BY <1>4
    <3>4. CASE m = i
      BY <1>1, <3>3, <3>4
    <3>5. CASE m # i
      <4>1. m - 1 \in i..k /\ (Even(s, i, m) <=> ~ (s[m - 1] = Backslash /\ Even(s, i, m - 1)))
        BY <1>2, <3>3, <3>5
      <4>2. ~ (m <= m - 1)
        BY <3>3
      <4>3. escaped[m - 1] <=> ~ Even(s, i, m - 1)
        BY <3>2, <4>1, <4>2
      <4> QED
        BY <3>3, <3>5, <4>1, <4>3
    <3> QED
      BY <3>4, <3>5
  <2> QED
    BY <2>1
<1>6. EndsString(s, i, k) <=> s[k] = Quote /\ ~ escaped[k]
  BY DEF EndsString, escaped
<1>7. escaped[k] <=> ~ Even(s, i, k)
  BY <1>5
<1>8. EndsJsonString(s, i, k) <=> s[k] = Quote /\ Even(s, i, k)
  <2>1. ASSUME NEW n \in Nat, Run(s, i, k, 2 * n) PROVE n \in 0..k-i /\ 2 * n <= k - i
    BY <2>1 DEF Run
  <2>2. ASSUME NEW n \in 0..k-i
        PROVE  Run(s, i, k, 2 * n) <=> /\ 2 * n <= k - i
                                       /\ \A m \in k-2*n..k-1 : s[m] = Backslash
                                       /\ k - 2 * n = i \/ s[k - 2 * n - 1] # Backslash
    BY DEF Run
  <2> QED
    BY <2>1, <2>2 DEF EndsJsonString, Even
<1> QED
  BY <1>6, <1>7, <1>8

(* The two readers take the same string.                                   *)
LEMMA StringsAgree ==
  ASSUME NEW s \in Seq(Symbols), NEW i \in Nat,
         NEW x \in ParseString(s, i), NEW y \in JsonString(s, i)
  PROVE  /\ x.index = y.index /\ y.got = Str(x.got)
         /\ x.index \in i+2..Len(s)+1
<1> DEFINE l == Len(s)
           First(k) == EndsString(s, i + 1, k) /\ \A n \in i+1..k-1 : ~ EndsString(s, i + 1, n)
           JsonFirst(k) ==
             EndsJsonString(s, i + 1, k) /\ \A n \in i+1..k-1 : ~ EndsJsonString(s, i + 1, n)
           end == CHOOSE k \in i+1..l : First(k)
           jsonEnd == CHOOSE k \in i+1..l : JsonFirst(k)
           T == {k \in i+1..l : EndsString(s, i + 1, k)}
<1>1. l \in Nat
  OBVIOUS
<1>2. /\ \E k \in i+1..l : EndsString(s, i + 1, k)
      /\ x = [got |-> SubSeq(s, i + 1, end - 1), index |-> end + 1]
  BY DEF ParseString
<1>3. y = [got |-> Str(SubSeq(s, i + 1, jsonEnd - 1)), index |-> jsonEnd + 1]
  BY DEF JsonString
<1> HIDE DEF l
<1>4. PICK k \in i+1..l : k \in T /\ \A n \in i+1..k-1 : n \notin T
  <2>1. (\E k \in i+1..l : k \in T) /\ i + 1 \in Nat
    BY <1>2
  <2> HIDE DEF T
  <2> QED
    BY <1>1, <2>1, FirstFrom
<1>5. \A n \in i+1..l : EndsString(s, i + 1, n) <=> EndsJsonString(s, i + 1, n)
  BY <1>1, Escapes
<1>6. \A n \in i+1..l : First(n) <=> n = k
  <2>1. First(k)
    BY <1>1, <1>4
  <2>2. ASSUME NEW n \in i+1..l, First(n), n # k PROVE FALSE
    <3>1. n \in i+1..k-1 \/ k \in i+1..n-1
      BY <1>1, <2>2
    <3> QED
      BY <2>1, <2>2, <3>1
  <2> QED
    BY <2>1, <2>2
<1>7. \A n \in i+1..l : First(n) <=> JsonFirst(n)
  <2>1. \A n \in i+1..l : \A m \in i+1..n-1 : m \in i+1..l
    BY <1>1
  <2> QED
    BY <1>5, <2>1
<1>8. end = k /\ jsonEnd = k
  <2> HIDE DEF First, JsonFirst
  <2> QED
    BY <1>6, <1>7
<1> HIDE DEF end, jsonEnd
<1> QED
  BY <1>1, <1>2, <1>3, <1>8 DEF l

(* What JSON takes for a number: as much as may belong to one.             *)
LEMMA JsonNumberTaken ==
  ASSUME NEW s \in Seq(Symbols), NEW i \in 1..Len(s)+1, NEW y \in JsonNumber(s, i)
  PROVE  /\ y.index \in i+1..Len(s)+1
         /\ y.got = Num(SubSeq(s, i, y.index - 1))
         /\ \A n \in i..y.index-1 : s[n] \in InNumber
         /\ y.index = Len(s) + 1 \/ s[y.index] \notin InNumber
<1> DEFINE l == Len(s) + 1
           Is(k) == (\A n \in i..k-1 : s[n] \in InNumber) /\ (k = l \/ s[k] \notin InNumber)
           end == CHOOSE k \in i..l : Is(k)
           T == {k \in i..l : k = l \/ s[k] \notin InNumber}
<1>1. l \in Nat /\ i \in Nat /\ l \in i..l /\ l \in T
  OBVIOUS
<1>2. /\ y = [got |-> Num(SubSeq(s, i, end - 1)), index |-> end]
      /\ IsNumber(SubSeq(s, i, end - 1))
  <2>1. JsonNumber(s, i) =
          {[got |-> Num(number), index |-> end] :
             number \in {t \in {SubSeq(s, i, end - 1)} : IsNumber(t)}}
    BY DEF JsonNumber
  <2> HIDE DEF end
  <2> QED
    BY <2>1
<1> HIDE DEF l
<1>3. PICK k \in i..l : k \in T /\ \A n \in i..k-1 : n \notin T
  <2> HIDE DEF T
  <2> QED
    BY <1>1, FirstFrom
<1>4. Is(k)
  <2>1. ASSUME NEW n \in i..k-1 PROVE s[n] \in InNumber
    <3>1. n \in i..l /\ n # l
      BY <1>1
    <3> QED
      BY <1>3, <3>1
  <2> QED
    BY <1>3, <2>1
<1>5. end \in i..l /\ Is(end)
  <2> HIDE DEF Is
  <2> QED
    BY <1>4
<1> HIDE DEF end
<1>6. end # i
  <2>1. CASE end = i
    <3>1. 1..Len(SubSeq(s, i, end - 1)) = {}
      <4>1. i \in Int /\ end - 1 < i
        BY <1>1, <2>1
      <4> QED
        BY <2>1
    <3> QED
      BY <1>2, <3>1 DEF IsNumber
  <2> QED
    BY <2>1
<1> QED
  BY <1>1, <1>2, <1>5, <1>6 DEF l

(* A number of the program's is one that JSON's number begins with.        *)
LEMMA DecimalTaken ==
  ASSUME NEW s \in Seq(Symbols), NEW i \in 1..Len(s)+1, NEW x \in ParseDecimalToken(s, i)
  PROVE  /\ x.index \in i+1..Len(s)+1
         /\ x.got = SubSeq(s, i, x.index - 1)
         /\ \A n \in i..x.index-1 : s[n] \in InNumber
<1>1. PICK k \in i+1..Len(s)+1 : InDecimal(s, i, k) /\ x = [got |-> SubSeq(s, i, k - 1), index |-> k]
  BY DEF ParseDecimalToken
<1>2. \A n \in i..k-1 : s[n] \in InNumber
  BY <1>1 DEF InDecimal, InNumber
<1> QED
  BY <1>1, <1>2

(* Where two readers of a value have stopped: at the same place, or the    *)
(* program's where JSON's number goes on.                                  *)
Stops(s, x, y) ==
  x.index = y.index \/ (x.index \in 1..Len(s) /\ s[x.index] \in InNumber)

LEMMA NumbersEnd ==
  ASSUME NEW s \in Seq(Symbols), NEW i \in 1..Len(s)+1, NEW j \in i..i+1,
         NEW x \in ParseDecimalToken(s, j), NEW y \in JsonNumber(s, i)
  PROVE  /\ Stops(s, x, y)
         /\ j = i /\ x.index = y.index => y.got = Num(x.got)
<1>1. /\ y.index \in i+1..Len(s)+1
      /\ y.got = Num(SubSeq(s, i, y.index - 1))
      /\ \A n \in i..y.index-1 : s[n] \in InNumber
      /\ y.index = Len(s) + 1 \/ s[y.index] \notin InNumber
  BY JsonNumberTaken
<1>2. j \in 1..Len(s)+1
  <2>1. i + 1 \in 1..Len(s)+1
    BY <1>1
  <2> QED
    BY <2>1
<1>3. /\ x.index \in j+1..Len(s)+1
      /\ x.got = SubSeq(s, j, x.index - 1)
      /\ \A n \in j..x.index-1 : s[n] \in InNumber
  BY <1>2, DecimalTaken
<1>4. x.index <= y.index
  <2>1. CASE y.index < x.index
    <3>1. y.index \in j..x.index-1
      BY <1>1, <1>3, <2>1
    <3>2. y.index # Len(s) + 1
      BY <1>3, <2>1
    <3> QED
      BY <1>1, <1>3, <3>1, <3>2
  <2> QED
    BY <1>1, <1>3, <2>1
<1>5. x.index # y.index => x.index \in i..y.index-1 /\ x.index \in 1..Len(s)
  BY <1>1, <1>3, <1>4
<1> QED
  BY <1>1, <1>3, <1>5 DEF Stops

Punctuation == {Blank, ",", ":", "}", "]"}
Literals == {"true", "false", "null"}

IsObject(s, later, i, y) ==
  \E r \in JsonList(s, later, "obj", i) : y.got = Obj(r.got) /\ y.index = r.index
IsArray(s, later, i, y) ==
  \E r \in JsonList(s, later, "arr", i) : y.got = Arr(r.got) /\ y.index = r.index

(* What JSON takes for a value is told by its first symbol.                *)
LEMMA JsonValueTaken ==
  ASSUME NEW s \in Seq(Symbols), NEW later, NEW i \in 1..Len(s)+1, NEW y \in JsonValue(s, later, i)
  PROVE  /\ i \in 1..Len(s) /\ s[i] \notin Punctuation
         /\ s[i] = Quote => y \in JsonString(s, i)
         /\ s[i] \in InNumber => y \in JsonNumber(s, i)
         /\ s[i] \in Literals => y.index = i + 1
         /\ s[i] = "{" => IsObject(s, later, i, y)
         /\ s[i] = "[" => IsArray(s, later, i, y)
<1>1. CASE y \in JsonString(s, i)
  <2>1. i \in 1..Len(s) /\ s[i] = Quote
    BY <1>1 DEF JsonString, At
  <2> QED
    BY <1>1, <2>1 DEF Punctuation, Literals, InNumber, Digits, Quote, Blank
<1>2. CASE y \in JsonNumber(s, i)
  <2>1. i \in 1..Len(s) /\ s[i] \in InNumber
    <3>1. y.index \in i+1..Len(s)+1 /\ \A n \in i..y.index-1 : s[n] \in InNumber
      BY <1>2, JsonNumberTaken
    <3>2. i \in i..y.index-1 /\ i \in 1..Len(s)
      BY <3>1
    <3> QED
      BY <3>1, <3>2
  <2> QED
    BY <1>2, <2>1 DEF Punctuation, Literals, InNumber, Digits, Quote, Blank
<1>3. CASE y \in JsonLiteral(s, i)
  <2>1. i \in 1..Len(s) /\ s[i] \in Literals /\ y.index = i + 1
    BY <1>3 DEF JsonLiteral, At, Literals
  <2> QED
    BY <2>1 DEF Punctuation, Literals, InNumber, Digits, Quote, Blank
<1>4. ASSUME NEW r \in JsonList(s, later, "obj", i), y = [got |-> Obj(r.got), index |-> r.index]
      PROVE  i \in 1..Len(s) /\ s[i] = "{" /\ IsObject(s, later, i, y)
  <2>1. At(s, i, Opening["obj"])
    BY DEF JsonList
  <2>2. Opening["obj"] = "{"
    BY DEF Opening
  <2>3. IsObject(s, later, i, y)
    BY <1>4 DEF IsObject
  <2> QED
    BY <2>1, <2>2, <2>3 DEF At
<1>5. ASSUME NEW r \in JsonList(s, later, "arr", i), y = [got |-> Arr(r.got), index |-> r.index]
      PROVE  i \in 1..Len(s) /\ s[i] = "[" /\ IsArray(s, later, i, y)
  <2>1. At(s, i, Opening["arr"])
    BY DEF JsonList
  <2>2. Opening["arr"] = "["
    BY DEF Opening
  <2>3. IsArray(s, later, i, y)
    BY <1>5 DEF IsArray
  <2> QED
    BY <2>1, <2>2, <2>3 DEF At
<1>6. \/ y \in JsonString(s, i) \/ y \in JsonNumber(s, i) \/ y \in JsonLiteral(s, i)
      \/ \E r \in JsonList(s, later, "obj", i) : y = [got |-> Obj(r.got), index |-> r.index]
      \/ \E r \in JsonList(s, later, "arr", i) : y = [got |-> Arr(r.got), index |-> r.index]
  BY DEF JsonValue
<1>7. "{" \notin Punctuation \cup Literals \cup InNumber \cup {Quote, "["}
  BY DEF Punctuation, Literals, InNumber, Digits, Quote, Blank
<1>8. "[" \notin Punctuation \cup Literals \cup InNumber \cup {Quote, "{"}
  BY DEF Punctuation, Literals, InNumber, Digits, Quote, Blank
<1>9. CASE \E r \in JsonList(s, later, "obj", i) : y = [got |-> Obj(r.got), index |-> r.index]
  BY <1>4, <1>7, <1>9
<1>10. CASE \E r \in JsonList(s, later, "arr", i) : y = [got |-> Arr(r.got), index |-> r.index]
  BY <1>5, <1>8, <1>10
<1> QED
  BY <1>1, <1>2, <1>3, <1>6, <1>9, <1>10

-----------------------------------------------------------------------------
(* What the program gets from an object or an array is like what JSON.parse*)
(* gets.                                                                   *)

Kind(where) == IF where \in Objects THEN "obj" ELSE "arr"

(* Both have read on from the same index, in an object or array that has   *)
(* something in it.                                                        *)
Together(s, where, xs, ys) ==
  /\ \A key \in Needed(where) : Has(xs, key)
  /\ \/ xs = << >> /\ ys = << >>
     \/ \E k \in 1..Len(s)+1 : \E x \in Loops(s)[k][where], y \in JsonLists(s)[k][Kind(where)] :
          xs = x.got /\ ys = y.got

ObjectAlike(s, where, xs, y) == \E r : y = Obj(r) /\ Together(s, where, xs, r)
ArrayAlike(s, where, xs, y) == \E r : y = Arr(r) /\ Together(s, where, xs, r)

TextFields ==
  {<<"interaction", <<"id">>>>, <<"user", <<"id">>>>, <<"data", <<"name">>>>, <<"option", <<"name">>>>}

ValueAlike(s, where, key, x, y) ==
  /\ <<where, key>> \in TextFields => y = Str(x)
  /\ <<where, key>> = <<"interaction", <<"type">>>> => y = Num(x)
  /\ <<where, key>> = <<"option", <<"value">>>> => y \in {Str(x), Num(x)}
  /\ <<where, key>> = <<"interaction", <<"member">>>> => ObjectAlike(s, "member", x, y)
  /\ <<where, key>> = <<"interaction", <<"data">>>> => ObjectAlike(s, "data", x, y)
  /\ <<where, key>> = <<"member", <<"user">>>> => ObjectAlike(s, "user", x, y)
  /\ <<where, key>> = <<"data", <<"options">>>> => ArrayAlike(s, "options", x, y)

ItemAlike(s, where, x, y) ==
  /\ where \in Objects => x.key = y.key /\ ValueAlike(s, where, x.key, x.value, y.value)
  /\ where = "options" => ObjectAlike(s, "option", x, y)

IsSequence(t) == \E S : t \in Seq(S)

ItemsAlike(s, where, xs, ys) ==
  /\ IsSequence(xs) /\ IsSequence(ys) /\ Len(xs) = Len(ys)
  /\ \A n \in 1..Len(xs) : ItemAlike(s, where, xs[n], ys[n])

(* The two readers agree on what they read from k on.                      *)
AgreeAt(s, k) ==
  \A where \in Places : \A x \in Loops(s)[k][where], y \in JsonLists(s)[k][Kind(where)] :
    /\ x.index = y.index /\ x.index \in k+1..Len(s)+1
    /\ ItemsAlike(s, where, x.got, y.got)

LEMMA Prepend ==
  ASSUME NEW e, NEW t, IsSequence(t)
  PROVE  /\ IsSequence(<<e>> \o t)
         /\ Len(<<e>> \o t) = Len(t) + 1
         /\ (<<e>> \o t)[1] = e
         /\ \A n \in 2..Len(t)+1 : n - 1 \in 1..Len(t) /\ (<<e>> \o t)[n] = t[n - 1]
<1>1. PICK S : t \in Seq(S)
  BY DEF IsSequence
<1> DEFINE U == S \cup {e}
<1>2. t \in Seq(U) /\ <<e>> \in Seq(U)
  BY <1>1
<1> HIDE DEF U
<1>3. <<e>> \o t \in Seq(U)
  BY <1>2
<1>4. Len(<<e>> \o t) = Len(t) + 1 /\ Len(t) \in Nat
  BY <1>2
<1>5. (<<e>> \o t)[1] = e
  BY <1>2
<1>6. \A n \in 2..Len(t)+1 : n - 1 \in 1..Len(t) /\ (<<e>> \o t)[n] = t[n - 1]
  BY <1>2, <1>4
<1> QED
  BY <1>3, <1>4, <1>5, <1>6 DEF IsSequence

LEMMA ItemsPrepended ==
  ASSUME NEW s, NEW where, NEW x, NEW y, ItemAlike(s, where, x, y),
         NEW xs, NEW ys, ItemsAlike(s, where, xs, ys)
  PROVE  ItemsAlike(s, where, <<x>> \o xs, <<y>> \o ys)
<1>1. /\ IsSequence(xs) /\ IsSequence(ys) /\ Len(xs) = Len(ys)
      /\ \A n \in 1..Len(xs) : ItemAlike(s, where, xs[n], ys[n])
  BY DEF ItemsAlike
<1>2. /\ IsSequence(<<x>> \o xs) /\ Len(<<x>> \o xs) = Len(xs) + 1
      /\ (<<x>> \o xs)[1] = x
      /\ \A n \in 2..Len(xs)+1 : n - 1 \in 1..Len(xs) /\ (<<x>> \o xs)[n] = xs[n - 1]
  BY <1>1, Prepend
<1>3. /\ IsSequence(<<y>> \o ys) /\ Len(<<y>> \o ys) = Len(ys) + 1
      /\ (<<y>> \o ys)[1] = y
      /\ \A n \in 2..Len(ys)+1 : n - 1 \in 1..Len(ys) /\ (<<y>> \o ys)[n] = ys[n - 1]
  BY <1>1, Prepend
<1>4. Len(xs) \in Nat
  BY <1>1 DEF IsSequence
<1>5. ASSUME NEW n \in 1..Len(xs)+1 PROVE ItemAlike(s, where, (<<x>> \o xs)[n], (<<y>> \o ys)[n])
  <2>1. CASE n = 1
    BY <1>2, <1>3, <2>1
  <2>2. CASE n # 1
    <3>1. n \in 2..Len(xs)+1
      BY <1>4, <2>2
    <3> QED
      BY <1>1, <1>2, <1>3, <3>1
  <2> QED
    BY <2>1, <2>2
<1> QED
  BY <1>1, <1>2, <1>3, <1>5 DEF ItemsAlike

LEMMA OneItem ==
  ASSUME NEW s, NEW where, NEW x, NEW y, ItemAlike(s, where, x, y)
  PROVE  ItemsAlike(s, where, <<x>>, <<y>>)
<1>1. <<x>> \in Seq({x}) /\ <<y>> \in Seq({y}) /\ Len(<<x>>) = 1 /\ Len(<<y>>) = 1
  OBVIOUS
<1>2. \A n \in 1..1 : <<x>>[n] = x /\ <<y>>[n] = y
  OBVIOUS
<1> QED
  BY <1>1, <1>2 DEF ItemsAlike, IsSequence

LEMMA NoItems ==
  ASSUME NEW s, NEW where
  PROVE  ItemsAlike(s, where, << >>, << >>)
<1>1. << >> \in Seq({}) /\ Len(<< >>) = 0
  OBVIOUS
<1> QED
  BY <1>1 DEF ItemsAlike, IsSequence

-----------------------------------------------------------------------------
(* One turn of each loop.                                                  *)

Closes(where) == IF where \in Objects THEN "}" ELSE "]"

Item(s, later, where, i) ==
  IF where \in Objects THEN Field(s, later, where, i) ELSE Element(s, later, where, i)

JsonItem(s, later, kind, i) ==
  IF kind = "obj" THEN JsonField(s, later, i) ELSE JsonValue(s, later, i)

(* After the item r the loop x goes on, or ends.                           *)
GoesOn(s, later, where, closing, r, x) ==
  \/ /\ At(s, ConsumeWs(s, r.index), ",")
     /\ \E z \in later[ConsumeWs(s, r.index) + 1][where] :
          x.got = <<r.got>> \o z.got /\ x.index = z.index
  \/ /\ At(s, ConsumeWs(s, r.index), closing)
     /\ x.got = <<r.got>> /\ x.index = ConsumeWs(s, r.index) + 1

Turns(s, later, where, i, x) ==
  \/ At(s, ConsumeWs(s, i), Closes(where)) /\ x.got = << >> /\ x.index = ConsumeWs(s, i) + 1
  \/ \E r \in Item(s, later, where, ConsumeWs(s, i)) : GoesOn(s, later, where, Closes(where), r, x)

JsonTurns(s, later, kind, i, y) ==
  \E r \in JsonItem(s, later, kind, ConsumeWs(s, i)) : GoesOn(s, later, kind, Closing[kind], r, y)

LEMMA LoopTurn ==
  ASSUME NEW s, NEW later, NEW where, NEW i, NEW x \in Loop(s, later, where, i)
  PROVE  Turns(s, later, where, i, x)
<1> DEFINE start == ConsumeWs(s, i)
           item == Item(s, later, where, start)
           Turn(r, u) ==
             IF At(s, u, ",")
               THEN {[got |-> <<r.got>> \o z.got, index |-> z.index] : z \in later[u + 1][where]}
               ELSE {[got |-> <<r.got>>, index |-> n] : n \in ExpectByte(s, u, Closes(where))}
<1>1. Loop(s, later, where, i) =
        IF At(s, start, Closes(where)) THEN {[got |-> << >>, index |-> start + 1]}
        ELSE UNION {Turn(r, ConsumeWs(s, r.index)) : r \in item}
  BY DEF Loop, Item, Closes
<1>2. CASE At(s, start, Closes(where))
  <2>1. x = [got |-> << >>, index |-> start + 1]
    <3> HIDE DEF item, Turn, start
    <3> QED
      BY <1>1, <1>2
  <2> QED
    BY <1>2, <2>1 DEF Turns
<1>3. CASE ~ At(s, start, Closes(where))
  <2>1. PICK r \in item : x \in Turn(r, ConsumeWs(s, r.index))
    <3> HIDE DEF item, Turn, start
    <3> QED
      BY <1>1, <1>3
  <2> DEFINE u == ConsumeWs(s, r.index)
  <2>2. CASE At(s, u, ",")
    <3>1. PICK z \in later[u + 1][where] : x = [got |-> <<r.got>> \o z.got, index |-> z.index]
      BY <2>1, <2>2
    <3>2. x.got = <<r.got>> \o z.got /\ x.index = z.index
      BY <3>1
    <3> QED
      BY <2>2, <3>2 DEF Turns, GoesOn
  <2>3. CASE ~ At(s, u, ",")
    <3>1. PICK n \in ExpectByte(s, u, Closes(where)) : x = [got |-> <<r.got>>, index |-> n]
      BY <2>1, <2>3
    <3>2. At(s, u, Closes(where)) /\ n = u + 1
      BY <3>1 DEF ExpectByte
    <3> QED
      BY <3>1, <3>2 DEF Turns, GoesOn
  <2> QED
    BY <2>2, <2>3
<1> QED
  BY <1>2, <1>3

LEMMA JsonTurn ==
  ASSUME NEW s, NEW later, NEW kind, NEW i, NEW y \in JsonItems(s, later, kind, i)
  PROVE  JsonTurns(s, later, kind, i, y)
<1> DEFINE start == ConsumeWs(s, i)
           item == JsonItem(s, later, kind, start)
           Turn(r, u) ==
             {[got |-> <<r.got>> \o z.got, index |-> z.index] :
                z \in UNION {later[k][kind] : k \in ExpectByte(s, u, ",")}}
               \cup {[got |-> <<r.got>>, index |-> n] : n \in ExpectByte(s, u, Closing[kind])}
<1>1. JsonItems(s, later, kind, i) = UNION {Turn(r, ConsumeWs(s, r.index)) : r \in item}
  BY DEF JsonItems, JsonItem
<1>2. PICK r \in item : y \in Turn(r, ConsumeWs(s, r.index))
  <2> HIDE DEF item, Turn
  <2> QED
    BY <1>1
<1> DEFINE u == ConsumeWs(s, r.index)
<1>3. \/ \E k \in ExpectByte(s, u, ",") : \E z \in later[k][kind] :
           y = [got |-> <<r.got>> \o z.got, index |-> z.index]
      \/ \E n \in ExpectByte(s, u, Closing[kind]) : y = [got |-> <<r.got>>, index |-> n]
  BY <1>2
<1> HIDE DEF item
<1>4. \/ /\ At(s, u, ",")
         /\ \E z \in later[u + 1][kind] : y.got = <<r.got>> \o z.got /\ y.index = z.index
      \/ At(s, u, Closing[kind]) /\ y.got = <<r.got>> /\ y.index = u + 1
  <2>1. ASSUME NEW k \in ExpectByte(s, u, ","), NEW z \in later[k][kind],
               y = [got |-> <<r.got>> \o z.got, index |-> z.index]
        PROVE  At(s, u, ",") /\ k = u + 1 /\ y.got = <<r.got>> \o z.got /\ y.index = z.index
    <3> HIDE DEF u
    <3> QED
      BY <2>1 DEF ExpectByte
  <2>2. ASSUME NEW n \in ExpectByte(s, u, Closing[kind]), y = [got |-> <<r.got>>, index |-> n]
        PROVE  At(s, u, Closing[kind]) /\ y.got = <<r.got>> /\ y.index = u + 1
    <3> HIDE DEF u
    <3> QED
      BY <2>2 DEF ExpectByte
  <2> HIDE DEF u
  <2> QED
    BY <1>3, <2>1, <2>2
<1>5. GoesOn(s, later, kind, Closing[kind], r, y)
  BY <1>4 DEF GoesOn
<1> QED
  BY <1>5 DEF item, JsonTurns

(* What follows the opening brace or bracket at i.                         *)
LEMMA ListsAgree ==
  ASSUME NEW s \in Seq(Symbols), NEW i \in 1..Len(s), NEW where \in Places, AgreeAt(s, i + 1),
         NEW later, later[i + 1] = Loops(s)[i + 1],
         NEW jsonLater, jsonLater[i + 1] = JsonLists(s)[i + 1],
         NEW x \in later[i + 1][where], \A key \in Needed(where) : Has(x.got, key),
         NEW y \in JsonList(s, jsonLater, Kind(where), i)
  PROVE  /\ x.index = y.index /\ x.index \in i+2..Len(s)+1
         /\ Together(s, where, x.got, y.got)
<1> DEFINE inside == ConsumeWs(s, i + 1)
<1>1. i + 1 \in 1..Len(s)+1 /\ inside \in i+1..Len(s)+1
  BY Whitespace
<1>2. x \in Loops(s)[i + 1][where]
  OBVIOUS
<1>3. Closing[Kind(where)] = Closes(where)
  BY DEF Closing, Kind, Closes
<1>4. CASE At(s, inside, Closing[Kind(where)])
  <2>1. y = [got |-> << >>, index |-> inside + 1]
    BY <1>4 DEF JsonList
  <2>2. x \in Loop(s, [k \in i+1+1..Len(s)+1 |-> Loops(s)[k]], where, i + 1)
    BY <1>1, <1>2, LoopsRecursion
  <2>3. x = [got |-> << >>, index |-> inside + 1]
    BY <1>3, <1>4, <2>2 DEF Loop, Closes
  <2>4. inside + 1 \in i+2..Len(s)+1
    BY <1>1, <1>4 DEF At
  <2> QED
    BY <2>1, <2>3, <2>4 DEF Together
<1>5. CASE ~ At(s, inside, Closing[Kind(where)])
  <2>1. y \in JsonLists(s)[i + 1][Kind(where)]
    BY <1>5 DEF JsonList
  <2>2. x.index = y.index /\ x.index \in i+2..Len(s)+1
    BY <1>2, <2>1 DEF AgreeAt
  <2> QED
    BY <1>1, <1>2, <2>1, <2>2 DEF Together
<1> QED
  BY <1>4, <1>5

-----------------------------------------------------------------------------
(* Values.                                                                 *)

(* The index the two are at, and what they have read after it.             *)
ReadsOn(s, i, later, jsonLater) ==
  \A k \in i+1..Len(s)+1 :
    later[k] = Loops(s)[k] /\ jsonLater[k] = JsonLists(s)[k] /\ AgreeAt(s, k)

LEMMA ObjectsAgree ==
  ASSUME NEW s \in Seq(Symbols), NEW i \in 1..Len(s)+1, NEW later, NEW jsonLater,
         ReadsOn(s, i, later, jsonLater), NEW where \in Objects,
         NEW x \in Object(s, later, where, i), NEW y \in JsonValue(s, jsonLater, i)
  PROVE  /\ x.index = y.index /\ x.index \in i+1..Len(s)+1
         /\ ObjectAlike(s, where, x.got, y.got)
<1>1. At(s, i, "{") /\ x \in later[i + 1][where] /\ \A key \in Needed(where) : Has(x.got, key)
  BY DEF Object, ExpectByte
<1>2. i \in 1..Len(s) /\ s[i] = "{" /\ i + 1 \in i+1..Len(s)+1
  <2>1. i \in 1..Len(s)
    BY <1>1 DEF At
  <2>2. s[i] = "{"
    BY <1>1 DEF At
  <2>3. i + 1 \in i+1..Len(s)+1
    BY <2>1
  <2> QED
    BY <2>1, <2>2, <2>3
<1>3. PICK r \in JsonList(s, jsonLater, "obj", i) : y.got = Obj(r.got) /\ y.index = r.index
  <2>1. IsObject(s, jsonLater, i, y)
    BY <1>2, JsonValueTaken
  <2> QED
    BY <2>1 DEF IsObject
<1>4. /\ later[i + 1] = Loops(s)[i + 1] /\ jsonLater[i + 1] = JsonLists(s)[i + 1]
      /\ AgreeAt(s, i + 1)
  BY <1>2 DEF ReadsOn
<1>5. where \in Places /\ Kind(where) = "obj"
  BY DEF Places, Kind
<1>6. /\ x.index = r.index /\ x.index \in i+2..Len(s)+1
      /\ Together(s, where, x.got, r.got)
  BY <1>1, <1>2, <1>4, <1>5, ListsAgree
<1> QED
  BY <1>3, <1>6 DEF ObjectAlike

LEMMA ArraysAgree ==
  ASSUME NEW s \in Seq(Symbols), NEW i \in 1..Len(s)+1, NEW later, NEW jsonLater,
         ReadsOn(s, i, later, jsonLater), NEW where \in Arrays,
         NEW x \in Array(s, later, where, i), NEW y \in JsonValue(s, jsonLater, i)
  PROVE  /\ x.index = y.index /\ x.index \in i+1..Len(s)+1
         /\ ArrayAlike(s, where, x.got, y.got)
<1>1. At(s, i, "[") /\ x \in later[i + 1][where] /\ \A key \in Needed(where) : Has(x.got, key)
  <2>1. Needed(where) = {}
    BY DEF Needed, Arrays
  <2> QED
    BY <2>1 DEF Array, ExpectByte
<1>2. i \in 1..Len(s) /\ s[i] = "[" /\ i + 1 \in i+1..Len(s)+1
  BY <1>1 DEF At
<1>3. PICK r \in JsonList(s, jsonLater, "arr", i) : y.got = Arr(r.got) /\ y.index = r.index
  <2>1. IsArray(s, jsonLater, i, y)
    BY <1>2, JsonValueTaken
  <2> QED
    BY <2>1 DEF IsArray
<1>4. /\ later[i + 1] = Loops(s)[i + 1] /\ jsonLater[i + 1] = JsonLists(s)[i + 1]
      /\ AgreeAt(s, i + 1)
  BY <1>2 DEF ReadsOn
<1>5. where \in Places /\ Kind(where) = "arr"
  BY DEF Places, Kind, Arrays, Objects
<1>6. /\ x.index = r.index /\ x.index \in i+2..Len(s)+1
      /\ Together(s, where, x.got, r.got)
  BY <1>1, <1>2, <1>4, <1>5, ListsAgree
<1> QED
  BY <1>3, <1>6 DEF ArrayAlike

LEMMA StringValuesAgree ==
  ASSUME NEW s \in Seq(Symbols), NEW i \in 1..Len(s)+1, NEW jsonLater,
         NEW x \in ParseString(s, i), NEW y \in JsonValue(s, jsonLater, i)
  PROVE  /\ x.index = y.index /\ x.index \in i+1..Len(s)+1
         /\ y.got = Str(x.got)
<1>1. At(s, i, Quote)
  BY DEF ParseString
<1>2. y \in JsonString(s, i)
  BY <1>1, JsonValueTaken DEF At
<1> QED
  BY <1>2, StringsAgree

LEMMA NumberValuesAgree ==
  ASSUME NEW s \in Seq(Symbols), NEW i \in 1..Len(s)+1, NEW jsonLater,
         NEW x \in ParseDecimalToken(s, i), NEW y \in JsonValue(s, jsonLater, i)
  PROVE  /\ Stops(s, x, y) /\ x.index \in i+1..Len(s)+1
         /\ x.index = y.index => y.got = Num(x.got)
<1>1. x.index \in i+1..Len(s)+1 /\ \A n \in i..x.index-1 : s[n] \in InNumber
  BY DecimalTaken
<1>2. i \in i..x.index-1
  BY <1>1
<1>3. y \in JsonNumber(s, i)
  BY <1>1, <1>2, JsonValueTaken
<1> QED
  BY <1>1, <1>3, NumbersEnd

LEMMA SkippedAgree ==
  ASSUME NEW s \in Seq(Symbols), NEW i \in 1..Len(s)+1, ~ At(s, i, Blank), NEW later, NEW jsonLater,
         ReadsOn(s, i, later, jsonLater),
         NEW x \in SkipValue(s, later, i), NEW y \in JsonValue(s, jsonLater, i)
  PROVE  Stops(s, x, y) /\ x.index \in i+1..Len(s)+1
<1>1. ConsumeWs(s, i) = i
  BY Whitespace
<1>2. \/ At(s, i, "{") /\ x \in Object(s, later, "skipped object", i)
      \/ At(s, i, "[") /\ x \in Array(s, later, "skipped array", i)
      \/ At(s, i, Quote) /\ x \in ParseString(s, i)
      \/ (At(s, i, "true") \/ At(s, i, "false") \/ At(s, i, "null")) /\ x.index = i + 1
      \/ At(s, i, "-") /\ x \in ParseNumber(s, i + 1)
      \/ x \in ParseNumber(s, i)
  <2>1. x \in CASE At(s, i, "{") -> SkipObject(s, later, i)
                [] At(s, i, "[") -> Array(s, later, "skipped array", i)
                [] At(s, i, Quote) -> ParseString(s, i)
                [] At(s, i, "true") \/ At(s, i, "false") \/ At(s, i, "null") ->
                     {[got |-> << >>, index |-> i + 1]}
                [] At(s, i, "-") -> ParseNumber(s, i + 1)
                [] OTHER -> ParseNumber(s, i)
    BY <1>1 DEF SkipValue
  <2>2. CASE ~ \E c \in {"{", "[", Quote, "true", "false", "null", "-"} : At(s, i, c)
    BY <2>1, <2>2
  <2>3. ASSUME NEW c \in {"{", "[", Quote, "true", "false", "null", "-"}, At(s, i, c),
               NEW d \in {"{", "[", Quote, "true", "false", "null", "-"}, At(s, i, d)
        PROVE  c = d
    BY <2>3 DEF At
  <2>4. CASE At(s, i, "{")
    BY <2>1, <2>3, <2>4 DEF SkipObject, Quote
  <2>5. CASE At(s, i, "[")
    BY <2>1, <2>3, <2>5 DEF Quote
  <2>6. CASE At(s, i, Quote)
    BY <2>1, <2>3, <2>6 DEF Quote
  <2>7. CASE At(s, i, "true") \/ At(s, i, "false") \/ At(s, i, "null")
    <3>1. ~ At(s, i, "{") /\ ~ At(s, i, "[") /\ ~ At(s, i, Quote) /\ ~ At(s, i, "-")
      BY <2>3, <2>7 DEF Quote
    <3>2. x \in {[got |-> << >>, index |-> i + 1]}
      BY <2>1, <2>7, <3>1
    <3>3. x.index = i + 1
      BY <3>2
    <3> QED
      BY <2>7, <3>3
  <2>8. CASE At(s, i, "-")
    BY <2>1, <2>3, <2>8 DEF Quote
  <2> QED
    BY <2>2, <2>4, <2>5, <2>6, <2>7, <2>8
<1>3. CASE x \in Object(s, later, "skipped object", i)
  <2>1. "skipped object" \in Objects
    BY DEF Objects
  <2>2. x.index = y.index /\ x.index \in i+1..Len(s)+1 /\ ObjectAlike(s, "skipped object", x.got, y.got)
    BY <1>3, <2>1, ObjectsAgree
  <2> QED
    BY <2>2 DEF Stops
<1>4. CASE x \in Array(s, later, "skipped array", i)
  <2>1. "skipped array" \in Arrays
    BY DEF Arrays
  <2>2. x.index = y.index /\ x.index \in i+1..Len(s)+1 /\ ArrayAlike(s, "skipped array", x.got, y.got)
    BY <1>4, <2>1, ArraysAgree
  <2> QED
    BY <2>2 DEF Stops
<1>5. CASE x \in ParseString(s, i)
  BY <1>5, StringValuesAgree DEF Stops
<1>6. CASE (At(s, i, "true") \/ At(s, i, "false") \/ At(s, i, "null")) /\ x.index = i + 1
  <2>1. i \in 1..Len(s) /\ s[i] \in Literals
    BY <1>6 DEF At, Literals
  <2>2. y.index = i + 1
    BY <2>1, JsonValueTaken
  <2> QED
    BY <1>6, <2>1, <2>2 DEF Stops
<1>7. CASE At(s, i, "-") /\ x \in ParseNumber(s, i + 1)
  <2>1. i \in 1..Len(s) /\ s[i] \in InNumber /\ i + 1 \in i..i+1 /\ i + 1 \in 1..Len(s)+1
    BY <1>7 DEF At, InNumber
  <2>2. y \in JsonNumber(s, i)
    BY <2>1, JsonValueTaken
  <2>3. x \in ParseDecimalToken(s, i + 1)
    BY <1>7 DEF ParseNumber
  <2>4. x.index \in i+2..Len(s)+1
    BY <2>1, <2>3, DecimalTaken
  <2> QED
    BY <2>1, <2>2, <2>3, <2>4, NumbersEnd
<1>8. CASE x \in ParseNumber(s, i)
  BY <1>8, NumberValuesAgree DEF ParseNumber
<1> QED
  BY <1>2, <1>3, <1>4, <1>5, <1>6, <1>7, <1>8

(* The fields that the program does not skip are told apart.               *)
LEMMA FieldsDiffer ==
  /\ \A p \in TextFields :
       p \notin {<<"interaction", <<"type">>>>, <<"option", <<"value">>>>, <<"interaction", <<"member">>>>,
                 <<"interaction", <<"data">>>>, <<"member", <<"user">>>>, <<"data", <<"options">>>>}
  /\ <<"interaction", <<"type">>>> \notin
       {<<"option", <<"value">>>>, <<"interaction", <<"member">>>>,
        <<"interaction", <<"data">>>>, <<"member", <<"user">>>>, <<"data", <<"options">>>>}
  /\ <<"option", <<"value">>>> \notin
       {<<"interaction", <<"member">>>>,
        <<"interaction", <<"data">>>>, <<"member", <<"user">>>>, <<"data", <<"options">>>>}
  /\ <<"interaction", <<"member">>>> \notin
       {<<"interaction", <<"data">>>>, <<"member", <<"user">>>>, <<"data", <<"options">>>>}
  /\ <<"interaction", <<"data">>>> \notin {<<"member", <<"user">>>>, <<"data", <<"options">>>>}
  /\ <<"member", <<"user">>>> # <<"data", <<"options">>>>
BY DEF TextFields

(* What a field's value is read as.                                        *)
LEMMA ValueRead ==
  ASSUME NEW s, NEW later, NEW where, NEW key, NEW i, NEW x \in Value(s, later, where, key, i)
  PROVE  \/ <<where, key>> \in TextFields /\ x \in ParseString(s, i)
         \/ <<where, key>> = <<"interaction", <<"type">>>> /\ x \in ParseDecimalToken(s, i)
         \/ /\ <<where, key>> = <<"option", <<"value">>>>
            /\ x \in ParseString(s, i) \cup ParseDecimalToken(s, i)
         \/ /\ <<where, key>> = <<"interaction", <<"member">>>>
            /\ x \in Object(s, later, "member", i)
         \/ <<where, key>> = <<"interaction", <<"data">>>> /\ x \in Object(s, later, "data", i)
         \/ <<where, key>> = <<"member", <<"user">>>> /\ x \in Object(s, later, "user", i)
         \/ <<where, key>> = <<"data", <<"options">>>> /\ x \in Array(s, later, "options", i)
         \/ /\ <<where, key>> \notin
                 TextFields \cup {<<"interaction", <<"type">>>>, <<"option", <<"value">>>>,
                                  <<"interaction", <<"member">>>>, <<"interaction", <<"data">>>>,
                                  <<"member", <<"user">>>>, <<"data", <<"options">>>>}
            /\ x \in SkipValue(s, later, i)
<1> DEFINE p == <<where, key>>
           decimals == {r \in ParseString(s, i) : IsDecimal(r.got)}
           ids == {<<"interaction", <<"id">>>>, <<"user", <<"id">>>>}
           names == {<<"data", <<"name">>>>, <<"option", <<"name">>>>}
           type == <<"interaction", <<"type">>>>
           value == <<"option", <<"value">>>>
           member == <<"interaction", <<"member">>>>
           data == <<"interaction", <<"data">>>>
           user == <<"member", <<"user">>>>
           options == <<"data", <<"options">>>>
<1>1. x \in CASE p \in ids -> decimals
              [] p = type -> ParseNumber(s, i)
              [] p = member -> Object(s, later, "member", i)
              [] p = data -> Object(s, later, "data", i)
              [] p = user -> Object(s, later, "user", i)
              [] p \in names -> ParseString(s, i)
              [] p = options -> Array(s, later, "options", i)
              [] p = value -> ParseStringOrNumberValue(s, i)
              [] OTHER -> SkipValue(s, later, i)
  BY DEF Value
<1>2. TextFields = ids \cup names
  BY DEF TextFields
<1>3. ids \cap names = {}
  OBVIOUS
<1>4. /\ \A q \in ids \cup names : q \notin {type, value, member, data, user, options}
      /\ type \notin {value, member, data, user, options}
      /\ value \notin {member, data, user, options}
      /\ member \notin {data, user, options}
      /\ data \notin {user, options}
      /\ user # options
  BY <1>2, FieldsDiffer
<1>5. decimals \subseteq ParseString(s, i) /\ ParseNumber(s, i) \subseteq ParseDecimalToken(s, i)
  BY DEF ParseNumber
<1>6. ParseStringOrNumberValue(s, i) \subseteq ParseString(s, i) \cup ParseDecimalToken(s, i)
  BY DEF ParseStringOrNumberValue
<1> HIDE DEF p, decimals, ids, names, type, value, member, data, user, options
<1>7. CASE p \in ids
  BY <1>1, <1>2, <1>3, <1>4, <1>5, <1>7 DEF p
<1>8. CASE p = type
  BY <1>1, <1>4, <1>5, <1>8 DEF p, type
<1>9. CASE p = member
  BY <1>1, <1>4, <1>9 DEF p, member
<1>10. CASE p = data
  BY <1>1, <1>4, <1>10 DEF p, data
<1>11. CASE p = user
  BY <1>1, <1>4, <1>11 DEF p, user
<1>12. CASE p \in names
  BY <1>1, <1>2, <1>3, <1>4, <1>12 DEF p
<1>13. CASE p = options
  BY <1>1, <1>4, <1>13 DEF p, options
<1>14. CASE p = value
  BY <1>1, <1>4, <1>6, <1>14 DEF p, value
<1>15. CASE p \notin ids \cup names \cup {type, value, member, data, user, options}
  <2>1. x \in SkipValue(s, later, i)
    BY <1>1, <1>15
  <2> QED
    BY <1>2, <1>15, <2>1 DEF p, type, value, member, data, user, options
<1> QED
  BY <1>7, <1>8, <1>9, <1>10, <1>11, <1>12, <1>13, <1>14, <1>15

LEMMA ValuesAgree ==
  ASSUME NEW s \in Seq(Symbols), NEW i \in 1..Len(s)+1, ~ At(s, i, Blank), NEW later, NEW jsonLater,
         ReadsOn(s, i, later, jsonLater), NEW where, NEW key,
         NEW x \in Value(s, later, where, key, i), NEW y \in JsonValue(s, jsonLater, i)
  PROVE  /\ Stops(s, x, y) /\ x.index \in i+1..Len(s)+1
         /\ x.index = y.index => ValueAlike(s, where, key, x.got, y.got)
<1> DEFINE p == <<where, key>>
           type == <<"interaction", <<"type">>>>
           value == <<"option", <<"value">>>>
           member == <<"interaction", <<"member">>>>
           data == <<"interaction", <<"data">>>>
           user == <<"member", <<"user">>>>
           options == <<"data", <<"options">>>>
           Alike == /\ p \in TextFields => y.got = Str(x.got)
                    /\ p = type => y.got = Num(x.got)
                    /\ p = value => y.got \in {Str(x.got), Num(x.got)}
                    /\ p = member => ObjectAlike(s, "member", x.got, y.got)
                    /\ p = data => ObjectAlike(s, "data", x.got, y.got)
                    /\ p = user => ObjectAlike(s, "user", x.got, y.got)
                    /\ p = options => ArrayAlike(s, "options", x.got, y.got)
           Agree == Stops(s, x, y) /\ x.index \in i+1..Len(s)+1 /\ (x.index = y.index => Alike)
<1>1. ValueAlike(s, where, key, x.got, y.got) <=> Alike
  BY DEF ValueAlike
<1>2. \/ p \in TextFields /\ x \in ParseString(s, i)
      \/ p = type /\ x \in ParseDecimalToken(s, i)
      \/ p = value /\ x \in ParseString(s, i) \cup ParseDecimalToken(s, i)
      \/ p = member /\ x \in Object(s, later, "member", i)
      \/ p = data /\ x \in Object(s, later, "data", i)
      \/ p = user /\ x \in Object(s, later, "user", i)
      \/ p = options /\ x \in Array(s, later, "options", i)
      \/ /\ p \notin TextFields \cup {type, value, member, data, user, options}
         /\ x \in SkipValue(s, later, i)
  BY ValueRead
<1>3. /\ \A q \in TextFields : q \notin {type, value, member, data, user, options}
      /\ type \notin {value, member, data, user, options}
      /\ value \notin {member, data, user, options}
      /\ member \notin {data, user, options}
      /\ data \notin {user, options}
      /\ user # options
  BY FieldsDiffer
<1> HIDE DEF p, type, value, member, data, user, options
<1>4. ASSUME x \in ParseString(s, i)
      PROVE  Stops(s, x, y) /\ x.index \in i+1..Len(s)+1 /\ y.got = Str(x.got)
  BY <1>4, StringValuesAgree DEF Stops
<1>5. ASSUME x \in ParseDecimalToken(s, i)
      PROVE  /\ Stops(s, x, y) /\ x.index \in i+1..Len(s)+1
             /\ x.index = y.index => y.got = Num(x.got)
  BY <1>5, NumberValuesAgree
<1>6. ASSUME NEW w \in Objects, x \in Object(s, later, w, i)
      PROVE  Stops(s, x, y) /\ x.index \in i+1..Len(s)+1 /\ ObjectAlike(s, w, x.got, y.got)
  <2>1. x.index = y.index /\ x.index \in i+1..Len(s)+1 /\ ObjectAlike(s, w, x.got, y.got)
    BY <1>6, ObjectsAgree
  <2> QED
    BY <2>1 DEF Stops
<1>7. {"member", "data", "user"} \subseteq Objects /\ "options" \in Arrays
  BY DEF Objects, Arrays
<1>8. CASE p \in TextFields /\ x \in ParseString(s, i)
  <2>1. Alike
    BY <1>3, <1>4, <1>8
  <2> QED
    BY <1>1, <1>4, <1>8, <2>1
<1>9. CASE p = type /\ x \in ParseDecimalToken(s, i)
  <2>1. x.index = y.index => Alike
    BY <1>3, <1>5, <1>9
  <2> QED
    BY <1>1, <1>5, <1>9, <2>1
<1>10. CASE p = value /\ x \in ParseString(s, i) \cup ParseDecimalToken(s, i)
  <2>1. Stops(s, x, y) /\ x.index \in i+1..Len(s)+1
    BY <1>4, <1>5, <1>10
  <2>2. x.index = y.index => y.got \in {Str(x.got), Num(x.got)}
    BY <1>4, <1>5, <1>10
  <2>3. x.index = y.index => Alike
    BY <1>3, <1>10, <2>2
  <2> QED
    BY <1>1, <2>1, <2>3
<1>11. CASE p = member /\ x \in Object(s, later, "member", i)
  <2>1. Stops(s, x, y) /\ x.index \in i+1..Len(s)+1 /\ ObjectAlike(s, "member", x.got, y.got)
    BY <1>6, <1>7, <1>11
  <2>2. Alike
    BY <1>3, <1>11, <2>1
  <2> QED
    BY <1>1, <2>1, <2>2
<1>12. CASE p = data /\ x \in Object(s, later, "data", i)
  <2>1. Stops(s, x, y) /\ x.index \in i+1..Len(s)+1 /\ ObjectAlike(s, "data", x.got, y.got)
    BY <1>6, <1>7, <1>12
  <2>2. Alike
    BY <1>3, <1>12, <2>1
  <2> QED
    BY <1>1, <2>1, <2>2
<1>13. CASE p = user /\ x \in Object(s, later, "user", i)
  <2>1. Stops(s, x, y) /\ x.index \in i+1..Len(s)+1 /\ ObjectAlike(s, "user", x.got, y.got)
    BY <1>6, <1>7, <1>13
  <2>2. Alike
    BY <1>3, <1>13, <2>1
  <2> QED
    BY <1>1, <2>1, <2>2
<1>14. CASE p = options /\ x \in Array(s, later, "options", i)
  <2>1. x.index = y.index /\ x.index \in i+1..Len(s)+1 /\ ArrayAlike(s, "options", x.got, y.got)
    BY <1>7, <1>14, ArraysAgree
  <2>2. Alike
    BY <1>3, <1>14, <2>1
  <2>3. Stops(s, x, y)
    BY <2>1 DEF Stops
  <2> QED
    BY <1>1, <2>1, <2>2, <2>3
<1>15. CASE /\ p \notin TextFields \cup {type, value, member, data, user, options}
            /\ x \in SkipValue(s, later, i)
  <2>1. Alike
    BY <1>15
  <2>2. Stops(s, x, y) /\ x.index \in i+1..Len(s)+1
    BY <1>15, SkippedAgree
  <2> QED
    BY <1>1, <2>1, <2>2
<1> QED
  BY <1>2, <1>8, <1>9, <1>10, <1>11, <1>12, <1>13, <1>14, <1>15

(* A field of an object or an element of an array.                         *)
LEMMA ItemsAgree ==
  ASSUME NEW s \in Seq(Symbols), NEW i \in 1..Len(s)+1, ~ At(s, i, Blank), NEW later, NEW jsonLater,
         NEW from \in 1..i, ReadsOn(s, from, later, jsonLater), NEW where \in Places,
         NEW x \in Item(s, later, where, i), NEW y \in JsonItem(s, jsonLater, Kind(where), i)
  PROVE  /\ Stops(s, x, y) /\ x.index \in i+1..Len(s)+1
         /\ x.index = y.index => ItemAlike(s, where, x.got, y.got)
         /\ i \in 1..Len(s) /\ s[i] \notin Punctuation
<1>0. \A j \in i..Len(s)+1 : ReadsOn(s, j, later, jsonLater)
  BY DEF ReadsOn
<1>1. CASE where \in Objects
  <2>1. Kind(where) = "obj"
    BY <1>1 DEF Kind
  <2>2. PICK k, c, v :
          /\ k \in ParseString(s, i) /\ c \in ExpectByte(s, ConsumeWs(s, k.index), ":")
          /\ v \in Value(s, later, where, k.got, ConsumeWs(s, c))
          /\ x = [got |-> [key |-> k.got, value |-> v.got], index |-> v.index]
    BY <1>1 DEF Item, Field
  <2>3. PICK q, d, w :
          /\ q \in JsonString(s, i) /\ d \in ExpectByte(s, ConsumeWs(s, q.index), ":")
          /\ w \in JsonValue(s, jsonLater, ConsumeWs(s, d))
          /\ y = [got |-> [key |-> q.got.str, value |-> w.got], index |-> w.index]
    BY <2>1 DEF JsonItem, JsonField
  <2>4. k.index = q.index /\ q.got = Str(k.got) /\ k.index \in i+2..Len(s)+1
    BY <2>2, <2>3, StringsAgree
  <2>5. q.got.str = k.got
    BY <2>4 DEF Str
  <2> DEFINE u == ConsumeWs(s, k.index)
             t == ConsumeWs(s, u + 1)
  <2>6. u \in i+2..Len(s)+1
    <3>1. k.index \in 1..Len(s)+1
      BY <2>4
    <3>2. u \in k.index..Len(s)+1
      BY <3>1, Whitespace
    <3> QED
      BY <2>4, <3>2
  <2>7. c = u + 1 /\ d = u + 1 /\ u \in 1..Len(s)
    BY <2>2, <2>3, <2>4, <2>6 DEF ExpectByte, At
  <2>8. t \in i+1..Len(s)+1 /\ ~ At(s, t, Blank)
    <3>1. u + 1 \in 1..Len(s)+1
      BY <2>7
    <3>2. t \in u+1..Len(s)+1 /\ ~ At(s, t, Blank)
      BY <3>1, Whitespace
    <3> QED
      BY <2>6, <3>2
  <2>9. v \in Value(s, later, where, k.got, t) /\ w \in JsonValue(s, jsonLater, t)
    BY <2>2, <2>3, <2>7
  <2> HIDE DEF t
  <2>10. t \in 1..Len(s)+1 /\ ReadsOn(s, t, later, jsonLater)
    BY <1>0, <2>8
  <2>11. /\ Stops(s, v, w) /\ v.index \in t+1..Len(s)+1
         /\ v.index = w.index => ValueAlike(s, where, k.got, v.got, w.got)
    BY <2>8, <2>9, <2>10, ValuesAgree
  <2>12. x.index = v.index /\ y.index = w.index /\ x.got = [key |-> k.got, value |-> v.got]
         /\ y.got = [key |-> k.got, value |-> w.got]
    BY <2>2, <2>3, <2>5
  <2>13. x.got.key = k.got /\ x.got.value = v.got /\ y.got.key = k.got /\ y.got.value = w.got
    BY <2>12
  <2>14. Stops(s, x, y)
    BY <2>11, <2>12 DEF Stops
  <2>15. x.index \in i+1..Len(s)+1
    BY <2>8, <2>11, <2>12
  <2>16. where # "options"
    BY <1>1 DEF Objects
  <2>17. x.index = y.index => ItemAlike(s, where, x.got, y.got)
    BY <2>11, <2>12, <2>13, <2>16 DEF ItemAlike
  <2>18. i \in 1..Len(s) /\ s[i] \notin Punctuation
    <3>1. At(s, i, Quote)
      BY <2>2 DEF ParseString
    <3> QED
      BY <3>1 DEF At, Punctuation, Quote, Blank
  <2> QED
    BY <2>14, <2>15, <2>17, <2>18
<1>2. CASE where \notin Objects
  <2>1. y \in JsonValue(s, jsonLater, i)
    BY <1>2 DEF JsonItem, Kind
  <2>2. i \in 1..Len(s) /\ s[i] \notin Punctuation
    BY <2>1, JsonValueTaken
  <2>3. ReadsOn(s, i, later, jsonLater)
    BY <1>0
  <2>4. CASE where = "options"
    <3>1. x \in Object(s, later, "option", i) /\ "option" \in Objects
      BY <1>2, <2>4 DEF Item, Element, Objects
    <3>2. x.index = y.index /\ x.index \in i+1..Len(s)+1 /\ ObjectAlike(s, "option", x.got, y.got)
      BY <2>1, <2>3, <3>1, ObjectsAgree
    <3>3. Stops(s, x, y) /\ ItemAlike(s, where, x.got, y.got)
      BY <1>2, <3>2 DEF Stops, ItemAlike
    <3> QED
      BY <2>2, <3>2, <3>3
  <2>5. CASE where # "options"
    <3>1. x \in SkipValue(s, later, i)
      BY <1>2, <2>5 DEF Item, Element
    <3>2. Stops(s, x, y) /\ x.index \in i+1..Len(s)+1
      BY <2>1, <2>3, <3>1, SkippedAgree
    <3>3. ItemAlike(s, where, x.got, y.got)
      BY <1>2, <2>5 DEF ItemAlike
    <3> QED
      BY <2>2, <3>2, <3>3
  <2> QED
    BY <2>4, <2>5
<1> QED
  BY <1>1, <1>2

(* One turn of both loops, if they agree on what follows.                  *)
LEMMA TurnsAgree ==
  ASSUME NEW s \in Seq(Symbols), NEW i \in 1..Len(s)+1, \A k \in i+1..Len(s)+1 : AgreeAt(s, k)
  PROVE  AgreeAt(s, i)
<1> SUFFICES ASSUME NEW where \in Places,
                    NEW x \in Loops(s)[i][where], NEW y \in JsonLists(s)[i][Kind(where)]
             PROVE  /\ x.index = y.index /\ x.index \in i+1..Len(s)+1
                    /\ ItemsAlike(s, where, x.got, y.got)
  BY DEF AgreeAt
<1> DEFINE later == [k \in i+1..Len(s)+1 |-> Loops(s)[k]]
           jsonLater == [k \in i+1..Len(s)+1 |-> JsonLists(s)[k]]
           start == ConsumeWs(s, i)
<1>1. start \in i..Len(s)+1 /\ start \in 1..Len(s)+1 /\ ~ At(s, start, Blank)
  <2>1. start \in i..Len(s)+1 /\ ~ At(s, start, Blank)
    BY Whitespace
  <2> HIDE DEF start
  <2> QED
    BY <2>1
<1>2. ReadsOn(s, i, later, jsonLater)
  BY DEF ReadsOn
<1>3. x \in Loop(s, later, where, i)
  BY LoopsRecursion
<1>4. y \in JsonItems(s, jsonLater, Kind(where), i)
  <2>1. Kind(where) \in {"obj", "arr"}
    BY DEF Kind
  <2> QED
    BY <2>1, JsonRecursion
<1> HIDE DEF later, jsonLater
<1>5. Turns(s, later, where, i, x)
  BY <1>3, LoopTurn
<1>6. Closing[Kind(where)] = Closes(where) /\ Closes(where) \in {"}", "]"}
  BY DEF Closing, Kind, Closes
<1>7. PICK q \in JsonItem(s, jsonLater, Kind(where), start) :
        GoesOn(s, jsonLater, Kind(where), Closes(where), q, y)
  <2>1. JsonTurns(s, jsonLater, Kind(where), i, y)
    BY <1>4, JsonTurn
  <2> QED
    BY <1>6, <2>1 DEF JsonTurns
<1> HIDE DEF start
<1>8. start \in 1..Len(s) /\ s[start] \notin Punctuation
  <2>1. CASE where \in Objects
    <3>1. q \in JsonField(s, jsonLater, start)
      BY <2>1 DEF JsonItem, Kind
    <3>2. At(s, start, Quote)
      BY <3>1 DEF JsonField, JsonString
    <3> QED
      BY <3>2 DEF At, Punctuation, Quote, Blank
  <2>2. CASE where \notin Objects
    <3>1. q \in JsonValue(s, jsonLater, start)
      BY <2>2 DEF JsonItem, Kind
    <3> QED
      BY <1>1, <3>1, JsonValueTaken
  <2> QED
    BY <2>1, <2>2
<1>9. ~ At(s, start, Closes(where))
  BY <1>6, <1>8 DEF At, Punctuation
<1>10. PICK r \in Item(s, later, where, start) : GoesOn(s, later, where, Closes(where), r, x)
  BY <1>5, <1>9 DEF Turns, start
<1> DEFINE u == ConsumeWs(s, r.index)
<1>11. /\ Stops(s, r, q) /\ r.index \in start+1..Len(s)+1
       /\ r.index = q.index => ItemAlike(s, where, r.got, q.got)
  <2>1. i \in 1..start
    BY <1>1
  <2> QED
    BY <1>1, <1>2, <2>1, ItemsAgree
<1>12. r.index \in 1..Len(s)+1 /\ u \in r.index..Len(s)+1
  <2>1. r.index \in 1..Len(s)+1
    BY <1>1, <1>11
  <2> QED
    BY <2>1, Whitespace
<1>13. At(s, u, ",") \/ At(s, u, Closes(where))
  BY <1>10 DEF GoesOn
<1>14. r.index = q.index
  <2>1. CASE r.index \in 1..Len(s) /\ s[r.index] \in InNumber
    <3>1. ~ At(s, r.index, Blank)
      BY <2>1 DEF At, InNumber, Digits, Blank
    <3>2. u = r.index
      BY <1>12, <3>1, Whitespace
    <3>3. s[r.index] \in {",", "}", "]"}
      BY <1>6, <1>13, <3>2 DEF At
    <3> QED
      BY <2>1, <3>3 DEF InNumber, Digits
  <2> QED
    BY <1>11, <2>1 DEF Stops
<1>15. u + 1 \in i+2..Len(s)+1 /\ u + 1 \in i+1..Len(s)+1
  <2>1. u \in 1..Len(s)
    BY <1>13 DEF At
  <2> HIDE DEF u
  <2> QED
    BY <1>1, <1>11, <1>12, <2>1
<1>16. "," # Closes(where)
  BY <1>6
<1>17. CASE At(s, u, ",")
  <2>1. ~ At(s, u, Closes(where))
    BY <1>16, <1>17 DEF At
  <2>2. PICK z \in later[u + 1][where] : x.got = <<r.got>> \o z.got /\ x.index = z.index
    BY <1>10, <2>1 DEF GoesOn
  <2>3. PICK t \in jsonLater[u + 1][Kind(where)] : y.got = <<q.got>> \o t.got /\ y.index = t.index
    BY <1>7, <1>14, <2>1 DEF GoesOn
  <2> HIDE DEF u
  <2>4. z \in Loops(s)[u + 1][where] /\ t \in JsonLists(s)[u + 1][Kind(where)]
    BY <1>15, <2>2, <2>3 DEF later, jsonLater
  <2>5. /\ z.index = t.index /\ z.index \in u+2..Len(s)+1
        /\ ItemsAlike(s, where, z.got, t.got)
    <3>1. AgreeAt(s, u + 1)
      BY <1>15
    <3>2. /\ z.index = t.index /\ z.index \in u+1+1..Len(s)+1
          /\ ItemsAlike(s, where, z.got, t.got)
      BY <2>4, <3>1 DEF AgreeAt
    <3> QED
      BY <1>12, <3>2
  <2>6. ItemsAlike(s, where, x.got, y.got)
    BY <1>11, <1>14, <2>2, <2>3, <2>5, ItemsPrepended
  <2>7. x.index = y.index /\ x.index \in i+1..Len(s)+1
    BY <1>1, <1>11, <1>12, <2>2, <2>3, <2>5
  <2> QED
    BY <2>6, <2>7
<1>18. CASE At(s, u, Closes(where))
  <2>1. ~ At(s, u, ",")
    BY <1>16, <1>18 DEF At
  <2>2. x.got = <<r.got>> /\ x.index = u + 1
    BY <1>10, <2>1 DEF GoesOn
  <2>3. y.got = <<q.got>> /\ y.index = u + 1
    BY <1>7, <1>14, <2>1 DEF GoesOn
  <2>4. ItemsAlike(s, where, x.got, y.got)
    BY <1>11, <1>14, <2>2, <2>3, OneItem
  <2> QED
    BY <1>15, <2>2, <2>3, <2>4
<1> QED
  BY <1>13, <1>17, <1>18

LEMMA LoopsAgree ==
  ASSUME NEW s \in Seq(Symbols)
  PROVE  \A i \in 1..Len(s)+1 : AgreeAt(s, i)
<1> DEFINE l == Len(s) + 1
           P == {i \in 1..l : AgreeAt(s, i)}
<1>1. ASSUME NEW i \in 1..l, \A k \in i+1..l : k \in P PROVE i \in P
  BY <1>1, TurnsAgree
<1>2. l \in Nat
  OBVIOUS
<1>3. \A i \in 1..l : i \in P
  <2> HIDE DEF P, l
  <2> QED
    BY <1>1, <1>2, FromTheEnd
<1> QED
  BY <1>3

LEMMA TogetherAlike ==
  ASSUME NEW s \in Seq(Symbols), NEW where \in Places, NEW xs, NEW ys, Together(s, where, xs, ys)
  PROVE  ItemsAlike(s, where, xs, ys)
<1>1. CASE xs = << >> /\ ys = << >>
  BY <1>1, NoItems
<1>2. CASE \E k \in 1..Len(s)+1 : \E x \in Loops(s)[k][where], y \in JsonLists(s)[k][Kind(where)] :
             xs = x.got /\ ys = y.got
  <2>1. PICK k \in 1..Len(s)+1 :
          \E x \in Loops(s)[k][where], y \in JsonLists(s)[k][Kind(where)] : xs = x.got /\ ys = y.got
    BY <1>2
  <2>2. AgreeAt(s, k)
    BY LoopsAgree
  <2> QED
    BY <2>1, <2>2 DEF AgreeAt
<1> QED
  BY <1>1, <1>2 DEF Together

-----------------------------------------------------------------------------
(* What is read of a command.                                              *)

LEMMA SameField ==
  ASSUME NEW xs, NEW ys, Len(xs) \in Nat, Len(xs) = Len(ys),
         \A n \in 1..Len(xs) : xs[n].key = ys[n].key,
         NEW key, Has(xs, key)
  PROVE  \E n \in 1..Len(xs) :
           /\ xs[n].key = key
           /\ Get(xs, key) = xs[n].value /\ Get(ys, key) = ys[n].value
<1> DEFINE l == Len(xs)
           T == {q \in 0..l : l - q \in 1..l /\ xs[l - q].key = key}
           Last(fields, n) == /\ fields[n].key = key
                              /\ \A m \in n+1..Len(fields) : fields[m].key # key
           last == CHOOSE n \in 1..Len(xs) : Last(xs, n)
           sameLast == CHOOSE n \in 1..Len(ys) : Last(ys, n)
<1>1. PICK m \in 1..l : xs[m].key = key
  BY DEF Has
<1>2. T # {} /\ T \subseteq Nat
  <2>1. l - m \in 0..l /\ l - (l - m) = m
    BY <1>1
  <2>2. l - m \in T
    BY <1>1, <2>1
  <2>3. T \subseteq 0..l /\ 0..l \subseteq Nat
    OBVIOUS
  <2> HIDE DEF T
  <2> QED
    BY <2>2, <2>3
<1>3. PICK q \in T : \A z \in T : q <= z
  <2> HIDE DEF T
  <2> QED
    BY <1>2, LeastElement
<1>4. l - q \in 1..l /\ xs[l - q].key = key
  OBVIOUS
<1>5. Last(xs, l - q)
  <2>1. ASSUME NEW n \in l-q+1..l, xs[n].key = key PROVE FALSE
    <3>1. l - n \in 0..l /\ l - (l - n) = n /\ n \in 1..l /\ ~ (q <= l - n)
      BY <1>4
    <3>2. l - n \in T
      BY <2>1, <3>1
    <3> QED
      BY <1>3, <3>1, <3>2
  <2> QED
    BY <1>4, <2>1
<1>6. \A n \in 1..l : Last(xs, n) <=> Last(ys, n)
  <2>1. \A n \in 1..l : \A k \in n+1..l : k \in 1..l
    OBVIOUS
  <2> QED
    BY <2>1
<1>7. \A n, k \in 1..l : Last(xs, n) /\ Last(xs, k) => n = k
  <2>1. \A n, k \in 1..l : n = k \/ n \in k+1..l \/ k \in n+1..l
    OBVIOUS
  <2> QED
    BY <2>1
<1> HIDE DEF Last
<1>8. last \in 1..l /\ Last(xs, last)
  BY <1>4, <1>5
<1>9. sameLast \in 1..l /\ Last(ys, sameLast)
  BY <1>4, <1>5, <1>6
<1>10. last = sameLast
  BY <1>6, <1>7, <1>8, <1>9
<1>11. Get(xs, key) = xs[last].value /\ Get(ys, key) = ys[sameLast].value
  BY DEF Get, Last
<1> HIDE DEF last, sameLast
<1> QED
  BY <1>8, <1>10, <1>11 DEF Last

LEMMA FieldsAlike ==
  ASSUME NEW s, NEW where \in Objects, NEW xs, NEW ys, ItemsAlike(s, where, xs, ys), NEW key
  PROVE  /\ Has(xs, key) <=> Has(ys, key)
         /\ Has(xs, key) => ValueAlike(s, where, key, Get(xs, key), Get(ys, key))
<1>1. /\ Len(xs) = Len(ys) /\ Len(xs) \in Nat
      /\ \A n \in 1..Len(xs) : /\ xs[n].key = ys[n].key
                               /\ ValueAlike(s, where, xs[n].key, xs[n].value, ys[n].value)
  BY DEF ItemsAlike, IsSequence, ItemAlike
<1>2. Has(xs, key) <=> Has(ys, key)
  BY <1>1 DEF Has
<1>3. ASSUME Has(xs, key) PROVE ValueAlike(s, where, key, Get(xs, key), Get(ys, key))
  <2>1. \E n \in 1..Len(xs) :
          /\ xs[n].key = key
          /\ Get(xs, key) = xs[n].value /\ Get(ys, key) = ys[n].value
    BY <1>1, <1>3, SameField
  <2> QED
    BY <1>1, <2>1
<1> QED
  BY <1>2, <1>3

(* An object that is needed in one that has been read alike.               *)
LEMMA ObjectsAlike ==
  ASSUME NEW s \in Seq(Symbols), NEW where \in Objects, NEW xs, NEW y, ObjectAlike(s, where, xs, y)
  PROVE  /\ ItemsAlike(s, where, xs, y.obj)
         /\ y = Obj(y.obj)
         /\ \A key \in Needed(where) : Has(xs, key)
<1>1. PICK r : y = Obj(r) /\ Together(s, where, xs, r)
  BY DEF ObjectAlike
<1>2. y.obj = r
  BY <1>1 DEF Obj
<1>3. ItemsAlike(s, where, xs, r)
  BY <1>1, TogetherAlike DEF Places
<1> QED
  BY <1>1, <1>2, <1>3 DEF Together

LEMMA OptionAlike ==
  ASSUME NEW s \in Seq(Symbols), NEW x, NEW y, ObjectAlike(s, "option", x, y)
  PROVE  /\ NameOf(y) = Get(x, <<"name">>)
         /\ Text(Get(y.obj, <<"value">>)) = Get(x, <<"value">>)
<1>1. "option" \in Objects /\ Needed("option") = {<<"name">>, <<"value">>}
  BY DEF Objects, Needed
<1>2. /\ ItemsAlike(s, "option", x, y.obj)
      /\ Has(x, <<"name">>) /\ Has(x, <<"value">>)
  BY <1>1, ObjectsAlike
<1>3. /\ ValueAlike(s, "option", <<"name">>, Get(x, <<"name">>), Get(y.obj, <<"name">>))
      /\ ValueAlike(s, "option", <<"value">>, Get(x, <<"value">>), Get(y.obj, <<"value">>))
  BY <1>1, <1>2, FieldsAlike
<1>4. Get(y.obj, <<"name">>) = Str(Get(x, <<"name">>))
  BY <1>3 DEF ValueAlike, TextFields
<1>5. Get(y.obj, <<"value">>) \in {Str(Get(x, <<"value">>)), Num(Get(x, <<"value">>))}
  BY <1>3 DEF ValueAlike
<1>6. ASSUME NEW t PROVE Text(Str(t)) = t /\ Text(Num(t)) = t /\ Str(t).str = t
  BY DEF Text, Str, Num
<1> QED
  BY <1>4, <1>5, <1>6 DEF NameOf

(* Options of different names are the same options by any order.           *)
LEMMA OptionsAlike ==
  ASSUME NEW s \in Seq(Symbols), NEW xs, NEW ys, ItemsAlike(s, "options", xs, ys),
         \A n, m \in 1..Len(ys) : NameOf(ys[n]) = NameOf(ys[m]) => n = m
  PROVE  ParseOptions(xs) =
           [name \in {o \in OptionNames : \E n \in 1..Len(ys) : NameOf(ys[n]) = o} |->
              OptionStringValue(ys, name)]
<1> DEFINE l == Len(xs)
           Name(n) == Get(xs[n], <<"name">>)
           Value_(n) == Get(xs[n], <<"value">>)
           named == [n \in 1..l |-> [key |-> Name(n), value |-> Value_(n)]]
<1>1. Len(ys) = l /\ l \in Nat
  BY DEF ItemsAlike, IsSequence
<1>2. ASSUME NEW n \in 1..l
      PROVE  NameOf(ys[n]) = Name(n) /\ Text(Get(ys[n].obj, <<"value">>)) = Value_(n)
  <2>1. ObjectAlike(s, "option", xs[n], ys[n])
    BY DEF ItemsAlike, ItemAlike
  <2> QED
    BY <2>1, OptionAlike
<1> HIDE DEF Name, Value_, l
<1>3. Len(named) = l /\ \A n \in 1..l : named[n].key = Name(n) /\ named[n].value = Value_(n)
  BY <1>1
<1>4. ParseOptions(xs) = [name \in {o \in OptionNames : Has(named, o)} |-> Get(named, name)]
  BY DEF ParseOptions, Name, Value_, l
<1> HIDE DEF named
<1>5. ASSUME NEW o PROVE Has(named, o) <=> \E n \in 1..Len(ys) : NameOf(ys[n]) = o
  BY <1>1, <1>2, <1>3 DEF Has
<1>6. ASSUME NEW name, NEW n \in 1..l, Name(n) = name
      PROVE  Get(named, name) = OptionStringValue(ys, name)
  <2>1. \A m \in 1..l : Name(m) = name <=> m = n
    BY <1>1, <1>2, <1>6
  <2>2. Get(named, name) = Value_(n)
    <3> DEFINE Last(m) == named[m].key = name /\ \A k \in m+1..Len(named) : named[k].key # name
    <3>1. \A m \in 1..Len(named) : Last(m) <=> m = n
      <4>1. \A m \in 1..l : \A k \in m+1..l : k \in 1..l /\ k # m
        BY <1>1
      <4> QED
        BY <1>3, <2>1, <4>1
    <3>2. n \in 1..Len(named)
      BY <1>3
    <3>3. Get(named, name) = named[CHOOSE m \in 1..Len(named) : Last(m)].value
      BY DEF Get
    <3> HIDE DEF Last
    <3>4. (CHOOSE m \in 1..Len(named) : Last(m)) = n
      BY <3>1, <3>2
    <3> QED
      BY <1>3, <3>3, <3>4
  <2>3. OptionStringValue(ys, name) = Value_(n)
    <3> DEFINE First(m) == NameOf(ys[m]) = name /\ \A k \in 1..m-1 : NameOf(ys[k]) # name
    <3>1. \A m \in 1..Len(ys) : First(m) <=> m = n
      <4>1. \A m \in 1..l : \A k \in 1..m-1 : k \in 1..l /\ k # m
        BY <1>1
      <4> QED
        BY <1>1, <1>2, <2>1, <4>1
    <3>2. OptionStringValue(ys, name) =
            Text(Get(ys[CHOOSE m \in 1..Len(ys) : First(m)].obj, <<"value">>))
      BY DEF OptionStringValue
    <3> HIDE DEF First
    <3>3. (CHOOSE m \in 1..Len(ys) : First(m)) = n
      BY <1>1, <3>1
    <3> QED
      BY <1>2, <3>2, <3>3
  <2> QED
    BY <2>2, <2>3
<1>7. \A o : Has(named, o) => Get(named, o) = OptionStringValue(ys, o)
  BY <1>1, <1>2, <1>5, <1>6
<1> QED
  BY <1>4, <1>5, <1>7

HasAll(where, fields) == \A key \in Needed(where) : Has(fields, key)

(* What the program reads as an interaction, and what JSON.parse reads.    *)
GivenOptions(data) == IF Has(data, <<"options">>) THEN Get(data, <<"options">>) ELSE << >>

LEMMA InteractionsAgree ==
  ASSUME NEW s \in Seq(Symbols), NEW i \in 1..Len(s)+1,
         NEW x \in Object(s, Loops(s), "interaction", i), NEW y \in JsonValue(s, JsonLists(s), i)
  PROVE  ItemsAlike(s, "interaction", x.got, y.got.obj) /\ HasAll("interaction", x.got)
<1>1. ReadsOn(s, i, Loops(s), JsonLists(s))
  <2>1. i+1..Len(s)+1 \subseteq 1..Len(s)+1
    OBVIOUS
  <2> QED
    BY <2>1, LoopsAgree DEF ReadsOn
<1>2. "interaction" \in Objects
  BY DEF Objects
<1>3. ObjectAlike(s, "interaction", x.got, y.got)
  BY <1>1, <1>2, ObjectsAgree
<1> QED
  BY <1>2, <1>3, ObjectsAlike DEF HasAll

LEMMA InteractionAlike ==
  ASSUME NEW s \in Seq(Symbols), NEW x, NEW v,
         ItemsAlike(s, "interaction", x, v), HasAll("interaction", x)
  PROVE  LET user == Get(Get(x, <<"member">>), <<"user">>)
             jsonUser == Get(Get(v, <<"member">>).obj, <<"user">>).obj
             data == Get(x, <<"data">>)
             jsonData == Get(v, <<"data">>).obj
         IN  /\ IsComplete(v)
             /\ Get(v, <<"id">>).str = Get(x, <<"id">>)
             /\ Get(v, <<"type">>).num = Get(x, <<"type">>)
             /\ Get(jsonUser, <<"id">>).str = Get(user, <<"id">>)
             /\ Get(jsonData, <<"name">>).str = Get(data, <<"name">>)
             /\ ItemsAlike(s, "options", GivenOptions(data), Options(v))
<1>1. /\ "interaction" \in Objects
      /\ Needed("interaction") = {<<"id">>, <<"type">>, <<"guild_id">>, <<"member">>, <<"data">>}
      /\ "member" \in Objects /\ Needed("member") = {<<"user">>}
      /\ "user" \in Objects /\ Needed("user") = {<<"id">>}
      /\ "data" \in Objects /\ Needed("data") = {<<"name">>}
      /\ "options" \in Places
  BY DEF Needed, Objects, Places, Arrays
<1>2. IsComplete(v)
  <2>1. ASSUME NEW key \in Needed("interaction") PROVE Has(v, key)
    <3>1. Has(x, key) <=> Has(v, key)
      BY <1>1, FieldsAlike
    <3> QED
      BY <3>1 DEF HasAll
  <2> QED
    BY <2>1 DEF IsComplete
<1> DEFINE Alike(key) == ValueAlike(s, "interaction", key, Get(x, key), Get(v, key))
<1>3. Alike(<<"id">>) /\ Alike(<<"type">>) /\ Alike(<<"member">>) /\ Alike(<<"data">>)
  <2>1. ASSUME NEW key \in Needed("interaction") PROVE Alike(key)
    BY <1>1, FieldsAlike DEF HasAll
  <2> HIDE DEF Alike
  <2> QED
    BY <1>1, <2>1
<1>4. Get(v, <<"id">>).str = Get(x, <<"id">>)
  BY <1>3 DEF ValueAlike, TextFields, Str
<1>5. Get(v, <<"type">>).num = Get(x, <<"type">>)
  BY <1>3 DEF ValueAlike, Num
<1> DEFINE member == Get(x, <<"member">>)
           jsonMember == Get(v, <<"member">>).obj
           user == Get(member, <<"user">>)
           jsonUser == Get(jsonMember, <<"user">>).obj
           data == Get(x, <<"data">>)
           jsonData == Get(v, <<"data">>).obj
<1>6. ItemsAlike(s, "member", member, jsonMember) /\ Has(member, <<"user">>)
  <2>1. ObjectAlike(s, "member", member, Get(v, <<"member">>))
    BY <1>3 DEF ValueAlike
  <2> QED
    BY <1>1, <2>1, ObjectsAlike
<1>7. ItemsAlike(s, "data", data, jsonData) /\ Has(data, <<"name">>)
  <2>1. ObjectAlike(s, "data", data, Get(v, <<"data">>))
    BY <1>3 DEF ValueAlike
  <2> QED
    BY <1>1, <2>1, ObjectsAlike
<1> HIDE DEF member, jsonMember, data, jsonData, Alike
<1>8. ItemsAlike(s, "user", user, jsonUser) /\ Has(user, <<"id">>)
  <2>1. ValueAlike(s, "member", <<"user">>, user, Get(jsonMember, <<"user">>))
    BY <1>1, <1>6, FieldsAlike
  <2>2. ObjectAlike(s, "user", user, Get(jsonMember, <<"user">>))
    BY <2>1 DEF ValueAlike
  <2> QED
    BY <1>1, <2>2, ObjectsAlike
<1> HIDE DEF user, jsonUser
<1>9. Get(jsonUser, <<"id">>).str = Get(user, <<"id">>)
  <2>1. ValueAlike(s, "user", <<"id">>, Get(user, <<"id">>), Get(jsonUser, <<"id">>))
    BY <1>1, <1>8, FieldsAlike
  <2> QED
    BY <2>1 DEF ValueAlike, TextFields, Str
<1>10. Get(jsonData, <<"name">>).str = Get(data, <<"name">>)
  <2>1. ValueAlike(s, "data", <<"name">>, Get(data, <<"name">>), Get(jsonData, <<"name">>))
    BY <1>1, <1>7, FieldsAlike
  <2> QED
    BY <2>1 DEF ValueAlike, TextFields, Str
<1>11. ItemsAlike(s, "options", GivenOptions(data), Options(v))
  <2>1. CASE Has(data, <<"options">>)
    <3>1. Has(jsonData, <<"options">>)
      BY <1>1, <1>7, <2>1, FieldsAlike
    <3>2. ValueAlike(s, "data", <<"options">>, Get(data, <<"options">>), Get(jsonData, <<"options">>))
      BY <1>1, <1>7, <2>1, FieldsAlike
    <3>3. ArrayAlike(s, "options", Get(data, <<"options">>), Get(jsonData, <<"options">>))
      BY <3>2 DEF ValueAlike
    <3>4. PICK r : /\ Get(jsonData, <<"options">>) = Arr(r)
                   /\ Together(s, "options", Get(data, <<"options">>), r)
      BY <3>3 DEF ArrayAlike
    <3>5. Options(v) = r
      BY <3>1, <3>4 DEF Options, Arr, jsonData
    <3> QED
      BY <1>1, <2>1, <3>4, <3>5, TogetherAlike DEF GivenOptions
  <2>2. CASE ~ Has(data, <<"options">>)
    <3>1. ~ Has(jsonData, <<"options">>)
      BY <1>1, <1>7, <2>2, FieldsAlike
    <3>2. Options(v) = << >>
      BY <3>1 DEF Options, jsonData
    <3> QED
      BY <2>2, <3>2, NoItems DEF GivenOptions
  <2> QED
    BY <2>1, <2>2
<1> QED
  BY <1>2, <1>4, <1>5, <1>9, <1>10, <1>11 DEF user, jsonUser, member, jsonMember, data, jsonData

(* A command that is read in the bytes of a body is read alike by both.    *)
LEMMA CommandAlike ==
  ASSUME NEW s \in Seq(Symbols), NEW v \in JsonParse(s), NEW c \in Command(s)
  PROVE  IsComplete(v) /\ (OptionsDiffer(v) => c = ReadByRelayer(v))
<1> DEFINE i == ConsumeWs(s, 1)
<1>1. i \in 1..Len(s)+1
  <2>1. 1 \in 1..Len(s)+1
    OBVIOUS
  <2> QED
    BY <2>1, Whitespace
<1>2. PICK y \in JsonValue(s, JsonLists(s), i) : "obj" \in DOMAIN y.got /\ y.got.obj = v
  BY DEF JsonParse
<1>3. PICK x \in Object(s, Loops(s), "interaction", i) :
        c = [id |-> Get(x.got, <<"id">>),
             user |-> Get(Get(Get(x.got, <<"member">>), <<"user">>), <<"id">>),
             data |-> ParseData(Get(x.got, <<"data">>))]
  BY DEF Command, ParseInteraction
<1> HIDE DEF i
<1> DEFINE user == Get(Get(x.got, <<"member">>), <<"user">>)
           jsonUser == Get(Get(v, <<"member">>).obj, <<"user">>).obj
           data == Get(x.got, <<"data">>)
           jsonData == Get(v, <<"data">>).obj
<1>4. /\ IsComplete(v)
      /\ Get(v, <<"id">>).str = Get(x.got, <<"id">>)
      /\ Get(jsonUser, <<"id">>).str = Get(user, <<"id">>)
      /\ Get(jsonData, <<"name">>).str = Get(data, <<"name">>)
      /\ ItemsAlike(s, "options", GivenOptions(data), Options(v))
  <2>1. ItemsAlike(s, "interaction", x.got, v) /\ HasAll("interaction", x.got)
    BY <1>1, <1>2, InteractionsAgree
  <2> QED
    BY <2>1, InteractionAlike
<1>5. ASSUME OptionsDiffer(v) PROVE c = ReadByRelayer(v)
  <2> DEFINE read == ParseData(data).options
             jsonRead == ReadByRelayer(v).data.options
  <2>1. c = [id |-> Get(x.got, <<"id">>), user |-> Get(user, <<"id">>),
             data |-> [name |-> Get(data, <<"name">>), options |-> read]]
    BY <1>3 DEF ParseData
  <2>2. ReadByRelayer(v) =
          [id |-> Get(v, <<"id">>).str, user |-> Get(jsonUser, <<"id">>).str,
           data |-> [name |-> Get(jsonData, <<"name">>).str, options |-> jsonRead]]
    BY DEF ReadByRelayer
  <2>3. read = jsonRead
    <3> HIDE DEF data
    <3>1. read = ParseOptions(GivenOptions(data))
      <4> DEFINE options == ParseOptions(GivenOptions(data))
      <4>1. ParseData(data) = [name |-> Get(data, <<"name">>), options |-> options]
        BY DEF ParseData, GivenOptions
      <4> HIDE DEF options
      <4>2. ParseData(data).options = options
        BY <4>1
      <4> QED
        BY <4>2 DEF options
    <3>2. ParseOptions(GivenOptions(data)) =
            [name \in {o \in OptionNames : \E n \in 1..Len(Options(v)) : NameOf(Options(v)[n]) = o} |->
               OptionStringValue(Options(v), name)]
      <4>1. ItemsAlike(s, "options", GivenOptions(data), Options(v))
        BY <1>4
      <4>2. \A n, m \in 1..Len(Options(v)) : NameOf(Options(v)[n]) = NameOf(Options(v)[m]) => n = m
        BY <1>5 DEF OptionsDiffer
      <4> QED
        BY <4>1, <4>2, OptionsAlike
    <3>3. jsonRead =
            [name \in {o \in OptionNames : \E n \in 1..Len(Options(v)) : NameOf(Options(v)[n]) = o} |->
               OptionStringValue(Options(v), name)]
      BY DEF ReadByRelayer
    <3> QED
      BY <3>1, <3>2, <3>3
  <2> HIDE DEF read, jsonRead, user, jsonUser, data, jsonData
  <2> QED
    BY <1>4, <2>1, <2>2, <2>3
<1> QED
  BY <1>4, <1>5

-----------------------------------------------------------------------------
(* What JSON.parse reads of a command, the program reads: first, what is in  *)
(* a value, and its tokens.                                                *)

(* What is inside a value at a depth is what is inside it less deep, with  *)
(* the parts of that.                                                      *)
LEMMA InsideRecursion ==
  ASSUME NEW v
  PROVE  /\ Inside(v, 0) = {v}
         /\ \A depth \in Nat : Inside(v, depth + 1) = WithParts(Inside(v, depth))
<1> DEFINE Turn(f, d) == IF d = 0 THEN {v} ELSE WithParts(f[d - 1])
           Deep(f, depth) == f = [d \in 0..depth |-> Turn(f, d)]
           To(depth) == CHOOSE f : Deep(f, depth)
<1>1. \A depth : Inside(v, depth) = To(depth)[depth]
  BY DEF Inside
<1>2. ASSUME NEW depth \in Nat, \E f : Deep(f, depth) PROVE \E f : Deep(f, depth + 1)
  <2>1. PICK f : Deep(f, depth)
    BY <1>2
  <2> DEFINE h == [d \in 0..depth+1 |-> IF d = depth + 1 THEN Turn(f, d) ELSE f[d]]
  <2>2. ASSUME NEW d \in 0..depth+1 PROVE h[d] = Turn(h, d)
    <3>1. Turn(h, d) = Turn(f, d)
      <4>1. d = 0 \/ (d - 1 \in 0..depth+1 /\ d - 1 # depth + 1)
        OBVIOUS
      <4>2. d = 0 \/ h[d - 1] = f[d - 1]
        BY <4>1
      <4> HIDE DEF h
      <4> QED
        BY <4>2
    <3>2. CASE d = depth + 1
      BY <3>1, <3>2
    <3>3. CASE d # depth + 1
      <4>1. d \in 0..depth
        BY <3>3
      <4>2. f[d] = Turn(f, d)
        BY <2>1, <4>1
      <4> QED
        BY <3>1, <3>3, <4>2
    <3> QED
      BY <3>2, <3>3
  <2>3. h = [d \in 0..depth+1 |-> h[d]]
    OBVIOUS
  <2>4. Deep(h, depth + 1)
    <3> HIDE DEF h, Turn
    <3> QED
      BY <2>2, <2>3
  <2> QED
    BY <2>4
<1>3. \E f : Deep(f, 0)
  <2> DEFINE h == [d \in 0..0 |-> {v}]
  <2>1. h = [d \in 0..0 |-> Turn(h, d)]
    OBVIOUS
  <2> QED
    BY <2>1
<1> HIDE DEF Deep
<1>4. ASSUME NEW depth \in Nat PROVE Deep(To(depth), depth)
  <2> DEFINE T == {n \in Nat : ~ \E f : Deep(f, n)}
  <2>1. CASE T # {}
    <3>1. PICK n \in T : \A m \in T : n <= m
      <4>1. T \subseteq Nat
        OBVIOUS
      <4> HIDE DEF T
      <4> QED
        BY <2>1, <4>1, LeastElement
    <3>2. n # 0
      BY <1>3
    <3>3. n - 1 \in Nat /\ ~ (n <= n - 1)
      BY <3>2
    <3>4. \E f : Deep(f, n - 1)
      BY <3>1, <3>3
    <3>5. \E f : Deep(f, (n - 1) + 1)
      BY <1>2, <3>3, <3>4
    <3>6. (n - 1) + 1 = n
      OBVIOUS
    <3> QED
      BY <3>5, <3>6
  <2>2. CASE T = {}
    BY <2>2
  <2> QED
    BY <2>1, <2>2
<1>5. ASSUME NEW depth \in Nat, NEW d \in 0..depth PROVE To(depth)[d] = Turn(To(depth), d)
  <2> HIDE DEF To, Turn
  <2>1. To(depth) = [e \in 0..depth |-> Turn(To(depth), e)]
    BY <1>4 DEF Deep
  <2> QED
    BY <2>1
<1> HIDE DEF To
<1>6. Inside(v, 0) = {v}
  BY <1>1, <1>5
<1>7. ASSUME NEW depth \in Nat PROVE Inside(v, depth + 1) = WithParts(Inside(v, depth))
  <2> DEFINE f == To(depth)
             g == To(depth + 1)
             T == {d \in 0..depth : f[d] # g[d]}
  <2>0. depth + 1 \in Nat /\ 0..depth \subseteq 0..depth+1 /\ 0..depth \subseteq Nat
    OBVIOUS
  <2>1. CASE T # {}
    <3>1. PICK d \in T : \A e \in T : d <= e
      <4>1. T \subseteq Nat
        BY <2>0
      <4> HIDE DEF T
      <4> QED
        BY <2>1, <4>1, LeastElement
    <3>2. d \in 0..depth /\ f[d] # g[d]
      OBVIOUS
    <3>3. f[d] = Turn(f, d) /\ g[d] = Turn(g, d)
      BY <1>5, <2>0, <3>2
    <3>4. CASE d = 0
      BY <3>2, <3>3, <3>4
    <3>5. CASE d # 0
      <4>1. d - 1 \in 0..depth /\ ~ (d <= d - 1)
        BY <3>2, <3>5
      <4>2. f[d - 1] = g[d - 1]
        BY <3>1, <4>1
      <4> QED
        BY <3>2, <3>3, <3>5, <4>2
    <3> QED
      BY <3>4, <3>5
  <2>2. CASE T = {}
    <3>1. f[depth] = g[depth]
      BY <2>2
    <3>2. g[depth + 1] = WithParts(g[depth])
      <4>1. g[depth + 1] = Turn(g, depth + 1)
        BY <1>5, <2>0
      <4>2. depth + 1 # 0 /\ (depth + 1) - 1 = depth
        OBVIOUS
      <4> HIDE DEF g
      <4> QED
        BY <4>1, <4>2
    <3> HIDE DEF f, g
    <3> QED
      BY <1>1, <3>1, <3>2 DEF f, g
  <2> QED
    BY <2>1, <2>2
<1> QED
  BY <1>6, <1>7

(* A value with integers only is one, and its parts are such values.       *)
LEMMA IntegersInside ==
  ASSUME NEW v, NEW depth \in Nat, OnlyIntegers(v, depth)
  PROVE  /\ "num" \in DOMAIN v => IsDecimal(Unsigned(v.num))
         /\ depth > 0 => \A w \in Parts(v) : OnlyIntegers(w, depth - 1)
<1>1. v \in Inside(v, depth)
  <2> DEFINE T == {d \in Nat : v \notin Inside(v, d)}
  <2>1. CASE T # {}
    <3>1. PICK d \in T : \A e \in T : d <= e
      <4>1. T \subseteq Nat
        OBVIOUS
      <4> HIDE DEF T
      <4> QED
        BY <2>1, <4>1, LeastElement
    <3>2. d # 0
      BY InsideRecursion
    <3>3. d - 1 \in Nat /\ ~ (d <= d - 1) /\ (d - 1) + 1 = d
      BY <3>2
    <3>4. v \in Inside(v, d - 1)
      BY <3>1, <3>3
    <3>5. Inside(v, d) = WithParts(Inside(v, d - 1))
      <4>1. Inside(v, (d - 1) + 1) = WithParts(Inside(v, d - 1))
        BY <3>3, InsideRecursion
      <4> QED
        BY <3>3, <4>1
    <3> QED
      BY <3>4, <3>5 DEF WithParts
  <2> QED
    BY <2>1
<1>2. ASSUME NEW w \in Parts(v), depth > 0 PROVE Inside(w, depth - 1) \subseteq Inside(v, depth)
  <2> DEFINE T == {d \in Nat : ~ (Inside(w, d) \subseteq Inside(v, d + 1))}
  <2>1. CASE T # {}
    <3>1. PICK d \in T : \A e \in T : d <= e
      <4>1. T \subseteq Nat
        OBVIOUS
      <4> HIDE DEF T
      <4> QED
        BY <2>1, <4>1, LeastElement
    <3>2. d # 0
      <4>1. Inside(w, 0) = {w} /\ Inside(v, 0) = {v} /\ Inside(v, 0 + 1) = WithParts(Inside(v, 0))
        BY InsideRecursion
      <4>2. w \in Inside(v, 0 + 1)
        BY <4>1 DEF WithParts
      <4> QED
        BY <4>1, <4>2
    <3>3. d - 1 \in Nat /\ ~ (d <= d - 1) /\ (d - 1) + 1 = d /\ d \in Nat
      BY <3>2
    <3>4. Inside(w, d - 1) \subseteq Inside(v, d)
      <4>1. Inside(w, d - 1) \subseteq Inside(v, (d - 1) + 1)
        BY <3>1, <3>3
      <4> QED
        BY <3>3, <4>1
    <3>5. Inside(w, d) = WithParts(Inside(w, d - 1)) /\ Inside(v, d + 1) = WithParts(Inside(v, d))
      <4>1. Inside(w, (d - 1) + 1) = WithParts(Inside(w, d - 1))
        BY <3>3, InsideRecursion
      <4>2. Inside(v, d + 1) = WithParts(Inside(v, d))
        BY <3>3, InsideRecursion
      <4> QED
        BY <3>3, <4>1, <4>2
    <3>6. Inside(w, d) \subseteq Inside(v, d + 1)
      BY <3>4, <3>5 DEF WithParts
    <3> QED
      BY <3>6
  <2>2. CASE T = {}
    <3>1. depth - 1 \in Nat /\ (depth - 1) + 1 = depth
      BY <1>2
    <3>2. Inside(w, depth - 1) \subseteq Inside(v, (depth - 1) + 1)
      BY <2>2, <3>1
    <3> QED
      BY <3>1, <3>2
  <2> QED
    BY <2>1, <2>2
<1>3. "num" \in DOMAIN v => IsDecimal(Unsigned(v.num))
  BY <1>1 DEF OnlyIntegers
<1>4. depth > 0 => \A w \in Parts(v) : OnlyIntegers(w, depth - 1)
  BY <1>2 DEF OnlyIntegers
<1> QED
  BY <1>3, <1>4

(* What is read ends where something does that JSON.parse reads.           *)
ReadTo(read, y) == \E x \in read : x.index = y.index

LEMMA StringRead ==
  ASSUME NEW s \in Seq(Symbols), NEW i \in Nat, NEW y \in JsonString(s, i)
  PROVE  \E x \in ParseString(s, i) : x.index = y.index /\ y.got = Str(x.got)
<1>1. At(s, i, Quote) /\ \E k \in i+1..Len(s) : EndsJsonString(s, i + 1, k)
  BY DEF JsonString
<1>2. \E k \in i+1..Len(s) : EndsString(s, i + 1, k)
  BY <1>1, Escapes
<1>3. \E x : x \in ParseString(s, i)
  <2> DEFINE end == CHOOSE k \in i+1..Len(s) :
                      EndsString(s, i + 1, k) /\ \A n \in i+1..k-1 : ~ EndsString(s, i + 1, n)
  <2>1. ParseString(s, i) = {[got |-> SubSeq(s, i + 1, end - 1), index |-> end + 1]}
    BY <1>1, <1>2 DEF ParseString
  <2> HIDE DEF end
  <2> QED
    BY <2>1
<1> QED
  BY <1>3, StringsAgree

(* Digits and a dot among them, up to e.                                   *)
LEMMA TokenRead ==
  ASSUME NEW s \in Seq(Symbols), NEW i \in 1..Len(s), NEW e \in i+1..Len(s)+1,
         InDecimal(s, i, e), s[e - 1] # ".", e = Len(s) + 1 \/ s[e] \notin InNumber
  PROVE  [got |-> SubSeq(s, i, e - 1), index |-> e] \in ParseDecimalToken(s, i)
<1>1. e = Len(s) + 1 \/ ~ InDecimal(s, i, e + 1)
  <2>1. e \in i..(e + 1) - 1
    OBVIOUS
  <2>2. ASSUME InDecimal(s, i, e + 1) PROVE s[e] \in InNumber
    BY <2>1, <2>2 DEF InDecimal, InNumber
  <2> QED
    BY <2>2
<1> QED
  BY <1>1 DEF ParseDecimalToken

LEMMA DigitsRead ==
  ASSUME NEW s \in Seq(Symbols), NEW i \in 1..Len(s), NEW e \in i+1..Len(s)+1,
         \A n \in i..e-1 : s[n] \in Digits, e = Len(s) + 1 \/ s[e] \notin InNumber
  PROVE  LET token == SubSeq(s, i, e - 1)
         IN  /\ [got |-> token, index |-> e] \in ParseDecimalToken(s, i)
             /\ DecimalValue(token) <= MaxU64 => [got |-> token, index |-> e] \in ParseNumber(s, i)
<1> DEFINE t == SubSeq(s, i, e - 1)
<1>1. InDecimal(s, i, e)
  BY DEF InDecimal
<1>2. s[e - 1] # "."
  <2>1. e - 1 \in i..e-1
    OBVIOUS
  <2> QED
    BY <2>1 DEF Digits
<1>3. [got |-> t, index |-> e] \in ParseDecimalToken(s, i)
  BY <1>1, <1>2, TokenRead
<1>4. Len(t) = e - i /\ \A n \in 1..e-i : t[n] = s[i + n - 1]
  OBVIOUS
<1>5. t # << >> /\ \A n \in 1..Len(t) : t[n] \in Digits
  <2>1. \A n \in 1..e-i : i + n - 1 \in i..e-1
    OBVIOUS
  <2>2. e - i > 0 /\ Len(<< >>) = 0
    OBVIOUS
  <2> QED
    BY <1>4, <2>1, <2>2
<1> HIDE DEF t
<1>6. DecimalValue(t) <= MaxU64 => IsDecimal(t)
  BY <1>5 DEF IsDecimal
<1>7. DecimalValue(t) <= MaxU64 => [got |-> t, index |-> e] \in ParseNumber(s, i)
  BY <1>3, <1>6 DEF ParseNumber
<1> QED
  BY <1>3, <1>7 DEF t

(* A number from i to e that has no exponent: a sign or not, digits, and   *)
(* after a dot, if there is one, digits again.                             *)
PlainNumber(s, i, e) ==
  \E a \in 0..1 :
    /\ a = 1 => s[i] = "-"
    /\ i + a < e
    /\ \/ \A n \in i+a..e-1 : s[n] \in Digits
       \/ \E p \in i+a+1..e-2 :
            s[p] = "." /\ \A n \in i+a..e-1 : n = p \/ s[n] \in Digits

LEMMA NumberWithoutExponent ==
  ASSUME NEW s \in Seq(Symbols), NEW i \in 1..Len(s)+1, NEW y \in JsonNumber(s, i),
         \A n \in 1..Len(y.got.num) : y.got.num[n] \notin {"e", "E"}
  PROVE  /\ i \in 1..Len(s) /\ y.index \in i+1..Len(s)+1
         /\ y.index = Len(s) + 1 \/ s[y.index] \notin InNumber
         /\ y.got.num = SubSeq(s, i, y.index - 1)
         /\ PlainNumber(s, i, y.index)
<1> DEFINE e == y.index
           t == SubSeq(s, i, e - 1)
<1>1. /\ e \in i+1..Len(s)+1 /\ y.got = Num(t)
      /\ e = Len(s) + 1 \/ s[e] \notin InNumber
  BY JsonNumberTaken
<1>2. i \in 1..Len(s) /\ Len(s) \in Nat
  BY <1>1
<1> HIDE DEF e
<1>3. Len(t) = e - i /\ \A n \in 1..e-i : t[n] = s[i + n - 1]
  BY <1>1, <1>2
<1>4. y.got.num = t
  BY <1>1 DEF Num
<1>5. IsNumber(t)
  <2> DEFINE end == CHOOSE k \in i..Len(s)+1 : (\A n \in i..k-1 : s[n] \in InNumber) /\ (k = Len(s) + 1 \/ s[k] \notin InNumber)
  <2>1. JsonNumber(s, i) =
          {[got |-> Num(number), index |-> end] :
             number \in {z \in {SubSeq(s, i, end - 1)} : IsNumber(z)}}
    BY DEF JsonNumber
  <2> HIDE DEF end, t
  <2>2. /\ y = [got |-> Num(SubSeq(s, i, end - 1)), index |-> end]
        /\ IsNumber(SubSeq(s, i, end - 1))
    BY <2>1
  <2>3. y.got.num = SubSeq(s, i, end - 1)
    BY <2>2 DEF Num
  <2> QED
    BY <1>4, <2>2, <2>3 DEF t
<1> HIDE DEF t
<1>6. PICK a \in 0..1, b \in 1..Len(t) : \E c \in b..Len(t) :
        /\ a = 1 => t[1] = "-"
        /\ AreDigits(t, a + 1, b)
        /\ c = b \/ (AreDigits(t, b + 2, c) /\ t[b + 1] = ".")
        /\ \/ c = Len(t)
           \/ /\ t[c + 1] \in {"e", "E"}
              /\ \/ AreDigits(t, c + 2, Len(t))
                 \/ AreDigits(t, c + 3, Len(t)) /\ t[c + 2] \in {"+", "-"}
  BY <1>5 DEF IsNumber
<1>7. PICK c \in b..Len(t) :
        /\ c = b \/ (AreDigits(t, b + 2, c) /\ t[b + 1] = ".")
        /\ \/ c = Len(t)
           \/ /\ t[c + 1] \in {"e", "E"}
              /\ \/ AreDigits(t, c + 2, Len(t))
                 \/ AreDigits(t, c + 3, Len(t)) /\ t[c + 2] \in {"+", "-"}
  BY <1>6
<1>8. Len(t) = e - i /\ e - i \in Nat /\ b \in 1..e-i /\ c \in b..e-i
  BY <1>1, <1>3
<1>9. c = e - i
  <2>1. CASE c # e - i
    <3>1. c + 1 \in 1..e-i
      BY <1>8, <2>1
    <3>2. t[c + 1] \in {"e", "E"}
      BY <1>3, <1>7, <2>1
    <3> QED
      BY <1>3, <1>4, <3>1, <3>2
  <2> QED
    BY <2>1
<1>10. a + 1 <= b /\ \A n \in a+1..b : t[n] \in Digits
  BY <1>6 DEF AreDigits
<1>11. i + a < e /\ (a = 1 => s[i] = "-")
  <2>1. t[1] = s[i + 1 - 1] /\ i + 1 - 1 = i
    BY <1>3, <1>8
  <2> QED
    BY <1>1, <1>6, <1>8, <1>10, <2>1
<1>12. ASSUME NEW n \in i+a..e-1 PROVE n - i + 1 \in a+1..e-i /\ n - i + 1 \in 1..e-i /\ s[n] = t[n - i + 1]
  <2>1. n - i + 1 \in a+1..e-i /\ n - i + 1 \in 1..e-i /\ i + (n - i + 1) - 1 = n
    BY <1>1, <1>2, <1>8
  <2> QED
    BY <1>3, <2>1
<1>13. CASE c = b
  <2>1. \A n \in i+a..e-1 : s[n] \in Digits
    BY <1>9, <1>10, <1>12, <1>13
  <2> QED
    BY <1>1, <1>2, <1>4, <1>11, <2>1 DEF e, t, PlainNumber
<1>14. CASE c # b
  <2>1. /\ b + 2 <= c /\ \A n \in b+2..c : t[n] \in Digits
        /\ t[b + 1] = "."
    BY <1>7, <1>14 DEF AreDigits
  <2> DEFINE p == i + b
  <2>2. p \in i+a+1..e-2 /\ p \in i+a..e-1 /\ p - i + 1 = b + 1
    <3>1. p \in Int /\ i \in Int /\ a \in Int /\ b \in Int /\ e \in Int
      BY <1>1
    <3>2. i + a + 1 <= p /\ p <= e - 2
      BY <1>1, <1>8, <1>9, <1>10, <2>1, <3>1
    <3>3. p - i + 1 = b + 1
      BY <3>1
    <3> HIDE DEF p
    <3> QED
      BY <3>1, <3>2, <3>3
  <2>3. s[p] = "."
    <3> HIDE DEF p
    <3>1. s[p] = t[p - i + 1]
      BY <1>12, <2>2
    <3> QED
      BY <2>1, <2>2, <3>1
  <2>4. ASSUME NEW n \in i+a..e-1, n # p PROVE s[n] \in Digits
    <3> DEFINE m == n - i + 1
    <3>1. m \in a+1..b \/ m \in b+2..c
      <4>1. m \in a+1..c /\ c \in Nat /\ b \in Nat
        BY <1>8, <1>9, <1>12
      <4>2. m # b + 1
        <5>1. n \in Int /\ i \in Int /\ b \in Int
          BY <1>1, <1>2, <1>8
        <5> QED
          BY <2>4, <5>1
      <4> HIDE DEF m
      <4> QED
        BY <4>1, <4>2
    <3> QED
      BY <1>10, <1>12, <2>1, <3>1
  <2> HIDE DEF p
  <2> QED
    BY <1>1, <1>2, <1>4, <1>11, <2>2, <2>3, <2>4 DEF e, t, PlainNumber
<1> QED
  BY <1>13, <1>14

(* What is digits after its sign has neither dot nor exponent.             *)
LEMMA UnsignedDigits ==
  ASSUME NEW s \in Seq(Symbols), NEW i \in 1..Len(s)+1, NEW y \in JsonNumber(s, i),
         IsDecimal(Unsigned(y.got.num))
  PROVE  \A n \in 1..Len(y.got.num) : y.got.num[n] \notin {".", "e", "E"}
<1> DEFINE t == SubSeq(s, i, y.index - 1)
<1>0. y.index \in i+1..Len(s)+1 /\ y.got = Num(t)
  BY JsonNumberTaken
<1>1. y.got.num = t
  BY <1>0 DEF Num
<1>2. t \in Seq(Symbols)
  BY <1>0
<1> HIDE DEF t
<1>3. CASE t[1] = "-"
  <2>1. \A n \in 1..Len(t)-1 : SubSeq(t, 2, Len(t))[n] = t[n + 1] /\ n \in 1..Len(SubSeq(t, 2, Len(t)))
    BY <1>2
  <2>2. \A n \in 1..Len(t)-1 : t[n + 1] \in Digits
    BY <1>1, <1>3, <2>1 DEF IsDecimal, Unsigned
  <2>3. ASSUME NEW n \in 1..Len(t), n # 1 PROVE t[n] \in Digits
    <3>1. n - 1 \in 1..Len(t)-1 /\ (n - 1) + 1 = n
      BY <1>2, <2>3
    <3> QED
      BY <2>2, <3>1
  <2> QED
    BY <1>1, <1>3, <2>3 DEF Digits
<1>4. CASE t[1] # "-"
  BY <1>1, <1>4 DEF IsDecimal, Unsigned, Digits
<1> QED
  BY <1>3, <1>4

(* An integer is skipped as far as JSON takes it.                          *)
LEMMA IntegerRead ==
  ASSUME NEW s \in Seq(Symbols), NEW i \in 1..Len(s)+1, NEW y \in JsonNumber(s, i),
         IsDecimal(Unsigned(y.got.num))
  PROVE  /\ s[i] = "-" => ReadTo(ParseNumber(s, i + 1), y)
         /\ s[i] # "-" => \E x \in ParseNumber(s, i) : x.index = y.index /\ y.got.num = x.got
<1> DEFINE e == y.index
<1>0. \A n \in 1..Len(y.got.num) : y.got.num[n] \notin {".", "e", "E"}
  BY UnsignedDigits
<1>1. /\ i \in 1..Len(s) /\ e \in i+1..Len(s)+1
      /\ e = Len(s) + 1 \/ s[e] \notin InNumber
      /\ y.got.num = SubSeq(s, i, e - 1)
  BY <1>0, NumberWithoutExponent
<1>2. PICK a \in 0..1 :
        /\ a = 1 => s[i] = "-"
        /\ i + a < e
        /\ \/ \A n \in i+a..e-1 : s[n] \in Digits
           \/ \E p \in i+a+1..e-2 :
                s[p] = "." /\ \A n \in i+a..e-1 : n = p \/ s[n] \in Digits
  <2>1. PlainNumber(s, i, e)
    BY <1>0, NumberWithoutExponent
  <2> HIDE DEF e
  <2> QED
    BY <2>1 DEF PlainNumber
<1> HIDE DEF e
<1>3. ASSUME NEW p \in i+a+1..e-2, s[p] = "." PROVE FALSE
  <2>1. p - i + 1 \in 1..e-i /\ i + (p - i + 1) - 1 = p
    <3>1. i \in Int /\ e \in Int /\ p \in Int
      BY <1>1
    <3>2. i <= p /\ p <= e - 2
      BY <1>1
    <3> QED
      BY <3>1, <3>2
  <2>2. Len(y.got.num) = e - i /\ y.got.num[p - i + 1] = s[p]
    BY <1>1, <2>1
  <2> QED
    BY <1>0, <1>3, <2>1, <2>2
<1>4. \A n \in i+a..e-1 : s[n] \in Digits
  BY <1>2, <1>3
<1>5. i + a \in i+a..e-1 /\ i + a \in 1..Len(s) /\ e \in i+a+1..Len(s)+1
  BY <1>1, <1>2
<1>6. [got |-> SubSeq(s, i + a, e - 1), index |-> e] \in ParseNumber(s, i + a)
  <2>1. Unsigned(y.got.num) = SubSeq(s, i + a, e - 1)
    <3>1. y.got.num[1] = s[i] /\ Len(y.got.num) = e - i
      BY <1>1
    <3>2. CASE a = 1
      <4>1. SubSeq(y.got.num, 2, e - i) = SubSeq(s, i + 1, e - 1)
        BY <1>1
      <4> QED
        BY <1>2, <3>1, <3>2, <4>1 DEF Unsigned
    <3>3. CASE a = 0
      <4>1. s[i] # "-" /\ i + a = i
        BY <1>4, <1>5, <3>3 DEF Digits
      <4> QED
        BY <1>1, <3>1, <4>1 DEF Unsigned
    <3> QED
      BY <3>2, <3>3
  <2>2. DecimalValue(SubSeq(s, i + a, e - 1)) <= MaxU64
    BY <2>1 DEF IsDecimal
  <2> QED
    BY <1>1, <1>4, <1>5, <2>2, DigitsRead
<1>7. CASE a = 1
  BY <1>2, <1>6, <1>7 DEF ReadTo, e
<1>8. CASE a = 0
  <2>1. s[i] # "-"
    BY <1>4, <1>5, <1>8 DEF Digits
  <2>2. i + a = i
    BY <1>8
  <2>3. [got |-> SubSeq(s, i, e - 1), index |-> e] \in ParseNumber(s, i)
    BY <1>6, <2>2
  <2> QED
    BY <1>1, <2>1, <2>3 DEF e
<1> QED
  BY <1>7, <1>8

LEMMA DecimalRead ==
  ASSUME NEW s \in Seq(Symbols), NEW i \in 1..Len(s)+1, NEW y \in JsonNumber(s, i),
         IsDecimal(y.got.num)
  PROVE  ReadTo(ParseNumber(s, i), y)
<1>1. \A n \in 1..Len(y.got.num) : y.got.num[n] \notin {".", "e", "E", "-"}
  BY DEF IsDecimal, Digits
<1>2. /\ y.index \in i+1..Len(s)+1 /\ i \in 1..Len(s) /\ y.got.num = SubSeq(s, i, y.index - 1)
  BY <1>1, NumberWithoutExponent
<1>3. s[i] # "-"
  <2>1. 1 \in 1..Len(y.got.num) /\ y.got.num[1] = s[i]
    BY <1>2
  <2> QED
    BY <1>1, <2>1
<1>4. IsDecimal(Unsigned(y.got.num))
  <2>1. y.got.num[1] = s[i]
    BY <1>2
  <2> QED
    BY <1>3, <2>1 DEF Unsigned
<1> QED
  BY <1>3, <1>4, IntegerRead DEF ReadTo

LEMMA AmountRead ==
  ASSUME NEW s \in Seq(Symbols), NEW i \in 1..Len(s)+1, NEW y \in JsonNumber(s, i), IsAmount(y.got)
  PROVE  ReadTo(ParseDecimalToken(s, i), y) /\ \E d \in Digits : At(s, i, d)
<1> DEFINE e == y.index
<1>0. \A n \in 1..Len(y.got.num) : y.got.num[n] \notin {"e", "E", "-"}
  BY DEF IsAmount, Digits
<1>1. /\ i \in 1..Len(s) /\ e \in i+1..Len(s)+1
      /\ e = Len(s) + 1 \/ s[e] \notin InNumber
      /\ y.got.num = SubSeq(s, i, e - 1)
  BY <1>0, NumberWithoutExponent
<1>2. PICK a \in 0..1 :
        /\ a = 1 => s[i] = "-"
        /\ i + a < e
        /\ \/ \A n \in i+a..e-1 : s[n] \in Digits
           \/ \E p \in i+a+1..e-2 :
                s[p] = "." /\ \A n \in i+a..e-1 : n = p \/ s[n] \in Digits
  <2>1. PlainNumber(s, i, e)
    BY <1>0, NumberWithoutExponent
  <2> HIDE DEF e
  <2> QED
    BY <2>1 DEF PlainNumber
<1> HIDE DEF e
<1>3. a = 0
  <2>1. 1 \in 1..Len(y.got.num) /\ y.got.num[1] = s[i]
    BY <1>1
  <2> QED
    BY <1>0, <1>2, <2>1
<1>4. i \in i..e-1 /\ e - 1 \in i..e-1
  BY <1>1
<1>5. CASE \A n \in i..e-1 : s[n] \in Digits
  <2>1. [got |-> SubSeq(s, i, e - 1), index |-> e] \in ParseDecimalToken(s, i)
    BY <1>1, <1>5, DigitsRead
  <2> QED
    BY <1>1, <1>4, <1>5, <2>1 DEF ReadTo, At, e
<1>6. CASE \E p \in i+1..e-2 : s[p] = "." /\ \A n \in i..e-1 : n = p \/ s[n] \in Digits
  <2>1. PICK p \in i+1..e-2 : s[p] = "." /\ \A n \in i..e-1 : n = p \/ s[n] \in Digits
    BY <1>6
  <2>2. s[i] \in Digits /\ s[e - 1] \in Digits
    BY <1>1, <1>4, <2>1
  <2>3. InDecimal(s, i, e)
    <3>1. ASSUME NEW n \in i..e-1, NEW m \in i..n-1, s[n] \notin Digits PROVE s[m] # "."
      <4>1. n = p /\ m \in i..e-1 /\ m # p
        BY <1>1, <2>1, <3>1
      <4> QED
        BY <2>1, <4>1 DEF Digits
    <3> QED
      BY <2>1, <3>1 DEF InDecimal
  <2>4. s[e - 1] # "."
    BY <2>2 DEF Digits
  <2>5. [got |-> SubSeq(s, i, e - 1), index |-> e] \in ParseDecimalToken(s, i)
    BY <1>1, <2>3, <2>4, TokenRead
  <2> QED
    BY <1>1, <2>2, <2>5 DEF ReadTo, At, e
<1> QED
  BY <1>2, <1>3, <1>5, <1>6

-----------------------------------------------------------------------------
(* What JSON.parse reads, and where it ends.                               *)

(* The kinds of values, each with its first symbol.                        *)
LEMMA JsonKinds ==
  ASSUME NEW s \in Seq(Symbols), NEW later, NEW i \in 1..Len(s)+1, NEW y \in JsonValue(s, later, i)
  PROVE  \/ At(s, i, Quote) /\ y \in JsonString(s, i) /\ DOMAIN y.got = {"str"}
         \/ i \in 1..Len(s) /\ s[i] \in InNumber /\ y \in JsonNumber(s, i) /\ DOMAIN y.got = {"num"}
         \/ (\E w \in Literals : At(s, i, w)) /\ y.index = i + 1 /\ DOMAIN y.got = {"lit"}
         \/ At(s, i, "{") /\ IsObject(s, later, i, y) /\ DOMAIN y.got = {"obj"}
         \/ At(s, i, "[") /\ IsArray(s, later, i, y) /\ DOMAIN y.got = {"arr"}
<1>1. CASE y \in JsonString(s, i)
  <2>1. At(s, i, Quote)
    BY <1>1 DEF JsonString
  <2>2. \E x \in ParseString(s, i) : y.got = Str(x.got)
    BY <1>1, StringRead
  <2>3. DOMAIN y.got = {"str"}
    BY <2>2 DEF Str
  <2> QED
    BY <1>1, <2>1, <2>3
<1>2. CASE y \in JsonNumber(s, i)
  <2>1. /\ y.index \in i+1..Len(s)+1 /\ y.got = Num(SubSeq(s, i, y.index - 1))
        /\ \A n \in i..y.index-1 : s[n] \in InNumber
    BY <1>2, JsonNumberTaken
  <2>2. i \in i..y.index-1 /\ i \in 1..Len(s)
    BY <2>1
  <2>3. DOMAIN y.got = {"num"}
    BY <2>1 DEF Num
  <2> QED
    BY <1>2, <2>1, <2>2, <2>3
<1>3. CASE y \in JsonLiteral(s, i)
  <2>1. PICK w \in Literals : At(s, i, w) /\ y = [got |-> Lit(w), index |-> i + 1]
    BY <1>3 DEF JsonLiteral, Literals
  <2>2. DOMAIN y.got = {"lit"} /\ y.index = i + 1
    BY <2>1 DEF Lit
  <2> QED
    BY <2>1, <2>2
<1>4. ASSUME NEW r \in JsonList(s, later, "obj", i), y = [got |-> Obj(r.got), index |-> r.index]
      PROVE  At(s, i, "{") /\ IsObject(s, later, i, y) /\ DOMAIN y.got = {"obj"}
  <2>1. At(s, i, Opening["obj"]) /\ Opening["obj"] = "{"
    BY DEF JsonList, Opening
  <2>2. IsObject(s, later, i, y)
    BY <1>4 DEF IsObject
  <2>3. DOMAIN y.got = {"obj"}
    BY <1>4 DEF Obj
  <2> QED
    BY <2>1, <2>2, <2>3
<1>5. ASSUME NEW r \in JsonList(s, later, "arr", i), y = [got |-> Arr(r.got), index |-> r.index]
      PROVE  At(s, i, "[") /\ IsArray(s, later, i, y) /\ DOMAIN y.got = {"arr"}
  <2>1. At(s, i, Opening["arr"]) /\ Opening["arr"] = "["
    BY DEF JsonList, Opening
  <2>2. IsArray(s, later, i, y)
    BY <1>5 DEF IsArray
  <2>3. DOMAIN y.got = {"arr"}
    BY <1>5 DEF Arr
  <2> QED
    BY <2>1, <2>2, <2>3
<1>6. \/ y \in JsonString(s, i) \/ y \in JsonNumber(s, i) \/ y \in JsonLiteral(s, i)
      \/ \E r \in JsonList(s, later, "obj", i) : y = [got |-> Obj(r.got), index |-> r.index]
      \/ \E r \in JsonList(s, later, "arr", i) : y = [got |-> Arr(r.got), index |-> r.index]
  BY DEF JsonValue
<1>7. CASE \E r \in JsonList(s, later, "obj", i) : y = [got |-> Obj(r.got), index |-> r.index]
  BY <1>4, <1>7
<1>8. CASE \E r \in JsonList(s, later, "arr", i) : y = [got |-> Arr(r.got), index |-> r.index]
  BY <1>5, <1>8
<1> QED
  BY <1>1, <1>2, <1>3, <1>6, <1>7, <1>8

-----------------------------------------------------------------------------
(* What JSON.parse reads is a sequence that ends later.                    *)

JsonBounds(s, k) ==
  \A kind \in {"obj", "arr"} : \A y \in JsonLists(s)[k][kind] :
    y.index \in k+1..Len(s)+1 /\ IsSequence(y.got)

JsonReadsOn(s, i, jsonLater) ==
  \A k \in i+1..Len(s)+1 : jsonLater[k] = JsonLists(s)[k] /\ JsonBounds(s, k)

LEMMA JsonListBounds ==
  ASSUME NEW s \in Seq(Symbols), NEW i \in 1..Len(s)+1, NEW jsonLater, JsonReadsOn(s, i, jsonLater),
         NEW kind \in {"obj", "arr"}, NEW y \in JsonList(s, jsonLater, kind, i)
  PROVE  i \in 1..Len(s) /\ y.index \in i+1..Len(s)+1 /\ IsSequence(y.got)
<1> DEFINE inside == ConsumeWs(s, i + 1)
<1>1. At(s, i, Opening[kind])
  BY DEF JsonList
<1>2. i \in 1..Len(s)
  BY <1>1 DEF At
<1>3. i + 1 \in 1..Len(s)+1 /\ i + 1 \in i+1..Len(s)+1
  BY <1>2
<1>4. inside \in i+1..Len(s)+1
  BY <1>3, Whitespace
<1>5. CASE At(s, inside, Closing[kind])
  <2>1. y = [got |-> << >>, index |-> inside + 1]
    BY <1>1, <1>5 DEF JsonList
  <2>2. inside \in 1..Len(s)
    BY <1>5 DEF At
  <2> HIDE DEF inside
  <2>3. IsSequence(<< >>)
    <3>1. << >> \in Seq({})
      OBVIOUS
    <3> QED
      BY <3>1 DEF IsSequence
  <2> QED
    BY <1>2, <1>4, <2>1, <2>2, <2>3
<1>6. CASE ~ At(s, inside, Closing[kind])
  <2>1. y \in jsonLater[i + 1][kind]
    BY <1>1, <1>6 DEF JsonList
  <2>2. jsonLater[i + 1] = JsonLists(s)[i + 1] /\ JsonBounds(s, i + 1)
    BY <1>3 DEF JsonReadsOn
  <2>3. y.index \in i+1+1..Len(s)+1 /\ IsSequence(y.got)
    BY <2>1, <2>2 DEF JsonBounds
  <2> QED
    BY <1>2, <2>3
<1> QED
  BY <1>5, <1>6

LEMMA JsonValueBounds ==
  ASSUME NEW s \in Seq(Symbols), NEW i \in 1..Len(s)+1, NEW jsonLater, JsonReadsOn(s, i, jsonLater),
         NEW y \in JsonValue(s, jsonLater, i)
  PROVE  i \in 1..Len(s) /\ y.index \in i+1..Len(s)+1
<1>1. i \in 1..Len(s)
  BY JsonValueTaken
<1>2. CASE y \in JsonString(s, i)
  <2>1. \E x \in ParseString(s, i) : x.index = y.index
    BY <1>2, StringRead
  <2>2. y.index \in i+2..Len(s)+1
    BY <1>2, <2>1, StringsAgree
  <2> QED
    BY <1>1, <2>2
<1>3. CASE y \in JsonNumber(s, i)
  BY <1>1, <1>3, JsonNumberTaken
<1>4. CASE y.index = i + 1
  BY <1>1, <1>4
<1>5. CASE IsObject(s, jsonLater, i, y)
  BY <1>1, <1>5, JsonListBounds DEF IsObject
<1>6. CASE IsArray(s, jsonLater, i, y)
  BY <1>1, <1>6, JsonListBounds DEF IsArray
<1> QED
  BY <1>2, <1>3, <1>4, <1>5, <1>6, JsonKinds

(* A field of JSON's: a key, a colon before c, a value.                    *)
IsField(s, later, i, k, c, w, q) ==
  /\ k \in JsonString(s, i) /\ c \in ExpectByte(s, ConsumeWs(s, k.index), ":")
  /\ w \in JsonValue(s, later, ConsumeWs(s, c))
  /\ q = [got |-> [key |-> k.got.str, value |-> w.got], index |-> w.index]

LEMMA JsonFieldTaken ==
  ASSUME NEW s, NEW later, NEW i, NEW q \in JsonField(s, later, i)
  PROVE  \E k, c, w : IsField(s, later, i, k, c, w, q)
<1>1. PICK k \in JsonString(s, i) :
        q \in UNION {{[got |-> [key |-> k.got.str, value |-> w.got], index |-> w.index] :
                        w \in JsonValue(s, later, ConsumeWs(s, c))} :
                       c \in ExpectByte(s, ConsumeWs(s, k.index), ":")}
  BY DEF JsonField
<1>2. PICK c \in ExpectByte(s, ConsumeWs(s, k.index), ":") :
        q \in {[got |-> [key |-> k.got.str, value |-> w.got], index |-> w.index] :
                 w \in JsonValue(s, later, ConsumeWs(s, c))}
  BY <1>1
<1>3. PICK w \in JsonValue(s, later, ConsumeWs(s, c)) :
        q = [got |-> [key |-> k.got.str, value |-> w.got], index |-> w.index]
  BY <1>2
<1> QED
  BY <1>3 DEF IsField

LEMMA JsonItemBounds ==
  ASSUME NEW s \in Seq(Symbols), NEW i \in 1..Len(s)+1, NEW jsonLater,
         NEW from \in 1..i, JsonReadsOn(s, from, jsonLater),
         NEW kind \in {"obj", "arr"}, NEW q \in JsonItem(s, jsonLater, kind, i)
  PROVE  i \in 1..Len(s) /\ q.index \in i+1..Len(s)+1
<1>1. \A j \in i..Len(s)+1 : JsonReadsOn(s, j, jsonLater)
  BY DEF JsonReadsOn
<1>2. CASE kind = "arr"
  <2>1. q \in JsonValue(s, jsonLater, i)
    BY <1>2 DEF JsonItem
  <2>2. JsonReadsOn(s, i, jsonLater)
    BY <1>1
  <2> QED
    BY <2>1, <2>2, JsonValueBounds
<1>3. CASE kind = "obj"
  <2>1. PICK k, c, w : IsField(s, jsonLater, i, k, c, w, q)
    <3>1. q \in JsonField(s, jsonLater, i)
      BY <1>3 DEF JsonItem
    <3> QED
      BY <3>1, JsonFieldTaken
  <2>2. i \in 1..Len(s)
    BY <2>1 DEF IsField, JsonString, At
  <2>3. k.index \in i+2..Len(s)+1
    <3>1. \E x \in ParseString(s, i) : x.index = k.index
      BY <2>1, StringRead DEF IsField
    <3> QED
      BY <2>1, <3>1, StringsAgree DEF IsField
  <2> DEFINE u == ConsumeWs(s, k.index)
             t == ConsumeWs(s, c)
  <2>4. u \in i+2..Len(s)+1
    <3>1. k.index \in 1..Len(s)+1
      BY <2>3
    <3>2. u \in k.index..Len(s)+1
      BY <3>1, Whitespace
    <3> QED
      BY <2>3, <3>2
  <2>5. c = u + 1 /\ u \in 1..Len(s)
    BY <2>1 DEF IsField, ExpectByte, At
  <2> HIDE DEF u
  <2>6. c \in i+3..Len(s)+1 /\ c \in 1..Len(s)+1
    BY <2>4, <2>5
  <2>7. t \in i..Len(s)+1 /\ t \in 1..Len(s)+1
    <3>1. t \in c..Len(s)+1
      BY <2>6, Whitespace
    <3> HIDE DEF t
    <3> QED
      BY <2>6, <3>1
  <2>8. JsonReadsOn(s, t, jsonLater)
    BY <1>1, <2>7
  <2> HIDE DEF t
  <2>9. w.index \in t+1..Len(s)+1
    <3>1. w \in JsonValue(s, jsonLater, t)
      BY <2>1 DEF t, IsField
    <3> QED
      BY <2>7, <2>8, <3>1, JsonValueBounds
  <2>10. q.index = w.index
    BY <2>1 DEF IsField
  <2> QED
    BY <2>2, <2>7, <2>9, <2>10
<1> QED
  BY <1>2, <1>3

LEMMA JsonTurnBounds ==
  ASSUME NEW s \in Seq(Symbols), NEW i \in 1..Len(s)+1, \A k \in i+1..Len(s)+1 : JsonBounds(s, k)
  PROVE  JsonBounds(s, i)
<1> SUFFICES ASSUME NEW kind \in {"obj", "arr"}, NEW y \in JsonLists(s)[i][kind]
             PROVE  y.index \in i+1..Len(s)+1 /\ IsSequence(y.got)
  BY DEF JsonBounds
<1> DEFINE jsonLater == [k \in i+1..Len(s)+1 |-> JsonLists(s)[k]]
           start == ConsumeWs(s, i)
<1>1. start \in i..Len(s)+1 /\ start \in 1..Len(s)+1
  <2>1. start \in i..Len(s)+1
    BY Whitespace
  <2> HIDE DEF start
  <2> QED
    BY <2>1
<1>2. JsonReadsOn(s, i, jsonLater)
  BY DEF JsonReadsOn
<1>3. y \in JsonItems(s, jsonLater, kind, i)
  BY JsonRecursion
<1> HIDE DEF jsonLater
<1>4. PICK q \in JsonItem(s, jsonLater, kind, start) :
        GoesOn(s, jsonLater, kind, Closing[kind], q, y)
  BY <1>3, JsonTurn DEF JsonTurns
<1> HIDE DEF start
<1>5. q.index \in start+1..Len(s)+1
  <2>1. i \in 1..start
    BY <1>1
  <2> QED
    BY <1>1, <1>2, <2>1, JsonItemBounds
<1> DEFINE u == ConsumeWs(s, q.index)
<1>6. u \in i+1..Len(s)+1
  <2>1. q.index \in 1..Len(s)+1
    BY <1>1, <1>5
  <2>2. u \in q.index..Len(s)+1
    BY <2>1, Whitespace
  <2> HIDE DEF u
  <2> QED
    BY <1>1, <1>5, <2>2
<1>7. CASE /\ At(s, u, ",")
           /\ \E z \in jsonLater[u + 1][kind] : y.got = <<q.got>> \o z.got /\ y.index = z.index
  <2>1. u \in 1..Len(s)
    BY <1>7 DEF At
  <2>2. PICK z \in jsonLater[u + 1][kind] : y.got = <<q.got>> \o z.got /\ y.index = z.index
    BY <1>7
  <2> HIDE DEF u
  <2>3. u + 1 \in i+1..Len(s)+1
    BY <1>6, <2>1
  <2>4. z \in JsonLists(s)[u + 1][kind] /\ JsonBounds(s, u + 1)
    BY <1>2, <2>2, <2>3 DEF JsonReadsOn
  <2>5. z.index \in u+1+1..Len(s)+1 /\ IsSequence(z.got)
    BY <2>4 DEF JsonBounds
  <2>6. IsSequence(y.got)
    BY <2>2, <2>5, Prepend
  <2> QED
    BY <1>6, <2>1, <2>2, <2>5, <2>6
<1>8. CASE At(s, u, Closing[kind]) /\ y.got = <<q.got>> /\ y.index = u + 1
  <2>1. u \in 1..Len(s)
    BY <1>8 DEF At
  <2> HIDE DEF u
  <2>2. IsSequence(<<q.got>>)
    <3>1. <<q.got>> \in Seq({q.got})
      OBVIOUS
    <3> QED
      BY <3>1 DEF IsSequence
  <2> QED
    BY <1>6, <1>8, <2>1, <2>2
<1> QED
  BY <1>4, <1>7, <1>8 DEF GoesOn

LEMMA JsonListsBounds ==
  ASSUME NEW s \in Seq(Symbols)
  PROVE  \A i \in 1..Len(s)+1 : JsonBounds(s, i)
<1> DEFINE l == Len(s) + 1
           P == {i \in 1..l : JsonBounds(s, i)}
<1>1. ASSUME NEW i \in 1..l, \A k \in i+1..l : k \in P PROVE i \in P
  BY <1>1, JsonTurnBounds
<1>2. l \in Nat
  OBVIOUS
<1>3. \A i \in 1..l : i \in P
  <2> HIDE DEF P, l
  <2> QED
    BY <1>1, <1>2, FromTheEnd
<1> QED
  BY <1>3

-----------------------------------------------------------------------------
(* The shape of a body, item by item, wherever the loop is.                *)

Ids == {<<"interaction", <<"id">>>>, <<"user", <<"id">>>>}
Names == {<<"data", <<"name">>>>, <<"option", <<"name">>>>}

Told ==
  Ids \cup Names
    \cup {<<"interaction", <<"type">>>>, <<"interaction", <<"member">>>>, <<"interaction", <<"data">>>>,
          <<"member", <<"user">>>>, <<"data", <<"options">>>>, <<"option", <<"value">>>>}

AreOptions(v, depth) == "arr" \in DOMAIN v /\ \A o \in Parts(v) : IsOption(o, depth)

ValueFits(where, key, v, depth) ==
  /\ <<where, key>> \in Ids => IsId(v)
  /\ <<where, key>> \in Names => IsText(v)
  /\ <<where, key>> = <<"interaction", <<"type">>>> => "num" \in DOMAIN v /\ IsDecimal(v.num)
  /\ <<where, key>> = <<"interaction", <<"member">>>> => IsMember(v, depth)
  /\ <<where, key>> = <<"interaction", <<"data">>>> => IsData(v, depth)
  /\ <<where, key>> = <<"member", <<"user">>>> => IsUser(v, depth)
  /\ <<where, key>> = <<"data", <<"options">>>> => AreOptions(v, depth)
  /\ <<where, key>> = <<"option", <<"value">>>> => IsText(v) \/ IsAmount(v)
  /\ <<where, key>> \notin Told => OnlyIntegers(v, depth)

ItemFits(where, y, depth) ==
  /\ where \in Objects => ValueFits(where, y.key, y.value, depth)
  /\ where = "options" => IsOption(y, depth)
  /\ where = "skipped array" => OnlyIntegers(y, depth)

AllFit(where, ys, depth) == \A n \in 1..Len(ys) : ItemFits(where, ys[n], depth)

(* What is told of a field depends on its key.                             *)
LEMMA FieldsTold ==
  ASSUME NEW key
  PROVE  /\ <<"interaction", key>> \in Ids <=> key = <<"id">>
         /\ <<"user", key>> \in Ids <=> key = <<"id">>
         /\ \A where \in {"member", "data", "option"} : <<where, key>> \notin Ids
         /\ \A where \in {"data", "option"} : <<where, key>> \in Names <=> key = <<"name">>
         /\ \A where \in {"interaction", "member", "user"} : <<where, key>> \notin Names
         /\ <<"interaction", key>> \in Told <=>
              key \in {<<"id">>, <<"type">>, <<"member">>, <<"data">>}
         /\ <<"member", key>> \in Told <=> key = <<"user">>
         /\ <<"user", key>> \in Told <=> key = <<"id">>
         /\ <<"data", key>> \in Told <=> key \in {<<"name">>, <<"options">>}
         /\ <<"option", key>> \in Told <=> key \in {<<"name">>, <<"value">>}
         /\ <<"skipped object", key>> \notin Told
<1>1. ASSUME NEW a, NEW b, NEW c, NEW d PROVE <<a, b>> = <<c, d>> <=> a = c /\ b = d
  OBVIOUS
<1>2. \A p \in Told : p[1] \in {"interaction", "user", "data", "option", "member"}
  BY DEF Told, Ids, Names
<1>3. <<"skipped object", key>> \notin Told
  BY <1>2
<1>4. /\ <<"interaction", key>> \in Ids <=> key = <<"id">>
      /\ <<"user", key>> \in Ids <=> key = <<"id">>
  BY <1>1 DEF Ids
<1>5. \A where \in {"member", "data", "option"} : <<where, key>> \notin Ids
  BY <1>1 DEF Ids
<1>6. \A where \in {"data", "option"} : <<where, key>> \in Names <=> key = <<"name">>
  BY <1>1 DEF Names
<1>7. \A where \in {"interaction", "member", "user"} : <<where, key>> \notin Names
  BY <1>1 DEF Names
<1>8. <<"interaction", key>> \in Told <=>
        key \in {<<"id">>, <<"type">>, <<"member">>, <<"data">>}
  BY <1>1, <1>4, <1>7 DEF Told
<1>9. /\ <<"member", key>> \in Told <=> key = <<"user">>
      /\ <<"user", key>> \in Told <=> key = <<"id">>
  BY <1>1, <1>4, <1>5, <1>7 DEF Told
<1>10. /\ <<"data", key>> \in Told <=> key \in {<<"name">>, <<"options">>}
       /\ <<"option", key>> \in Told <=> key \in {<<"name">>, <<"value">>}
  BY <1>1, <1>5, <1>6 DEF Told
<1> QED
  BY <1>3, <1>4, <1>5, <1>6, <1>7, <1>8, <1>9, <1>10

LEMMA UserFits ==
  ASSUME NEW v, NEW depth, IsUser(v, depth)
  PROVE  "obj" \in DOMAIN v /\ HasAll("user", v.obj) /\ AllFit("user", v.obj, depth)
<1>1. /\ "obj" \in DOMAIN v /\ HasAll("user", v.obj)
      /\ \A n \in 1..Len(v.obj) :
           LET f == v.obj[n]
           IN  IF f.key = <<"id">> THEN IsId(f.value) ELSE OnlyIntegers(f.value, depth)
  BY DEF IsUser, HasFields, HasAll, Fields
<1>2. ASSUME NEW n \in 1..Len(v.obj) PROVE ItemFits("user", v.obj[n], depth)
  <2> DEFINE key == v.obj[n].key
  <2>1. ValueFits("user", key, v.obj[n].value, depth)
    BY <1>1, FieldsTold DEF ValueFits
  <2> QED
    BY <2>1 DEF ItemFits
<1> QED
  BY <1>1, <1>2 DEF AllFit

LEMMA MemberFits ==
  ASSUME NEW v, NEW depth, IsMember(v, depth)
  PROVE  "obj" \in DOMAIN v /\ HasAll("member", v.obj) /\ AllFit("member", v.obj, depth)
<1>1. /\ "obj" \in DOMAIN v /\ HasAll("member", v.obj)
      /\ \A n \in 1..Len(v.obj) :
           LET f == v.obj[n]
           IN  IF f.key = <<"user">> THEN IsUser(f.value, depth) ELSE OnlyIntegers(f.value, depth)
  BY DEF IsMember, HasFields, HasAll, Fields
<1>2. ASSUME NEW n \in 1..Len(v.obj) PROVE ItemFits("member", v.obj[n], depth)
  <2> DEFINE key == v.obj[n].key
  <2>1. ValueFits("member", key, v.obj[n].value, depth)
    BY <1>1, FieldsTold DEF ValueFits
  <2> QED
    BY <2>1 DEF ItemFits
<1> QED
  BY <1>1, <1>2 DEF AllFit

LEMMA OptionFits ==
  ASSUME NEW v, NEW depth, IsOption(v, depth)
  PROVE  "obj" \in DOMAIN v /\ HasAll("option", v.obj) /\ AllFit("option", v.obj, depth)
<1>1. "obj" \in DOMAIN v /\ HasAll("option", v.obj)
  BY DEF IsOption, HasFields, HasAll
<1>2. ASSUME NEW n \in 1..Len(v.obj) PROVE ItemFits("option", v.obj[n], depth)
  <2> DEFINE key == v.obj[n].key
             w == v.obj[n].value
  <2>1. (CASE key = <<"name">> -> IsText(w)
           [] key = <<"value">> -> IsText(w) \/ IsAmount(w)
           [] OTHER -> OnlyIntegers(w, depth))
    BY DEF IsOption, Fields
  <2>2. /\ key = <<"name">> => IsText(w)
        /\ key = <<"value">> => IsText(w) \/ IsAmount(w)
        /\ key \notin {<<"name">>, <<"value">>} => OnlyIntegers(w, depth)
    <3> HIDE DEF key, w
    <3> QED
      BY <2>1
  <2> HIDE DEF key, w
  <2>3. ValueFits("option", key, w, depth)
    BY <2>2, FieldsTold DEF ValueFits
  <2> QED
    BY <2>3 DEF ItemFits, key, w
<1> QED
  BY <1>1, <1>2 DEF AllFit

LEMMA DataFits ==
  ASSUME NEW v, NEW depth, IsData(v, depth)
  PROVE  "obj" \in DOMAIN v /\ HasAll("data", v.obj) /\ AllFit("data", v.obj, depth)
<1>1. "obj" \in DOMAIN v /\ HasAll("data", v.obj)
  BY DEF IsData, HasFields, HasAll
<1>2. ASSUME NEW n \in 1..Len(v.obj) PROVE ItemFits("data", v.obj[n], depth)
  <2> DEFINE key == v.obj[n].key
             w == v.obj[n].value
  <2>1. (CASE key = <<"name">> -> IsText(w)
           [] key = <<"options">> -> AreOptions(w, depth)
           [] OTHER -> OnlyIntegers(w, depth))
    BY DEF IsData, Fields, AreOptions
  <2>2. /\ key = <<"name">> => IsText(w)
        /\ key = <<"options">> => AreOptions(w, depth)
        /\ key \notin {<<"name">>, <<"options">>} => OnlyIntegers(w, depth)
    <3> HIDE DEF key, w
    <3> QED
      BY <2>1
  <2> HIDE DEF key, w
  <2>3. ValueFits("data", key, w, depth)
    BY <2>2, FieldsTold DEF ValueFits
  <2> QED
    BY <2>3 DEF ItemFits, key, w
<1> QED
  BY <1>1, <1>2 DEF AllFit

LEMMA InteractionFits ==
  ASSUME NEW v, NEW depth, IsInteraction(v, depth)
  PROVE  "obj" \in DOMAIN v /\ HasAll("interaction", v.obj) /\ AllFit("interaction", v.obj, depth)
<1>1. "obj" \in DOMAIN v /\ HasAll("interaction", v.obj)
  BY DEF IsInteraction, HasFields, HasAll
<1>2. ASSUME NEW n \in 1..Len(v.obj) PROVE ItemFits("interaction", v.obj[n], depth)
  <2> DEFINE key == v.obj[n].key
             w == v.obj[n].value
  <2>1. (CASE key = <<"id">> -> IsId(w)
           [] key = <<"type">> -> "num" \in DOMAIN w /\ IsDecimal(w.num)
           [] key = <<"member">> -> IsMember(w, depth)
           [] key = <<"data">> -> IsData(w, depth)
           [] OTHER -> OnlyIntegers(w, depth))
    BY DEF IsInteraction, Fields
  <2>2. /\ key = <<"id">> => IsId(w)
        /\ key = <<"type">> => "num" \in DOMAIN w /\ IsDecimal(w.num)
        /\ key = <<"member">> => IsMember(w, depth)
        /\ key = <<"data">> => IsData(w, depth)
        /\ key \notin {<<"id">>, <<"type">>, <<"member">>, <<"data">>} => OnlyIntegers(w, depth)
    <3> HIDE DEF key, w
    <3> QED
      BY <2>1
  <2> HIDE DEF key, w
  <2>3. ValueFits("interaction", key, w, depth)
    BY <2>2, FieldsTold DEF ValueFits
  <2> QED
    BY <2>3 DEF ItemFits, key, w
<1> QED
  BY <1>1, <1>2 DEF AllFit

-----------------------------------------------------------------------------
(* What JSON.parse reads from k on, the program reads there, if it fits.   *)
CompleteAt(s, k) ==
  \A where \in Places : \A y \in JsonLists(s)[k][Kind(where)], depth \in Nat :
    depth >= Len(s) + 1 - k /\ AllFit(where, y.got, depth) => ReadTo(Loops(s)[k][where], y)

CompleteOn(s, i, later, jsonLater) ==
  \A k \in i+1..Len(s)+1 :
    later[k] = Loops(s)[k] /\ jsonLater[k] = JsonLists(s)[k] /\ CompleteAt(s, k)

ReadWith(read, y, keys) == \E x \in read : x.index = y.index /\ \A key \in keys : Has(x.got, key)

(* What follows the opening brace or bracket at i.                         *)
LEMMA ListRead ==
  ASSUME NEW s \in Seq(Symbols), NEW i \in 1..Len(s), NEW where \in Places, CompleteAt(s, i + 1),
         NEW later, later[i + 1] = Loops(s)[i + 1],
         NEW jsonLater, jsonLater[i + 1] = JsonLists(s)[i + 1],
         NEW y \in JsonList(s, jsonLater, Kind(where), i), HasAll(where, y.got),
         NEW depth \in Nat, depth >= Len(s) - i, AllFit(where, y.got, depth)
  PROVE  ReadWith(later[i + 1][where], y, Needed(where))
<1> DEFINE inside == ConsumeWs(s, i + 1)
<1>1. i + 1 \in 1..Len(s)+1
  OBVIOUS
<1>2. Closing[Kind(where)] = Closes(where) /\ At(s, i, Opening[Kind(where)])
  BY DEF Closing, Kind, Closes, JsonList
<1>3. CASE At(s, inside, Closing[Kind(where)])
  <2> DEFINE x == [got |-> << >>, index |-> inside + 1]
  <2>1. y = x
    BY <1>2, <1>3 DEF JsonList
  <2>2. Loops(s)[i + 1][where] = Loop(s, [k \in i+1+1..Len(s)+1 |-> Loops(s)[k]], where, i + 1)
    BY <1>1, LoopsRecursion
  <2>3. x \in later[i + 1][where]
    BY <1>2, <1>3, <2>2 DEF Loop, Closes
  <2> HIDE DEF x
  <2> QED
    BY <2>1, <2>3 DEF ReadWith, HasAll
<1>4. CASE ~ At(s, inside, Closing[Kind(where)])
  <2>1. y \in JsonLists(s)[i + 1][Kind(where)]
    BY <1>2, <1>4 DEF JsonList
  <2>2. depth >= Len(s) + 1 - (i + 1)
    OBVIOUS
  <2>3. PICK x \in Loops(s)[i + 1][where] : x.index = y.index
    BY <2>1, <2>2 DEF CompleteAt, ReadTo
  <2>4. ItemsAlike(s, where, x.got, y.got)
    <3>1. AgreeAt(s, i + 1)
      BY <1>1, LoopsAgree
    <3> QED
      BY <2>1, <3>1 DEF AgreeAt
  <2>5. ASSUME NEW key \in Needed(where) PROVE Has(x.got, key)
    <3>1. where \in Objects
      <4>1. where \in Arrays => Needed(where) = {}
        BY DEF Needed, Arrays
      <4> QED
        BY <4>1 DEF Places
    <3> QED
      BY <2>4, <3>1, FieldsAlike DEF HasAll
  <2> QED
    BY <2>3, <2>5 DEF ReadWith
<1> QED
  BY <1>3, <1>4

LEMMA ObjectRead ==
  ASSUME NEW s \in Seq(Symbols), NEW i \in 1..Len(s)+1, NEW later, NEW jsonLater,
         CompleteOn(s, i, later, jsonLater), NEW where \in Objects,
         NEW y \in JsonValue(s, jsonLater, i), "obj" \in DOMAIN y.got, HasAll(where, y.got.obj),
         NEW depth \in Nat, depth >= Len(s) - i, AllFit(where, y.got.obj, depth)
  PROVE  At(s, i, "{") /\ ReadTo(Object(s, later, where, i), y)
<1>1. At(s, i, "{") /\ IsObject(s, jsonLater, i, y)
  <2> DEFINE kinds == DOMAIN y.got
  <2>1. \/ kinds = {"str"} \/ kinds = {"num"} \/ kinds = {"lit"} \/ kinds = {"arr"}
        \/ At(s, i, "{") /\ IsObject(s, jsonLater, i, y)
    BY JsonKinds
  <2>2. "obj" \in kinds
    OBVIOUS
  <2> HIDE DEF kinds
  <2>3. kinds # {"str"} /\ kinds # {"num"} /\ kinds # {"lit"} /\ kinds # {"arr"}
    BY <2>2
  <2> QED
    BY <2>1, <2>3
<1>2. PICK r \in JsonList(s, jsonLater, "obj", i) : y.got = Obj(r.got) /\ y.index = r.index
  BY <1>1 DEF IsObject
<1>3. y.got.obj = r.got
  BY <1>2 DEF Obj
<1>4. i \in 1..Len(s) /\ i + 1 \in i+1..Len(s)+1
  <2>1. i \in 1..Len(s)
    BY <1>1 DEF At
  <2> QED
    BY <2>1
<1>5. /\ later[i + 1] = Loops(s)[i + 1] /\ jsonLater[i + 1] = JsonLists(s)[i + 1]
      /\ CompleteAt(s, i + 1)
  BY <1>4 DEF CompleteOn
<1>6. where \in Places /\ Kind(where) = "obj"
  BY DEF Places, Kind
<1>7. ReadWith(later[i + 1][where], r, Needed(where))
  BY <1>3, <1>4, <1>5, <1>6, ListRead
<1>8. PICK x \in later[i + 1][where] : x.index = r.index /\ \A key \in Needed(where) : Has(x.got, key)
  BY <1>7 DEF ReadWith
<1>9. x \in Object(s, later, where, i)
  BY <1>1, <1>8 DEF Object, ExpectByte
<1> QED
  BY <1>1, <1>2, <1>8, <1>9 DEF ReadTo

LEMMA ArrayRead ==
  ASSUME NEW s \in Seq(Symbols), NEW i \in 1..Len(s)+1, NEW later, NEW jsonLater,
         CompleteOn(s, i, later, jsonLater), NEW where \in Arrays,
         NEW y \in JsonValue(s, jsonLater, i), "arr" \in DOMAIN y.got,
         NEW depth \in Nat, depth >= Len(s) - i, AllFit(where, y.got.arr, depth)
  PROVE  At(s, i, "[") /\ ReadTo(Array(s, later, where, i), y)
<1>1. At(s, i, "[") /\ IsArray(s, jsonLater, i, y)
  BY JsonKinds
<1>2. PICK r \in JsonList(s, jsonLater, "arr", i) : y.got = Arr(r.got) /\ y.index = r.index
  BY <1>1 DEF IsArray
<1>3. y.got.arr = r.got
  BY <1>2 DEF Arr
<1>4. i \in 1..Len(s) /\ i + 1 \in i+1..Len(s)+1
  <2>1. i \in 1..Len(s)
    BY <1>1 DEF At
  <2> QED
    BY <2>1
<1>5. /\ later[i + 1] = Loops(s)[i + 1] /\ jsonLater[i + 1] = JsonLists(s)[i + 1]
      /\ CompleteAt(s, i + 1)
  BY <1>4 DEF CompleteOn
<1>6. where \in Places /\ Kind(where) = "arr" /\ Needed(where) = {}
  BY DEF Places, Kind, Arrays, Objects, Needed
<1>7. ReadWith(later[i + 1][where], r, Needed(where))
  BY <1>3, <1>4, <1>5, <1>6, ListRead DEF HasAll
<1>8. PICK x \in later[i + 1][where] : x.index = r.index
  BY <1>7 DEF ReadWith
<1>9. x \in Array(s, later, where, i)
  BY <1>1, <1>8 DEF Array, ExpectByte
<1> QED
  BY <1>1, <1>2, <1>8, <1>9 DEF ReadTo

(* An integer or what holds no other numbers is skipped.                   *)
LEMMA SkippedRead ==
  ASSUME NEW s \in Seq(Symbols), NEW i \in 1..Len(s)+1, ~ At(s, i, Blank), NEW later, NEW jsonLater,
         CompleteOn(s, i, later, jsonLater), NEW y \in JsonValue(s, jsonLater, i),
         NEW depth \in Nat, depth >= Len(s) + 1 - i, OnlyIntegers(y.got, depth)
  PROVE  ReadTo(SkipValue(s, later, i), y)
<1>1. ConsumeWs(s, i) = i /\ i \in 1..Len(s)
  BY Whitespace, JsonValueTaken
<1> DEFINE first == s[i]
           word == [got |-> << >>, index |-> i + 1]
<1>2. /\ first = "{" => SkipValue(s, later, i) = Object(s, later, "skipped object", i)
      /\ first = "[" => SkipValue(s, later, i) = Array(s, later, "skipped array", i)
      /\ first = Quote => SkipValue(s, later, i) = ParseString(s, i)
      /\ first \in Literals => SkipValue(s, later, i) = {word}
      /\ first = "-" => SkipValue(s, later, i) = ParseNumber(s, i + 1)
      /\ first \in InNumber \ {"-"} => SkipValue(s, later, i) = ParseNumber(s, i)
  <2>0. \A c : At(s, i, c) <=> first = c
    BY <1>1 DEF At
  <2>1. /\ At(s, i, "{") <=> first = "{"
        /\ At(s, i, "[") <=> first = "["
        /\ At(s, i, Quote) <=> first = Quote
        /\ At(s, i, "true") <=> first = "true"
        /\ At(s, i, "false") <=> first = "false"
        /\ At(s, i, "null") <=> first = "null"
        /\ At(s, i, "-") <=> first = "-"
    BY <2>0
  <2>2. SkipValue(s, later, i) =
          CASE At(s, i, "{") -> Object(s, later, "skipped object", i)
            [] At(s, i, "[") -> Array(s, later, "skipped array", i)
            [] At(s, i, Quote) -> ParseString(s, i)
            [] At(s, i, "true") \/ At(s, i, "false") \/ At(s, i, "null") -> {word}
            [] At(s, i, "-") -> ParseNumber(s, i + 1)
            [] OTHER -> ParseNumber(s, i)
    BY <1>1 DEF SkipValue, SkipObject
  <2> HIDE DEF first, word
  <2>3. CASE first = "{"
    <3>1. /\ At(s, i, "{") /\ ~ At(s, i, "[") /\ ~ At(s, i, Quote) /\ ~ At(s, i, "-")
          /\ ~ At(s, i, "true") /\ ~ At(s, i, "false") /\ ~ At(s, i, "null")
          /\ first \notin Literals \cup InNumber \cup {"[", Quote}
      BY <2>1, <2>3 DEF Quote, Literals, InNumber, Digits
    <3> QED
      BY <2>2, <2>3, <3>1 DEF InNumber
  <2>4. CASE first = "["
    <3>1. /\ At(s, i, "[") /\ ~ At(s, i, "{") /\ ~ At(s, i, Quote) /\ ~ At(s, i, "-")
          /\ ~ At(s, i, "true") /\ ~ At(s, i, "false") /\ ~ At(s, i, "null")
          /\ first \notin Literals \cup InNumber \cup {"{", Quote}
      BY <2>1, <2>4 DEF Quote, Literals, InNumber, Digits
    <3> QED
      BY <2>2, <2>4, <3>1 DEF InNumber
  <2>5. CASE first = Quote
    <3>1. /\ At(s, i, Quote) /\ ~ At(s, i, "{") /\ ~ At(s, i, "[") /\ ~ At(s, i, "-")
          /\ ~ At(s, i, "true") /\ ~ At(s, i, "false") /\ ~ At(s, i, "null")
          /\ first \notin Literals \cup InNumber \cup {"{", "["}
      BY <2>1, <2>5 DEF Quote, Literals, InNumber, Digits
    <3> QED
      BY <2>2, <2>5, <3>1 DEF InNumber
  <2>6. CASE first \in Literals
    <3>1. /\ ~ At(s, i, "{") /\ ~ At(s, i, "[") /\ ~ At(s, i, Quote) /\ ~ At(s, i, "-")
          /\ first \notin InNumber \cup {"{", "[", Quote, "-"}
      BY <2>1, <2>6 DEF Quote, Literals, InNumber, Digits
    <3>2. At(s, i, "true") \/ At(s, i, "false") \/ At(s, i, "null")
      BY <2>1, <2>6 DEF Literals
    <3> QED
      BY <2>2, <2>6, <3>1, <3>2
  <2>7. CASE first = "-"
    <3>1. /\ At(s, i, "-") /\ ~ At(s, i, "{") /\ ~ At(s, i, "[") /\ ~ At(s, i, Quote)
          /\ ~ At(s, i, "true") /\ ~ At(s, i, "false") /\ ~ At(s, i, "null")
          /\ first \notin Literals \cup {"{", "[", Quote}
      BY <2>1, <2>7 DEF Quote, Literals, InNumber, Digits
    <3> QED
      BY <2>2, <2>7, <3>1
  <2>8. CASE first \in InNumber \ {"-"}
    <3>1. /\ ~ At(s, i, "-") /\ ~ At(s, i, "{") /\ ~ At(s, i, "[") /\ ~ At(s, i, Quote)
          /\ ~ At(s, i, "true") /\ ~ At(s, i, "false") /\ ~ At(s, i, "null")
          /\ first \notin Literals \cup {"{", "[", Quote, "-"}
      BY <2>1, <2>8 DEF Quote, Literals, InNumber, Digits
    <3> QED
      BY <2>2, <2>8, <3>1
  <2> QED
    BY <2>3, <2>4, <2>5, <2>6, <2>7, <2>8
<1> HIDE DEF first, word
<1>4. depth >= 1 /\ depth - 1 \in Nat /\ depth - 1 >= Len(s) - i
  BY <1>1
<1>5. /\ "num" \in DOMAIN y.got => IsDecimal(Unsigned(y.got.num))
      /\ \A w \in Parts(y.got) : OnlyIntegers(w, depth - 1)
  BY <1>4, IntegersInside
<1>6. CASE At(s, i, Quote) /\ y \in JsonString(s, i)
  <2>1. first = Quote
    BY <1>6 DEF At, first
  <2>2. SkipValue(s, later, i) = ParseString(s, i)
    BY <1>2, <2>1
  <2> QED
    BY <1>6, <2>2, StringRead DEF ReadTo
<1>7. CASE first \in InNumber /\ y \in JsonNumber(s, i) /\ "num" \in DOMAIN y.got
  <2>1. CASE first = "-"
    <3>1. SkipValue(s, later, i) = ParseNumber(s, i + 1)
      BY <1>2, <2>1
    <3> QED
      BY <1>5, <1>7, <2>1, <3>1, IntegerRead DEF first
  <2>2. CASE first # "-"
    <3>1. SkipValue(s, later, i) = ParseNumber(s, i)
      BY <1>2, <1>7, <2>2
    <3>2. IsDecimal(Unsigned(y.got.num))
      BY <1>5, <1>7
    <3>3. s[i] # "-"
      BY <2>2 DEF first
    <3>4. \E x \in ParseNumber(s, i) : x.index = y.index
      BY <1>7, <3>2, <3>3, IntegerRead
    <3> QED
      BY <3>1, <3>4 DEF ReadTo
  <2> QED
    BY <2>1, <2>2
<1>8. CASE (\E w \in Literals : At(s, i, w)) /\ y.index = i + 1
  <2>1. first \in Literals
    BY <1>8 DEF At, first
  <2>2. SkipValue(s, later, i) = {word}
    BY <1>2, <2>1
  <2>3. word.index = i + 1
    BY DEF word
  <2> QED
    BY <1>8, <2>2, <2>3 DEF ReadTo
<1>9. CASE At(s, i, "{") /\ DOMAIN y.got = {"obj"}
  <2>1. SkipValue(s, later, i) = Object(s, later, "skipped object", i)
    BY <1>2, <1>9 DEF At, first
  <2>2. HasAll("skipped object", y.got.obj)
    BY DEF HasAll, Needed
  <2>3. AllFit("skipped object", y.got.obj, depth - 1)
    <3>1. ASSUME NEW n \in 1..Len(y.got.obj) PROVE OnlyIntegers(y.got.obj[n].value, depth - 1)
      BY <1>5, <1>9 DEF Parts
    <3>2. ASSUME NEW n \in 1..Len(y.got.obj)
          PROVE  ValueFits("skipped object", y.got.obj[n].key, y.got.obj[n].value, depth - 1)
      <4> DEFINE key == y.got.obj[n].key
      <4>1. <<"skipped object", key>> \notin Told
        BY FieldsTold
      <4> HIDE DEF key
      <4>2. ValueFits("skipped object", key, y.got.obj[n].value, depth - 1)
        BY <3>1, <4>1 DEF ValueFits, Told
      <4> QED
        BY <4>2 DEF key
    <3> QED
      BY <3>2 DEF AllFit, ItemFits
  <2>4. "skipped object" \in Objects
    BY DEF Objects
  <2> QED
    BY <1>4, <1>9, <2>1, <2>2, <2>3, <2>4, ObjectRead
<1>10. CASE At(s, i, "[") /\ DOMAIN y.got = {"arr"}
  <2>1. SkipValue(s, later, i) = Array(s, later, "skipped array", i)
    BY <1>2, <1>10 DEF At, first
  <2>2. "skipped array" \in Arrays /\ "skipped array" \notin Objects /\ "skipped array" # "options"
    BY DEF Arrays, Objects
  <2>3. AllFit("skipped array", y.got.arr, depth - 1)
    <3>1. ASSUME NEW n \in 1..Len(y.got.arr) PROVE OnlyIntegers(y.got.arr[n], depth - 1)
      BY <1>5, <1>10 DEF Parts
    <3> QED
      BY <2>2, <3>1 DEF AllFit, ItemFits
  <2> QED
    BY <1>4, <1>10, <2>1, <2>2, <2>3, ArrayRead
<1>11. i \in 1..Len(s) /\ s[i] \in InNumber => first \in InNumber
  BY DEF first
<1> QED
  BY <1>6, <1>7, <1>8, <1>9, <1>10, <1>11, JsonKinds

-----------------------------------------------------------------------------
(* The fields of a body that fits, and the turns of the loops.             *)

Decimals(s, i) == {r \in ParseString(s, i) : IsDecimal(r.got)}

(* How a field's value is read.                                            *)
LEMMA ValueParsed ==
  ASSUME NEW s, NEW later, NEW where, NEW key, NEW i
  PROVE  /\ <<where, key>> \in Ids =>
              Value(s, later, where, key, i) = Decimals(s, i)
         /\ <<where, key>> \in Names => Value(s, later, where, key, i) = ParseString(s, i)
         /\ <<where, key>> = <<"interaction", <<"type">>>> =>
              Value(s, later, where, key, i) = ParseNumber(s, i)
         /\ <<where, key>> = <<"interaction", <<"member">>>> =>
              Value(s, later, where, key, i) = Object(s, later, "member", i)
         /\ <<where, key>> = <<"interaction", <<"data">>>> =>
              Value(s, later, where, key, i) = Object(s, later, "data", i)
         /\ <<where, key>> = <<"member", <<"user">>>> =>
              Value(s, later, where, key, i) = Object(s, later, "user", i)
         /\ <<where, key>> = <<"data", <<"options">>>> =>
              Value(s, later, where, key, i) = Array(s, later, "options", i)
         /\ <<where, key>> = <<"option", <<"value">>>> =>
              Value(s, later, where, key, i) = ParseStringOrNumberValue(s, i)
         /\ <<where, key>> \notin Told =>
              Value(s, later, where, key, i) = SkipValue(s, later, i)
<1> DEFINE p == <<where, key>>
           type == <<"interaction", <<"type">>>>
           value == <<"option", <<"value">>>>
           member == <<"interaction", <<"member">>>>
           data == <<"interaction", <<"data">>>>
           user == <<"member", <<"user">>>>
           options == <<"data", <<"options">>>>
           read == Value(s, later, where, key, i)
<1>1. read =
        CASE p \in Ids -> Decimals(s, i)
          [] p = type -> ParseNumber(s, i)
          [] p = member -> Object(s, later, "member", i)
          [] p = data -> Object(s, later, "data", i)
          [] p = user -> Object(s, later, "user", i)
          [] p \in Names -> ParseString(s, i)
          [] p = options -> Array(s, later, "options", i)
          [] p = value -> ParseStringOrNumberValue(s, i)
          [] OTHER -> SkipValue(s, later, i)
  BY DEF Value, Ids, Names, Decimals
<1>2. TextFields = Ids \cup Names
  BY DEF TextFields, Ids, Names
<1>3. Ids \cap Names = {}
  BY DEF Ids, Names
<1>4. /\ \A q \in Ids \cup Names : q \notin {type, value, member, data, user, options}
      /\ type \notin {value, member, data, user, options}
      /\ value \notin {member, data, user, options}
      /\ member \notin {data, user, options}
      /\ data \notin {user, options}
      /\ user # options
  BY <1>2, FieldsDiffer
<1>5. Told = Ids \cup Names \cup {type, member, data, user, options, value}
  BY DEF Told
<1> HIDE DEF p, type, value, member, data, user, options, read
<1>6. /\ p \in Ids => read = Decimals(s, i)
      /\ p \in Names => read = ParseString(s, i)
  BY <1>1, <1>3, <1>4
<1>7. /\ p = type => read = ParseNumber(s, i)
      /\ p = member => read = Object(s, later, "member", i)
      /\ p = data => read = Object(s, later, "data", i)
  BY <1>1, <1>4
<1>8. /\ p = user => read = Object(s, later, "user", i)
      /\ p = options => read = Array(s, later, "options", i)
      /\ p = value => read = ParseStringOrNumberValue(s, i)
  BY <1>1, <1>4
<1>9. p \notin Told => read = SkipValue(s, later, i)
  BY <1>1, <1>5
<1> QED
  BY <1>6, <1>7, <1>8, <1>9 DEF p, type, value, member, data, user, options, read

(* A value of the shape that is expected is read.                          *)
LEMMA ValueCompletes ==
  ASSUME NEW s \in Seq(Symbols), NEW i \in 1..Len(s)+1, ~ At(s, i, Blank), NEW later, NEW jsonLater,
         CompleteOn(s, i, later, jsonLater), NEW where, NEW key, NEW y \in JsonValue(s, jsonLater, i),
         NEW depth \in Nat, depth >= Len(s) + 1 - i, ValueFits(where, key, y.got, depth)
  PROVE  ReadTo(Value(s, later, where, key, i), y)
<1> DEFINE p == <<where, key>>
           type == <<"interaction", <<"type">>>>
           value == <<"option", <<"value">>>>
           member == <<"interaction", <<"member">>>>
           data == <<"interaction", <<"data">>>>
           user == <<"member", <<"user">>>>
           options == <<"data", <<"options">>>>
           read == Value(s, later, where, key, i)
<1>1. /\ p \in Ids => read = Decimals(s, i)
      /\ p \in Names => read = ParseString(s, i)
      /\ p = type => read = ParseNumber(s, i)
      /\ p = member => read = Object(s, later, "member", i)
      /\ p = data => read = Object(s, later, "data", i)
      /\ p = user => read = Object(s, later, "user", i)
      /\ p = options => read = Array(s, later, "options", i)
      /\ p = value => read = ParseStringOrNumberValue(s, i)
      /\ p \notin Told => read = SkipValue(s, later, i)
  BY ValueParsed
<1>2. /\ p \in Ids => IsId(y.got)
      /\ p \in Names => IsText(y.got)
      /\ p = type => "num" \in DOMAIN y.got /\ IsDecimal(y.got.num)
      /\ p = member => IsMember(y.got, depth)
      /\ p = data => IsData(y.got, depth)
      /\ p = user => IsUser(y.got, depth)
      /\ p = options => AreOptions(y.got, depth)
      /\ p = value => IsText(y.got) \/ IsAmount(y.got)
      /\ p \notin Told => OnlyIntegers(y.got, depth)
  BY DEF ValueFits
<1>3. p \in Told <=>
        \/ p \in Ids \/ p \in Names \/ p = type \/ p = member \/ p = data
        \/ p = user \/ p = options \/ p = value
  BY DEF Told
<1> HIDE DEF p, type, value, member, data, user, options, read
<1>4. depth >= Len(s) - i
  OBVIOUS
<1>5. ASSUME IsText(y.got) PROVE At(s, i, Quote) /\ y \in JsonString(s, i)
  <2> DEFINE kinds == DOMAIN y.got
  <2>1. \/ kinds = {"obj"} \/ kinds = {"num"} \/ kinds = {"lit"} \/ kinds = {"arr"}
        \/ At(s, i, Quote) /\ y \in JsonString(s, i)
    BY JsonKinds
  <2>2. "str" \in kinds
    BY <1>5 DEF IsText
  <2> HIDE DEF kinds
  <2>3. kinds # {"obj"} /\ kinds # {"num"} /\ kinds # {"lit"} /\ kinds # {"arr"}
    BY <2>2
  <2> QED
    BY <2>1, <2>3
<1>6. ASSUME "num" \in DOMAIN y.got PROVE y \in JsonNumber(s, i)
  <2> DEFINE kinds == DOMAIN y.got
  <2>1. \/ kinds = {"obj"} \/ kinds = {"str"} \/ kinds = {"lit"} \/ kinds = {"arr"}
        \/ y \in JsonNumber(s, i)
    BY JsonKinds
  <2>2. "num" \in kinds
    BY <1>6
  <2> HIDE DEF kinds
  <2>3. kinds # {"obj"} /\ kinds # {"str"} /\ kinds # {"lit"} /\ kinds # {"arr"}
    BY <2>2
  <2> QED
    BY <2>1, <2>3
<1>7. {"member", "data", "user"} \subseteq Objects /\ "options" \in Arrays /\ "options" \notin Objects
  BY DEF Objects, Arrays
<1>8. CASE p \in Ids
  <2>1. IsText(y.got) /\ IsDecimal(y.got.str)
    BY <1>2, <1>8 DEF IsId
  <2>2. PICK x \in ParseString(s, i) : x.index = y.index /\ y.got = Str(x.got)
    BY <1>5, <2>1, StringRead
  <2>3. IsDecimal(x.got)
    BY <2>1, <2>2 DEF Str
  <2>4. x \in read
    BY <1>1, <1>8, <2>3 DEF Decimals
  <2> QED
    BY <2>2, <2>4 DEF ReadTo, read
<1>9. CASE p \in Names
  <2>1. IsText(y.got)
    BY <1>2, <1>9
  <2>2. PICK x \in ParseString(s, i) : x.index = y.index
    BY <1>5, <2>1, StringRead
  <2> QED
    BY <1>1, <1>9, <2>2 DEF ReadTo, read
<1>10. CASE p = type
  <2>1. y \in JsonNumber(s, i) /\ IsDecimal(y.got.num)
    BY <1>2, <1>6, <1>10
  <2>2. ReadTo(ParseNumber(s, i), y)
    BY <2>1, DecimalRead
  <2> QED
    BY <1>1, <1>10, <2>2 DEF read
<1>11. CASE p = member
  <2>1. "obj" \in DOMAIN y.got /\ HasAll("member", y.got.obj) /\ AllFit("member", y.got.obj, depth)
    BY <1>2, <1>11, MemberFits
  <2>2. ReadTo(Object(s, later, "member", i), y)
    BY <1>4, <1>7, <2>1, ObjectRead
  <2> QED
    BY <1>1, <1>11, <2>2 DEF read
<1>12. CASE p = data
  <2>1. "obj" \in DOMAIN y.got /\ HasAll("data", y.got.obj) /\ AllFit("data", y.got.obj, depth)
    BY <1>2, <1>12, DataFits
  <2>2. ReadTo(Object(s, later, "data", i), y)
    BY <1>4, <1>7, <2>1, ObjectRead
  <2> QED
    BY <1>1, <1>12, <2>2 DEF read
<1>13. CASE p = user
  <2>1. "obj" \in DOMAIN y.got /\ HasAll("user", y.got.obj) /\ AllFit("user", y.got.obj, depth)
    BY <1>2, <1>13, UserFits
  <2>2. ReadTo(Object(s, later, "user", i), y)
    BY <1>4, <1>7, <2>1, ObjectRead
  <2> QED
    BY <1>1, <1>13, <2>2 DEF read
<1>14. CASE p = options
  <2>1. "arr" \in DOMAIN y.got /\ \A o \in Parts(y.got) : IsOption(o, depth)
    BY <1>2, <1>14 DEF AreOptions
  <2>2. AllFit("options", y.got.arr, depth)
    <3>1. Parts(y.got) = {y.got.arr[n] : n \in 1..Len(y.got.arr)}
      <4> DEFINE kinds == DOMAIN y.got
      <4>1. kinds = {"obj"} \/ kinds = {"str"} \/ kinds = {"lit"} \/ kinds = {"num"} \/ kinds = {"arr"}
        BY JsonKinds
      <4>2. "arr" \in kinds
        BY <2>1
      <4>3. "obj" \notin DOMAIN y.got
        <5> HIDE DEF kinds
        <5>1. "obj" \notin kinds
          BY <4>1, <4>2
        <5> QED
          BY <5>1 DEF kinds
      <4> QED
        BY <2>1, <4>3 DEF Parts
    <3>2. ASSUME NEW n \in 1..Len(y.got.arr) PROVE IsOption(y.got.arr[n], depth)
      BY <2>1, <3>1
    <3> QED
      BY <1>7, <3>2 DEF AllFit, ItemFits
  <2>3. ReadTo(Array(s, later, "options", i), y)
    BY <1>4, <1>7, <2>1, <2>2, ArrayRead
  <2> QED
    BY <1>1, <1>14, <2>3 DEF read
<1>15. CASE p = value
  <2>1. read = ParseStringOrNumberValue(s, i)
    BY <1>1, <1>15
  <2>2. CASE IsText(y.got)
    <3>1. At(s, i, Quote) /\ y \in JsonString(s, i)
      BY <1>5, <2>2
    <3>2. PICK x \in ParseString(s, i) : x.index = y.index
      BY <3>1, StringRead
    <3>3. ParseStringOrNumberValue(s, i) = ParseString(s, i)
      BY <3>1 DEF ParseStringOrNumberValue
    <3> QED
      BY <2>1, <3>2, <3>3 DEF ReadTo, read
  <2>3. CASE IsAmount(y.got)
    <3>1. y \in JsonNumber(s, i)
      BY <1>6, <2>3 DEF IsAmount
    <3>2. ReadTo(ParseDecimalToken(s, i), y) /\ \E d \in Digits : At(s, i, d)
      BY <2>3, <3>1, AmountRead
    <3>3. ~ At(s, i, Quote)
      BY <3>2 DEF At, Digits, Quote
    <3>4. ParseStringOrNumberValue(s, i) = ParseDecimalToken(s, i)
      BY <3>2, <3>3 DEF ParseStringOrNumberValue
    <3> QED
      BY <2>1, <3>2, <3>4 DEF read
  <2> QED
    BY <1>2, <1>15, <2>2, <2>3
<1>16. CASE p \notin Told
  <2>1. OnlyIntegers(y.got, depth)
    BY <1>2, <1>16
  <2>2. ReadTo(SkipValue(s, later, i), y)
    BY <2>1, SkippedRead
  <2> QED
    BY <1>1, <1>16, <2>2 DEF read
<1> QED
  BY <1>3, <1>8, <1>9, <1>10, <1>11, <1>12, <1>13, <1>14, <1>15, <1>16

LEMMA FieldRead ==
  ASSUME NEW s \in Seq(Symbols), NEW i \in 1..Len(s)+1, NEW later, NEW jsonLater,
         NEW from \in 1..i, CompleteOn(s, from, later, jsonLater), NEW where \in Objects,
         NEW q \in JsonField(s, jsonLater, i),
         NEW depth \in Nat, depth >= Len(s) + 1 - i, ValueFits(where, q.got.key, q.got.value, depth)
  PROVE  ReadTo(Field(s, later, where, i), q)
<1>1. PICK k, c, w : IsField(s, jsonLater, i, k, c, w, q)
  BY JsonFieldTaken
<1>2. /\ k \in JsonString(s, i) /\ c \in ExpectByte(s, ConsumeWs(s, k.index), ":")
      /\ w \in JsonValue(s, jsonLater, ConsumeWs(s, c))
      /\ q = [got |-> [key |-> k.got.str, value |-> w.got], index |-> w.index]
  BY <1>1 DEF IsField
<1>3. PICK x \in ParseString(s, i) : x.index = k.index /\ k.got = Str(x.got)
  BY <1>2, StringRead
<1>4. k.index \in i+2..Len(s)+1
  BY <1>2, <1>3, StringsAgree
<1> DEFINE u == ConsumeWs(s, k.index)
           t == ConsumeWs(s, c)
<1>5. u \in i+2..Len(s)+1
  <2>1. k.index \in 1..Len(s)+1
    BY <1>4
  <2>2. u \in k.index..Len(s)+1
    BY <2>1, Whitespace
  <2> QED
    BY <1>4, <2>2
<1>6. c = u + 1 /\ u \in 1..Len(s)
  BY <1>2 DEF ExpectByte, At
<1> HIDE DEF u
<1>7. c \in i+3..Len(s)+1 /\ c \in 1..Len(s)+1
  BY <1>5, <1>6
<1>8. t \in i..Len(s)+1 /\ t \in 1..Len(s)+1 /\ ~ At(s, t, Blank)
  <2>1. t \in c..Len(s)+1 /\ ~ At(s, t, Blank)
    BY <1>7, Whitespace
  <2> HIDE DEF t
  <2> QED
    BY <1>7, <2>1
<1> HIDE DEF t
<1>9. CompleteOn(s, t, later, jsonLater)
  BY <1>8 DEF CompleteOn
<1>10. depth >= Len(s) + 1 - t
  BY <1>8
<1>11. q.got.key = x.got /\ q.got.value = w.got /\ q.index = w.index
  BY <1>2, <1>3 DEF Str
<1>12. ReadTo(Value(s, later, where, x.got, t), w)
  <2>1. w \in JsonValue(s, jsonLater, t)
    BY <1>2 DEF t
  <2>2. ValueFits(where, x.got, w.got, depth)
    BY <1>11
  <2> QED
    BY <1>8, <1>9, <1>10, <2>1, <2>2, ValueCompletes
<1>13. PICK v \in Value(s, later, where, x.got, t) : v.index = w.index
  BY <1>12 DEF ReadTo
<1> DEFINE field == [got |-> [key |-> x.got, value |-> v.got], index |-> v.index]
<1>14. field \in Field(s, later, where, i)
  <2>1. c \in ExpectByte(s, ConsumeWs(s, x.index), ":")
    BY <1>2, <1>3
  <2>2. v \in Value(s, later, where, x.got, ConsumeWs(s, c))
    BY <1>13 DEF t
  <2>3. field \in {[got |-> [key |-> x.got, value |-> z.got], index |-> z.index] :
                     z \in Value(s, later, where, x.got, ConsumeWs(s, c))}
    BY <2>2
  <2> HIDE DEF field
  <2> QED
    BY <2>1, <2>3 DEF Field
<1>15. field.index = q.index
  BY <1>11, <1>13
<1> HIDE DEF field
<1> QED
  BY <1>14, <1>15 DEF ReadTo

LEMMA ItemRead ==
  ASSUME NEW s \in Seq(Symbols), NEW i \in 1..Len(s)+1, ~ At(s, i, Blank), NEW later, NEW jsonLater,
         NEW from \in 1..i, CompleteOn(s, from, later, jsonLater), NEW where \in Places,
         NEW q \in JsonItem(s, jsonLater, Kind(where), i),
         NEW depth \in Nat, depth >= Len(s) + 1 - i, ItemFits(where, q.got, depth)
  PROVE  ReadTo(Item(s, later, where, i), q) /\ ~ At(s, i, Closes(where))
<1>1. CASE where \in Objects
  <2>1. q \in JsonField(s, jsonLater, i)
    BY <1>1 DEF JsonItem, Kind
  <2>2. ValueFits(where, q.got.key, q.got.value, depth)
    BY <1>1 DEF ItemFits
  <2>3. ReadTo(Field(s, later, where, i), q)
    BY <1>1, <2>1, <2>2, FieldRead
  <2>4. At(s, i, Quote)
    BY <2>1 DEF JsonField, JsonString
  <2>5. ~ At(s, i, Closes(where))
    BY <2>4 DEF At, Closes, Quote
  <2> QED
    BY <1>1, <2>3, <2>5 DEF Item
<1>2. CASE where \notin Objects
  <2>1. q \in JsonValue(s, jsonLater, i)
    BY <1>2 DEF JsonItem, Kind
  <2>2. ~ At(s, i, Closes(where))
    <3>1. i \in 1..Len(s) /\ s[i] \notin Punctuation
      BY <2>1, JsonValueTaken
    <3> QED
      BY <1>2, <3>1 DEF At, Closes, Punctuation
  <2>3. CompleteOn(s, i, later, jsonLater)
    BY DEF CompleteOn
  <2>4. CASE where = "options"
    <3>1. /\ "obj" \in DOMAIN q.got /\ HasAll("option", q.got.obj)
          /\ AllFit("option", q.got.obj, depth)
      BY <2>4, OptionFits DEF ItemFits
    <3>2. "option" \in Objects /\ depth >= Len(s) - i
      BY DEF Objects
    <3>3. ReadTo(Object(s, later, "option", i), q)
      BY <2>1, <2>3, <3>1, <3>2, ObjectRead
    <3> QED
      BY <1>2, <2>2, <2>4, <3>3 DEF Item, Element
  <2>5. CASE where = "skipped array"
    <3>1. OnlyIntegers(q.got, depth)
      BY <2>5 DEF ItemFits
    <3>2. ReadTo(SkipValue(s, later, i), q)
      BY <2>1, <2>3, <3>1, SkippedRead
    <3> QED
      BY <1>2, <2>2, <2>5, <3>2 DEF Item, Element
  <2> QED
    BY <1>2, <2>4, <2>5 DEF Places, Arrays
<1> QED
  BY <1>1, <1>2

(* An item and what is read after it, or the end.                          *)
LEMMA LoopGoesOn ==
  ASSUME NEW s, NEW later, NEW where, NEW i, ~ At(s, ConsumeWs(s, i), Closes(where)),
         NEW r \in Item(s, later, where, ConsumeWs(s, i)), NEW y
  PROVE  /\ /\ At(s, ConsumeWs(s, r.index), ",")
            /\ ReadTo(later[ConsumeWs(s, r.index) + 1][where], y)
            => ReadTo(Loop(s, later, where, i), y)
         /\ /\ At(s, ConsumeWs(s, r.index), Closes(where)) /\ ~ At(s, ConsumeWs(s, r.index), ",")
            /\ y.index = ConsumeWs(s, r.index) + 1
            => ReadTo(Loop(s, later, where, i), y)
<1> DEFINE start == ConsumeWs(s, i)
           item == Item(s, later, where, start)
           Turn(z, u) ==
             IF At(s, u, ",")
               THEN {[got |-> <<z.got>> \o x.got, index |-> x.index] : x \in later[u + 1][where]}
               ELSE {[got |-> <<z.got>>, index |-> n] : n \in ExpectByte(s, u, Closes(where))}
           u == ConsumeWs(s, r.index)
<1>1. Loop(s, later, where, i) =
        IF At(s, start, Closes(where)) THEN {[got |-> << >>, index |-> start + 1]}
        ELSE UNION {Turn(z, ConsumeWs(s, z.index)) : z \in item}
  BY DEF Loop, Item, Closes
<1>2. ASSUME NEW x \in Turn(r, u) PROVE x \in Loop(s, later, where, i)
  <2>1. r \in item /\ x \in Turn(r, ConsumeWs(s, r.index)) /\ ~ At(s, start, Closes(where))
    BY <1>2
  <2> HIDE DEF start, item, Turn, u
  <2> QED
    BY <1>1, <2>1
<1> HIDE DEF u
<1>3. ASSUME At(s, u, ","), ReadTo(later[u + 1][where], y) PROVE ReadTo(Loop(s, later, where, i), y)
  <2>1. PICK x \in later[u + 1][where] : x.index = y.index
    BY <1>3 DEF ReadTo
  <2> DEFINE z == [got |-> <<r.got>> \o x.got, index |-> x.index]
  <2>2. z \in Turn(r, u)
    BY <1>3
  <2>3. z.index = y.index
    BY <2>1
  <2> HIDE DEF z, Turn
  <2> QED
    BY <1>2, <2>2, <2>3 DEF ReadTo
<1>4. ASSUME At(s, u, Closes(where)), ~ At(s, u, ","), y.index = u + 1
      PROVE  ReadTo(Loop(s, later, where, i), y)
  <2> DEFINE z == [got |-> <<r.got>>, index |-> u + 1]
  <2>1. u + 1 \in ExpectByte(s, u, Closes(where))
    BY <1>4 DEF ExpectByte
  <2>2. z \in Turn(r, u)
    BY <1>4, <2>1
  <2>3. z.index = y.index
    BY <1>4
  <2> HIDE DEF z, Turn
  <2> QED
    BY <1>2, <2>2, <2>3 DEF ReadTo
<1> QED
  BY <1>3, <1>4 DEF u

LEMMA TurnCompletes ==
  ASSUME NEW s \in Seq(Symbols), NEW i \in 1..Len(s)+1, \A k \in i+1..Len(s)+1 : CompleteAt(s, k)
  PROVE  CompleteAt(s, i)
<1> SUFFICES ASSUME NEW where \in Places, NEW y \in JsonLists(s)[i][Kind(where)], NEW depth \in Nat,
                    depth >= Len(s) + 1 - i, AllFit(where, y.got, depth)
             PROVE  ReadTo(Loops(s)[i][where], y)
  BY DEF CompleteAt
<1> DEFINE later == [k \in i+1..Len(s)+1 |-> Loops(s)[k]]
           jsonLater == [k \in i+1..Len(s)+1 |-> JsonLists(s)[k]]
           start == ConsumeWs(s, i)
<1>1. start \in i..Len(s)+1 /\ start \in 1..Len(s)+1 /\ ~ At(s, start, Blank) /\ i \in 1..start
  <2>1. start \in i..Len(s)+1 /\ ~ At(s, start, Blank)
    BY Whitespace
  <2> HIDE DEF start
  <2> QED
    BY <2>1
<1>2. CompleteOn(s, i, later, jsonLater)
  BY DEF CompleteOn
<1>3. JsonReadsOn(s, i, jsonLater)
  <2>1. i+1..Len(s)+1 \subseteq 1..Len(s)+1
    OBVIOUS
  <2> QED
    BY <2>1, JsonListsBounds DEF JsonReadsOn
<1>4. Loops(s)[i][where] = Loop(s, later, where, i)
  BY LoopsRecursion
<1>5. Kind(where) \in {"obj", "arr"} /\ Closing[Kind(where)] = Closes(where) /\ "," # Closes(where)
  BY DEF Kind, Closing, Closes
<1>6. y \in JsonItems(s, jsonLater, Kind(where), i)
  BY <1>5, JsonRecursion
<1> HIDE DEF later, jsonLater
<1>7. PICK q \in JsonItem(s, jsonLater, Kind(where), start) :
        GoesOn(s, jsonLater, Kind(where), Closes(where), q, y)
  <2>1. JsonTurns(s, jsonLater, Kind(where), i, y)
    BY <1>6, JsonTurn
  <2> QED
    BY <1>5, <2>1 DEF JsonTurns
<1> HIDE DEF start
<1>8. q.index \in start+1..Len(s)+1
  BY <1>1, <1>3, <1>5, JsonItemBounds
<1> DEFINE u == ConsumeWs(s, q.index)
<1>9. u \in i+1..Len(s)+1
  <2>1. q.index \in 1..Len(s)+1
    BY <1>1, <1>8
  <2>2. u \in q.index..Len(s)+1
    BY <2>1, Whitespace
  <2> HIDE DEF u
  <2> QED
    BY <1>1, <1>8, <2>2
<1>10. depth >= Len(s) + 1 - start
  BY <1>1
<1>11. ASSUME ItemFits(where, q.got, depth)
       PROVE  \E r \in Item(s, later, where, start) : r.index = q.index
  BY <1>1, <1>2, <1>10, <1>11, ItemRead DEF ReadTo
<1>12. ASSUME ItemFits(where, q.got, depth) PROVE ~ At(s, start, Closes(where))
  BY <1>1, <1>2, <1>10, <1>12, ItemRead
<1>13. CASE /\ At(s, u, ",")
            /\ \E z \in jsonLater[u + 1][Kind(where)] :
                 y.got = <<q.got>> \o z.got /\ y.index = z.index
  <2>1. u \in 1..Len(s)
    BY <1>13 DEF At
  <2>2. PICK z \in jsonLater[u + 1][Kind(where)] : y.got = <<q.got>> \o z.got /\ y.index = z.index
    BY <1>13
  <2> HIDE DEF u
  <2>3. u + 1 \in i+1..Len(s)+1 /\ u + 1 \in 1..Len(s)+1
    BY <1>9, <2>1
  <2>4. /\ later[u + 1] = Loops(s)[u + 1] /\ z \in JsonLists(s)[u + 1][Kind(where)]
        /\ CompleteAt(s, u + 1) /\ JsonBounds(s, u + 1)
    BY <1>2, <1>3, <2>2, <2>3 DEF CompleteOn, JsonReadsOn
  <2>5. IsSequence(z.got)
    BY <1>5, <2>4 DEF JsonBounds
  <2>6. /\ Len(y.got) = Len(z.got) + 1 /\ y.got[1] = q.got /\ Len(z.got) \in Nat
        /\ \A n \in 2..Len(z.got)+1 : y.got[n] = z.got[n - 1]
    BY <2>2, <2>5, Prepend DEF IsSequence
  <2>7. ItemFits(where, q.got, depth)
    <3>1. 1 \in 1..Len(y.got)
      BY <2>6
    <3> QED
      BY <2>6, <3>1 DEF AllFit
  <2>8. AllFit(where, z.got, depth)
    <3>1. ASSUME NEW n \in 1..Len(z.got) PROVE ItemFits(where, z.got[n], depth)
      <4>1. n + 1 \in 2..Len(z.got)+1 /\ n + 1 \in 1..Len(y.got) /\ (n + 1) - 1 = n
        BY <2>6
      <4>2. y.got[n + 1] = z.got[n]
        BY <2>6, <4>1
      <4> QED
        BY <4>1, <4>2 DEF AllFit
    <3> QED
      BY <3>1 DEF AllFit
  <2>9. ReadTo(later[u + 1][where], z)
    <3>1. depth >= Len(s) + 1 - (u + 1)
      BY <1>9
    <3> QED
      BY <2>4, <2>8, <3>1 DEF CompleteAt
  <2>10. ReadTo(later[u + 1][where], y)
    BY <2>2, <2>9 DEF ReadTo
  <2>11. PICK r \in Item(s, later, where, start) : r.index = q.index
    BY <1>11, <2>7
  <2>12. ReadTo(Loop(s, later, where, i), y)
    BY <1>12, <1>13, <2>7, <2>10, <2>11, LoopGoesOn DEF u, start
  <2> QED
    BY <1>4, <2>12
<1>14. CASE At(s, u, Closes(where)) /\ y.got = <<q.got>> /\ y.index = u + 1
  <2> HIDE DEF u
  <2>1. ItemFits(where, q.got, depth)
    <3>1. Len(y.got) = 1 /\ y.got[1] = q.got
      BY <1>14
    <3>2. 1 \in 1..Len(y.got)
      BY <3>1
    <3> QED
      BY <3>1, <3>2 DEF AllFit
  <2>2. ~ At(s, u, ",")
    BY <1>5, <1>14 DEF At
  <2>3. PICK r \in Item(s, later, where, start) : r.index = q.index
    BY <1>11, <2>1
  <2>4. ReadTo(Loop(s, later, where, i), y)
    BY <1>12, <1>14, <2>1, <2>2, <2>3, LoopGoesOn DEF u, start
  <2> QED
    BY <1>4, <2>4
<1> QED
  BY <1>7, <1>13, <1>14 DEF GoesOn

LEMMA LoopsComplete ==
  ASSUME NEW s \in Seq(Symbols)
  PROVE  \A i \in 1..Len(s)+1 : CompleteAt(s, i)
<1> DEFINE l == Len(s) + 1
           P == {i \in 1..l : CompleteAt(s, i)}
<1>1. ASSUME NEW i \in 1..l, \A k \in i+1..l : k \in P PROVE i \in P
  BY <1>1, TurnCompletes
<1>2. l \in Nat
  OBVIOUS
<1>3. \A i \in 1..l : i \in P
  <2> HIDE DEF P, l
  <2> QED
    BY <1>1, <1>2, FromTheEnd
<1> QED
  BY <1>3

-----------------------------------------------------------------------------
(* The names of the options are those that the relayer finds.              *)
Given(options) == {o \in OptionNames : \E n \in 1..Len(options) : NameOf(options[n]) = o}

LEMMA OptionsGiven ==
  ASSUME NEW s \in Seq(Symbols), NEW xs, NEW ys, ItemsAlike(s, "options", xs, ys)
  PROVE  DOMAIN ParseOptions(xs) = Given(ys)
<1> DEFINE l == Len(xs)
           named == [n \in 1..l |->
                       [key |-> Get(xs[n], <<"name">>), value |-> Get(xs[n], <<"value">>)]]
<1>1. Len(ys) = l /\ l \in Nat
  BY DEF ItemsAlike, IsSequence
<1>2. ASSUME NEW n \in 1..l PROVE NameOf(ys[n]) = Get(xs[n], <<"name">>)
  <2>1. ObjectAlike(s, "option", xs[n], ys[n])
    BY DEF ItemsAlike, ItemAlike
  <2> QED
    BY <2>1, OptionAlike
<1> HIDE DEF l
<1>3. Len(named) = l /\ \A n \in 1..l : named[n].key = Get(xs[n], <<"name">>)
  BY <1>1
<1>4. ParseOptions(xs) = [name \in {o \in OptionNames : Has(named, o)} |-> Get(named, name)]
  BY DEF ParseOptions, l
<1> HIDE DEF named
<1>5. ASSUME NEW o PROVE Has(named, o) <=> \E n \in 1..Len(ys) : NameOf(ys[n]) = o
  BY <1>1, <1>2, <1>3 DEF Has
<1> QED
  BY <1>4, <1>5 DEF Given

(* A command for the program, in a body of the shape that Discord gives it,*)
(* is read.                                                                *)
LEMMA CommandRead ==
  ASSUME NEW s \in Seq(Symbols), NEW v \in JsonParse(s),
         IsForTheProgram(v), IsInteraction(Obj(v), Len(s))
  PROVE  Command(s) # {}
<1> DEFINE i == ConsumeWs(s, 1)
<1>1. i \in 1..Len(s)+1 /\ Len(s) \in Nat
  <2>1. 1 \in 1..Len(s)+1
    OBVIOUS
  <2> QED
    BY <2>1, Whitespace
<1>2. PICK y \in JsonValue(s, JsonLists(s), i) : "obj" \in DOMAIN y.got /\ y.got.obj = v
  BY DEF JsonParse
<1> HIDE DEF i
<1>3. PICK x \in Object(s, Loops(s), "interaction", i) : x.index = y.index
  <2>1. HasAll("interaction", y.got.obj) /\ AllFit("interaction", y.got.obj, Len(s))
    <3>1. Obj(v).obj = v
      BY DEF Obj
    <3> QED
      BY <1>2, <3>1, InteractionFits
  <2>2. CompleteOn(s, i, Loops(s), JsonLists(s))
    <3>1. i+1..Len(s)+1 \subseteq 1..Len(s)+1
      BY <1>1
    <3> QED
      BY <3>1, LoopsComplete DEF CompleteOn
  <2>3. "interaction" \in Objects /\ Len(s) >= Len(s) - i
    BY <1>1 DEF Objects
  <2>4. ReadTo(Object(s, Loops(s), "interaction", i), y)
    BY <1>1, <1>2, <2>1, <2>2, <2>3, ObjectRead
  <2> QED
    BY <2>4 DEF ReadTo
<1> DEFINE data == Get(x.got, <<"data">>)
           jsonData == Get(v, <<"data">>).obj
           c == [id |-> Get(x.got, <<"id">>),
                 user |-> Get(Get(Get(x.got, <<"member">>), <<"user">>), <<"id">>),
                 data |-> ParseData(data)]
<1>4. /\ Get(v, <<"type">>).num = Get(x.got, <<"type">>)
      /\ Get(jsonData, <<"name">>).str = Get(data, <<"name">>)
      /\ ItemsAlike(s, "options", GivenOptions(data), Options(v))
  <2>1. ItemsAlike(s, "interaction", x.got, v) /\ HasAll("interaction", x.got)
    BY <1>1, <1>2, InteractionsAgree
  <2> QED
    BY <2>1, InteractionAlike
<1>5. c \in ParseInteraction(s)
  <2>1. Get(x.got, <<"type">>) = APPLICATION_COMMAND
    BY <1>4 DEF IsForTheProgram
  <2> QED
    BY <2>1 DEF ParseInteraction, i
<1> DEFINE options == ParseOptions(GivenOptions(data))
           given == Given(Options(v))
           jsonOptions == [name \in given |-> OptionStringValue(Options(v), name)]
<1>6. DOMAIN options = given
  BY <1>4, OptionsGiven
<1>7. ParseData(data) = [name |-> Get(data, <<"name">>), options |-> options]
  BY DEF ParseData, GivenOptions
<1>8. ReadByRelayer(v).data = [name |-> Get(jsonData, <<"name">>).str, options |-> jsonOptions]
  BY DEF ReadByRelayer, Given
<1>9. c.data = ParseData(data)
  OBVIOUS
<1>10. DOMAIN jsonOptions = given
  OBVIOUS
<1> HIDE DEF c, data, jsonData, options, given, jsonOptions
<1>11. c.data.name = Get(data, <<"name">>) /\ c.data.options = options
  BY <1>7, <1>9
<1>12. ReadByRelayer(v).data.name = Get(data, <<"name">>) /\ ReadByRelayer(v).data.options = jsonOptions
  BY <1>4, <1>8
<1>13. c.data.name \in CommandNames /\ NeededOptions(c.data.name) \subseteq DOMAIN c.data.options
  BY <1>6, <1>10, <1>11, <1>12 DEF IsForTheProgram
<1> QED
  BY <1>5, <1>13 DEF Command

-----------------------------------------------------------------------------
(* The bytes of a body are symbols, field after field.                     *)

Inv == gap \in Gaps /\ body \in Seq(Symbols)

LEMMA Texts ==
  /\ {<< >>, <<"{">>, <<"}">>, <<",">>, <<Blank>>} \subseteq Seq(Symbols)
  /\ \A t, u \in Seq(Symbols) : t \o u \in Seq(Symbols)
<1>1. "{" \in Symbols /\ "}" \in Symbols /\ "," \in Symbols /\ Blank \in Symbols
  BY FieldTexts
<1>2. \A x \in Symbols : <<x>> \in Seq(Symbols)
  OBVIOUS
<1>3. << >> \in Seq(Symbols)
  OBVIOUS
<1>4. \A t, u \in Seq(Symbols) : t \o u \in Seq(Symbols)
  OBVIOUS
<1> QED
  BY <1>1, <1>2, <1>3, <1>4

LEMMA Invariance == Spec => []Inv
<1>1. Init => Inv
  BY Texts DEF Init, Inv
<1>2. Inv /\ [Next]_vars => Inv'
  <2> SUFFICES ASSUME Inv, [Next]_vars PROVE Inv'
    OBVIOUS
  <2>1. CASE AddField
    <3>1. PICK f \in BodyFields :
            /\ body' = body \o (IF written = {} THEN gap ELSE <<",">> \o gap) \o f.text \o gap
            /\ UNCHANGED gap
      BY <2>1 DEF AddField
    <3>2. gap \in Seq(Symbols) /\ <<",">> \in Seq(Symbols) /\ body \in Seq(Symbols)
      BY Texts DEF Inv, Gaps
    <3>3. f.text \in Seq(Symbols)
      BY FieldTexts
    <3> DEFINE before == IF written = {} THEN gap ELSE <<",">> \o gap
    <3>4. before \in Seq(Symbols)
      BY <3>2, Texts
    <3> HIDE DEF before
    <3>5. body \o before \o f.text \o gap \in Seq(Symbols)
      <4>1. body \o before \in Seq(Symbols)
        BY <3>2, <3>4, Texts
      <4>2. body \o before \o f.text \in Seq(Symbols)
        BY <3>3, <4>1, Texts
      <4> QED
        BY <3>2, <4>2, Texts
    <3>6. body' = body \o before \o f.text \o gap
      BY <3>1 DEF before
    <3> QED
      BY <3>1, <3>5, <3>6 DEF Inv
  <2>2. CASE UNCHANGED vars
    BY <2>2 DEF Inv, vars
  <2> QED
    BY <2>1, <2>2 DEF Next
<1> QED
  BY <1>1, <1>2, PTL DEF Spec

(* Whatever the program reads in a body, JSON.parse reads too              *)
(* (parse_interaction and the loops it calls): whatever fields the body has*)
(* and however they are nested, no string, skipped object or other id is   *)
(* taken for a field of the command.                                       *)
THEOREM NothingIsMisread == Spec => []NothingMisread
<1>1. Inv => NothingMisread
  <2> SUFFICES ASSUME Inv PROVE NothingMisread
    OBVIOUS
  <2>1. Bytes \in Seq(Symbols)
    BY Texts DEF Inv, Bytes
  <2> QED
    BY <2>1, CommandAlike DEF NothingMisread
<1> QED
  BY <1>1, Invariance, PTL

(* A command that the relayer finds in a body, the program finds too       *)
(* (parse_interaction, skip_value): whatever fields the body has, however  *)
(* they are ordered and nested and whatever is skipped, if it is of the    *)
(* shape that Discord gives it, its amounts have no exponents and what is  *)
(* skipped has no number but integers.                                     *)
THEOREM EveryCommandIsRead == Spec => []EveryCommandRead
<1>1. Inv => EveryCommandRead
  <2> SUFFICES ASSUME Inv PROVE EveryCommandRead
    OBVIOUS
  <2>1. Bytes \in Seq(Symbols)
    BY Texts DEF Inv, Bytes
  <2> QED
    BY <2>1, CommandRead DEF EveryCommandRead
<1> QED
  BY <1>1, Invariance, PTL

================================================================================
