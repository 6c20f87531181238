------------------------ MODULE TokenRegistry_proofs -------------------------
(***************************************************************************)
(* What a choice looks like tells which token it is, for any registry an   *)
(* operator may write and any lengths that leave room for a symbol.        *)
(***************************************************************************)
EXTENDS TokenRegistry, FiniteSetTheorems, FunctionTheorems, TLAPS

-----------------------------------------------------------------------------
(* Texts.                                                                  *)

LEMMA WrittenCharacters ==
  {"S", "O", "L", "s", "o", "l", Blank, Dash, Open, Close} \subseteq Characters
BY Texts DEF Separators

LEMMA TrimType ==
  ASSUME NEW s \in Seq(Characters), NEW t \in Trim(s)
  PROVE  t \in Seq(Characters)
<1>1. PICK i \in DOMAIN s, k \in DOMAIN s : t = SubSeq(s, i, k)
  BY DEF Trim
<1> QED
  BY <1>1

LEMMA ShortStringType ==
  ASSUME NEW s \in Seq(Characters), NEW t \in RequiredShortString(s)
  PROVE  t \in Seq(Characters)
BY TrimType DEF RequiredShortString

LEMMA UpperCaseType ==
  ASSUME NEW s \in Seq(Characters)
  PROVE  ToUpperCase(s) \in Seq(Characters)
<1>1. \A c \in DOMAIN UpperCase : UpperCase[c] \in Characters
  <2> SUFFICES ASSUME NEW c \in Range(LowerCase)
               PROVE  (CHOOSE u \in DOMAIN LowerCase : LowerCase[u] = c) \in Characters
    BY DEF UpperCase
  <2>1. \E u \in DOMAIN LowerCase : LowerCase[u] = c
    BY DEF Range
  <2> QED
    BY <2>1, Letters
<1>2. \A i \in DOMAIN s : s[i] \in Characters
  OBVIOUS
<1>3. DOMAIN s = 1..Len(s) /\ Len(s) \in Nat
  OBVIOUS
<1> QED
  BY <1>1, <1>2, <1>3 DEF ToUpperCase

(* The first characters of a text.                                         *)
LEMMA UpToPrefix ==
  ASSUME NEW s \in Seq(Characters), NEW n \in Nat
  PROVE  /\ UpTo(s, n) \in Seq(Characters)
         /\ Len(UpTo(s, n)) = IF n < Len(s) THEN n ELSE Len(s)
         /\ \A i \in 1..Len(UpTo(s, n)) : UpTo(s, n)[i] = s[i]
BY DEF UpTo

(* A mint has something in it, and nothing of what stands around it.       *)
LEMMA MintText ==
  ASSUME NEW m \in Mints
  PROVE  /\ m \in Seq(Characters) /\ Len(m) \in Nat \ {0}
         /\ \A i \in 1..Len(m) : m[i] \in Characters \ Separators
<1>1. m \in Seq(Characters \ Separators) /\ m # << >>
  BY Base58
<1> HIDE DEF Separators
<1>2. Len(m) \in Nat /\ \A i \in 1..Len(m) : m[i] \in Characters \ Separators
  BY <1>1
<1>3. m \in Seq(Characters)
  <2>1. DOMAIN m = 1..Len(m) /\ m = [i \in 1..Len(m) |-> m[i]]
    BY <1>1
  <2> QED
    BY <1>2, <2>1
<1>4. Len(m) # 0
  BY <1>1
<1> QED
  BY <1>2, <1>3, <1>4

(* One text behind another.                                                *)
LEMMA Joined ==
  ASSUME NEW s \in Seq(Characters), NEW t \in Seq(Characters)
  PROVE  /\ s \o t \in Seq(Characters) /\ Len(s \o t) = Len(s) + Len(t)
         /\ \A i \in 1..Len(s) : (s \o t)[i] = s[i]
         /\ \A i \in 1..Len(t) : (s \o t)[Len(s) + i] = t[i]
OBVIOUS

LEMMA OneCharacter ==
  ASSUME NEW c \in Characters
  PROVE  <<c>> \in Seq(Characters) /\ Len(<<c>>) = 1 /\ <<c>>[1] = c
OBVIOUS

LEMMA TwoCharacters ==
  ASSUME NEW c \in Characters, NEW d \in Characters
  PROVE  <<c, d>> \in Seq(Characters) /\ Len(<<c, d>>) = 2 /\ <<c, d>>[1] = c /\ <<c, d>>[2] = d
OBVIOUS

LEMMA ThreeCharacters ==
  ASSUME NEW c \in Characters, NEW d \in Characters, NEW e \in Characters
  PROVE  /\ <<c, d, e>> \in Seq(Characters) /\ Len(<<c, d, e>>) = 3
         /\ <<c, d, e>>[1] = c /\ <<c, d, e>>[2] = d /\ <<c, d, e>>[3] = e
OBVIOUS

LEMMA FourCharacters ==
  ASSUME NEW b \in Characters, NEW c \in Characters, NEW d \in Characters, NEW e \in Characters
  PROVE  <<b, c, d, e>> \in Seq(Characters) /\ Len(<<b, c, d, e>>) = 4 /\ <<b, c, d, e>>[4] = e
OBVIOUS

(* The dash is in no symbol, nor in SOL.                                   *)
LEMMA SolShape ==
  /\ SOL \in Seq(Characters) /\ Len(SOL) = 3
  /\ \A i \in 1..3 : SOL[i] # Dash
  /\ SOL \o <<Dash>> \in Seq(Characters) /\ Len(SOL \o <<Dash>>) = 4
  /\ \A i \in 1..3 : (SOL \o <<Dash>>)[i] = SOL[i]
  /\ (SOL \o <<Dash>>)[4] = Dash
<1> DEFINE d == <<Dash>>
<1>1. {"S", "O", "L", Dash} \subseteq Characters
  BY WrittenCharacters
<1>2. /\ SOL \in Seq(Characters) /\ Len(SOL) = 3
      /\ SOL[1] = "S" /\ SOL[2] = "O" /\ SOL[3] = "L"
  BY <1>1, ThreeCharacters DEF SOL
<1>3. \A i \in 1..3 : SOL[i] # Dash
  <2>1. "S" # Dash /\ "O" # Dash /\ "L" # Dash
    BY DEF Dash
  <2>2. \A i \in 1..3 : i = 1 \/ i = 2 \/ i = 3
    OBVIOUS
  <2> QED
    BY <1>2, <2>1, <2>2
<1>4. d \in Seq(Characters) /\ Len(d) = 1 /\ d[1] = Dash
  BY <1>1, OneCharacter
<1> HIDE DEF d
<1>5. /\ SOL \o d \in Seq(Characters) /\ Len(SOL \o d) = Len(SOL) + Len(d)
      /\ \A i \in 1..Len(SOL) : (SOL \o d)[i] = SOL[i]
      /\ \A i \in 1..Len(d) : (SOL \o d)[Len(SOL) + i] = d[i]
  BY <1>2, <1>4, Joined
<1>6. /\ SOL \o d \in Seq(Characters) /\ Len(SOL \o d) = 4
      /\ \A i \in 1..3 : (SOL \o d)[i] = SOL[i]
      /\ (SOL \o d)[4] = Dash
  BY <1>2, <1>4, <1>5
<1> QED
  BY <1>2, <1>3, <1>6 DEF d

-----------------------------------------------------------------------------
(* Small letters, and one text inside another.                             *)

Lower(c) == IF c \in DOMAIN LowerCase THEN LowerCase[c] ELSE c

LEMMA LowerCharacter ==
  ASSUME NEW c \in Characters
  PROVE  /\ Lower(c) \in Characters /\ Lower(Lower(c)) = Lower(c)
         /\ c \in Separators => Lower(c) = c
         /\ c \notin Separators => Lower(c) \notin Separators
<1> HIDE DEF Separators
<1>1. CASE c \in DOMAIN LowerCase
  <2>1. Lower(c) = LowerCase[c]
    BY <1>1 DEF Lower
  <2>2. Lower(c) \in Characters \ (Separators \cup DOMAIN LowerCase) /\ c \notin Separators
    BY <1>1, <2>1, Letters
  <2>3. Lower(Lower(c)) = Lower(c)
    BY <2>2 DEF Lower
  <2> QED
    BY <2>2, <2>3
<1>2. CASE c \notin DOMAIN LowerCase
  BY <1>2 DEF Lower
<1> QED
  BY <1>1, <1>2

LEMMA LowerCaseShape ==
  ASSUME NEW s \in Seq(Characters)
  PROVE  /\ ToLowerCase(s) \in Seq(Characters) /\ Len(ToLowerCase(s)) = Len(s)
         /\ \A i \in 1..Len(s) : ToLowerCase(s)[i] = Lower(s[i])
<1>1. DOMAIN s = 1..Len(s) /\ Len(s) \in Nat /\ \A i \in 1..Len(s) : s[i] \in Characters
  OBVIOUS
<1>2. ToLowerCase(s) = [i \in 1..Len(s) |-> Lower(s[i])]
  BY <1>1 DEF ToLowerCase, Lower
<1>3. \A i \in 1..Len(s) : Lower(s[i]) \in Characters
  BY <1>1, LowerCharacter
<1> QED
  BY <1>1, <1>2, <1>3

(* The characters of t follow the first n of s.                            *)
Stands(s, t, n) ==
  n \in Nat /\ n + Len(t) <= Len(s) /\ \A i \in 1..Len(t) : s[n + i] = t[i]

LEMMA IncludedStands ==
  ASSUME NEW s \in Seq(Characters), NEW t \in Seq(Characters), Includes(s, t)
  PROVE  \E n : Stands(s, t, n)
<1>1. Len(s) \in Nat /\ Len(t) \in Nat
  OBVIOUS
<1>2. PICK n \in 0..Len(s) - Len(t) : SubSeq(s, n + 1, n + Len(t)) = t
  BY DEF Includes
<1>3. n \in Nat /\ n + Len(t) <= Len(s)
  BY <1>1, <1>2
<1>4. ASSUME NEW i \in 1..Len(t) PROVE s[n + i] = t[i]
  <2>1. SubSeq(s, n + 1, n + Len(t))[i] = s[n + 1 + i - 1]
    BY <1>1, <1>3
  <2>2. n + 1 + i - 1 = n + i
    BY <1>3
  <2> QED
    BY <1>2, <2>1, <2>2
<1>5. Stands(s, t, n)
  BY <1>3, <1>4 DEF Stands
<1> QED
  BY <1>5

LEMMA StandsIncluded ==
  ASSUME NEW s \in Seq(Characters), NEW t \in Seq(Characters), NEW n, Stands(s, t, n)
  PROVE  Includes(s, t)
<1>1. /\ Len(s) \in Nat /\ Len(t) \in Nat /\ n \in Nat /\ n + Len(t) <= Len(s)
      /\ \A i \in 1..Len(t) : s[n + i] = t[i]
  BY DEF Stands
<1>2. n \in 0..Len(s) - Len(t)
  BY <1>1
<1> DEFINE u == SubSeq(s, n + 1, n + Len(t))
<1>3. u \in Seq(Characters) /\ Len(u) = Len(t)
  BY <1>1
<1>4. \A i \in 1..Len(t) : u[i] = s[n + i]
  BY <1>1
<1> HIDE DEF u
<1>5. u = t
  BY <1>1, <1>3, <1>4
<1> QED
  BY <1>2, <1>5 DEF Includes, u

LEMMA IncludesItself ==
  ASSUME NEW s \in Seq(Characters)
  PROVE  Includes(s, s)
<1>1. Stands(s, s, 0)
  BY DEF Stands
<1> QED
  BY <1>1, StandsIncluded

(* What stands in a text where no blank and no separator is.               *)
LEMMA StandsAside ==
  ASSUME NEW s \in Seq(Characters), NEW t \in Seq(Characters), NEW n, Stands(s, t, n),
         \A i \in 1..Len(t) : t[i] \notin Separators,
         NEW p \in 1..Len(s), s[p] \in Separators
  PROVE  n + Len(t) < p \/ p <= n
<1>1. Len(s) \in Nat /\ Len(t) \in Nat /\ p \in Nat
  OBVIOUS
<1>3. n \in Nat /\ \A i \in 1..Len(t) : s[n + i] = t[i]
  BY DEF Stands
<1> HIDE DEF Separators
<1>2. CASE n < p /\ p <= n + Len(t)
  <2>1. p - n \in 1..Len(t) /\ n + (p - n) = p
    BY <1>1, <1>2, <1>3
  <2> QED
    BY <1>3, <2>1
<1> QED
  BY <1>1, <1>2, <1>3

(* What is trimmed off.                                                    *)
LEMMA Trimmed ==
  ASSUME NEW s \in Seq(Characters), NEW a \in 1..Len(s), NEW b \in 1..Len(s),
         s[a] # Blank, s[b] # Blank,
         \A i \in 1..Len(s) : s[i] # Blank => a <= i /\ i <= b
  PROVE  Trim(s) = {SubSeq(s, a, b)}
<1> DEFINE Written == {i \in DOMAIN s : s[i] # Blank}
<1>1. DOMAIN s = 1..Len(s) /\ Len(s) \in Nat
  OBVIOUS
<1>2. a \in Written /\ b \in Written /\ \A i \in Written : i \in Nat /\ a <= i /\ i <= b
  BY <1>1
<1> DEFINE Earliest == {j \in Written : \A l \in Written : j <= l}
           Latest == {j \in Written : \A l \in Written : j >= l}
<1>3. Trim(s) = {SubSeq(s, i, k) : i \in Earliest, k \in Latest}
  BY DEF Trim
<1> HIDE DEF Written
<1>4. a \in Earliest /\ \A j \in Earliest : j = a
  BY <1>2
<1>5. b \in Latest /\ \A j \in Latest : j = b
  BY <1>2
<1> HIDE DEF Earliest, Latest
<1>6. Earliest = {a} /\ Latest = {b}
  BY <1>4, <1>5
<1> QED
  BY <1>3, <1>6

-----------------------------------------------------------------------------
(* The registry.                                                           *)

IsEntry(e) ==
  /\ e.symbol \in Seq(Characters) /\ Len(e.symbol) <= MaxSymbol
  /\ Range(e.symbol) \subseteq SymbolLetters
  /\ e.symbol # SOL
  /\ e.name \in Seq(Characters)
  /\ e.mint \in Mints

LEMMA ParsedEntry ==
  ASSUME NEW value \in Configurable, NEW e \in ParseRegistryEntry(value)
  PROVE  IsEntry(e)
<1>1. value.symbol \in Seq(Characters) /\ value.name \in Seq(Characters) /\ value.mint \in Seq(Characters)
  BY Texts
<1>2. PICK s \in Symbol(value.symbol), n \in RequiredShortString(value.name),
           m \in RequiredShortString(value.mint) \cap Mints :
             e = [symbol |-> s, name |-> n, mint |-> m]
  BY DEF ParseRegistryEntry
<1>3. s \in Seq(Characters) /\ IsSymbol(s) /\ s # SOL
  BY <1>1, ShortStringType, UpperCaseType DEF Symbol
<1>4. n \in Seq(Characters)
  BY <1>1, ShortStringType
<1> QED
  BY <1>2, <1>3, <1>4 DEF IsEntry, IsSymbol

LEMMA RegistryEntries ==
  ASSUME NEW json \in Seq(Configurable), NEW r \in CreateTokenRegistry(json)
  PROVE  /\ DOMAIN r = 1..Len(json)
         /\ \A i \in DOMAIN r : IsEntry(r[i])
         /\ \A i, j \in DOMAIN r : r[i].mint = r[j].mint => i = j
<1>1. DOMAIN json = 1..Len(json) /\ \A i \in DOMAIN json : json[i] \in Configurable
  OBVIOUS
<1>2. /\ r = [i \in DOMAIN json |-> CHOOSE e \in ParseRegistryEntry(json[i]) : TRUE]
      /\ \A i \in DOMAIN json : ParseRegistryEntry(json[i]) # {}
      /\ \A i, j \in DOMAIN json : r[i].mint = r[j].mint => i = j
  BY DEF CreateTokenRegistry
<1>3. ASSUME NEW i \in DOMAIN json PROVE IsEntry(r[i])
  <2>1. r[i] = CHOOSE e \in ParseRegistryEntry(json[i]) : TRUE
    BY <1>2
  <2>2. r[i] \in ParseRegistryEntry(json[i])
    BY <1>2, <2>1
  <2> QED
    BY <1>1, <2>2, ParsedEntry
<1> QED
  BY <1>1, <1>2, <1>3

-----------------------------------------------------------------------------
(* The choice of an entry: first the symbol and the dash, last the mint.   *)

(* How much of symbol and name is kept.                                    *)
Kept(e) == UpTo(e.symbol \o <<Dash>> \o e.name, MaxLabel - Len(MintSuffix(e.mint)))

LEMMA SuffixShape ==
  ASSUME NEW m \in Mints
  PROVE  /\ m \in Seq(Characters) /\ MintSuffix(m) \in Seq(Characters)
         /\ Len(MintSuffix(m)) = Len(m) + 3
         /\ MintSuffix(m)[1] = Blank /\ MintSuffix(m)[2] = Open
         /\ MintSuffix(m)[Len(m) + 3] = Close
         /\ \A i \in 1..Len(m) : MintSuffix(m)[i + 2] = m[i] /\ m[i] # Open
<1>1. m \in Seq(Characters)
  BY MintText
<1>2. \A i \in 1..Len(m) : m[i] # Open
  BY MintText DEF Separators
<1> DEFINE x == <<Blank, Open>>
           y == <<Close>>
<1>3. /\ x \in Seq(Characters) /\ Len(x) = 2 /\ x[1] = Blank /\ x[2] = Open
      /\ y \in Seq(Characters) /\ Len(y) = 1 /\ y[1] = Close
  <2>1. Blank \in Characters /\ Open \in Characters /\ Close \in Characters
    BY WrittenCharacters
  <2> QED
    BY <2>1, OneCharacter, TwoCharacters
<1>4. MintSuffix(m) = (x \o m) \o y
  BY DEF MintSuffix
<1> HIDE DEF x, y
<1>5. /\ x \o m \in Seq(Characters) /\ Len(x \o m) = 2 + Len(m)
      /\ (x \o m)[1] = Blank /\ (x \o m)[2] = Open
      /\ \A i \in 1..Len(m) : (x \o m)[2 + i] = m[i]
  <2>1. /\ x \o m \in Seq(Characters) /\ Len(x \o m) = Len(x) + Len(m)
        /\ \A i \in 1..Len(x) : (x \o m)[i] = x[i]
        /\ \A i \in 1..Len(m) : (x \o m)[Len(x) + i] = m[i]
    BY <1>1, <1>3, Joined
  <2> QED
    BY <1>3, <2>1
<1>6. Len(m) \in Nat
  BY <1>1
<1>7. /\ (x \o m) \o y \in Seq(Characters) /\ Len((x \o m) \o y) = 2 + Len(m) + 1
      /\ \A i \in 1..Len(m) + 2 : ((x \o m) \o y)[i] = (x \o m)[i]
      /\ ((x \o m) \o y)[2 + Len(m) + 1] = Close
  <2> DEFINE u == x \o m
  <2>1. u \in Seq(Characters) /\ Len(u) = 2 + Len(m)
    BY <1>5
  <2> HIDE DEF u
  <2>2. /\ u \o y \in Seq(Characters) /\ Len(u \o y) = Len(u) + Len(y)
        /\ \A i \in 1..Len(u) : (u \o y)[i] = u[i]
        /\ \A i \in 1..Len(y) : (u \o y)[Len(u) + i] = y[i]
    BY <1>3, <2>1, Joined
  <2>3. /\ u \o y \in Seq(Characters) /\ Len(u \o y) = 2 + Len(m) + 1
        /\ \A i \in 1..Len(m) + 2 : (u \o y)[i] = u[i]
        /\ (u \o y)[2 + Len(m) + 1] = Close
    BY <1>3, <1>6, <2>1, <2>2
  <2> QED
    BY <2>3 DEF u
<1>8. ASSUME NEW i \in 1..Len(m) PROVE MintSuffix(m)[i + 2] = m[i]
  <2>1. i + 2 \in 1..Len(m) + 2 /\ i + 2 = 2 + i
    BY <1>6
  <2> QED
    BY <1>4, <1>5, <1>7, <2>1
<1> QED
  BY <1>1, <1>2, <1>4, <1>5, <1>6, <1>7, <1>8

LEMMA KeptShape ==
  ASSUME NEW e, IsEntry(e)
  PROVE  /\ Kept(e) \in Seq(Characters)
         /\ Len(Kept(e)) + Len(MintSuffix(e.mint)) <= MaxLabel
         /\ Len(Kept(e)) >= Len(e.symbol) + 1
         /\ \A i \in 1..Len(e.symbol) : Kept(e)[i] = e.symbol[i]
         /\ Kept(e)[Len(e.symbol) + 1] = Dash
         /\ \A i \in 1..Len(Kept(e)) - (Len(e.symbol) + 1) :
              i <= Len(e.name) /\ Kept(e)[Len(e.symbol) + 1 + i] = e.name[i]
<1> DEFINE s == e.symbol \o <<Dash>> \o e.name
           n == MaxLabel - Len(MintSuffix(e.mint))
<1>1. /\ e.symbol \in Seq(Characters) /\ e.name \in Seq(Characters) /\ Len(e.symbol) <= MaxSymbol
      /\ e.mint \in Mints
  BY DEF IsEntry
<1>2. n \in Nat /\ n >= MaxSymbol + 1 /\ n + Len(MintSuffix(e.mint)) = MaxLabel
  BY <1>1, SuffixShape, Lengths
<1>3. /\ s \in Seq(Characters) /\ Len(s) >= Len(e.symbol) + 1
      /\ \A i \in 1..Len(e.symbol) : s[i] = e.symbol[i]
      /\ s[Len(e.symbol) + 1] = Dash
      /\ \A i \in 1..Len(s) - (Len(e.symbol) + 1) :
           i <= Len(e.name) /\ s[Len(e.symbol) + 1 + i] = e.name[i]
  <2> DEFINE a == e.symbol
             b == <<Dash>>
             c == e.name
  <2>1. b \in Seq(Characters) /\ Len(b) = 1 /\ b[1] = Dash
    <3>1. Dash \in Characters
      BY WrittenCharacters
    <3> QED
      BY <3>1, OneCharacter
  <2>2. a \in Seq(Characters) /\ c \in Seq(Characters)
    BY <1>1
  <2>3. s = (a \o b) \o c
    OBVIOUS
  <2> HIDE DEF a, b, c, s
  <2>4. /\ a \o b \in Seq(Characters) /\ Len(a \o b) = Len(a) + 1
        /\ \A i \in 1..Len(a) : (a \o b)[i] = a[i]
        /\ (a \o b)[Len(a) + 1] = Dash
    <3>1. /\ a \o b \in Seq(Characters) /\ Len(a \o b) = Len(a) + Len(b)
          /\ \A i \in 1..Len(a) : (a \o b)[i] = a[i]
          /\ \A i \in 1..Len(b) : (a \o b)[Len(a) + i] = b[i]
      BY <2>1, <2>2, Joined
    <3> QED
      BY <2>1, <3>1
  <2>5. /\ s \in Seq(Characters) /\ Len(s) = Len(a) + 1 + Len(c)
        /\ \A i \in 1..Len(a) + 1 : s[i] = (a \o b)[i]
        /\ \A i \in 1..Len(c) : s[Len(a) + 1 + i] = c[i]
    <3> DEFINE u == a \o b
    <3>1. u \in Seq(Characters) /\ Len(u) = Len(a) + 1
      BY <2>4
    <3> HIDE DEF u
    <3>2. /\ u \o c \in Seq(Characters) /\ Len(u \o c) = Len(u) + Len(c)
          /\ \A i \in 1..Len(u) : (u \o c)[i] = u[i]
          /\ \A i \in 1..Len(c) : (u \o c)[Len(u) + i] = c[i]
      BY <2>2, <3>1, Joined
    <3> QED
      BY <2>3, <3>1, <3>2 DEF u
  <2>6. Len(a) \in Nat /\ Len(c) \in Nat /\ Len(s) - (Len(a) + 1) = Len(c)
    <3>1. Len(a) \in Nat /\ Len(c) \in Nat
      BY <2>2
    <3> QED
      BY <2>5, <3>1
  <2>7. /\ s \in Seq(Characters) /\ Len(s) >= Len(a) + 1
        /\ \A i \in 1..Len(a) : s[i] = a[i]
        /\ s[Len(a) + 1] = Dash
        /\ \A i \in 1..Len(s) - (Len(a) + 1) : i <= Len(c) /\ s[Len(a) + 1 + i] = c[i]
    BY <2>4, <2>5, <2>6
  <2> QED
    BY <2>7 DEF a, c
<1>4. Kept(e) = UpTo(s, n)
  BY DEF Kept
<1> HIDE DEF s, n
<1>5. /\ Kept(e) \in Seq(Characters)
      /\ Len(Kept(e)) = IF n < Len(s) THEN n ELSE Len(s)
      /\ \A i \in 1..Len(Kept(e)) : Kept(e)[i] = s[i]
  BY <1>2, <1>3, <1>4, UpToPrefix
<1>6. Len(e.symbol) \in Nat /\ Len(s) \in Nat /\ MaxSymbol \in Nat
  BY <1>1, <1>3, Lengths
<1>7. Len(Kept(e)) >= Len(e.symbol) + 1 /\ Len(Kept(e)) <= n
  BY <1>1, <1>2, <1>3, <1>5, <1>6
<1>8. Len(Kept(e)) + Len(MintSuffix(e.mint)) <= MaxLabel
  <2>1. Len(Kept(e)) \in Nat /\ Len(MintSuffix(e.mint)) \in Nat /\ MaxLabel \in Nat
    BY <1>1, <1>5, SuffixShape, Lengths
  <2> QED
    BY <1>2, <1>7, <2>1
<1>9. \A i \in 1..Len(Kept(e)) - (Len(e.symbol) + 1) :
        i <= Len(e.name) /\ Kept(e)[Len(e.symbol) + 1 + i] = e.name[i]
  <2> SUFFICES ASSUME NEW i \in 1..Len(Kept(e)) - (Len(e.symbol) + 1)
               PROVE  i <= Len(e.name) /\ Kept(e)[Len(e.symbol) + 1 + i] = e.name[i]
    OBVIOUS
  <2> DEFINE a == Len(e.symbol)
             k == Len(Kept(e))
  <2>1. a \in Nat /\ k \in Nat /\ k <= Len(s)
    BY <1>2, <1>5, <1>6
  <2>2. i \in 1..Len(s) - (a + 1) /\ a + 1 + i \in 1..k
    BY <1>6, <2>1
  <2>3. i <= Len(e.name) /\ s[a + 1 + i] = e.name[i]
    BY <1>3, <2>2
  <2>4. Kept(e)[a + 1 + i] = s[a + 1 + i]
    BY <1>5, <2>2
  <2> QED
    BY <2>3, <2>4
<1> QED
  BY <1>3, <1>5, <1>6, <1>7, <1>8, <1>9

LEMMA LabelShape ==
  ASSUME NEW e, IsEntry(e)
  PROVE  /\ Label(e) \in Seq(Characters) /\ Len(Label(e)) <= MaxLabel
         /\ Len(Label(e)) = Len(Kept(e)) + Len(e.mint) + 3
         /\ \A i \in 1..Len(Kept(e)) : Label(e)[i] = Kept(e)[i]
         /\ Label(e)[Len(Kept(e)) + 1] = Blank /\ Label(e)[Len(Kept(e)) + 2] = Open
         /\ Label(e)[Len(Label(e))] = Close
         /\ \A i \in 1..Len(e.mint) :
              Label(e)[Len(Kept(e)) + 2 + i] = e.mint[i] /\ e.mint[i] # Open
<1> DEFINE k == Kept(e)
           x == MintSuffix(e.mint)
<1>1. e.mint \in Mints
  BY DEF IsEntry
<1>2. /\ e.mint \in Seq(Characters) /\ x \in Seq(Characters)
      /\ Len(x) = Len(e.mint) + 3
      /\ x[1] = Blank /\ x[2] = Open /\ x[Len(e.mint) + 3] = Close
      /\ \A i \in 1..Len(e.mint) : x[i + 2] = e.mint[i] /\ e.mint[i] # Open
  BY <1>1, SuffixShape
<1>3. k \in Seq(Characters) /\ Len(k) + Len(x) <= MaxLabel
  BY KeptShape
<1>4. Label(e) = k \o x
  BY DEF Label, Kept
<1> HIDE DEF k, x
<1>5. /\ k \o x \in Seq(Characters) /\ Len(k \o x) = Len(k) + Len(x)
      /\ \A i \in 1..Len(k) : (k \o x)[i] = k[i]
      /\ \A i \in 1..Len(x) : (k \o x)[Len(k) + i] = x[i]
  BY <1>2, <1>3, Joined
<1>6. Len(k) \in Nat /\ Len(x) \in Nat /\ Len(e.mint) \in Nat
  BY <1>2, <1>3
<1>7. /\ (k \o x)[Len(k) + 1] = Blank /\ (k \o x)[Len(k) + 2] = Open
      /\ (k \o x)[Len(k) + Len(x)] = Close
  BY <1>2, <1>5, <1>6
<1>8. ASSUME NEW i \in 1..Len(e.mint)
      PROVE  (k \o x)[Len(k) + 2 + i] = e.mint[i] /\ e.mint[i] # Open
  <2>1. 2 + i \in 1..Len(x) /\ x[2 + i] = e.mint[i] /\ e.mint[i] # Open
    BY <1>2, <1>6
  <2>2. (k \o x)[Len(k) + (2 + i)] = x[2 + i]
    BY <1>5, <2>1
  <2>3. Len(k) + (2 + i) = Len(k) + 2 + i
    BY <1>6
  <2> QED
    BY <2>1, <2>2, <2>3
<1> QED
  BY <1>2, <1>3, <1>4, <1>5, <1>6, <1>7, <1>8 DEF k

(* The last opening parenthesis of a label is the one before its mint, so  *)
(* equal labels hold equal mints, wherever the names were cut.             *)
LEMMA LabelTellsMint ==
  ASSUME NEW d, NEW e, IsEntry(d), IsEntry(e), Label(d) = Label(e)
  PROVE  d.mint = e.mint
<1> DEFINE p == Len(Kept(d))
           q == Len(Kept(e))
           m == d.mint
           n == e.mint
           l == Label(d)
<1>1. /\ p \in Nat /\ q \in Nat /\ Len(m) \in Nat /\ Len(n) \in Nat
      /\ m \in Seq(Characters) /\ n \in Seq(Characters)
  BY KeptShape, SuffixShape DEF IsEntry
<1>2. /\ l[p + 2] = Open
      /\ \A i \in 1..Len(m) : l[p + 2 + i] = m[i] /\ m[i] # Open
  BY LabelShape
<1>3. /\ l[q + 2] = Open
      /\ \A i \in 1..Len(n) : l[q + 2 + i] = n[i] /\ n[i] # Open
  <2>1. l = Label(e)
    OBVIOUS
  <2> QED
    BY <2>1, LabelShape
<1>4. p + Len(m) = q + Len(n)
  <2>1. Len(l) = p + Len(m) + 3
    BY LabelShape
  <2>2. Len(l) = q + Len(n) + 3
    BY LabelShape
  <2> QED
    BY <1>1, <2>1, <2>2
<1> HIDE DEF p, q, m, n, l
<1>5. ~ (p < q)
  <2> SUFFICES ASSUME p < q PROVE FALSE
    OBVIOUS
  <2>1. q - p \in 1..Len(m) /\ p + 2 + (q - p) = q + 2
    BY <1>1, <1>4
  <2>2. l[p + 2 + (q - p)] = m[q - p] /\ m[q - p] # Open
    BY <1>2, <2>1
  <2> QED
    BY <1>3, <2>1, <2>2
<1>6. ~ (q < p)
  <2> SUFFICES ASSUME q < p PROVE FALSE
    OBVIOUS
  <2>1. p - q \in 1..Len(n) /\ q + 2 + (p - q) = p + 2
    BY <1>1, <1>4
  <2>2. l[q + 2 + (p - q)] = n[p - q] /\ n[p - q] # Open
    BY <1>3, <2>1
  <2> QED
    BY <1>2, <2>1, <2>2
<1>7. p = q /\ Len(m) = Len(n)
  BY <1>1, <1>4, <1>5, <1>6
<1>8. \A i \in 1..Len(m) : m[i] = n[i]
  BY <1>2, <1>3, <1>7
<1>9. m = n
  BY <1>1, <1>7, <1>8
<1> QED
  BY <1>9 DEF m, n

(* SOL is the only choice that begins with its symbol and the dash.        *)
LEMMA LabelIsNotSol ==
  ASSUME NEW e, IsEntry(e), UpTo(Label(e), 4) = SOL \o <<Dash>>
  PROVE  FALSE
<1> DEFINE s == e.symbol
           k == Kept(e)
           l == Label(e)
           t == SOL \o <<Dash>>
<1>1. s \in Seq(Characters) /\ s # SOL /\ \A i \in 1..Len(s) : s[i] # Dash
  <2>1. s \in Seq(Characters) /\ s # SOL /\ Range(s) \subseteq SymbolLetters
    BY DEF IsEntry
  <2> QED
    BY <2>1, Texts DEF Range
<1>2. /\ k \in Seq(Characters) /\ Len(k) >= Len(s) + 1
      /\ \A i \in 1..Len(s) : k[i] = s[i]
      /\ k[Len(s) + 1] = Dash
  BY KeptShape
<1>3. l \in Seq(Characters) /\ \A i \in 1..Len(k) : l[i] = k[i]
  BY LabelShape
<1>4. UpTo(l, 4) = t /\ Len(t) = 4 /\ (\A i \in 1..3 : t[i] = SOL[i]) /\ t[4] = Dash
  BY SolShape
<1> HIDE DEF s, k, l, t
<1>5. Len(s) \in Nat /\ Len(k) \in Nat /\ Len(l) \in Nat
  BY <1>1, <1>2, <1>3
<1>6. /\ \A i \in 1..Len(s) : l[i] = s[i]
      /\ l[Len(s) + 1] = Dash
  BY <1>2, <1>3, <1>5
<1>7. /\ Len(t) = IF 4 < Len(l) THEN 4 ELSE Len(l)
      /\ \A i \in 1..Len(t) : t[i] = l[i]
  <2>1. /\ Len(UpTo(l, 4)) = IF 4 < Len(l) THEN 4 ELSE Len(l)
        /\ \A i \in 1..Len(UpTo(l, 4)) : UpTo(l, 4)[i] = l[i]
    BY <1>3, UpToPrefix
  <2> QED
    BY <1>4, <2>1
<1>8. (\A i \in 1..3 : l[i] = SOL[i]) /\ l[4] = Dash
  BY <1>4, <1>7
<1>9. Len(s) = 3
  <2> DEFINE n == Len(s)
  <2>0. n \in Nat
    BY <1>5
  <2>1. CASE n < 3
    <3>1. Len(s) + 1 \in 1..3
      BY <1>5, <2>1
    <3>2. SOL[Len(s) + 1] # Dash
      BY <3>1, SolShape
    <3> QED
      BY <1>6, <1>8, <3>1, <3>2
  <2>2. CASE n > 3
    <3>1. 4 \in 1..Len(s)
      BY <1>5, <2>2
    <3> QED
      BY <1>1, <1>6, <1>8, <3>1
  <2>3. n < 3 \/ n = 3 \/ n > 3
    <3> HIDE DEF n
    <3> QED
      BY <2>0
  <2> QED
    BY <2>1, <2>2, <2>3
<1>10. s = SOL
  <2>1. SOL \in Seq(Characters) /\ Len(SOL) = 3 /\ \A i \in 1..3 : s[i] = SOL[i]
    BY <1>6, <1>8, <1>9, SolShape
  <2> QED
    BY <1>1, <1>9, <2>1
<1> QED
  BY <1>1, <1>10

-----------------------------------------------------------------------------
(* Who looks a mint up finds the tokens that mention it.                   *)

Queries(m) == {m, <<Blank>> \o ToLowerCase(m) \o <<Blank>>}

(* The mint in small letters, as it is looked for.                         *)
LEMMA SmallMint ==
  ASSUME NEW m \in Mints
  PROVE  /\ ToLowerCase(m) \in Seq(Characters) /\ Len(ToLowerCase(m)) = Len(m)
         /\ Len(m) \in Nat \ {0}
         /\ \A i \in 1..Len(m) : m[i] \notin Separators /\ ToLowerCase(m)[i] \notin Separators
         /\ ToLowerCase(ToLowerCase(m)) = ToLowerCase(m)
<1> DEFINE l == ToLowerCase(m)
           k == ToLowerCase(l)
<1>1. /\ m \in Seq(Characters) /\ Len(m) \in Nat \ {0}
      /\ \A i \in 1..Len(m) : m[i] \in Characters \ Separators
  BY MintText
<1>2. /\ l \in Seq(Characters) /\ Len(l) = Len(m)
      /\ \A i \in 1..Len(m) : l[i] = Lower(m[i])
  BY <1>1, LowerCaseShape
<1>3. /\ k \in Seq(Characters) /\ Len(k) = Len(m)
      /\ \A i \in 1..Len(m) : k[i] = Lower(l[i])
  BY <1>2, LowerCaseShape
<1> HIDE DEF Separators, l, k
<1>4. \A i \in 1..Len(m) : l[i] \notin Separators /\ k[i] = l[i]
  BY <1>1, <1>2, <1>3, LowerCharacter
<1>5. k = l
  BY <1>1, <1>2, <1>3, <1>4
<1> QED
  BY <1>1, <1>2, <1>4, <1>5 DEF l, k

LEMMA QueryTrimmed ==
  ASSUME NEW m \in Mints, NEW query \in Queries(m)
  PROVE  \E t : Trim(query) = {t} /\ ToLowerCase(t) = ToLowerCase(m)
<1> DEFINE l == ToLowerCase(m)
           b == <<Blank>>
<1>1. /\ l \in Seq(Characters) /\ Len(l) = Len(m) /\ Len(m) \in Nat \ {0}
      /\ m \in Seq(Characters)
      /\ \A i \in 1..Len(m) : m[i] # Blank /\ l[i] # Blank
      /\ ToLowerCase(l) = l
  BY SmallMint, MintText DEF Separators
<1>2. b \in Seq(Characters) /\ Len(b) = 1 /\ b[1] = Blank
  BY WrittenCharacters, OneCharacter
<1>3. query = m \/ query = (b \o l) \o b
  BY DEF Queries
<1> HIDE DEF l, b
<1>4. CASE query = m
  <2>1. Trim(m) = {SubSeq(m, 1, Len(m))}
    <3>1. 1 \in 1..Len(m) /\ Len(m) \in 1..Len(m)
      BY <1>1
    <3>2. \A i \in 1..Len(m) : 1 <= i /\ i <= Len(m)
      BY <1>1
    <3> QED
      BY <1>1, <3>1, <3>2, Trimmed
  <2>2. SubSeq(m, 1, Len(m)) = m
    BY <1>1
  <2> QED
    BY <1>4, <2>1, <2>2
<1>5. CASE query = (b \o l) \o b
  <2> DEFINE bl == b \o l
             q == bl \o b
  <2>1. /\ bl \in Seq(Characters) /\ Len(bl) = 1 + Len(l) /\ bl[1] = Blank
        /\ \A i \in 1..Len(l) : bl[1 + i] = l[i]
    <3>1. /\ b \o l \in Seq(Characters) /\ Len(b \o l) = Len(b) + Len(l)
          /\ \A i \in 1..Len(b) : (b \o l)[i] = b[i]
          /\ \A i \in 1..Len(l) : (b \o l)[Len(b) + i] = l[i]
      BY <1>1, <1>2, Joined
    <3> QED
      BY <1>2, <3>1
  <2> HIDE DEF bl
  <2>2. /\ q \in Seq(Characters) /\ Len(q) = Len(bl) + 1
        /\ \A i \in 1..Len(bl) : q[i] = bl[i]
        /\ q[Len(bl) + 1] = Blank
    <3>1. /\ bl \o b \in Seq(Characters) /\ Len(bl \o b) = Len(bl) + Len(b)
          /\ \A i \in 1..Len(bl) : (bl \o b)[i] = bl[i]
          /\ \A i \in 1..Len(b) : (bl \o b)[Len(bl) + i] = b[i]
      BY <1>2, <2>1, Joined
    <3> QED
      BY <1>2, <3>1
  <2> HIDE DEF q
  <2>3. /\ Len(q) = Len(l) + 2 /\ q[1] = Blank /\ q[Len(l) + 2] = Blank
        /\ \A i \in 1..Len(l) : q[1 + i] = l[i]
    BY <1>1, <2>1, <2>2
  <2>4. Trim(q) = {SubSeq(q, 2, Len(l) + 1)}
    <3>1. 2 \in 1..Len(q) /\ Len(l) + 1 \in 1..Len(q)
      BY <1>1, <2>3
    <3>2. q[2] # Blank /\ q[Len(l) + 1] # Blank
      <4>1. q[1 + 1] = l[1] /\ q[1 + Len(l)] = l[Len(l)]
        BY <1>1, <2>3
      <4>2. 1 + 1 = 2 /\ 1 + Len(l) = Len(l) + 1
        BY <1>1
      <4>3. l[1] # Blank /\ l[Len(l)] # Blank
        BY <1>1
      <4> QED
        BY <4>1, <4>2, <4>3
    <3>3. ASSUME NEW i \in 1..Len(q), q[i] # Blank
          PROVE  2 <= i /\ i <= Len(l) + 1
      BY <1>1, <2>3, <3>3
    <3> QED
      BY <2>2, <3>1, <3>2, <3>3, Trimmed
  <2>5. SubSeq(q, 2, Len(l) + 1) = l
    <3> DEFINE u == SubSeq(q, 2, Len(l) + 1)
    <3>1. u \in Seq(Characters) /\ Len(u) = Len(l)
      BY <1>1, <2>2, <2>3
    <3>2. ASSUME NEW i \in 1..Len(l) PROVE u[i] = l[i]
      <4>1. u[i] = q[2 + i - 1]
        BY <1>1, <2>2, <2>3
      <4>2. 2 + i - 1 = 1 + i
        OBVIOUS
      <4> QED
        BY <2>3, <4>1, <4>2
    <3> HIDE DEF u
    <3>3. u = l
      BY <1>1, <3>1, <3>2
    <3> QED
      BY <3>3 DEF u
  <2>6. Trim(query) = {l}
    BY <1>5, <2>4, <2>5 DEF q, bl
  <2> QED
    BY <1>1, <2>6 DEF l
<1> QED
  BY <1>3, <1>4, <1>5

LEMMA LookedUp ==
  ASSUME NEW m \in Mints, NEW query \in Queries(m), NEW choice
  PROVE  Matches(choice, query) <=> \/ Includes(ToLowerCase(choice.name), ToLowerCase(m))
                                    \/ Includes(ToLowerCase(choice.value), ToLowerCase(m))
<1>1. PICK t : Trim(query) = {t} /\ ToLowerCase(t) = ToLowerCase(m)
  BY QueryTrimmed
<1> QED
  BY <1>1 DEF Matches

(* No part of a label but symbol, name and mint has room for a mint.       *)
LEMMA LabelMentions ==
  ASSUME NEW e, IsEntry(e), NEW m \in Mints, Includes(ToLowerCase(Label(e)), ToLowerCase(m))
  PROVE  Mentions(e, m)
<1> DEFINE t == ToLowerCase(m)
           l == Label(e)
           s == ToLowerCase(l)
           a == Len(e.symbol)
           k == Len(Kept(e))
           c == Len(e.mint)
<1>1. /\ t \in Seq(Characters) /\ Len(t) \in Nat \ {0}
      /\ \A i \in 1..Len(t) : t[i] \notin Separators
  BY SmallMint
<1>2. /\ e.symbol \in Seq(Characters) /\ e.name \in Seq(Characters) /\ e.mint \in Seq(Characters)
      /\ a \in Nat /\ c \in Nat
  BY MintText DEF IsEntry
<1>3. /\ l \in Seq(Characters) /\ k \in Nat /\ k >= a + 1 /\ Len(l) = k + c + 3
      /\ \A i \in 1..a : l[i] = e.symbol[i]
      /\ l[a + 1] \in Separators
      /\ \A i \in 1..k - (a + 1) : i <= Len(e.name) /\ l[a + 1 + i] = e.name[i]
      /\ l[k + 1] \in Separators /\ l[k + 2] \in Separators /\ l[k + c + 3] \in Separators
      /\ \A i \in 1..c : l[k + 2 + i] = e.mint[i]
  <2> DEFINE x == Kept(e)
             n == e.name
             y == e.symbol
             z == e.mint
  <2>1. /\ x \in Seq(Characters) /\ Len(x) >= a + 1
        /\ \A i \in 1..a : x[i] = y[i]
        /\ x[a + 1] = Dash
        /\ \A i \in 1..Len(x) - (a + 1) : i <= Len(n) /\ x[a + 1 + i] = n[i]
    BY KeptShape
  <2>2. /\ l \in Seq(Characters) /\ Len(l) = Len(x) + c + 3
        /\ \A i \in 1..Len(x) : l[i] = x[i]
        /\ l[Len(x) + 1] = Blank /\ l[Len(x) + 2] = Open /\ l[Len(l)] = Close
        /\ \A i \in 1..c : l[Len(x) + 2 + i] = z[i]
    BY LabelShape
  <2>3. a \in Nat /\ c \in Nat /\ Len(x) \in Nat /\ {Blank, Dash, Open, Close} \subseteq Separators
    BY <1>2, <2>1 DEF Separators
  <2> HIDE DEF x, n, y, z, a, c, l, Separators
  <2>4. k = Len(x)
    BY DEF x
  <2> HIDE DEF k
  <2>5. \A i \in 1..a : l[i] = y[i]
    BY <2>1, <2>2, <2>3
  <2>6. l[a + 1] = Dash
    BY <2>1, <2>2, <2>3
  <2>7. \A i \in 1..k - (a + 1) : i <= Len(n) /\ l[a + 1 + i] = n[i]
    <3> SUFFICES ASSUME NEW i \in 1..k - (a + 1)
                 PROVE  i <= Len(n) /\ l[a + 1 + i] = n[i]
      OBVIOUS
    <3>1. a + 1 + i \in 1..Len(x)
      BY <2>3, <2>4
    <3>2. i <= Len(n) /\ x[a + 1 + i] = n[i]
      BY <2>1, <2>4
    <3> QED
      BY <2>2, <3>1, <3>2
  <2> QED
    BY <2>1, <2>2, <2>3, <2>4, <2>5, <2>6, <2>7 DEF n, y, z
<1>4. /\ s \in Seq(Characters) /\ Len(s) = Len(l)
      /\ \A i \in 1..Len(l) : s[i] = Lower(l[i])
  BY <1>3, LowerCaseShape
<1> HIDE DEF Separators, t, l, s, a, k, c
<1>5. \A i \in 1..Len(l) : l[i] \in Separators => s[i] \in Separators
  <2> SUFFICES ASSUME NEW i \in 1..Len(l), l[i] \in Separators PROVE s[i] \in Separators
    OBVIOUS
  <2>1. l[i] \in Characters
    BY <1>3
  <2> QED
    BY <1>4, <2>1, LowerCharacter
<1>6. s[a + 1] \in Separators /\ s[k + 1] \in Separators /\ s[k + 2] \in Separators
      /\ s[k + c + 3] \in Separators
  BY <1>2, <1>3, <1>5
<1>7. Includes(s, t)
  BY DEF s, t, l
<1>8. PICK o : Stands(s, t, o)
  BY <1>1, <1>4, <1>7, IncludedStands
<1>9. /\ o \in Nat /\ o + Len(t) <= k + c + 3
      /\ \A i \in 1..Len(t) : s[o + i] = t[i]
  BY <1>3, <1>4, <1>8 DEF Stands
<1>10. /\ o + Len(t) < a + 1 \/ a + 1 <= o
       /\ o + Len(t) < k + 1 \/ k + 1 <= o
       /\ o + Len(t) < k + 2 \/ k + 2 <= o
       /\ o + Len(t) < k + c + 3 \/ k + c + 3 <= o
  <2>1. a + 1 \in 1..Len(s) /\ k + 1 \in 1..Len(s) /\ k + 2 \in 1..Len(s) /\ k + c + 3 \in 1..Len(s)
    BY <1>2, <1>3, <1>4
  <2> QED
    BY <1>1, <1>4, <1>6, <1>8, <2>1, StandsAside
<1>11. ASSUME NEW text \in Seq(Characters), NEW d \in Nat, d <= o, o - d + Len(t) <= Len(text),
              \A i \in 1..Len(t) : l[o + i] = text[o - d + i],
              o + Len(t) <= Len(l)
       PROVE  Includes(ToLowerCase(text), t)
  <2> DEFINE x == ToLowerCase(text)
  <2>1. /\ x \in Seq(Characters) /\ Len(x) = Len(text) /\ Len(text) \in Nat
        /\ \A i \in 1..Len(text) : x[i] = Lower(text[i])
    BY LowerCaseShape
  <2> HIDE DEF x
  <2>2. ASSUME NEW i \in 1..Len(t) PROVE x[o - d + i] = t[i]
    <3>1. o + i \in 1..Len(l) /\ o - d + i \in 1..Len(text)
      BY <1>1, <1>3, <1>9, <1>11, <2>1
    <3>2. s[o + i] = Lower(text[o - d + i])
      BY <1>4, <1>11, <3>1
    <3> QED
      BY <1>9, <2>1, <3>1, <3>2
  <2>3. o - d \in Nat
    BY <1>9, <1>11
  <2>4. Stands(x, t, o - d)
    BY <1>11, <2>1, <2>2, <2>3 DEF Stands
  <2> QED
    BY <1>1, <2>1, <2>4, StandsIncluded DEF x
<1>12. CASE o + Len(t) < a + 1
  <2>1. o + Len(t) <= a /\ o + Len(t) <= Len(l)
    BY <1>1, <1>2, <1>3, <1>9, <1>12
  <2>2. \A i \in 1..Len(t) : l[o + i] = e.symbol[o - 0 + i]
    <3> SUFFICES ASSUME NEW i \in 1..Len(t) PROVE l[o + i] = e.symbol[o - 0 + i]
      OBVIOUS
    <3>1. o + i \in 1..a /\ o - 0 + i = o + i
      BY <1>1, <1>2, <1>9, <2>1
    <3> QED
      BY <1>3, <3>1
  <2>3. Includes(ToLowerCase(e.symbol), t)
    <3>1. 0 \in Nat /\ 0 <= o /\ o - 0 + Len(t) <= Len(e.symbol)
      BY <1>1, <1>9, <2>1 DEF a
    <3> QED
      BY <1>2, <1>11, <2>1, <2>2, <3>1
  <2> QED
    BY <2>3 DEF Mentions, t
<1>13. CASE a + 1 <= o /\ o + Len(t) < k + 1
  <2>1. /\ a + 1 \in Nat /\ o + Len(t) <= Len(l)
        /\ o - (a + 1) + Len(t) \in 1..k - (a + 1)
    BY <1>1, <1>2, <1>3, <1>9, <1>13
  <2>2. o - (a + 1) + Len(t) <= Len(e.name)
    BY <1>3, <2>1
  <2>3. ASSUME NEW i \in 1..Len(t) PROVE l[o + i] = e.name[o - (a + 1) + i]
    <3>1. o - (a + 1) + i \in 1..k - (a + 1) /\ a + 1 + (o - (a + 1) + i) = o + i
      BY <1>1, <1>2, <1>3, <1>9, <1>13
    <3> QED
      BY <1>3, <3>1
  <2>4. Includes(ToLowerCase(e.name), t)
    BY <1>2, <1>11, <1>13, <2>1, <2>2, <2>3
  <2> QED
    BY <2>4 DEF Mentions, t
<1>14. CASE k + 2 <= o /\ o + Len(t) < k + c + 3
  <2>1. k + 2 \in Nat /\ o + Len(t) <= Len(l) /\ o - (k + 2) + Len(t) <= c
    BY <1>1, <1>2, <1>3, <1>9, <1>14
  <2>2. ASSUME NEW i \in 1..Len(t) PROVE l[o + i] = e.mint[o - (k + 2) + i]
    <3>1. o - (k + 2) + i \in 1..c /\ k + 2 + (o - (k + 2) + i) = o + i
      BY <1>1, <1>2, <1>3, <1>9, <1>14
    <3> QED
      BY <1>3, <3>1
  <2>3. Includes(ToLowerCase(e.mint), t)
    BY <1>2, <1>11, <1>14, <2>1, <2>2 DEF c
  <2> QED
    BY <2>3 DEF Mentions, t
<1> QED
  BY <1>1, <1>2, <1>3, <1>9, <1>10, <1>12, <1>13, <1>14

-----------------------------------------------------------------------------
(* What is offered.                                                        *)

ConfiguredType == configured \in Seq(Configurable)

LEMMA ConfiguredTypeInvariant == Spec => []ConfiguredType
<1>1. Init => ConfiguredType
  BY DEF Init, ConfiguredType
<1>2. ConfiguredType /\ [Configure]_vars => ConfiguredType'
  BY DEF ConfiguredType, Configure, vars
<1> QED
  BY <1>1, <1>2, PTL DEF Spec

LEMMA InFront ==
  ASSUME NEW S, NEW a \in S, NEW t \in Seq(S)
  PROVE  /\ <<a>> \o t \in Seq(S) /\ Len(<<a>> \o t) = Len(t) + 1
         /\ (<<a>> \o t)[1] = a
         /\ \A j \in 1..Len(t) : (<<a>> \o t)[j + 1] = t[j]
OBVIOUS

LEMMA AllChoicesShape ==
  ASSUME NEW r, NEW n \in Nat, DOMAIN r = 1..n
  PROVE  /\ DOMAIN AllChoices(r) = 1..n + 1
         /\ AllChoices(r)[1] = SolChoice
         /\ \A j \in DOMAIN r : AllChoices(r)[j + 1] = ChoiceOf(r[j])
<1> DEFINE tokens == [j \in DOMAIN r |-> ChoiceOf(r[j])]
           all == {SolChoice} \cup {ChoiceOf(r[j]) : j \in DOMAIN r}
<1>1. /\ tokens \in Seq(all) /\ Len(tokens) = n
      /\ \A j \in DOMAIN r : tokens[j] = ChoiceOf(r[j])
  OBVIOUS
<1>2. AllChoices(r) = <<SolChoice>> \o tokens /\ SolChoice \in all
  BY DEF AllChoices
<1> HIDE DEF tokens, all
<1>3. /\ AllChoices(r) \in Seq(all) /\ Len(AllChoices(r)) = n + 1
      /\ AllChoices(r)[1] = SolChoice
      /\ \A j \in 1..n : AllChoices(r)[j + 1] = tokens[j]
  BY <1>1, <1>2, InFront
<1> QED
  BY <1>1, <1>3

LEMMA OfferedChoices ==
  ASSUME ConfiguredType, NEW query
  PROVE  \E r : /\ \A i \in DOMAIN r : IsEntry(r[i])
                /\ \A i, j \in DOMAIN r : r[i].mint = r[j].mint => i = j
                /\ \A c \in Offered(query) :
                     c = SolChoice \/ \E i \in DOMAIN r : c = ChoiceOf(r[i])
<1>1. CASE CreateTokenRegistry(configured) = {}
  <2>1. Offered(query) = {}
    BY <1>1 DEF Offered
  <2> WITNESS << >>
  <2> QED
    BY <2>1
<1>2. CASE CreateTokenRegistry(configured) # {}
  <2>1. PICK r : CreateTokenRegistry(configured) = {r}
    BY <1>2 DEF CreateTokenRegistry
  <2>2. /\ DOMAIN r = 1..Len(configured)
        /\ \A i \in DOMAIN r : IsEntry(r[i])
        /\ \A i, j \in DOMAIN r : r[i].mint = r[j].mint => i = j
    BY <2>1, RegistryEntries DEF ConfiguredType
  <2>3. ASSUME NEW c \in Offered(query)
        PROVE  c = SolChoice \/ \E i \in DOMAIN r : c = ChoiceOf(r[i])
    <3>1. c \in TokenAutocompleteChoices(query, r)
      BY <2>1 DEF Offered
    <3>2. PICK k \in DOMAIN AllChoices(r) : c = AllChoices(r)[k]
      BY <3>1 DEF TokenAutocompleteChoices
    <3>3. Len(configured) \in Nat
      BY DEF ConfiguredType
    <3>4. /\ DOMAIN AllChoices(r) = 1..Len(configured) + 1
          /\ AllChoices(r)[1] = SolChoice
          /\ \A j \in DOMAIN r : AllChoices(r)[j + 1] = ChoiceOf(r[j])
      BY <2>2, <3>3, AllChoicesShape
    <3>5. CASE k = 1
      BY <3>2, <3>4, <3>5
    <3>6. CASE k # 1
      <4>1. k - 1 \in DOMAIN r /\ (k - 1) + 1 = k
        BY <2>2, <3>2, <3>3, <3>4, <3>6
      <4> QED
        BY <3>2, <3>4, <4>1
    <3> QED
      BY <3>5, <3>6
  <2> QED
    BY <2>2, <2>3
<1> QED
  BY <1>1, <1>2

LEMMA SolChoiceShape == SolChoice.name[Len(SolChoice.name)] # Close
<1> DEFINE t == <<Dash, "S", "o", "l">>
<1>1. SolChoice.name = SOL \o t
  BY DEF SolChoice
<1>2. t \in Seq(Characters) /\ Len(t) = 4 /\ t[4] = "l"
  <2>1. "S" \in Characters /\ "o" \in Characters /\ "l" \in Characters /\ Dash \in Characters
    BY WrittenCharacters
  <2> QED
    BY <2>1, FourCharacters
<1>3. SOL \in Seq(Characters) /\ Len(SOL) = 3
  BY SolShape
<1> HIDE DEF t
<1>4. /\ Len(SOL \o t) = Len(SOL) + Len(t)
      /\ \A i \in 1..Len(t) : (SOL \o t)[Len(SOL) + i] = t[i]
  BY <1>2, <1>3, Joined
<1>5. (SOL \o t)[Len(SOL \o t)] = "l"
  BY <1>2, <1>3, <1>4
<1>6. "l" # Close
  BY DEF Close
<1> QED
  BY <1>1, <1>5, <1>6

(* Two choices that look the same are one, however many tokens there are,  *)
(* however long their names, and whoever's symbol they carry; and Discord  *)
(* shows each of them whole.                                               *)
THEOREM ChoicesDiffer == Spec => []ChoicesTellTokensApart
<1>1. ASSUME ConfiguredType, NEW c \in Offered(<< >>), NEW d \in Offered(<< >>)
      PROVE  Len(c.name) <= MaxLabel /\ (c.name = d.name => c = d)
  <2>1. PICK r : /\ \A i \in DOMAIN r : IsEntry(r[i])
                 /\ \A i, j \in DOMAIN r : r[i].mint = r[j].mint => i = j
                 /\ \A x \in Offered(<< >>) :
                      x = SolChoice \/ \E i \in DOMAIN r : x = ChoiceOf(r[i])
    BY <1>1, OfferedChoices
  <2>2. ASSUME NEW i \in DOMAIN r
        PROVE  /\ ChoiceOf(r[i]).name = Label(r[i])
               /\ Len(Label(r[i])) <= MaxLabel
               /\ Label(r[i])[Len(Label(r[i]))] = Close
    BY <2>1, LabelShape DEF ChoiceOf
  <2>3. Len(SolChoice.name) <= MaxLabel
        /\ SolChoice.name[Len(SolChoice.name)] # Close
    BY SolChoiceShape, Lengths
  <2>4. Len(c.name) <= MaxLabel
    BY <2>1, <2>2, <2>3
  <2>5. ASSUME NEW i \in DOMAIN r, NEW j \in DOMAIN r, Label(r[i]) = Label(r[j])
        PROVE  ChoiceOf(r[i]) = ChoiceOf(r[j])
    BY <2>1, <2>5, LabelTellsMint
  <2> QED
    BY <2>1, <2>2, <2>3, <2>4, <2>5
<1>2. ConfiguredType => ChoicesTellTokensApart
  BY <1>1 DEF ChoicesTellTokensApart
<1> QED
  BY <1>2, ConfiguredTypeInvariant, PTL

(* No entry, in whatever letters or blanks its symbol was written, makes a *)
(* choice that begins as the choice of SOL does.                           *)
THEOREM SolIsUnmistakable == Spec => []OnlySolLooksLikeSol
<1>1. ASSUME ConfiguredType, NEW c \in Offered(<< >>), UpTo(c.name, 4) = SOL \o <<Dash>>
      PROVE  c = SolChoice
  <2>1. PICK r : /\ \A i \in DOMAIN r : IsEntry(r[i])
                 /\ \A x \in Offered(<< >>) :
                      x = SolChoice \/ \E i \in DOMAIN r : x = ChoiceOf(r[i])
    BY <1>1, OfferedChoices
  <2>2. ASSUME NEW i \in DOMAIN r PROVE c # ChoiceOf(r[i])
    <3>1. ChoiceOf(r[i]).name = Label(r[i])
      BY DEF ChoiceOf
    <3> QED
      BY <1>1, <2>1, <3>1, LabelIsNotSol
  <2> QED
    BY <2>1, <2>2
<1>2. ConfiguredType => OnlySolLooksLikeSol
  BY <1>1 DEF OnlySolLooksLikeSol
<1> QED
  BY <1>2, ConfiguredTypeInvariant, PTL

(* However many tokens an operator registers, whatever he calls them and   *)
(* however much he has to cut, who looks one up by its mint is offered it: *)
(* only those that mention its mint come before it.                        *)
THEOREM NoTokenIsLost == Spec => []EveryTokenCanBeChosen
<1>1. ASSUME ConfiguredType, NEW r \in CreateTokenRegistry(configured), NEW i \in DOMAIN r,
             NEW query \in Queries(r[i].mint),
             Cardinality({j \in 1..i : Mentions(r[j], r[i].mint)}) <= MaxChoices
      PROVE  \E c \in Offered(query) : c.value = r[i].mint
  <2> DEFINE m == r[i].mint
             choices == AllChoices(r)
             before == {j \in 1..i : Mentions(r[j], m)}
             matching == {k \in DOMAIN choices : Matches(choices[k], query)}
             kept == {k \in matching : k <= i + 1}
  <2>1. /\ DOMAIN r = 1..Len(configured) /\ Len(configured) \in Nat
        /\ \A j \in DOMAIN r : IsEntry(r[j])
    BY <1>1, RegistryEntries DEF ConfiguredType
  <2>2. m \in Mints /\ m \in Seq(Characters)
    BY <2>1, MintText DEF IsEntry
  <2>3. /\ DOMAIN choices = 1..Len(configured) + 1
        /\ choices[1] = SolChoice
        /\ \A j \in DOMAIN r : choices[j + 1] = ChoiceOf(r[j])
    BY <2>1, AllChoicesShape
  <2> HIDE DEF choices
  <2>4. ~ Matches(SolChoice, query)
    BY <1>1, <2>2, LookedUp, NotSol
  <2>5. ASSUME NEW j \in DOMAIN r, Matches(ChoiceOf(r[j]), query)
        PROVE  Mentions(r[j], m)
    <3>1. IsEntry(r[j])
      BY <2>1
    <3>2. ChoiceOf(r[j]).name = Label(r[j]) /\ ChoiceOf(r[j]).value = r[j].mint
      BY DEF ChoiceOf
    <3>3. \/ Includes(ToLowerCase(Label(r[j])), ToLowerCase(m))
          \/ Includes(ToLowerCase(r[j].mint), ToLowerCase(m))
      BY <1>1, <2>2, <2>5, <3>2, LookedUp
    <3>4. CASE Includes(ToLowerCase(Label(r[j])), ToLowerCase(m))
      BY <2>2, <3>1, <3>4, LabelMentions
    <3>5. CASE Includes(ToLowerCase(r[j].mint), ToLowerCase(m))
      BY <3>5 DEF Mentions
    <3> QED
      BY <3>3, <3>4, <3>5
  <2>6. i + 1 \in matching
    <3>1. ToLowerCase(m) \in Seq(Characters)
      BY <2>2, LowerCaseShape
    <3>2. Includes(ToLowerCase(m), ToLowerCase(m))
      BY <3>1, IncludesItself
    <3>3. ChoiceOf(r[i]).value = m
      BY DEF ChoiceOf
    <3>4. Matches(ChoiceOf(r[i]), query)
      BY <1>1, <2>2, <3>2, <3>3, LookedUp
    <3>5. i + 1 \in DOMAIN choices /\ choices[i + 1] = ChoiceOf(r[i])
      BY <2>1, <2>3
    <3> QED
      BY <3>4, <3>5
  <2>7. \A k \in kept : k - 1 \in before
    <3> SUFFICES ASSUME NEW k \in kept PROVE k - 1 \in before
      OBVIOUS
    <3>1. k \in 1..Len(configured) + 1 /\ k <= i + 1 /\ Matches(choices[k], query)
      BY <2>3
    <3>2. k # 1
      BY <2>3, <2>4, <3>1
    <3>3. i \in 1..Len(configured)
      BY <2>1
    <3>4. k - 1 \in DOMAIN r /\ k - 1 \in 1..i /\ (k - 1) + 1 = k
      BY <2>1, <3>1, <3>2, <3>3
    <3>5. choices[k] = ChoiceOf(r[k - 1])
      BY <2>3, <3>4
    <3>6. Mentions(r[k - 1], m)
      BY <2>5, <3>1, <3>4, <3>5
    <3> QED
      BY <3>4, <3>6
  <2>8. IsFiniteSet(before)
    <3>1. i \in Int /\ 1 \in Int
      BY <2>1
    <3>2. IsFiniteSet(1..i)
      BY <3>1, FS_Interval
    <3> QED
      BY <3>2, FS_Subset
  <2>9. IsFiniteSet(kept) /\ Cardinality(kept) <= Cardinality(before)
    <3> DEFINE f == [k \in kept |-> k - 1]
    <3>1. \A k \in kept : k \in Int
      BY <2>3
    <3> HIDE DEF kept, before
    <3>2. f \in [kept -> before] /\ \A a, b \in kept : f[a] = f[b] => a = b
      BY <2>7, <3>1
    <3>3. f \in Injection(kept, before)
      BY <3>2, Fun_IsInj
    <3> HIDE DEF f
    <3> QED
      BY <2>8, <3>3, FS_Injection
  <2>10. Cardinality(kept) <= MaxChoices
    <3>1. Cardinality(kept) \in Nat /\ Cardinality(before) \in Nat
      BY <2>8, <2>9, FS_CardinalityType
    <3>2. Cardinality(before) <= MaxChoices /\ MaxChoices \in Nat
      BY <1>1, Lengths
    <3> QED
      BY <2>9, <3>1, <3>2
  <2>11. choices[i + 1] \in TokenAutocompleteChoices(query, r)
    BY <2>6, <2>10 DEF TokenAutocompleteChoices, choices
  <2>12. choices[i + 1] \in Offered(query)
    BY <2>11 DEF Offered
  <2>13. choices[i + 1].value = m
    <3>1. choices[i + 1] = ChoiceOf(r[i])
      BY <2>3
    <3> QED
      BY <3>1 DEF ChoiceOf
  <2> QED
    BY <2>12, <2>13
<1>2. ConfiguredType => EveryTokenCanBeChosen
  BY <1>1 DEF EveryTokenCanBeChosen, Queries
<1> QED
  BY <1>2, ConfiguredTypeInvariant, PTL

=============================================================================
