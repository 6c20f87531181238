----------------------------- MODULE AmountParser -----------------------------
(***************************************************************************)
(* parse_ui_amount_to_base_units, on the characters a user has typed and   *)
(* in u64 arithmetic, against what the amount is worth (UiAmount).  An     *)
(* operation that may fail gives a set: its result, or nothing.            *)
(***************************************************************************)
EXTENDS UiAmount, Sequences

CONSTANTS
  DigitsTyped,   \* the digits users type
  MaxTyped,      \* bound: how many characters they type
  MaxDecimals    \* how many decimals a mint may have (255)

\* Characters: a digit is its value.
Digit == 0..9
Dot == 10
OtherCharacter == 11

ASSUME TypedAssumption == DigitsTyped \subseteq Digit /\ MaxTyped \in Nat /\ MaxDecimals \in Nat

(* Multiplication in a release build without checks.                       *)
WrappingMul(a, b) == {(a * b) % (MaxU64 + 1)}

CheckedMul(a, b) == {a * b} \cap 0..MaxU64
CheckedAdd(a, b) == {a + b} \cap 0..MaxU64
CheckedPow10(n) == {Pow10[n]} \cap 0..MaxU64

(* The loop of parse_u64_decimal: what it has read after each byte.        *)
ReadSoFar(s) ==
  LET out[n \in 0..Len(s)] ==
        IF n = 0 THEN {0}
        ELSE IF s[n] \notin Digit THEN {}
        ELSE UNION {CheckedAdd(m, s[n]) : m \in UNION {CheckedMul(k, 10) : k \in out[n - 1]}}
  IN  out

ParseU64Decimal(s) == IF s = << >> THEN {} ELSE ReadSoFar(s)[Len(s)]

OrNothing(s) == IF s = << >> THEN {0} ELSE ParseU64Decimal(s)

(* split_once: what comes before the first dot, and what comes after it.   *)
BeforeDot(s) ==
  CHOOSE k \in 0..Len(s) : (\A i \in 1..k : s[i] # Dot) /\ (k < Len(s) => s[k + 1] = Dot)

Whole(s) == SubSeq(s, 1, BeforeDot(s))
Fractional(s) == SubSeq(s, BeforeDot(s) + 2, Len(s))

ParseUiAmountToBaseUnits(s, decimals) ==
  IF \/ Whole(s) = << >> /\ Fractional(s) = << >>
     \/ Len(Fractional(s)) > decimals
    THEN {}
    ELSE LET whole == UNION {CheckedMul(w, multiplier) : w \in OrNothing(Whole(s)),
                                                         multiplier \in CheckedPow10(decimals)}
             fractional == UNION {CheckedMul(f, p) : f \in OrNothing(Fractional(s)),
                                                     p \in CheckedPow10(decimals - Len(Fractional(s)))}
         IN  UNION {CheckedAdd(w, f) : w \in whole, f \in fractional}

-----------------------------------------------------------------------------
VARIABLES
  text,      \* what has been typed
  decimals   \* of the asset it is an amount of

vars == <<text, decimals>>

Init == text = << >> /\ decimals \in 0..MaxDecimals

Type ==
  /\ Len(text) < MaxTyped
  /\ \E c \in DigitsTyped \cup {Dot, OtherCharacter} : text' = Append(text, c)
  /\ UNCHANGED decimals

Spec == Init /\ [][Type]_vars

-----------------------------------------------------------------------------
(* A decimal number: digits, one at least, and perhaps one dot.            *)
IsAmount(s) ==
  /\ \E i \in 1..Len(s) : s[i] \in Digit
  /\ \A i \in 1..Len(s) : s[i] \in Digit \/ (s[i] = Dot /\ \A k \in 1..i-1 : s[k] # Dot)

(* The numbers that the digits up to each place spell.                     *)
Spelled(s) ==
  LET num[n \in 0..Len(s)] ==
        IF n = 0 THEN 0 ELSE IF s[n] \in Digit THEN 10 * num[n - 1] + s[n] ELSE num[n - 1]
  IN  num

Dots(s) == {i \in 1..Len(s) : s[i] = Dot}

Amount(s) ==
  [digits |-> Spelled(s)[Len(s)],
   frac |-> IF Dots(s) = {} THEN 0 ELSE Len(s) - (CHOOSE i \in Dots(s) : TRUE)]

(* What a user types is worth exactly what it says, or is refused: nothing *)
(* is rounded, cut off or wrapped, at any count of decimals and however    *)
(* near the limit of a u64 (parse_ui_amount_to_base_units).                *)
AmountsExact ==
  ParseUiAmountToBaseUnits(text, decimals)
    = IF IsAmount(text) THEN ToBaseUnits(Amount(text), decimals) ELSE {}

=============================================================================
