------------------------------ MODULE UiAmount ------------------------------
(***************************************************************************)
(* The amounts users type.  A decimal such as "1.25" is kept as the number *)
(* its digits spell and the count of digits after the point, so "1.25" is  *)
(* [digits |-> 125, frac |-> 2] and "1.250" is a different amount.         *)
(***************************************************************************)
EXTENDS Integers

CONSTANT MaxU64    \* the largest u64, scaled down by a model

ASSUME MaxU64Assumption == MaxU64 \in Nat

UiAmounts == [digits : Nat, frac : Nat]

Pow10[n \in Nat] == IF n = 0 THEN 1 ELSE 10 * Pow10[n - 1]

(* parse_ui_amount_to_base_units: the units the amount stands for, or no   *)
(* result.  It has none when there are more digits after the point than    *)
(* the asset has decimals, when 10^decimals does not fit in a u64 (even if *)
(* the amount would), or when the result does not.                         *)
ToBaseUnits(amt, decimals) ==
  {n \in 0..MaxU64 : /\ amt.frac <= decimals
                     /\ Pow10[decimals] <= MaxU64
                     /\ n = amt.digits * Pow10[decimals - amt.frac]}

=============================================================================
