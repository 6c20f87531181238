---------------------------- MODULE MCAmountParser ----------------------------
(* Amounts of up to five characters, with an eight-bit word for a u64.     *)
EXTENDS AmountParser
=============================================================================
