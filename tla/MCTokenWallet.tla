--------------------------- MODULE MCTokenWallet ----------------------------
(* An instance of the wallet program that moves the tokens of one mint.    *)
EXTENDS DiscordWalletCustody

CONSTANTS alice, bob, relayer, holder, usdc

Guild(user, name) ==
  [type |-> APPLICATION_COMMAND, guild |-> TRUE, user |-> user, name |-> name,
   wallet |-> None, tkn |-> None, to |-> None, amt |-> None]

PaysTokens(user, to, amt) ==
  [Guild(user, "transfer") EXCEPT !.tkn = usdc, !.to = to, !.amt = amt]

\* "0.2" of a mint with one decimal is two units; "0.20" is refused.
TokenInteractions ==
  {Guild(alice, "wallet_init"),
   [Guild(alice, "set_withdrawer") EXCEPT !.wallet = holder],
   PaysTokens(alice, bob, [digits |-> 2, frac |-> 1]),
   PaysTokens(alice, holder, [digits |-> 2, frac |-> 1]),
   PaysTokens(alice, holder, [digits |-> 20, frac |-> 2])}

HoldersAndVaults == {holder, relayer, VaultOf(alice), VaultOf(bob)}

RelayerLamports == [a \in Addresses |-> IF a = relayer THEN 3 ELSE 0]

\* Nobody has made an account for Bob's vault yet.
AliceHoldsTokens ==
  [t \in TokenAddresses |->
     IF t = AssociatedTokenAddress(VaultOf(alice), usdc)
       THEN [owner |-> VaultOf(alice), amount |-> 3]
     ELSE IF t = AssociatedTokenAddress(holder, usdc)
       THEN [owner |-> holder, amount |-> 0]
     ELSE None]

OneDecimal == [m \in Mints |-> 1]

=============================================================================
