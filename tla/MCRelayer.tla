----------------------------- MODULE MCRelayer ------------------------------
(* Instances of the relayer, with one user's wallet and one mint.          *)
EXTENDS Relayer

CONSTANTS alice, bob, relayer, holder, usdc, h1, h2

Guild(user, name) ==
  [type |-> APPLICATION_COMMAND, guild |-> TRUE, user |-> user, name |-> name,
   wallet |-> None, tkn |-> None, to |-> None, amt |-> None]

Pays(tkn, to, amt) ==
  [Guild(alice, "transfer") EXCEPT !.tkn = tkn, !.to = to, !.amt = amt]

One == [digits |-> 1, frac |-> 0]

\* Commands whose transactions compete: opening and a payment; and a question
\* about a wallet from outside a guild.
PaymentInteractions ==
  {Guild(alice, "wallet_init"), Pays(Sol, bob, One),
   [Pays(Sol, bob, One) EXCEPT !.type = AUTOCOMPLETE],
   [Guild(alice, "wallet") EXCEPT !.to = bob, !.guild = FALSE]}

\* Every command the relayer knows, and one from outside a guild.
AllInteractions ==
  {Guild(alice, "wallet_init"), Guild(alice, "airdrop"),
   [Guild(alice, "set_withdrawer") EXCEPT !.wallet = holder],
   [Guild(bob, "wallet") EXCEPT !.to = alice],
   [Guild(alice, "airdrop") EXCEPT !.guild = FALSE],
   Pays(Sol, bob, One), Pays(Sol, holder, One),
   Pays(usdc, bob, One), Pays(usdc, holder, One), Pays(usdc, bob, None)}

VaultsAndHolder == {VaultOf(bob), holder}

RelayerLamports == [a \in Addresses |-> IF a = relayer THEN 4 ELSE 0]

\* Alice has been paid before she has a wallet.
PaidBeforeOpening ==
  [a \in Addresses |-> IF a = relayer THEN 4 ELSE IF a = VaultOf(alice) THEN 2 ELSE 0]

AliceHoldsTokens ==
  [t \in TokenAddresses |->
     IF t = AssociatedTokenAddress(VaultOf(alice), usdc)
       THEN [owner |-> VaultOf(alice), amount |-> 1]
     ELSE None]

NoTokens == [a \in {} |-> None]
NoDecimals == [m \in Mints |-> 0]

=============================================================================
