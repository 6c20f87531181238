---------------------------- MODULE MCSolWallet -----------------------------
(* Instances of the wallet program that only move lamports.                *)
EXTENDS DiscordWalletCustody

CONSTANTS alice, bob, relayer, holder   \* two users and two keys

Guild(user, name) ==
  [type |-> APPLICATION_COMMAND, guild |-> TRUE, user |-> user, name |-> name,
   wallet |-> None, tkn |-> None, to |-> None, amt |-> None]

Units(n) == [digits |-> n, frac |-> SolDecimals]

OpenBy(user) == Guild(user, "wallet_init")
Appoints(user, key) == [Guild(user, "set_withdrawer") EXCEPT !.wallet = key]
Pays(user, to, amt) ==
  [Guild(user, "transfer") EXCEPT !.tkn = Sol, !.to = to, !.amt = amt]
Typing(i) == [i EXCEPT !.type = AUTOCOMPLETE]

\* Alice opens a wallet, appoints a withdrawer and pays Bob and her own vault.
TwoUserInteractions ==
  {OpenBy(alice), Appoints(alice, holder), Pays(alice, bob, Units(2)),
   Typing(Pays(alice, bob, Units(2))), Pays(alice, VaultOf(alice), Units(2))}

\* Alice alone: her commands compete for her wallet's nonce.
OneUserInteractions ==
  {OpenBy(alice), Appoints(alice, holder), Appoints(alice, relayer)}

\* A key that is not Discord's has signed a payment by Alice.
ForgedPayment ==
  {[key |-> ForeignKey,
    request |-> [timestamp |-> 1, id |-> 9, body |-> Pays(alice, holder, Units(2))]]}

RelayerFunded(n) == [a \in Addresses |-> IF a = relayer THEN n ELSE 0]
FiveLamports == RelayerFunded(5)
SevenLamports == RelayerFunded(7)
NoTokens == [a \in {} |-> None]
NoDecimals == [m \in {} |-> 0]

=============================================================================
