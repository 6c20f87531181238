--------------------------- MODULE MCSignedWallet ---------------------------
(* An instance of the wallet program on bytes: one user, texts that can be *)
(* cut in two ways, and transactions that mix signed texts with others.    *)
EXTENDS SignedWallet, Sequences

CONSTANTS alice, relayer, holder

(* The relayer's encoding, which needs no texts and no transactions.      *)
Bytes ==
  INSTANCE SigVerify WITH Orders <- {}, Transactions <- {}, ordered <- {}, executed <- {}

One == 49
Brace == Bytes!Brace

\* "1" and "11", each with three bodies, as in MCSigVerify.
FewOrders ==
  [timestamp : {<<One>>, <<One, One>>},
   body : {<<Brace>>, <<Brace, One>>, <<Brace, Brace>>}]

Guild(name) ==
  [type |-> APPLICATION_COMMAND, guild |-> TRUE, user |-> alice, name |-> name,
   wallet |-> None, tkn |-> None, to |-> None, amt |-> None]

\* "{" opens a wallet, "{1" makes the holder its withdrawer, "{{" pays him.
Opens == Guild("wallet_init")
Appoints == [Guild("set_withdrawer") EXCEPT !.wallet = holder]
Pays ==
  [Guild("transfer") EXCEPT !.tkn = Sol, !.to = holder,
                            !.amt = [digits |-> 1, frac |-> SolDecimals]]
AliceInteractions == {Opens, Appoints, Pays}

\* Other texts read as well, by their last characters.
Read(text) ==
  LET n == Len(text.body)
      id == IF n = 1 \/ text.body[n-1] # Brace THEN 1 ELSE IF text.body[n] = One THEN 2 ELSE 3
  IN  [timestamp |-> Len(text.timestamp) - 1, id |-> id,
       body |-> IF id = 1 THEN Opens ELSE IF id = 2 THEN Appoints ELSE Pays]

Payload(discriminator, timestampLen, m) ==
  <<discriminator, timestampLen, 0, Len(m) - timestampLen, 0>> \o m

Data(discriminator, o) == Payload(discriminator, Len(o.timestamp), Bytes!Message(o))
Verify(index, size) == Bytes!BuildEd25519VerifyInstruction(index, size)
Wallet(data) == [program |-> "wallet", data |-> data]
Calls(data, inner) == [program |-> "other", data |-> data, calledWith |-> inner]

ThreeBytes == {o \in FewOrders : Len(Bytes!Message(o)) = 3}

\* As the relayer builds them, the discriminator right or wrong; cut anew;
\* with the text of one order verified and that of another run.
FewTransactions ==
  {Bytes!BuildDiscordCommandTransaction(d, o, << >>) : d \in {1, 3}, o \in FewOrders}
  \cup {<<Verify(1, 3), Wallet(Payload(1, k, Bytes!Message(o)))>> : k \in 1..2, o \in ThreeBytes}
  \cup {<<Verify(1, 3), Calls(Data(1, o), Data(1, p))>> : o, p \in ThreeBytes}
  \cup {<<Verify(1, 3), Calls(Data(1, o), << >>), Wallet(Data(1, p))>> : o, p \in ThreeBytes}

FourLamports == [a \in Addresses |-> IF a = relayer THEN 4 ELSE 0]
NoTokens == [a \in {} |-> None]
NoDecimals == [m \in {} |-> 0]

=============================================================================
