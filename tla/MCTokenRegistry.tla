---------------------------- MODULE MCTokenRegistry ----------------------------
(* Tokens with long names, with one symbol for two, with the symbol of SOL *)
(* in small letters, with a mint written twice, with mints that differ in  *)
(* the size of their letters, and with the mint of another for a name.     *)
EXTENDS TokenRegistry, TLC

SomeLetters == "S" :> "s" @@ "O" :> "o" @@ "L" :> "l" @@ "A" :> "a" @@ "B" :> "b"
SomeCharacters == DOMAIN SomeLetters \cup Range(SomeLetters) \cup Separators
SomeCapitals == DOMAIN SomeLetters

FourMints ==
  {<<"A", "a", "B">>, <<"a", "A", "b">>, <<"A", "a", "A">>, <<"B", "b", "a">>}

ManyEntries ==
  [symbol : {<<"a">>, <<Blank, "s", "o">>},
   name : {<<"o", "o", "o", "o">>, <<"a", "a", "b">>},
   mint : FourMints]
  \cup [symbol : {<<"A">>, <<"s", "o", "l">>}, name : {<<"o">>},
        mint : {<<Blank, "A", "a", "B">>, <<"B", "b", "a">>}]
  \cup [symbol : {<<"a">>}, name : {<<"o">>}, mint : {<<"b">>}]

=============================================================================
