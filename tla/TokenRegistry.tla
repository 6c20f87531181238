----------------------------- MODULE TokenRegistry -----------------------------
(***************************************************************************)
(* The tokens an operator registers (TOKEN_REGISTRY_JSON) and the choices  *)
(* a user sees while he types one.  What he picks is signed as the command *)
(* and moves money, so a choice has to be there and be what it looks like. *)
(*                                                                         *)
(* A text is a sequence of characters.  A function that may throw gives a  *)
(* set: its result, or nothing.                                            *)
(***************************************************************************)
EXTENDS SequencesExt

CONSTANTS
  Characters,     \* what texts are made of
  Configurable,   \* the entries an operator may write
  MaxConfigured,  \* bound: how many of them he does
  Mints,          \* texts that address() takes
  LowerCase,      \* the small letter of each capital
  SymbolLetters,  \* what a symbol may have in it: A-Z0-9._+-
  MaxString,      \* how long a symbol, name or mint may be (64 in the code)
  MaxSymbol,      \* how long a symbol may be then (20)
  MaxLabel,       \* how long a choice may be (100)
  MaxChoices      \* how many Discord shows (25)

Blank == " "
Dash == "-- "
Open == "("
Close == ")"
Separators == {Blank, Dash, Open, Close}
SOL == <<"S", "O", "L">>

(* What a choice ends in.                                                  *)
MintSuffix(mint) == <<Blank, Open>> \o mint \o <<Close>>

SolChoice == [name |-> SOL \o <<Dash, "S", "o", "l">>, value |-> <<"s", "o", "l">>]

ASSUME Texts ==
  /\ {"S", "O", "L", "s", "o", "l"} \cup Separators \subseteq Characters
  /\ Configurable \subseteq [symbol : Seq(Characters), name : Seq(Characters), mint : Seq(Characters)]
  /\ SymbolLetters \subseteq Characters \ {Dash}

(* Only letters have a small letter, and that has none.                    *)
ASSUME Letters ==
  /\ DOMAIN LowerCase \subseteq Characters \ Separators
  /\ LowerCase \in [DOMAIN LowerCase -> Characters \ (Separators \cup DOMAIN LowerCase)]

(* Mints are written in base 58: none is empty or has a separator in it.   *)
ASSUME Base58 == Mints \subseteq Seq(Characters \ Separators) \ {<< >>}

(* The longest of them leaves room for a symbol and the dash.              *)
ASSUME Lengths ==
  /\ MaxConfigured \in Nat /\ MaxString \in Nat /\ MaxSymbol \in Nat
  /\ MaxLabel \in Nat /\ MaxChoices \in Nat
  /\ \A m \in Mints : MaxSymbol + 1 + Len(MintSuffix(m)) <= MaxLabel
  /\ Len(SolChoice.name) <= MaxLabel

VARIABLE configured   \* the entries of TOKEN_REGISTRY_JSON
vars == <<configured>>

UpperCase == [c \in Range(LowerCase) |-> CHOOSE u \in DOMAIN LowerCase : LowerCase[u] = c]
ToLowerCase(s) == [i \in DOMAIN s |-> IF s[i] \in DOMAIN LowerCase THEN LowerCase[s[i]] ELSE s[i]]
ToUpperCase(s) == [i \in DOMAIN s |-> IF s[i] \in DOMAIN UpperCase THEN UpperCase[s[i]] ELSE s[i]]

(* The text without the blanks around it, if anything else is in it.       *)
Trim(s) ==
  LET Written == {i \in DOMAIN s : s[i] # Blank}
  IN  {SubSeq(s, i, k) : i \in {j \in Written : \A l \in Written : j <= l},
                         k \in {j \in Written : \A l \in Written : j >= l}}

-----------------------------------------------------------------------------
RequiredShortString(s) == IF Len(s) > MaxString THEN {} ELSE Trim(s)

IsSymbol(s) == Len(s) <= MaxSymbol /\ Range(s) \subseteq SymbolLetters

(* The reserved symbol looked for in what was written.                     *)
SymbolAsWritten(s) ==
  {u \in {ToUpperCase(t) : t \in RequiredShortString(s) \ {SOL}} : IsSymbol(u)}

(* The symbol of an entry, in capitals; SOL is reserved.                   *)
Symbol(s) ==
  {u \in {ToUpperCase(t) : t \in RequiredShortString(s)} : IsSymbol(u) /\ u # SOL}

ParseRegistryEntry(value) ==
  {[symbol |-> s, name |-> n, mint |-> m] :
     s \in Symbol(value.symbol), n \in RequiredShortString(value.name),
     m \in RequiredShortString(value.mint) \cap Mints}

(* createTokenRegistry: all of the entries, with different mints.          *)
CreateTokenRegistry(json) ==
  LET entries == [i \in DOMAIN json |-> CHOOSE e \in ParseRegistryEntry(json[i]) : TRUE]
  IN  IF /\ \A i \in DOMAIN json : ParseRegistryEntry(json[i]) # {}
         /\ \A i, j \in DOMAIN json : entries[i].mint = entries[j].mint => i = j
        THEN {entries} ELSE {}

-----------------------------------------------------------------------------
UpTo(s, n) == SubSeq(s, 1, IF n < Len(s) THEN n ELSE Len(s))

(* The mint cut off with the rest of a long label.                         *)
LabelCutAtEnd(entry) ==
  UpTo(entry.symbol \o <<Dash>> \o entry.name \o MintSuffix(entry.mint), MaxLabel)

(* Symbol and name, cut so that the mint has its place behind them.        *)
Label(entry) ==
  UpTo(entry.symbol \o <<Dash>> \o entry.name, MaxLabel - Len(MintSuffix(entry.mint)))
    \o MintSuffix(entry.mint)

ChoiceOf(entry) == [name |-> Label(entry), value |-> entry.mint]

AllChoices(registry) ==
  <<SolChoice>> \o [i \in DOMAIN registry |-> ChoiceOf(registry[i])]

Includes(s, t) == \E i \in 0..Len(s) - Len(t) : SubSeq(s, i + 1, i + Len(t)) = t

(* A mint is longer than the choice of SOL.                                *)
ASSUME NotSol ==
  \A m \in Mints : \A text \in {SolChoice.name, SolChoice.value} :
    ~ Includes(ToLowerCase(text), ToLowerCase(m))

Matches(choice, query) ==
  \A t \in Trim(query) : \/ Includes(ToLowerCase(choice.name), ToLowerCase(t))
                         \/ Includes(ToLowerCase(choice.value), ToLowerCase(t))

(* The list cut before it is searched.                                     *)
SearchFirstChoices(query, registry) ==
  LET choices == AllChoices(registry)
  IN  {choices[i] : i \in {k \in DOMAIN choices : Matches(choices[k], query) /\ k <= MaxChoices}}

(* Those that match, as far as Discord has room for them.                  *)
TokenAutocompleteChoices(query, registry) ==
  LET choices == AllChoices(registry)
      matching == {i \in DOMAIN choices : Matches(choices[i], query)}
  IN  {choices[i] : i \in {k \in matching : Cardinality({j \in matching : j <= k}) <= MaxChoices}}

-----------------------------------------------------------------------------
Init == configured = << >>

Configure ==
  /\ Len(configured) < MaxConfigured
  /\ \E entry \in Configurable : configured' = Append(configured, entry)

Spec == Init /\ [][Configure]_vars

Offered(query) ==
  UNION {TokenAutocompleteChoices(query, r) : r \in CreateTokenRegistry(configured)}

Mentions(entry, mint) ==
  \E text \in {entry.symbol, entry.name, entry.mint} :
    Includes(ToLowerCase(text), ToLowerCase(mint))

(* However many tokens there are, each can be chosen: who pastes its mint, *)
(* in any case and with blanks around it, is offered it, unless the tokens *)
(* registered before it mention its mint so often, in their names or       *)
(* mints, that they fill the list (tokenAutocompleteChoices).              *)
EveryTokenCanBeChosen ==
  \A r \in CreateTokenRegistry(configured) : \A i \in DOMAIN r :
    Cardinality({j \in 1..i : Mentions(r[j], r[i].mint)}) <= MaxChoices =>
      \A query \in {r[i].mint, <<Blank>> \o ToLowerCase(r[i].mint) \o <<Blank>>} :
        \E c \in Offered(query) : c.value = r[i].mint

(* No two choices look the same, however long the names or alike the       *)
(* symbols, and none is longer than Discord allows.                        *)
ChoicesTellTokensApart ==
  \A c, d \in Offered(<< >>) : Len(c.name) <= MaxLabel /\ (c.name = d.name => c = d)

(* What begins like the choice of SOL is the choice of SOL, whatever an    *)
(* operator calls his tokens (parseRegistryEntry).                         *)
OnlySolLooksLikeSol ==
  \A c \in Offered(<< >>) : UpTo(c.name, 4) = SOL \o <<Dash>> => c = SolChoice

=============================================================================
