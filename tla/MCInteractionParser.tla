------------------------ MODULE MCInteractionParser -------------------------
(* Bodies with what a parser may take for something else: an interaction's *)
(* resolved objects, a name with quotation marks and braces in it.         *)
EXTENDS InteractionParser, SequencesExt

Quoted(characters) == <<Quote>> \o characters \o <<Quote>>

\* Text for each element of a list, with commas between.
Listed(texts, g) ==
  FlattenSeq([i \in 1..Len(texts) |-> IF i = 1 THEN texts[i] ELSE g \o <<",">> \o g \o texts[i]])

RECURSIVE Write(_, _)
FieldText(f, g) == Quoted(f.key) \o g \o <<":">> \o g \o Write(f.value, g)

Write(v, g) ==
  CASE "str" \in DOMAIN v -> Quoted(v.str)
    [] "num" \in DOMAIN v -> v.num
    [] "lit" \in DOMAIN v -> <<v.lit>>
    [] "arr" \in DOMAIN v ->
         <<"[">> \o g \o Listed([i \in 1..Len(v.arr) |-> Write(v.arr[i], g)], g) \o g \o <<"]">>
    [] "obj" \in DOMAIN v ->
         <<"{">> \o g \o Listed([i \in 1..Len(v.obj) |-> FieldText(v.obj[i], g)], g) \o g \o <<"}">>

F(key, value) == [key |-> <<key>>, value |-> value]

Option(name, value) == Obj(<<F("name", Str(<<name>>)), F("type", Num(<<"3">>)), F("value", value)>>)

Transfer(amount) ==
  Obj(<<F("options", Arr(<<Option("tkn", Str(<<"sol">>)), Option("amt", amount),
                           Option("to", Str(<<"7">>)), Option("memo", Num(<<"4">>))>>)),
        F("name", Str(<<"transfer">>))>>)

\* What a user may call himself.
OddName == Str(<<Backslash, Quote, ",", Backslash, Quote, "id", Backslash, Quote, ":", "9", "}", Backslash, Backslash>>)

Member(id) ==
  Obj(<<F("id", Str(<<"5">>)), F("nick", OddName),
        F("user", Obj(<<F("id", Str(<<id>>)), F("name", OddName)>>))>>)

\* An object that holds others' ids, then one of its own.
Resolved ==
  Obj(<<F("users", Arr(<<Obj(<<F("id", Str(<<"8">>))>>), Lit("null"), Num(<<"-", "1">>)>>)),
        F("member", Obj(<<F("user", Obj(<<F("id", Str(<<"9">>))>>))>>)),
        F("name", OddName),
        F("id", Str(<<"9">>)), F("type", Num(<<"4">>)), F("flag", Lit("true"))>>)

Values ==
  {F("id", Str(<<"1">>)), F("type", Num(<<"2">>)), F("type", Num(<<"4">>)),
   F("guild_id", Str(<<"6">>)),
   F("member", Member("7")),
   F("data", Obj(<<F("name", Str(<<"set_withdrawer">>)),
                   F("options", Arr(<<Option("wallet", Str(<<"7">>))>>))>>)),
   F("data", Transfer(Num(<<"1", ".", "5">>))), F("data", Transfer(Num(<<"1", "e", "7">>))),
   F("other", Resolved),
   F("other", Obj(<<F("user", Obj(<<F("id", Str(<<"8">>))>>)), F("id", Str(<<"9">>))>>))}

\* Numbers the program does not skip: a fraction, and one that fits no u64.
Unskipped(g) ==
  F("other", Arr(<<Num(IF g = << >> THEN <<"0", ".", "5">> ELSE <<"-", "1", "0">>)>>))

ManyFields ==
  UNION {{[key |-> f.key, gap |-> g, text |-> FieldText(f, g)] : f \in Values \cup {Unskipped(g)}} :
           g \in Gaps}

AllSymbols == {"{", "}", ",", Blank} \cup UNION {Range(f.text) : f \in ManyFields}

=============================================================================
