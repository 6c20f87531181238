-------------------------- MODULE InteractionParser --------------------------
(***************************************************************************)
(* JsonParser: how the program finds a command in the bytes of a body.     *)
(* The relayer reads the same body with JSON.parse; what the user is shown *)
(* and what the program does agree only if the two read alike.             *)
(*                                                                         *)
(* A text is a sequence of symbols: one per character, except that a word  *)
(* (a key, a command's name, true, null) is a single symbol.  What reads   *)
(* at an index of it gives a set: what it has got and the index after it,  *)
(* or nothing if it fails.                                                 *)
(***************************************************************************)
EXTENDS Integers, Sequences

CONSTANTS
  MaxU64,      \* the largest u64, scaled down by a model
  Symbols,     \* what texts are made of
  BodyFields   \* the fields a body may have: key, gap and text

Quote == "\""
Backslash == "\\"
Blank == " "
Digits == {"0", "1", "2", "3", "4", "5", "6", "7", "8", "9"}
DigitsInOrder == <<"0", "1", "2", "3", "4", "5", "6", "7", "8", "9">>

ASSUME FieldTexts ==
  /\ {"{", "}", ",", Blank} \subseteq Symbols
  /\ \A f \in BodyFields : f.text \in Seq(Symbols)

At(s, i, symbol) == i \in 1..Len(s) /\ s[i] = symbol
ExpectByte(s, i, symbol) == IF At(s, i, symbol) THEN {i + 1} ELSE {}

(* consume_ws *)
ConsumeWs(s, i) ==
  CHOOSE k \in i..Len(s) + 1 : (\A j \in i..k-1 : s[j] = Blank) /\ ~ At(s, k, Blank)

(* The last field of a name is the one that counts.                        *)
Has(fields, key) == \E n \in 1..Len(fields) : fields[n].key = key
Get(fields, key) ==
  fields[CHOOSE n \in 1..Len(fields) :
           /\ fields[n].key = key
           /\ \A m \in n+1..Len(fields) : fields[m].key # key].value

-----------------------------------------------------------------------------
(* Tokens.                                                                 *)

(* A string that ends at the first quotation mark.                         *)
EndsAtAnyQuote(s, i, k) == s[k] = Quote

(* The loop of parse_string: does a string whose text begins at i end at   *)
(* k, if not before?                                                       *)
EndsString(s, i, k) ==
  /\ s[k] = Quote
  /\ LET escaped[n \in i..k] == n # i /\ s[n - 1] = Backslash /\ ~ escaped[n - 1]
     IN  ~ escaped[k]

(* parse_string: the characters between the quotes, escapes and all.       *)
ParseString(s, i) ==
  LET end == CHOOSE k \in i+1..Len(s) :
               EndsString(s, i + 1, k) /\ \A n \in i+1..k-1 : ~ EndsString(s, i + 1, n)
  IN  IF At(s, i, Quote) /\ \E k \in i+1..Len(s) : EndsString(s, i + 1, k)
        THEN {[got |-> SubSeq(s, i + 1, end - 1), index |-> end + 1]}
        ELSE {}

DigitValue(digit) == (CHOOSE n \in 1..10 : DigitsInOrder[n] = digit) - 1

DecimalValue(token) ==
  LET value[n \in 0..Len(token)] ==
        IF n = 0 THEN 0 ELSE 10 * value[n - 1] + DigitValue(token[n])
  IN  value[Len(token)]

(* parse_u64_decimal: digits, one at least, whose number fits.             *)
IsDecimal(token) ==
  /\ token # << >> /\ \A n \in 1..Len(token) : token[n] \in Digits
  /\ DecimalValue(token) <= MaxU64

(* The loop of parse_decimal_token: digits and one dot.                    *)
InDecimal(s, i, k) ==
  \A n \in i..k-1 : s[n] \in Digits \/ (s[n] = "." /\ \A m \in i..n-1 : s[m] # ".")

(* parse_decimal_token: what the loop takes, unless it is nothing or ends  *)
(* with the dot.                                                           *)
ParseDecimalToken(s, i) ==
  {[got |-> SubSeq(s, i, k - 1), index |-> k] :
     k \in {n \in i+1..Len(s)+1 : /\ InDecimal(s, i, n) /\ s[n - 1] # "."
                                  /\ n = Len(s) + 1 \/ ~ InDecimal(s, i, n + 1)}}

ParseNumber(s, i) == {r \in ParseDecimalToken(s, i) : IsDecimal(r.got)}

ParseStringOrNumberValue(s, i) ==
  IF At(s, i, Quote) THEN ParseString(s, i)
  ELSE IF \E d \in Digits : At(s, i, d) THEN ParseDecimalToken(s, i)
  ELSE {}

-----------------------------------------------------------------------------
(* Objects and arrays.  All of the parser's objects are read by one loop,  *)
(* told apart by where they are; so are its arrays.  The loop reads on at  *)
(* later indices; later has what it gets there.                            *)

Objects == {"interaction", "member", "user", "data", "option", "skipped object"}
Arrays == {"options", "skipped array"}
Places == Objects \cup Arrays

Needed(where) ==
  CASE where = "interaction" -> {<<"id">>, <<"type">>, <<"guild_id">>, <<"member">>, <<"data">>}
    [] where = "member" -> {<<"user">>}
    [] where = "user" -> {<<"id">>}
    [] where = "data" -> {<<"name">>}
    [] where = "option" -> {<<"name">>, <<"value">>}
    [] OTHER -> {}

(* An object with the fields that are needed there.                        *)
Object(s, later, where, i) ==
  {r \in UNION {later[k][where] : k \in ExpectByte(s, i, "{")} :
     \A key \in Needed(where) : Has(r.got, key)}

Array(s, later, where, i) == UNION {later[k][where] : k \in ExpectByte(s, i, "[")}

(* An object taken to end at the first brace that closes one.              *)
SkipToFirstBrace(s, later, i) ==
  {[got |-> << >>, index |-> k + 1] :
     k \in {n \in i..Len(s) : s[n] = "}" /\ \A m \in i..n-1 : s[m] # "}"}}

SkipObject(s, later, i) == Object(s, later, "skipped object", i)

(* skip_value, whatever the value holds.                                   *)
SkipValue(s, later, i) ==
  LET t == ConsumeWs(s, i)
  IN  CASE At(s, t, "{") -> SkipObject(s, later, t)
        [] At(s, t, "[") -> Array(s, later, "skipped array", t)
        [] At(s, t, Quote) -> ParseString(s, t)
        [] At(s, t, "true") \/ At(s, t, "false") \/ At(s, t, "null") ->
             {[got |-> << >>, index |-> t + 1]}
        [] At(s, t, "-") -> ParseNumber(s, t + 1)
        [] OTHER -> ParseNumber(s, t)

(* What is expected of the value, by where its object is and by its key.   *)
Value(s, later, where, key, i) ==
  CASE <<where, key>> \in {<<"interaction", <<"id">>>>, <<"user", <<"id">>>>} ->
         {r \in ParseString(s, i) : IsDecimal(r.got)}
    [] <<where, key>> = <<"interaction", <<"type">>>> -> ParseNumber(s, i)
    [] <<where, key>> = <<"interaction", <<"member">>>> -> Object(s, later, "member", i)
    [] <<where, key>> = <<"interaction", <<"data">>>> -> Object(s, later, "data", i)
    [] <<where, key>> = <<"member", <<"user">>>> -> Object(s, later, "user", i)
    [] <<where, key>> \in {<<"data", <<"name">>>>, <<"option", <<"name">>>>} -> ParseString(s, i)
    [] <<where, key>> = <<"data", <<"options">>>> -> Array(s, later, "options", i)
    [] <<where, key>> = <<"option", <<"value">>>> -> ParseStringOrNumberValue(s, i)
    [] OTHER -> SkipValue(s, later, i)

Field(s, later, where, i) ==
  UNION {UNION {{[got |-> [key |-> k.got, value |-> v.got], index |-> v.index] :
                   v \in Value(s, later, where, k.got, ConsumeWs(s, c))} :
                  c \in ExpectByte(s, ConsumeWs(s, k.index), ":")} :
           k \in ParseString(s, i)}

Element(s, later, where, i) ==
  IF where = "options" THEN Object(s, later, "option", i) ELSE SkipValue(s, later, i)

(* One turn of the loop, and those after it.                               *)
Loop(s, later, where, i) ==
  LET closing == IF where \in Objects THEN "}" ELSE "]"
      start == ConsumeWs(s, i)
      item == IF where \in Objects THEN Field(s, later, where, start)
              ELSE Element(s, later, where, start)
      After(r, u) ==
        IF At(s, u, ",")
          THEN {[got |-> <<r.got>> \o x.got, index |-> x.index] : x \in later[u + 1][where]}
          ELSE {[got |-> <<r.got>>, index |-> n] : n \in ExpectByte(s, u, closing)}
  IN  IF At(s, start, closing) THEN {[got |-> << >>, index |-> start + 1]}
      ELSE UNION {After(r, ConsumeWs(s, r.index)) : r \in item}

(* What each loop reads from each index on.                                *)
Loops(s) ==
  LET read[i \in 1..Len(s)+1] ==
        [where \in Places |-> Loop(s, [k \in i+1..Len(s)+1 |-> read[k]], where, i)]
  IN  read

-----------------------------------------------------------------------------
APPLICATION_COMMAND == <<"2">>

NeededOptions(name) ==
  CASE name = <<"set_withdrawer">> -> {<<"wallet">>}
    [] name = <<"transfer">> -> {<<"tkn">>, <<"to">>, <<"amt">>}
    [] OTHER -> {}

CommandNames == {<<"wallet_init">>, <<"set_withdrawer">>, <<"transfer">>}
OptionNames == {<<"wallet">>, <<"tkn">>, <<"to">>, <<"amt">>}

(* parse_options: of the options of one name, the last.                    *)
ParseOptions(options) ==
  LET named == [n \in 1..Len(options) |->
                  [key |-> Get(options[n], <<"name">>), value |-> Get(options[n], <<"value">>)]]
  IN  [name \in {o \in OptionNames : Has(named, o)} |-> Get(named, name)]

ParseData(data) ==
  [name |-> Get(data, <<"name">>),
   options |-> ParseOptions(IF Has(data, <<"options">>) THEN Get(data, <<"options">>) ELSE << >>)]

(* parse_interaction: what is read, if it is a command of a guild that the *)
(* program supports, with its options.                                     *)
ParseInteraction(s) ==
  {[id |-> Get(r.got, <<"id">>), user |-> Get(Get(Get(r.got, <<"member">>), <<"user">>), <<"id">>),
    data |-> ParseData(Get(r.got, <<"data">>))] :
     r \in {x \in Object(s, Loops(s), "interaction", ConsumeWs(s, 1)) :
              Get(x.got, <<"type">>) = APPLICATION_COMMAND}}

Command(s) ==
  {c \in ParseInteraction(s) :
     c.data.name \in CommandNames /\ NeededOptions(c.data.name) \subseteq DOMAIN c.data.options}

-----------------------------------------------------------------------------
(* The relayer's side: JSON.parse.  A string stands for what it is written *)
(* as, since what the program looks for has no escapes; a number for its   *)
(* digits, since of the options the relayer reads only tkn and to, which   *)
(* are strings.                                                            *)

Str(characters) == [str |-> characters]
Num(characters) == [num |-> characters]
Lit(word) == [lit |-> word]
Obj(fields) == [obj |-> fields]
Arr(values) == [arr |-> values]

(* A quotation mark ends a string unless an odd number of backslashes      *)
(* stand before it.                                                        *)
EndsJsonString(s, i, k) ==
  /\ s[k] = Quote
  /\ \E n \in 0..k-i :
    /\ 2 * n <= k - i
    /\ \A m \in k-2*n..k-1 : s[m] = Backslash
    /\ k - 2 * n = i \/ s[k - 2 * n - 1] # Backslash

JsonString(s, i) ==
  LET end == CHOOSE k \in i+1..Len(s) :
               EndsJsonString(s, i + 1, k) /\ \A n \in i+1..k-1 : ~ EndsJsonString(s, i + 1, n)
  IN  IF At(s, i, Quote) /\ \E k \in i+1..Len(s) : EndsJsonString(s, i + 1, k)
        THEN {[got |-> Str(SubSeq(s, i + 1, end - 1)), index |-> end + 1]}
        ELSE {}

InNumber == Digits \cup {"-", "+", ".", "e", "E"}

AreDigits(t, from, to) == from <= to /\ \A n \in from..to : t[n] \in Digits

(* A sign, digits, a fraction, an exponent.                                *)
IsNumber(t) ==
  \E a \in 0..1, b \in 1..Len(t) : \E c \in b..Len(t) :
    /\ a = 1 => t[1] = "-"
    /\ AreDigits(t, a + 1, b)
    /\ c = b \/ (AreDigits(t, b + 2, c) /\ t[b + 1] = ".")
    /\ \/ c = Len(t)
       \/ /\ t[c + 1] \in {"e", "E"}
          /\ \/ AreDigits(t, c + 2, Len(t))
             \/ AreDigits(t, c + 3, Len(t)) /\ t[c + 2] \in {"+", "-"}

JsonNumber(s, i) ==
  LET end == CHOOSE k \in i..Len(s)+1 :
               (\A n \in i..k-1 : s[n] \in InNumber) /\ (k = Len(s) + 1 \/ s[k] \notin InNumber)
  IN  {[got |-> Num(number), index |-> end] : number \in {t \in {SubSeq(s, i, end - 1)} : IsNumber(t)}}

JsonLiteral(s, i) ==
  {[got |-> Lit(word), index |-> i + 1] : word \in {w \in {"true", "false", "null"} : At(s, i, w)}}

Opening == [obj |-> "{", arr |-> "["]
Closing == [obj |-> "}", arr |-> "]"]

JsonList(s, later, kind, i) ==
  LET inside == ConsumeWs(s, i + 1)
  IN  IF ~ At(s, i, Opening[kind]) THEN {}
      ELSE IF At(s, inside, Closing[kind]) THEN {[got |-> << >>, index |-> inside + 1]}
      ELSE later[i + 1][kind]

JsonValue(s, later, i) ==
  UNION {JsonString(s, i), JsonNumber(s, i), JsonLiteral(s, i),
         {[got |-> Obj(r.got), index |-> r.index] : r \in JsonList(s, later, "obj", i)},
         {[got |-> Arr(r.got), index |-> r.index] : r \in JsonList(s, later, "arr", i)}}

JsonField(s, later, i) ==
  UNION {UNION {{[got |-> [key |-> k.got.str, value |-> v.got], index |-> v.index] :
                   v \in JsonValue(s, later, ConsumeWs(s, c))} :
                  c \in ExpectByte(s, ConsumeWs(s, k.index), ":")} :
           k \in JsonString(s, i)}

(* The fields or values of a list that are left, one at least.             *)
JsonItems(s, later, kind, i) ==
  LET start == ConsumeWs(s, i)
      item == IF kind = "obj" THEN JsonField(s, later, start) ELSE JsonValue(s, later, start)
      After(r, u) ==
        {[got |-> <<r.got>> \o x.got, index |-> x.index] :
           x \in UNION {later[k][kind] : k \in ExpectByte(s, u, ",")}}
          \cup {[got |-> <<r.got>>, index |-> n] : n \in ExpectByte(s, u, Closing[kind])}
  IN  UNION {After(r, ConsumeWs(s, r.index)) : r \in item}

JsonLists(s) ==
  LET json[i \in 1..Len(s)+1] ==
        [kind \in {"obj", "arr"} |-> JsonItems(s, [k \in i+1..Len(s)+1 |-> json[k]], kind, i)]
  IN  json

(* The objects that the whole text is.                                     *)
JsonParse(s) ==
  {r.got.obj : r \in {x \in JsonValue(s, JsonLists(s), ConsumeWs(s, 1)) :
                       "obj" \in DOMAIN x.got /\ ConsumeWs(s, x.index) = Len(s) + 1}}

-----------------------------------------------------------------------------
(* What the relayer finds in it.                                           *)

Text(v) == IF "str" \in DOMAIN v THEN v.str ELSE v.num

Options(v) ==
  LET data == Get(v, <<"data">>).obj
  IN  IF Has(data, <<"options">>) THEN Get(data, <<"options">>).arr ELSE << >>

NameOf(option) == Get(option.obj, <<"name">>).str

(* optionStringValue, which takes the first option of a name where the     *)
(* program takes the last.                                                 *)
OptionStringValue(options, name) ==
  Text(Get(options[CHOOSE n \in 1..Len(options) :
                     /\ NameOf(options[n]) = name
                     /\ \A m \in 1..n-1 : NameOf(options[m]) # name].obj, <<"value">>))

ReadByRelayer(v) ==
  LET options == Options(v)
      given == {o \in OptionNames : \E n \in 1..Len(options) : NameOf(options[n]) = o}
  IN  [id |-> Get(v, <<"id">>).str,
       user |-> Get(Get(Get(v, <<"member">>).obj, <<"user">>).obj, <<"id">>).str,
       data |-> [name |-> Get(Get(v, <<"data">>).obj, <<"name">>).str,
                 options |-> [name \in given |-> OptionStringValue(options, name)]]]

IsComplete(v) == \A key \in Needed("interaction") : Has(v, key)

IsForTheProgram(v) ==
  /\ IsComplete(v)
  /\ Get(v, <<"type">>).num = APPLICATION_COMMAND
  /\ ReadByRelayer(v).data.name \in CommandNames
  /\ NeededOptions(ReadByRelayer(v).data.name) \subseteq DOMAIN ReadByRelayer(v).data.options

(* Discord gives the options of a command different names.                 *)
OptionsDiffer(v) ==
  \A n, m \in 1..Len(Options(v)) : NameOf(Options(v)[n]) = NameOf(Options(v)[m]) => n = m

-----------------------------------------------------------------------------
(* The shape of the bodies Discord writes, where the program looks: ids    *)
(* are strings of digits, what is needed is there.  Elsewhere they may be  *)
(* anything but numbers that are not integers.                             *)

Parts(v) ==
  IF "obj" \in DOMAIN v THEN {v.obj[n].value : n \in 1..Len(v.obj)}
  ELSE IF "arr" \in DOMAIN v THEN {v.arr[n] : n \in 1..Len(v.arr)}
  ELSE {}

WithParts(values) == values \cup UNION {Parts(w) : w \in values}

(* A value and what is in it, so deep.  A body has fewer levels than       *)
(* symbols, so at its length nothing is left out.                          *)
Inside(v, depth) ==
  LET inside[d \in 0..depth] == IF d = 0 THEN {v} ELSE WithParts(inside[d - 1])
  IN  inside[depth]

(* Integers that fit, whatever their sign, are the only numbers in it.     *)
Unsigned(number) == IF number[1] = "-" THEN SubSeq(number, 2, Len(number)) ELSE number

OnlyIntegers(v, depth) ==
  \A w \in Inside(v, depth) : "num" \in DOMAIN w => IsDecimal(Unsigned(w.num))

IsText(v) == "str" \in DOMAIN v
IsId(v) == IsText(v) /\ IsDecimal(v.str)

(* A number without a sign and an exponent.                                *)
IsAmount(v) == "num" \in DOMAIN v /\ \A n \in 1..Len(v.num) : v.num[n] \in Digits \cup {"."}

HasFields(v, where) == "obj" \in DOMAIN v /\ \A key \in Needed(where) : Has(v.obj, key)
Fields(v) == {v.obj[n] : n \in 1..Len(v.obj)}

IsUser(v, depth) ==
  /\ HasFields(v, "user")
  /\ \A f \in Fields(v) : IF f.key = <<"id">> THEN IsId(f.value) ELSE OnlyIntegers(f.value, depth)

IsMember(v, depth) ==
  /\ HasFields(v, "member")
  /\ \A f \in Fields(v) :
       IF f.key = <<"user">> THEN IsUser(f.value, depth) ELSE OnlyIntegers(f.value, depth)

IsOption(v, depth) ==
  /\ HasFields(v, "option")
  /\ \A f \in Fields(v) :
       CASE f.key = <<"name">> -> IsText(f.value)
         [] f.key = <<"value">> -> IsText(f.value) \/ IsAmount(f.value)
         [] OTHER -> OnlyIntegers(f.value, depth)

IsData(v, depth) ==
  /\ HasFields(v, "data")
  /\ \A f \in Fields(v) :
       CASE f.key = <<"name">> -> IsText(f.value)
         [] f.key = <<"options">> -> "arr" \in DOMAIN f.value /\ \A o \in Parts(f.value) : IsOption(o, depth)
         [] OTHER -> OnlyIntegers(f.value, depth)

IsInteraction(v, depth) ==
  /\ HasFields(v, "interaction")
  /\ \A f \in Fields(v) :
       CASE f.key = <<"id">> -> IsId(f.value)
         [] f.key = <<"type">> -> "num" \in DOMAIN f.value /\ IsDecimal(f.value.num)
         [] f.key = <<"member">> -> IsMember(f.value, depth)
         [] f.key = <<"data">> -> IsData(f.value, depth)
         [] OTHER -> OnlyIntegers(f.value, depth)

-----------------------------------------------------------------------------
(* Discord writes a body field by field, in any order.                     *)
VARIABLES
  gap,       \* what it puts between tokens
  written,   \* the keys of the fields it has written
  body       \* its bytes

vars == <<gap, written, body>>

Gaps == {<< >>, <<Blank>>}

Init == gap \in Gaps /\ written = {} /\ body = <<"{">>

AddField ==
  \E f \in BodyFields :
    /\ f.key \notin written /\ f.gap = gap
    /\ written' = written \cup {f.key}
    /\ body' = body \o (IF written = {} THEN gap ELSE <<",">> \o gap) \o f.text \o gap
    /\ UNCHANGED gap

Next == AddField

Spec == Init /\ [][Next]_vars

Bytes == body \o <<"}">>

(* Whatever the program reads in a body, JSON.parse reads too, whatever    *)
(* the order of the fields and whatever else the body holds: ids of other  *)
(* objects, strings that look like fields (JsonParser).                    *)
NothingMisread ==
  \A v \in JsonParse(Bytes), c \in Command(Bytes) :
    IsComplete(v) /\ (OptionsDiffer(v) => c = ReadByRelayer(v))

(* And it does read every command, unless a body is not of the shape that *)
(* Discord gives it, has an amount with an exponent, or in what is skipped *)
(* a number that is no integer or fits no u64 (parse_interaction,          *)
(* skip_value).                                                            *)
EveryCommandRead ==
  \A v \in JsonParse(Bytes) :
    IsForTheProgram(v) /\ IsInteraction(Obj(v), Len(Bytes))
      => Command(Bytes) # {}

=============================================================================
