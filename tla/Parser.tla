------------------------------- MODULE Parser -------------------------------
(* The push parser of parser.c: a table-driven automaton that reads a        *)
(* document byte by byte, possibly in several chunks, and calls a delegate   *)
(* function for every value it completes.                                    *)
(*                                                                           *)
(* A byte is a class of JsonBytes; a step of ReadByte is one round of the    *)
(* switch in parse().  Handlers that run an inner loop over further bytes    *)
(* are split at those bytes: the maps "in_key", "in_null", "in_true" and     *)
(* "in_false" stand for being inside such a loop.  What the digits of a      *)
(* number are is left to module Number, so the switch to a big number is a   *)
(* choice here.                                                              *)
(*                                                                           *)
(* gram is a history variable: the reader of JsonGrammar over the same bytes.*)
EXTENDS JsonBytes

CONSTANTS
    Alphabet,      \* the byte classes of the inputs considered
    Entries,       \* the entry points called: of "parse", "load", "file"
    AfterNumber,   \* the reference has texts after one that is a number
    JustOnes,      \* the values of the just_one option considered
    MaxDepth       \* bound on nesting, for model checking

ASSUME ParserAssumption ==
    /\ Alphabet \subseteq Classes
    /\ Entries \subseteq {"parse", "load", "file"}
    /\ AfterNumber \in BOOLEAN
    /\ JustOnes \subseteq BOOLEAN /\ JustOnes # {}
    /\ MaxDepth \in Nat

VARIABLES
    map,       \* p->map: the table the next byte is looked up in
    next_map,  \* p->next_map: the table to return to after a string
    stack,     \* p->stack[1..depth]: the open containers
    type,      \* p->type: the number being collected
    ri,        \* p->ri: letters read, hex digits read or UTF-8 bytes owed
    matches,   \* a literal is being read and p->token is a prefix of it
    just_one,  \* p->just_one
    entry,     \* the entry point of the current call
    phase,     \* where the call is
    out,       \* the delegate calls made by the last step
    gram,      \* history: the reference reader over the same bytes
    split      \* history: a chunk of this input ended inside a top-level number

vars   == <<map, next_map, stack, type, ri, matches, just_one, entry, phase, out, gram, split>>

Grammar == INSTANCE JsonGrammar

-----------------------------------------------------------------------------
(* The tables: for each map, the action a byte selects.  A byte that is not  *)
(* in a table selects CHAR_ERR.                                              *)

All(classes, action) == [c \in classes |-> action]
f ++ g == [c \in DOMAIN f \cup DOMAIN g |-> IF c \in DOMAIN f THEN f[c] ELSE g[c]]

skip      == [sp |-> "SKIP_CHAR", tab |-> "SKIP_CHAR", nl |-> "SKIP_NEWLINE"]
value_at  == [quote |-> "VAL_QUOTE", minus |-> "VAL_NEG", zero |-> "VAL0",
              digit |-> "VAL_DIGIT", lb |-> "OPEN_ARRAY", lc |-> "OPEN_OBJECT",
              n |-> "VAL_NULL", t |-> "VAL_TRUE", f |-> "VAL_FALSE"]
num_end   == [sp |-> "NUM_SPC", tab |-> "NUM_SPC", nl |-> "NUM_NEWLINE",
              comma |-> "NUM_COMMA", rb |-> "NUM_CLOSE_ARRAY", rc |-> "NUM_CLOSE_OBJECT"]
comma_at  == [comma |-> "AFTER_COMMA"]
name_at   == [quote |-> "KEY_QUOTE"]

value_map == skip ++ value_at ++ [rb |-> "CLOSE_ARRAY", rc |-> "CLOSE_OBJECT"]
\* Variant: the second letter is forgotten.
null_map_short == comma_at ++ All({"l"}, "TOKEN_OK")
null_map  == comma_at ++ All({"u", "l"}, "TOKEN_OK")
true_map  == comma_at ++ All({"r", "u", "e"}, "TOKEN_OK")
false_map == comma_at ++ All({"a", "l", "s", "e"}, "TOKEN_OK")
comma_map == skip ++ value_at
after_map == skip ++ comma_at ++ [rb |-> "CLOSE_ARRAY", rc |-> "CLOSE_OBJECT"]
key1_map  == skip ++ name_at ++ [rc |-> "CLOSE_OBJECT"]
key_map   == skip ++ name_at
colon_map == skip ++ [colon |-> "COLON_COLON"]

neg_map      == [zero |-> "NUM_ZERO", digit |-> "NEG_DIGIT"]
zero_map     == num_end ++ [dot |-> "NUM_DOT"]
digit_map    == num_end ++ [dot |-> "NUM_DOT"] ++ All(Digit, "NUM_DIGIT") ++ All(ExpLetter, "FRAC_E")
dot_map      == All(Digit, "NUM_FRAC")
frac_map     == num_end ++ All(Digit, "NUM_FRAC") ++ All(ExpLetter, "FRAC_E")
exp_sign_map == All({"plus", "minus"}, "EXP_SIGN") ++ All(Digit, "EXP_DIGIT")
exp_zero_map == All(Digit, "EXP_DIGIT")
exp_map      == num_end ++ All(Digit, "EXP_DIGIT")

big_digit_map    == num_end ++ [dot |-> "BIG_DOT"] ++ All(Digit, "BIG_DIGIT") ++ All(ExpLetter, "BIG_E")
big_dot_map      == All(Digit, "BIG_FRAC")
big_frac_map     == num_end ++ All(Digit, "BIG_FRAC") ++ All(ExpLetter, "BIG_E")
big_exp_sign_map == All({"plus", "minus"}, "BIG_EXP_SIGN") ++ All(Digit, "BIG_EXP")
big_exp_zero_map == All(Digit, "BIG_EXP")
big_exp_map      == num_end ++ All(Digit, "BIG_EXP")

string_map == All(Printable \ {"quote", "bslash"}, "STR_OK") ++
              [quote |-> "STR_QUOTE", bslash |-> "STR_SLASH",
               lead2 |-> "UTF1", lead3 |-> "UTF2", lead4 |-> "UTF3"]
esc_map    == All({"quote", "bslash", "slash", "b", "f", "n", "r", "t"}, "ESC_OK") ++
              [u |-> "ESC_U"]
u_map      == All(Digit \cup HexLetter, "U_OK")
utf_map    == [follow |-> "UTFX"]
trail_map  == skip

Table == [
    value |-> value_map, null |-> null_map, true |-> true_map, false |-> false_map,
    comma |-> comma_map, after |-> after_map, key1 |-> key1_map, key |-> key_map,
    colon |-> colon_map, neg |-> neg_map, zero |-> zero_map, digit |-> digit_map,
    dot |-> dot_map, frac |-> frac_map, exp_sign |-> exp_sign_map,
    exp_zero |-> exp_zero_map, exp |-> exp_map, big_digit |-> big_digit_map,
    big_dot |-> big_dot_map, big_frac |-> big_frac_map,
    big_exp_sign |-> big_exp_sign_map, big_exp_zero |-> big_exp_zero_map,
    big_exp |-> big_exp_map, string |-> string_map, esc |-> esc_map, u |-> u_map,
    utf |-> utf_map, trail |-> trail_map]

\* Being inside the loop of KEY_QUOTE, or in the look-ahead of VAL_NULL etc.
Lookahead == [in_null |-> "null", in_true |-> "true", in_false |-> "false"]
Inside    == {"in_key"} \cup DOMAIN Lookahead
Maps      == DOMAIN Table \cup Inside

Action(c) == IF map \in Inside THEN map
             ELSE IF c \in DOMAIN Table[map] THEN Table[map][c] ELSE "CHAR_ERR"
-----------------------------------------------------------------------------
depth    == Len(stack)
InObject == depth > 0 /\ stack[depth] = "object"
AfterValue == IF stack = <<>> THEN "value" ELSE "after"

\* The check that ends each round of the switch: with just_one set, a complete
\* top-level value leaves only white space to come.
Trail(m, st, one) == IF st = <<>> /\ m = "value" /\ one THEN "trail" ELSE m

Goto(m)  == map' = Trail(m, stack', just_one)
Emit(es) == out' = es /\ phase' = "reading"

\* calc_num: hands over the number collected and forgets it.
NumberCall == CASE type = "int"     -> <<Call("add_int", Context(stack))>>
                [] type = "decimal" -> <<Call("add_float", Context(stack))>>
                [] type = "big"     -> <<Call("add_big", Context(stack))>>
                [] OTHER            -> <<>>
\* big_change: the digits move to p->buf.
BigType == IF type \in {"int", "decimal"} THEN "big" ELSE type

\* Handlers that only select another table.
target == [COLON_COLON |-> "value", NUM_ZERO |-> "zero", NEG_DIGIT |-> "digit",
           EXP_SIGN |-> "exp_zero", BIG_DIGIT |-> "big_digit", BIG_DOT |-> "big_dot",
           BIG_FRAC |-> "big_frac", BIG_E |-> "big_exp_sign",
           BIG_EXP_SIGN |-> "big_exp_zero", BIG_EXP |-> "big_exp",
           STR_SLASH |-> "esc", ESC_OK |-> "string"]
Advance(c) ==
    /\ Action(c) \in DOMAIN target
    /\ UNCHANGED <<next_map, stack, type, ri, matches>>
    /\ Goto(target[Action(c)]) /\ Emit(<<>>)

Skip(c) ==
    /\ Action(c) \in {"SKIP_CHAR", "SKIP_NEWLINE", "STR_OK"}
    /\ UNCHANGED <<next_map, stack, type, ri, matches>>
    /\ Goto(map) /\ Emit(<<>>)

Comma(c) ==
    /\ Action(c) = "AFTER_COMMA"
    /\ matches' = FALSE  \* the tables of the literals have the comma, too
    /\ UNCHANGED <<next_map, stack, type, ri>>
    /\ Goto(IF InObject THEN "key" ELSE "comma") /\ Emit(<<>>)

\* A key is read by an inner loop as long as its bytes need no decoding; any
\* other byte is read again with string_map and colon_map to follow.
KeyQuote(c) ==
    /\ Action(c) = "KEY_QUOTE"
    /\ UNCHANGED <<next_map, stack, type, ri, matches>>
    /\ Goto("in_key") /\ Emit(<<>>)

InKey(c) ==
    /\ Action(c) = "in_key"
    /\ UNCHANGED <<stack, type, matches>>
    /\ out' = <<>>
    /\ phase' = IF c \in DOMAIN string_map THEN "reading" ELSE "raised"
    /\ ri' = IF c \in Lead THEN Follows[c] ELSE ri
    /\ IF c \in Printable \ {"bslash"}
       THEN map' = (IF c = "quote" THEN "colon" ELSE "in_key") /\ UNCHANGED next_map
       ELSE /\ map' = CASE c = "bslash" -> "esc" [] c \in Lead -> "utf" [] OTHER -> "string"
            /\ next_map' = "colon"

ValQuote(c) ==
    /\ Action(c) = "VAL_QUOTE"
    /\ next_map' = AfterValue
    /\ UNCHANGED <<stack, type, ri, matches>>
    /\ Goto("string") /\ Emit(<<>>)

\* The quote that ends a string read with string_map, a key or a value.
StrQuote(c) ==
    /\ Action(c) = "STR_QUOTE"
    /\ UNCHANGED <<next_map, stack, type, ri, matches>>
    /\ Goto(next_map) /\ Emit(<<Call("add_str", Context(stack))>>)

\* \uXXXX: four hex digits, counted by ri.
EscU(c) ==
    /\ Action(c) = "ESC_U"
    /\ ri' = 0
    /\ UNCHANGED <<next_map, stack, type, matches>>
    /\ Goto("u") /\ Emit(<<>>)
UOk(c) ==
    /\ Action(c) = "U_OK"
    /\ ri' = ri + 1
    /\ UNCHANGED <<next_map, stack, type, matches>>
    /\ Goto(IF 4 <= ri' THEN "string" ELSE "u") /\ Emit(<<>>)

\* UTF-8: the lead byte announces how many bytes follow, UTFX counts them down.
UtfLead(c) ==
    /\ Action(c) \in {"UTF1", "UTF2", "UTF3"}
    /\ ri' = [UTF1 |-> 1, UTF2 |-> 2, UTF3 |-> 3][Action(c)]
    /\ UNCHANGED <<next_map, stack, type, matches>>
    /\ Goto("utf") /\ Emit(<<>>)
UtfX(c) ==
    /\ Action(c) = "UTFX"
    /\ ri' = ri - 1
    /\ UNCHANGED <<next_map, stack, type, matches>>
    /\ Goto(IF ri' <= 0 THEN "string" ELSE "utf") /\ Emit(<<>>)

Open(c) ==
    \E kind \in {"array", "object"} :
        /\ Action(c) = IF kind = "array" THEN "OPEN_ARRAY" ELSE "OPEN_OBJECT"
        /\ depth < MaxDepth
        /\ stack' = Append(stack, kind)
        /\ UNCHANGED <<next_map, type, ri, matches>>
        /\ Goto(IF kind = "array" THEN "value" ELSE "key1")
        /\ Emit(<<Call(OpenFun(kind), Context(stack))>>)

\* A close that nothing was opened for.  Variant: only the depth is looked at.
UnmatchedDepth(kind) == depth = 0
Unmatched(kind)      == depth = 0 \/ stack[depth] # kind

AfterClose == IF depth = 1 THEN "value" ELSE "after"
\* NUM_CLOSE_ARRAY and NUM_CLOSE_OBJECT finish the number and fall through.
Close(c) ==
    \E kind \in {"array", "object"} :
        LET plain == IF kind = "array" THEN "CLOSE_ARRAY" ELSE "CLOSE_OBJECT"
            num   == IF kind = "array" THEN "NUM_CLOSE_ARRAY" ELSE "NUM_CLOSE_OBJECT"
            calls == IF Action(c) = num THEN NumberCall ELSE <<>>
        IN  /\ Action(c) \in {plain, num}
            /\ type' = IF Action(c) = num THEN "none" ELSE type
            /\ UNCHANGED <<next_map, ri, matches>>
            /\ IF Unmatched(kind)
               THEN map' = AfterClose /\ stack' = stack /\ out' = calls /\ phase' = "raised"
               ELSE /\ stack' = SubSeq(stack, 1, depth - 1)
                    /\ Goto(AfterClose)
                    /\ Emit(Append(calls, Call(CloseFun(kind), Context(stack'))))

NumComma(c) ==
    /\ Action(c) = "NUM_COMMA"
    /\ type' = "none"
    /\ UNCHANGED <<next_map, stack, ri, matches>>
    /\ Goto(IF InObject THEN "key" ELSE "comma") /\ Emit(NumberCall)

\* The number is handed over but its table stays.
NumSpace(c) ==
    /\ Action(c) \in {"NUM_SPC", "NUM_NEWLINE"}
    /\ type' = "none"
    /\ UNCHANGED <<next_map, stack, ri, matches>>
    /\ Goto(map) /\ Emit(NumberCall)

number == [VAL0 |-> "zero", VAL_NEG |-> "neg", VAL_DIGIT |-> "digit"]
StartNumber(c) ==
    /\ Action(c) \in DOMAIN number
    /\ type' = "int"
    /\ UNCHANGED <<next_map, stack, ri, matches>>
    /\ Goto(number[Action(c)]) /\ Emit(<<>>)

\* '.' or 'e': the number is a decimal from here on.
Decimal(c) ==
    /\ Action(c) \in {"NUM_DOT", "FRAC_E"}
    /\ type' = "decimal"
    /\ UNCHANGED <<next_map, stack, ri, matches>>
    /\ Goto(IF Action(c) = "NUM_DOT" THEN "dot" ELSE "exp_sign") /\ Emit(<<>>)

\* One more digit, or the digit that makes the number a big one.
digits     == [NUM_DIGIT |-> "digit", NUM_FRAC |-> "frac", EXP_DIGIT |-> "exp"]
big_digits == [NUM_DIGIT |-> "big_digit", NUM_FRAC |-> "big_frac", EXP_DIGIT |-> "big_exp"]
MoreDigits(c) ==
    /\ Action(c) \in DOMAIN digits
    /\ UNCHANGED <<next_map, stack, ri, matches>>
    /\ \/ Goto(digits[Action(c)]) /\ UNCHANGED type
       \/ /\ map # "exp_sign" /\ map # "exp_zero"
          /\ Goto(big_digits[Action(c)]) /\ type' = BigType
    /\ Emit(<<>>)

\* VAL_NULL, VAL_TRUE, VAL_FALSE look ahead in the chunk for the other letters.
Literal(c) ==
    /\ Action(c) \in {"VAL_NULL", "VAL_TRUE", "VAL_FALSE"}
    /\ ri' = 1 /\ matches' = TRUE
    /\ UNCHANGED <<next_map, stack, type>>
    /\ Goto([VAL_NULL |-> "in_null", VAL_TRUE |-> "in_true", VAL_FALSE |-> "in_false"][Action(c)])
    /\ Emit(<<>>)

\* One more letter of literal w: nothing is decided before as many bytes as
\* the literal has are there.
Letters(w, c) ==
    /\ ri' = ri + 1
    /\ UNCHANGED <<next_map, stack, type>>
    /\ LET good == matches /\ c = Words[w][ri']
       IN  IF ri' < Len(Words[w])
           THEN matches' = good /\ Goto(map) /\ Emit(<<>>)
           ELSE /\ matches' = FALSE
                /\ IF good THEN Goto(AfterValue) /\ Emit(<<Call(LiteralFun[w], Context(stack))>>)
                   ELSE map' = map /\ out' = <<>> /\ phase' = "raised"
LookAhead(c) == map \in DOMAIN Lookahead /\ Letters(Lookahead[map], c)
TokenOk(c)   == map \in DOMAIN Words /\ Action(c) = "TOKEN_OK" /\ Letters(map, c)

\* byte_error: like every error it abandons the call with the parser as it stands.
CharErr(c) ==
    /\ Action(c) = "CHAR_ERR"
    /\ UNCHANGED <<map, next_map, stack, type, ri, matches>>
    /\ out' = <<>> /\ phase' = "raised"

\* One round of the switch.
Reading == phase \in {"fresh", "reading"}
ReadByte(c) ==
    /\ Reading
    /\ \/ Advance(c) \/ Skip(c) \/ Comma(c) \/ KeyQuote(c) \/ InKey(c) \/ ValQuote(c)
       \/ StrQuote(c) \/ EscU(c) \/ UOk(c) \/ UtfLead(c) \/ UtfX(c) \/ Open(c)
       \/ Close(c) \/ NumComma(c) \/ NumSpace(c) \/ StartNumber(c) \/ Decimal(c)
       \/ MoreDigits(c) \/ Literal(c) \/ LookAhead(c) \/ TokenOk(c) \/ CharErr(c)
    /\ gram' = Grammar!Step(gram, c)
    /\ UNCHANGED <<just_one, entry, split>>
-----------------------------------------------------------------------------
(* Calls.                                                                    *)

Idle == phase \in {"new", "returned", "raised"}

SetJustOne(v) ==
    /\ Idle /\ just_one' = v
    /\ UNCHANGED <<map, next_map, stack, type, ri, matches, entry, phase, out, gram, split>>

\* parser_parse, parser_load, parser_file: parser_reset and p->start.  type and ri
\* keep what an earlier call left in them; token does, too, but nothing reads it
\* before a new literal is begun in it.
Begin(e) ==
    /\ Idle
    /\ entry' = e
    /\ phase' = IF e = "parse" THEN "reading" ELSE "waiting"
    /\ map' = "value" /\ next_map' = "none" /\ stack' = <<>>
    /\ out' = <<>> /\ gram' = Grammar!Start(~just_one) /\ split' = FALSE
    /\ matches' = FALSE
    /\ UNCHANGED <<type, ri, just_one>>

\* load and file hand parse() the next chunk of the input, never an empty one.
Chunk ==
    /\ phase = "waiting" /\ phase' = "fresh"
    /\ out' = <<>>
    /\ UNCHANGED <<map, next_map, stack, type, ri, matches, just_one, entry, gram, split>>

\* The maps that the end of parse() takes for a complete number.
number_maps == {"zero", "digit", "frac", "exp_zero", "exp", "big_digit", "big_frac",
                "big_exp_sign", "big_exp"}

\* A number at the top level ends with its chunk.  Variant: at any depth.
EndsAnywhere == map \in number_maps
EndsNumber   == stack = <<>> /\ map \in number_maps

\* The end of the chunk (the NUL): a number at the top level is handed over.
\* last: the chunk is the last one of the input.
EndChunk(last) ==
    /\ phase = "reading"
    /\ entry = "parse" => last
    /\ phase' = IF last THEN "ended" ELSE "waiting"
    /\ split' = (split \/ (~last /\ stack = <<>> /\ map \in number_maps))
    /\ out'  = IF EndsNumber THEN NumberCall ELSE <<>>
    /\ type' = IF EndsNumber THEN "none" ELSE type
    /\ map' = CASE map = "in_key"            -> "string"
                [] map \in DOMAIN Lookahead -> Lookahead[map]
                [] OTHER                    -> map
    /\ next_map' = IF map = "in_key" THEN "colon" ELSE next_map
    /\ gram' = IF last THEN Grammar!Finish(gram) ELSE [gram EXCEPT !.out = <<>>]
    /\ UNCHANGED <<stack, ri, matches, just_one, entry>>

\* Variant: the containers that load() leaves open are not looked at.
IncompleteParse == entry = "parse" /\ (depth > 0 \/ (ri > 0 /\ map \in DOMAIN Words))

\* What each entry point checks once the input has ended: parse() runs
\* validate_document_end, load() looks at the depth only, file() at nothing.
Incomplete ==
    \/ entry = "parse" /\ ri > 0 /\ map \in DOMAIN Words
    \/ entry \in {"parse", "load"} /\ depth > 0
Return ==
    /\ phase = "ended"
    /\ phase' = IF Incomplete THEN "raised" ELSE "returned"
    /\ out' = <<>>
    /\ UNCHANGED <<map, next_map, stack, type, ri, matches, just_one, entry, gram, split>>

\* An empty input: readpartial raises EOFError, which load_rescue swallows, and
\* read() returns 0.
NoInput ==
    /\ phase = "waiting" /\ phase' = "returned"
    /\ gram = Grammar!Start(~just_one)
    /\ out' = <<>>
    /\ UNCHANGED <<map, next_map, stack, type, ri, matches, just_one, entry, gram, split>>

Init ==
    /\ map = "value" /\ next_map = "none" /\ stack = <<>>
    /\ type = "none" /\ ri = 0 /\ matches = FALSE
    /\ just_one = FALSE /\ entry = "none" /\ phase = "new" /\ out = <<>>
    /\ gram = Grammar!Start(TRUE) /\ split = FALSE

Next ==
    \/ \E v \in JustOnes : SetJustOne(v)
    \/ \E e \in Entries : Begin(e)
    \/ Chunk
    \/ \E c \in Alphabet : ReadByte(c)
    \/ \E last \in BOOLEAN : EndChunk(last)
    \/ Return
    \/ NoInput

Spec == Init /\ [][Next]_vars
-----------------------------------------------------------------------------
TypeOK ==
    /\ map \in Maps /\ next_map \in {"none", "colon", "value", "after"}
    /\ stack \in Seq({"array", "object"}) /\ Len(stack) <= MaxDepth
    /\ type \in {"none", "int", "decimal", "big"}
    /\ ri \in 0..5 /\ matches \in BOOLEAN
    /\ just_one \in BOOLEAN /\ entry \in Entries \cup {"none"}
    /\ phase \in {"new", "fresh", "reading", "waiting", "ended", "returned", "raised"}
    /\ split \in BOOLEAN
=============================================================================
