----------------------------- MODULE ParserProofs -----------------------------
(* Proofs about the push parser: whatever the input and whichever entry      *)
(* points are called in whatever order, the delegate sees nested calls only. *)
(* The contents of the tables do not matter for that.                        *)
(*                                                                           *)
(* The second part spells the tables out: what each handler does, on which   *)
(* bytes and in which maps, and that the stored state keeps its types.       *)
(*                                                                           *)
(* The third part is about what the parser reads: however a text is cut into *)
(* chunks and whichever entry point reads it, the calls are those of the     *)
(* grammar, the texts that raise and the texts that return are the right     *)
(* ones, and the exceptions are those the properties list.  The grammar is   *)
(* read beside the parser (the variable gram): first what it does with a     *)
(* byte, record by record; then where the two stand when they agree; and,    *)
(* handler by handler, that they still do after a byte, or that one of them  *)
(* has not taken it.                                                         *)
EXTENDS ParserGrammar, SequenceTheorems, TLAPS

Kinds == {"array", "object"}

\* The part of the state the calls depend on: the stack holds the kinds of the
\* open containers, and a number has one of four types.
Nesting == stack \in Seq(Kinds) /\ type \in {"none", "int", "decimal", "big"}

LEMMA AppendPair ==
    ASSUME NEW a, NEW b
    PROVE  Append(<<a>>, b) = <<a, b>>
<1>. DEFINE S == {a, b}
<1>1. <<a>> \in Seq(S) /\ <<a, b>> \in Seq(S) OBVIOUS
<1>2. Append(<<a>>, b) \in Seq(S) BY <1>1
<1>3. Len(Append(<<a>>, b)) = 2 /\ Len(<<a, b>>) = 2 BY <1>1
<1>4. \A i \in 1..2 : Append(<<a>>, b)[i] = <<a, b>>[i] BY <1>1
<1>. QED BY <1>1, <1>2, <1>3, <1>4, SeqEqual

\* The operators of the protocol are the parser's own.
LEMMA SameCalls ==
    /\ \A s : Protocol!Context(s) = Context(s)
    /\ \A f, x : Protocol!Call(f, x) = Call(f, x)
    /\ \A k : Protocol!OpenFun(k) = OpenFun(k) /\ Protocol!CloseFun(k) = CloseFun(k)
BY DEF Protocol!Context, Context, Protocol!Call, Call, Protocol!OpenFun, OpenFun,
       Protocol!CloseFun, CloseFun

\* A number is delivered by one call from the row of the innermost container, or,
\* when none was collected, by no call.
LEMMA NumberCalls ==
    ASSUME Nesting
    PROVE  \/ NumberCall = <<>>
           \/ \E fun \in Protocol!NumberFuns : NumberCall = <<Call(fun, Context(stack))>>
BY DEF Nesting, NumberCall, Protocol!NumberFuns

\* A step that delivers a pending number or nothing and leaves the stack alone.
LEMMA Delivers ==
    ASSUME Nesting, stack' = stack, out' = NumberCall
    PROVE  Protocol!Silent \/ Protocol!Value
BY NumberCalls, SameCalls
   DEF Protocol!Silent, Protocol!Value, Protocol!ValueFuns, Protocol!NumberFuns

\* The handlers that complete nothing.
LEMMA SilentBytes ==
    ASSUME NEW c,
           \/ Advance(c) \/ Skip(c) \/ Comma(c) \/ KeyQuote(c) \/ InKey(c) \/ ValQuote(c)
           \/ EscU(c) \/ UOk(c) \/ UtfLead(c) \/ UtfX(c) \/ StartNumber(c) \/ Decimal(c)
           \/ MoreDigits(c) \/ Literal(c) \/ CharErr(c)
    PROVE  Protocol!Silent
BY DEF Advance, Skip, Comma, KeyQuote, InKey, ValQuote, EscU, UOk, UtfLead, UtfX,
       StartNumber, Decimal, MoreDigits, Literal, CharErr, Emit, Protocol!Silent

\* The end of a string.
LEMMA StrQuoteStep ==
    ASSUME NEW c, StrQuote(c)
    PROVE  Protocol!Value
BY SameCalls DEF StrQuote, Emit, Protocol!Value, Protocol!ValueFuns

\* The letters of a literal, of which the last one delivers it.
LEMMA LettersStep ==
    ASSUME NEW c, LookAhead(c) \/ TokenOk(c)
    PROVE  Protocol!Silent \/ Protocol!Value
<1>1. PICK w \in DOMAIN Words : Letters(w, c)
  <2>1. CASE LookAhead(c)
    <3>1. map \in DOMAIN Lookahead /\ Letters(Lookahead[map], c)
      BY <2>1 DEF LookAhead
    <3>2. Lookahead[map] \in DOMAIN Words
      BY <3>1 DEF Lookahead, Words
    <3>. QED BY <3>1, <3>2
  <2>2. CASE TokenOk(c)
    BY <2>2 DEF TokenOk
  <2>. QED BY <2>1, <2>2
<1>2. LiteralFun[w] \in Protocol!ValueFuns
  BY DEF Words, LiteralFun, Protocol!ValueFuns
<1>3. stack' = stack /\ (out' = <<>> \/ out' = <<Call(LiteralFun[w], Context(stack))>>)
  BY <1>1 DEF Letters, Emit
<1>. QED BY <1>2, <1>3, SameCalls DEF Protocol!Silent, Protocol!Value

\* An opening bracket.
LEMMA OpenStep ==
    ASSUME NEW c, Open(c)
    PROVE  Protocol!Open
BY SameCalls DEF Open, Emit, Protocol!Open, Protocol!Kinds

\* A closing bracket; one that nothing was opened for is an error.
LEMMA CloseStep ==
    ASSUME Nesting, NEW c, Close(c)
    PROVE  /\ stack' \in Seq(Kinds)
           /\ Protocol!Silent \/ Protocol!Value \/ Protocol!Close
<1>1. PICK kind \in Kinds, calls \in {NumberCall, <<>>} :
           \/ /\ Unmatched(kind) /\ stack' = stack /\ out' = calls
           \/ /\ ~Unmatched(kind) /\ stack' = SubSeq(stack, 1, depth - 1)
              /\ out' = Append(calls, Call(CloseFun(kind), Context(stack')))
  BY DEF Close, Kinds, Emit
<1>2. CASE Unmatched(kind) /\ stack' = stack /\ out' = calls
  BY <1>2, Delivers DEF Nesting, Protocol!Silent
<1>3. CASE /\ ~Unmatched(kind) /\ stack' = SubSeq(stack, 1, depth - 1)
           /\ out' = Append(calls, Call(CloseFun(kind), Context(stack')))
  <2>1. stack \in Seq(Kinds) /\ stack # <<>> /\ stack[Len(stack)] = kind
    BY <1>3 DEF Unmatched, depth, Nesting
  <2>2. stack' \in Seq(Kinds)
    BY <1>3, <2>1 DEF depth
  <2>3. \/ out' = <<Call(CloseFun(kind), Context(stack'))>>
        \/ \E fun \in Protocol!NumberFuns :
              out' = <<Call(fun, Context(stack)), Call(CloseFun(kind), Context(stack'))>>
    <3>1. CASE calls = <<>>
      BY <1>3, <3>1
    <3>2. CASE \E fun \in Protocol!NumberFuns : calls = <<Call(fun, Context(stack))>>
      <4>1. PICK fun \in Protocol!NumberFuns : calls = <<Call(fun, Context(stack))>>
        BY <3>2
      <4>2. out' = <<Call(fun, Context(stack)), Call(CloseFun(kind), Context(stack'))>>
        <5>. DEFINE a == Call(fun, Context(stack))
                    b == Call(CloseFun(kind), Context(stack'))
        <5>1. out' = Append(<<a>>, b) BY <1>3, <4>1
        <5>. HIDE DEF a, b
        <5>2. Append(<<a>>, b) = <<a, b>> BY AppendPair
        <5>. QED BY <5>1, <5>2 DEF a, b
      <4>. QED BY <4>2
    <3>. QED BY <1>1, <3>1, <3>2, NumberCalls
  <2>. QED BY <1>3, <2>1, <2>2, <2>3, SameCalls DEF Protocol!Close, Protocol!Kinds, depth, Kinds
<1>. QED BY <1>1, <1>2, <1>3

\* A separator after a number.
LEMMA NumberEnds ==
    ASSUME Nesting, NEW c, NumComma(c) \/ NumSpace(c)
    PROVE  Protocol!Silent \/ Protocol!Value
<1>. SUFFICES stack' = stack /\ out' = NumberCall
  BY Delivers
<1>. QED BY DEF NumComma, NumSpace, Emit

\* The entry points and the ends of chunk and input.
LEMMA CallSteps ==
    ASSUME Nesting, NEW v, NEW e, NEW last,
           SetJustOne(v) \/ Begin(e) \/ Chunk \/ EndChunk(last) \/ Return \/ NoInput
    PROVE  [Protocol!Start \/ Protocol!Silent \/ Protocol!Value]_<<stack, out>>
<1>1. CASE SetJustOne(v) BY <1>1 DEF SetJustOne
<1>2. CASE Begin(e) BY <1>2 DEF Begin, Protocol!Start
<1>3. CASE Chunk \/ Return \/ NoInput BY <1>3 DEF Chunk, Return, NoInput, Protocol!Silent
<1>4. CASE EndChunk(last)
  <2>1. stack' = stack /\ out' \in {NumberCall, <<>>} BY <1>4 DEF EndChunk
  <2>. QED BY <2>1, Delivers DEF Protocol!Silent
<1>. QED BY <1>1, <1>2, <1>3, <1>4

\* The type of the number stays one of the four.
LEMMA TypeStep ==
    ASSUME Nesting, [Next]_vars
    PROVE  type' \in {"none", "int", "decimal", "big"}
<1>. USE DEF Nesting
<1>1. CASE UNCHANGED vars BY <1>1 DEF vars
<1>2. ASSUME NEW c \in Alphabet, ReadByte(c)
      PROVE  type' \in {"none", "int", "decimal", "big"}
  BY <1>2 DEF ReadByte, Advance, Skip, Comma, KeyQuote, InKey, ValQuote, StrQuote, EscU, UOk,
     UtfLead, UtfX, Open, Close, NumComma, NumSpace, StartNumber, Decimal, MoreDigits, BigType,
     Literal, LookAhead, TokenOk, Letters, CharErr
<1>3. CASE \/ \E v \in JustOnes : SetJustOne(v)
           \/ \E e \in Entries : Begin(e)
           \/ Chunk \/ Return \/ NoInput
           \/ \E last \in BOOLEAN : EndChunk(last)
  BY <1>3 DEF SetJustOne, Begin, Chunk, Return, NoInput, EndChunk
<1>. QED BY <1>1, <1>2, <1>3 DEF Next

\* Every step keeps the nesting and is a step of the protocol.
LEMMA Step ==
    ASSUME Nesting, [Next]_vars
    PROVE  Nesting' /\ [Protocol!Next]_<<stack, out>>
<1>. SUFFICES stack' \in Seq(Kinds) /\ [Protocol!Next]_<<stack, out>>
  BY TypeStep DEF Nesting
<1>0. stack \in Seq(Kinds) BY DEF Nesting
<1>1. CASE UNCHANGED vars BY <1>0, <1>1 DEF vars
<1>2. ASSUME NEW c \in Alphabet, ReadByte(c)
      PROVE  stack' \in Seq(Kinds) /\ [Protocol!Next]_<<stack, out>>
  <2>1. CASE Open(c)
    <3>1. stack' \in Seq(Kinds) BY <1>0, <2>1 DEF Open, Kinds
    <3>. QED BY <2>1, <3>1, OpenStep DEF Protocol!Next
  <2>2. CASE Close(c) BY <2>2, CloseStep DEF Protocol!Next
  <2>3. CASE StrQuote(c)
    <3>1. Protocol!Value BY <2>3, StrQuoteStep
    <3>2. stack' \in Seq(Kinds) BY <1>0, <3>1 DEF Protocol!Value
    <3>. QED BY <3>1, <3>2 DEF Protocol!Next
  <2>4. CASE NumComma(c) \/ NumSpace(c)
    <3>1. Protocol!Silent \/ Protocol!Value BY <2>4, NumberEnds
    <3>2. stack' \in Seq(Kinds) BY <1>0, <3>1 DEF Protocol!Silent, Protocol!Value
    <3>. QED BY <3>1, <3>2 DEF Protocol!Next
  <2>5. CASE LookAhead(c) \/ TokenOk(c)
    <3>1. Protocol!Silent \/ Protocol!Value BY <2>5, LettersStep
    <3>2. stack' \in Seq(Kinds) BY <1>0, <3>1 DEF Protocol!Silent, Protocol!Value
    <3>. QED BY <3>1, <3>2 DEF Protocol!Next
  <2>6. CASE \/ Advance(c) \/ Skip(c) \/ Comma(c) \/ KeyQuote(c) \/ InKey(c) \/ ValQuote(c)
             \/ EscU(c) \/ UOk(c) \/ UtfLead(c) \/ UtfX(c) \/ StartNumber(c) \/ Decimal(c)
             \/ MoreDigits(c) \/ Literal(c) \/ CharErr(c)
    BY <1>0, <2>6, SilentBytes DEF Protocol!Next, Protocol!Silent
  <2>. QED BY <1>2, <2>1, <2>2, <2>3, <2>4, <2>5, <2>6 DEF ReadByte
<1>3. CASE \/ \E v \in JustOnes : SetJustOne(v)
           \/ \E e \in Entries : Begin(e)
           \/ Chunk \/ Return \/ NoInput
           \/ \E last \in BOOLEAN : EndChunk(last)
  <2>1. [Protocol!Start \/ Protocol!Silent \/ Protocol!Value]_<<stack, out>>
    BY <1>3, CallSteps
  <2>2. stack' = stack \/ stack' = <<>>
    BY <2>1 DEF Protocol!Start, Protocol!Silent, Protocol!Value
  <2>3. <<>> \in Seq(Kinds) OBVIOUS
  <2>4. stack' \in Seq(Kinds)
    <3>1. CASE stack' = stack BY <1>0, <3>1
    <3>2. CASE stack' = <<>> BY <2>3, <3>2
    <3>. QED BY <2>2, <3>1, <3>2
  <2>. QED BY <2>1, <2>4 DEF Protocol!Next
<1>. QED BY <1>1, <1>2, <1>3 DEF Next

\* Whatever bytes come in, whichever entry points are called and however often a
\* call is abandoned with an error, the calls the delegate sees are well nested and
\* taken from the row of funcs[] of the container they happen in.
THEOREM Nested == Spec => KeepsProtocol
<1>1. Init => Nesting BY DEF Init, Nesting
<1>2. Init => Protocol!Init BY DEF Init, Protocol!Init
<1>3. Nesting /\ [Next]_vars => Nesting' BY Step
<1>4. Nesting /\ [Next]_vars => [Protocol!Next]_<<stack, out>> BY Step
<1>. QED BY <1>1, <1>2, <1>3, <1>4, PTL DEF Spec, KeepsProtocol, Protocol!Spec

-----------------------------------------------------------------------------
\* The maps that skip blanks, and those a number may end in.
spaced  == {"value", "comma", "after", "key1", "key", "colon", "trail"}
numeric == {"zero", "digit", "frac", "exp", "big_digit", "big_frac", "big_exp"}

\* Where each action stands in the tables: map m, class c, action a.
Entry(m, c, a) ==
  \/ a = "SKIP_CHAR" /\ m \in spaced /\ c \in {"sp", "tab"}
  \/ a = "SKIP_NEWLINE" /\ m \in spaced /\ c = "nl"
  \/ a = "STR_OK" /\ m = "string" /\ c \in Printable \ {"quote", "bslash"}
  \/ a = "AFTER_COMMA" /\ m \in {"after"} \cup DOMAIN Words /\ c = "comma"
  \/ a = "COLON_COLON" /\ m = "colon" /\ c = "colon"
  \/ a = "KEY_QUOTE" /\ m \in {"key1", "key"} /\ c = "quote"
  \/ m \in {"value", "comma"} /\
        \/ a = "VAL_QUOTE" /\ c = "quote"
        \/ a = "VAL_NEG" /\ c = "minus"
        \/ a = "VAL0" /\ c = "zero"
        \/ a = "VAL_DIGIT" /\ c = "digit"
        \/ a = "OPEN_ARRAY" /\ c = "lb"
        \/ a = "OPEN_OBJECT" /\ c = "lc"
        \/ a = "VAL_NULL" /\ c = "n"
        \/ a = "VAL_TRUE" /\ c = "t"
        \/ a = "VAL_FALSE" /\ c = "f"
  \/ a = "CLOSE_ARRAY" /\ m \in {"value", "after"} /\ c = "rb"
  \/ a = "CLOSE_OBJECT" /\ m \in {"value", "after", "key1"} /\ c = "rc"
  \/ a = "TOKEN_OK" /\ \/ m = "null" /\ c \in {"u", "l"}
                       \/ m = "true" /\ c \in {"r", "u", "e"}
                       \/ m = "false" /\ c \in {"a", "l", "s", "e"}
  \/ a = "NUM_ZERO" /\ m = "neg" /\ c = "zero"
  \/ a = "NEG_DIGIT" /\ m = "neg" /\ c = "digit"
  \/ m \in numeric /\
        \/ a = "NUM_SPC" /\ c \in {"sp", "tab"}
        \/ a = "NUM_NEWLINE" /\ c = "nl"
        \/ a = "NUM_COMMA" /\ c = "comma"
        \/ a = "NUM_CLOSE_ARRAY" /\ c = "rb"
        \/ a = "NUM_CLOSE_OBJECT" /\ c = "rc"
  \/ a = "NUM_DOT" /\ m \in {"zero", "digit"} /\ c = "dot"
  \/ a = "NUM_DIGIT" /\ m = "digit" /\ c \in Digit
  \/ a = "FRAC_E" /\ m \in {"digit", "frac"} /\ c \in ExpLetter
  \/ a = "NUM_FRAC" /\ m \in {"dot", "frac"} /\ c \in Digit
  \/ a = "EXP_SIGN" /\ m = "exp_sign" /\ c \in {"plus", "minus"}
  \/ a = "EXP_DIGIT" /\ m \in {"exp_sign", "exp_zero", "exp"} /\ c \in Digit
  \/ a = "BIG_DOT" /\ m = "big_digit" /\ c = "dot"
  \/ a = "BIG_DIGIT" /\ m = "big_digit" /\ c \in Digit
  \/ a = "BIG_E" /\ m \in {"big_digit", "big_frac"} /\ c \in ExpLetter
  \/ a = "BIG_FRAC" /\ m \in {"big_dot", "big_frac"} /\ c \in Digit
  \/ a = "BIG_EXP_SIGN" /\ m = "big_exp_sign" /\ c \in {"plus", "minus"}
  \/ a = "BIG_EXP" /\ m \in {"big_exp_sign", "big_exp_zero", "big_exp"} /\ c \in Digit
  \/ m = "string" /\
        \/ a = "STR_QUOTE" /\ c = "quote"
        \/ a = "STR_SLASH" /\ c = "bslash"
        \/ a = "UTF1" /\ c = "lead2"
        \/ a = "UTF2" /\ c = "lead3"
        \/ a = "UTF3" /\ c = "lead4"
  \/ a = "ESC_OK" /\ m = "esc" /\ c \in {"quote", "bslash", "slash", "b", "f", "n", "r", "t"}
  \/ a = "ESC_U" /\ m = "esc" /\ c = "u"
  \/ a = "U_OK" /\ m = "u" /\ c \in Digit \cup HexLetter
  \/ a = "UTFX" /\ m = "utf" /\ c = "follow"

\* The tables hold these entries and no others.
LEMMA Lookup ==
    ASSUME map \in DOMAIN Table, NEW c
    PROVE  /\ c \in DOMAIN Table[map] => Entry(map, c, Table[map][c])
           /\ c \notin DOMAIN Table[map] => \A a : ~Entry(map, c, a)
<1>. USE DEF Entry, spaced, numeric, Words, ++
<1>1. CASE map = "value"
  <2>1. Table[map] = value_map BY <1>1 DEF Table
  <2>. QED BY <1>1, <2>1 DEF value_map, skip, value_at
<1>2. CASE map = "null"
  <2>1. Table[map] = null_map BY <1>2 DEF Table
  <2>. QED BY <1>2, <2>1 DEF null_map, comma_at, All
<1>3. CASE map = "true"
  <2>1. Table[map] = true_map BY <1>3 DEF Table
  <2>. QED BY <1>3, <2>1 DEF true_map, comma_at, All
<1>4. CASE map = "false"
  <2>1. Table[map] = false_map BY <1>4 DEF Table
  <2>. QED BY <1>4, <2>1 DEF false_map, comma_at, All
<1>5. CASE map = "comma"
  <2>1. Table[map] = comma_map BY <1>5 DEF Table
  <2>. QED BY <1>5, <2>1 DEF comma_map, skip, value_at
<1>6. CASE map = "after"
  <2>1. Table[map] = after_map BY <1>6 DEF Table
  <2>. QED BY <1>6, <2>1 DEF after_map, skip, comma_at
<1>7. CASE map = "key1"
  <2>1. Table[map] = key1_map BY <1>7 DEF Table
  <2>. QED BY <1>7, <2>1 DEF key1_map, skip, name_at
<1>8. CASE map = "key"
  <2>1. Table[map] = key_map BY <1>8 DEF Table
  <2>. QED BY <1>8, <2>1 DEF key_map, skip, name_at
<1>9. CASE map = "colon"
  <2>1. Table[map] = colon_map BY <1>9 DEF Table
  <2>. QED BY <1>9, <2>1 DEF colon_map, skip
<1>10. CASE map = "neg"
  <2>1. Table[map] = neg_map BY <1>10 DEF Table
  <2>. QED BY <1>10, <2>1 DEF neg_map
<1>11. CASE map = "zero"
  <2>1. Table[map] = zero_map BY <1>11 DEF Table
  <2>. QED BY <1>11, <2>1 DEF zero_map, num_end
<1>12. CASE map = "digit"
  <2>1. Table[map] = digit_map BY <1>12 DEF Table
  <2>. QED BY <1>12, <2>1 DEF digit_map, num_end, All, Digit, ExpLetter
<1>13. CASE map = "dot"
  <2>1. Table[map] = dot_map BY <1>13 DEF Table
  <2>. QED BY <1>13, <2>1 DEF dot_map, All, Digit
<1>14. CASE map = "frac"
  <2>1. Table[map] = frac_map BY <1>14 DEF Table
  <2>. QED BY <1>14, <2>1 DEF frac_map, num_end, All, Digit, ExpLetter
<1>15. CASE map = "exp_sign"
  <2>1. Table[map] = exp_sign_map BY <1>15 DEF Table
  <2>. QED BY <1>15, <2>1 DEF exp_sign_map, All, Digit
<1>16. CASE map = "exp_zero"
  <2>1. Table[map] = exp_zero_map BY <1>16 DEF Table
  <2>. QED BY <1>16, <2>1 DEF exp_zero_map, All, Digit
<1>17. CASE map = "exp"
  <2>1. Table[map] = exp_map BY <1>17 DEF Table
  <2>. QED BY <1>17, <2>1 DEF exp_map, num_end, All, Digit
<1>18. CASE map = "big_digit"
  <2>1. Table[map] = big_digit_map BY <1>18 DEF Table
  <2>. QED BY <1>18, <2>1, SMTT(30) DEF big_digit_map, num_end, All, Digit, ExpLetter
<1>19. CASE map = "big_dot"
  <2>1. Table[map] = big_dot_map BY <1>19 DEF Table
  <2>. QED BY <1>19, <2>1 DEF big_dot_map, All, Digit
<1>20. CASE map = "big_frac"
  <2>1. Table[map] = big_frac_map BY <1>20 DEF Table
  <2>. QED BY <1>20, <2>1 DEF big_frac_map, num_end, All, Digit, ExpLetter
<1>21. CASE map = "big_exp_sign"
  <2>1. Table[map] = big_exp_sign_map BY <1>21 DEF Table
  <2>. QED BY <1>21, <2>1 DEF big_exp_sign_map, All, Digit
<1>22. CASE map = "big_exp_zero"
  <2>1. Table[map] = big_exp_zero_map BY <1>22 DEF Table
  <2>. QED BY <1>22, <2>1 DEF big_exp_zero_map, All, Digit
<1>23. CASE map = "big_exp"
  <2>1. Table[map] = big_exp_map BY <1>23 DEF Table
  <2>. QED BY <1>23, <2>1 DEF big_exp_map, num_end, All, Digit
<1>24. CASE map = "string"
  <2>1. Table[map] = string_map BY <1>24 DEF Table
  <2>. QED BY <1>24, <2>1 DEF string_map, All
<1>25. CASE map = "esc"
  <2>1. Table[map] = esc_map BY <1>25 DEF Table
  <2>. QED BY <1>25, <2>1 DEF esc_map, All
<1>26. CASE map = "u"
  <2>1. Table[map] = u_map BY <1>26 DEF Table
  <2>. QED BY <1>26, <2>1 DEF u_map, All, Digit, HexLetter
<1>27. CASE map = "utf"
  <2>1. Table[map] = utf_map BY <1>27 DEF Table
  <2>. QED BY <1>27, <2>1 DEF utf_map
<1>28. CASE map = "trail"
  <2>1. Table[map] = trail_map BY <1>28 DEF Table
  <2>. QED BY <1>28, <2>1 DEF trail_map, skip
<1>. HIDE DEF Entry, spaced, numeric, Words, ++
<1>. QED BY <1>1, <1>2, <1>3, <1>4, <1>5, <1>6, <1>7, <1>8, <1>9, <1>10, <1>11, <1>12, <1>13, <1>14, <1>15, <1>16, <1>17, <1>18, <1>19, <1>20, <1>21, <1>22, <1>23, <1>24, <1>25, <1>26, <1>27, <1>28 DEF Table

\* What a byte selects.
LEMMA Chosen ==
    ASSUME map \in Maps, NEW c
    PROVE  /\ map \in Inside => Action(c) = map
           /\ map \notin Inside /\ Action(c) # "CHAR_ERR" => Entry(map, c, Action(c))
           /\ map \notin Inside /\ Action(c) = "CHAR_ERR" => \A a : ~Entry(map, c, a)
<1>1. \A a : Entry(map, c, a) => a # "CHAR_ERR" BY DEF Entry
<1>. QED BY <1>1, Lookup DEF Action, Maps

-----------------------------------------------------------------------------
\* The empty sequence.
LEMMA EmptySequence ==
    /\ \A S : <<>> \in Seq(S)
    /\ Len(<<>>) = 0
OBVIOUS

\* The maps by name.
LEMMA MapSets ==
    /\ Maps = {"value", "null", "true", "false", "comma", "after", "key1", "key", "colon", "neg", "zero",
               "digit", "dot", "frac", "exp_sign", "exp_zero", "exp", "big_digit", "big_dot", "big_frac",
               "big_exp_sign", "big_exp_zero", "big_exp", "string", "esc", "u", "utf", "trail",
               "in_key", "in_null", "in_true", "in_false"}
    /\ Inside = {"in_key", "in_null", "in_true", "in_false"}
    /\ DOMAIN Lookahead = {"in_null", "in_true", "in_false"}
    /\ DOMAIN Words = {"null", "true", "false"}
BY DEF Maps, Table, Inside, Lookahead, Words

\* The letters of the literals.
LEMMA WordLengths ==
    /\ Len(Words["null"]) = 4 /\ Len(Words["true"]) = 4 /\ Len(Words["false"]) = 5
    /\ Words["null"] = <<"n", "u", "l", "l">> /\ Words["true"] = <<"t", "r", "u", "e">>
    /\ Words["false"] = <<"f", "a", "l", "s", "e">>
    /\ Lookahead["in_null"] = "null" /\ Lookahead["in_true"] = "true" /\ Lookahead["in_false"] = "false"
BY DEF Words, Lookahead

\* What the handlers do to the variables, the tables spelled out.
LEMMA AdvanceMoves ==
    ASSUME map \in Maps, NEW c, Advance(c)
    PROVE  /\ UNCHANGED <<next_map, stack, type, ri, matches>> /\ out' = <<>> /\ phase' = "reading"
           /\ \/ map = "colon" /\ c = "colon" /\ map' = Trail("value", stack, just_one)
              \/ map = "neg" /\ c = "zero" /\ map' = "zero"
              \/ map = "neg" /\ c = "digit" /\ map' = "digit"
              \/ map = "exp_sign" /\ c \in {"plus", "minus"} /\ map' = "exp_zero"
              \/ map = "big_digit" /\ c \in Digit /\ map' = "big_digit"
              \/ map = "big_digit" /\ c = "dot" /\ map' = "big_dot"
              \/ map \in {"big_dot", "big_frac"} /\ c \in Digit /\ map' = "big_frac"
              \/ map \in {"big_digit", "big_frac"} /\ c \in ExpLetter /\ map' = "big_exp_sign"
              \/ map = "big_exp_sign" /\ c \in {"plus", "minus"} /\ map' = "big_exp_zero"
              \/ map \in {"big_exp_sign", "big_exp_zero", "big_exp"} /\ c \in Digit /\ map' = "big_exp"
              \/ map = "string" /\ c = "bslash" /\ map' = "esc"
              \/ map = "esc" /\ c \in {"quote", "bslash", "slash", "b", "f", "n", "r", "t"} /\ map' = "string"
<1>1. map \notin Inside BY MapSets, Chosen DEF Advance, target
<1>2. Entry(map, c, Action(c)) BY <1>1, Chosen DEF Advance, target
<1>3. UNCHANGED <<next_map, stack, type, ri, matches>> /\ out' = <<>> /\ phase' = "reading"
      /\ map' = Trail(target[Action(c)], stack', just_one)
  BY DEF Advance, Goto, Emit
<1>. QED BY <1>2, <1>3 DEF Advance, target, Trail, Entry

\* The innermost open container.
LEMMA Contexts ==
    ASSUME NEW st \in Seq(Kinds)
    PROVE  /\ Len(st) \in Nat /\ (st = <<>> <=> Len(st) = 0)
           /\ st = <<>> => Context(st) = "top"
           /\ st # <<>> => Context(st) \in Kinds /\ Context(st) = st[Len(st)]
           /\ \A kind \in Kinds : Append(st, kind) \in Seq(Kinds) /\ Append(st, kind) # <<>>
                                  /\ Context(Append(st, kind)) = kind /\ Len(Append(st, kind)) = Len(st) + 1
           /\ st # <<>> =>
                LET rest == SubSeq(st, 1, Len(st) - 1)
                IN  rest \in Seq(Kinds) /\ Len(rest) = Len(st) - 1 /\ (rest = <<>> <=> Len(st) = 1)
<1>1. Len(st) \in Nat /\ (st = <<>> <=> Len(st) = 0) BY EmptySequence
<1>2. st = <<>> => Context(st) = "top" BY DEF Context
<1>3. st # <<>> => Context(st) \in Kinds /\ Context(st) = st[Len(st)] BY <1>1 DEF Context
<1>4. ASSUME NEW kind \in Kinds
      PROVE  Append(st, kind) \in Seq(Kinds) /\ Append(st, kind) # <<>>
             /\ Context(Append(st, kind)) = kind /\ Len(Append(st, kind)) = Len(st) + 1
  <2>1. Append(st, kind) \in Seq(Kinds) /\ Len(Append(st, kind)) = Len(st) + 1 OBVIOUS
  <2>2. Append(st, kind)[Len(st) + 1] = kind OBVIOUS
  <2>3. Append(st, kind) # <<>> BY <1>1, <2>1, EmptySequence
  <2>. QED BY <2>1, <2>2, <2>3 DEF Context
<1>5. ASSUME st # <<>>
      PROVE  LET rest == SubSeq(st, 1, Len(st) - 1)
             IN  rest \in Seq(Kinds) /\ Len(rest) = Len(st) - 1 /\ (rest = <<>> <=> Len(st) = 1)
  <2>. DEFINE rest == SubSeq(st, 1, Len(st) - 1)
  <2>0. Len(st) \in 1..Len(st) /\ Len(st) - 1 \in Int /\ \A i \in 1 .. Len(st) - 1 : st[i] \in Kinds
    BY <1>1, <1>5
  <2>1. rest \in Seq(Kinds) /\ Len(rest) = IF 1 <= Len(st) - 1 THEN Len(st) - 1 - 1 + 1 ELSE 0
    BY <2>0, SubSeqProperties
  <2>. HIDE DEF rest
  <2>5. ASSUME NEW n \in Nat, n \in 1..n, NEW k, k = IF 1 <= n - 1 THEN n - 1 - 1 + 1 ELSE 0
        PROVE  k = n - 1
    BY <2>5
  <2>4. Len(rest) = Len(st) - 1
    <3>1. Len(st) \in Nat /\ Len(st) \in 1..Len(st) BY <1>1, <2>0
    <3>2. Len(rest) = IF 1 <= Len(st) - 1 THEN Len(st) - 1 - 1 + 1 ELSE 0 BY <2>1
    <3>. QED BY <3>1, <3>2, <2>5
  <2>2. rest = <<>> <=> Len(rest) = 0 BY <2>1, EmptySequence
  <2>3. rest = <<>> <=> Len(st) = 1 BY <1>1, <2>4, <2>2
  <2>. QED BY <2>1, <2>3, <2>4 DEF rest
<1>. QED BY <1>1, <1>2, <1>3, <1>4, <1>5

\* What the handlers ask of the stack.
LEMMA Depths ==
    ASSUME stack \in Seq(Kinds)
    PROVE  /\ InObject <=> Context(stack) = "object"
           /\ \A kind \in Kinds : Unmatched(kind) <=> Context(stack) # kind
           /\ depth = Len(stack)
BY Contexts DEF InObject, Unmatched, depth, Kinds

\* The state a handler finds.
Here == map \in Maps /\ stack \in Seq(Kinds)

\* A blank, or a character of a string.
LEMMA SkipMoves ==
    ASSUME Here, NEW c, Skip(c)
    PROVE  /\ UNCHANGED <<next_map, stack, type, ri, matches>> /\ out' = <<>> /\ phase' = "reading"
           /\ map' = Trail(map, stack, just_one)
           /\ \/ map \in spaced /\ c \in Blank
              \/ map = "string" /\ c \in Printable \ {"quote", "bslash"}
<1>1. map \notin Inside BY MapSets, Chosen DEF Skip, Here
<1>2. Entry(map, c, Action(c)) BY <1>1, Chosen DEF Skip, Here
<1>. QED BY <1>2 DEF Skip, Entry, Goto, Emit, Trail, Blank

\* A comma after a value.
LEMMA CommaMoves ==
    ASSUME Here, NEW c, Comma(c)
    PROVE  /\ UNCHANGED <<next_map, stack, type, ri>> /\ out' = <<>> /\ phase' = "reading" /\ matches' = FALSE
           /\ map \in {"after"} \cup DOMAIN Words /\ c = "comma"
           /\ map' = IF Context(stack) = "object" THEN "key" ELSE "comma"
<1>1. map \notin Inside BY MapSets, Chosen DEF Comma, Here
<1>2. Entry(map, c, Action(c)) BY <1>1, Chosen DEF Comma, Here
<1>. QED BY <1>2, Depths DEF Comma, Entry, Goto, Emit, Trail, Here

\* The quote before a name.
LEMMA KeyQuoteMoves ==
    ASSUME Here, NEW c, KeyQuote(c)
    PROVE  /\ UNCHANGED <<next_map, stack, type, ri, matches>> /\ out' = <<>> /\ phase' = "reading"
           /\ map \in {"key1", "key"} /\ c = "quote" /\ map' = "in_key"
<1>1. map \notin Inside BY MapSets, Chosen DEF KeyQuote, Here
<1>2. Entry(map, c, Action(c)) BY <1>1, Chosen DEF KeyQuote, Here
<1>. QED BY <1>2 DEF KeyQuote, Entry, Goto, Emit, Trail

\* The bytes a string map has an entry for.
LEMMA StringDomain == \A c : c \in DOMAIN string_map <=> c \in Printable \cup Lead
BY DEF string_map, ++, All, Printable, Lead

\* A character of a name.
LEMMA InKeyMoves ==
    ASSUME Here, NEW c, InKey(c)
    PROVE  /\ map = "in_key" /\ UNCHANGED <<stack, type, matches>> /\ out' = <<>>
           /\ phase' = IF c \in Printable \cup Lead THEN "reading" ELSE "raised"
           /\ ri' = IF c \in Lead THEN Follows[c] ELSE ri
           /\ \/ c = "quote" /\ map' = "colon" /\ next_map' = next_map
              \/ c \in Printable \ {"quote", "bslash"} /\ map' = "in_key" /\ next_map' = next_map
              \/ c = "bslash" /\ map' = "esc" /\ next_map' = "colon"
              \/ c \in Lead /\ map' = "utf" /\ next_map' = "colon"
              \/ c \notin Printable \cup Lead /\ map' = "string" /\ next_map' = "colon"
<1>1. map = "in_key"
  <2>1. CASE map \in Inside BY <2>1, Chosen DEF InKey, Here
  <2>2. CASE map \notin Inside
    <3>1. Entry(map, c, "in_key") BY <2>2, Chosen DEF InKey, Here
    <3>. QED BY <3>1 DEF Entry
  <2>. QED BY <2>1, <2>2
<1>2. \A x \in Lead : x \notin Printable BY DEF Lead, Printable, Digit, Letter, HexLetter
<1>3. "quote" \in Printable /\ "bslash" \in Printable BY DEF Printable
<1>. QED BY <1>1, <1>2, <1>3, StringDomain DEF InKey

\* The quote before a string.
LEMMA ValQuoteMoves ==
    ASSUME Here, NEW c, ValQuote(c)
    PROVE  /\ UNCHANGED <<stack, type, ri, matches>> /\ out' = <<>> /\ phase' = "reading"
           /\ next_map' = AfterValue
           /\ map \in {"value", "comma"} /\ c = "quote" /\ map' = "string"
<1>1. map \notin Inside BY MapSets, Chosen DEF ValQuote, Here
<1>2. Entry(map, c, Action(c)) BY <1>1, Chosen DEF ValQuote, Here
<1>. QED BY <1>2 DEF ValQuote, Entry, Goto, Emit, Trail

\* The quote after a string.
LEMMA StrQuoteMoves ==
    ASSUME Here, NEW c, StrQuote(c)
    PROVE  /\ UNCHANGED <<next_map, stack, type, ri, matches>> /\ phase' = "reading"
           /\ out' = <<Call("add_str", Context(stack))>>
           /\ map = "string" /\ c = "quote" /\ map' = Trail(next_map, stack, just_one)
<1>1. map \notin Inside BY MapSets, Chosen DEF StrQuote, Here
<1>2. Entry(map, c, Action(c)) BY <1>1, Chosen DEF StrQuote, Here
<1>. QED BY <1>2 DEF StrQuote, Entry, Goto, Emit, Trail

\* The u of an escape.
LEMMA EscUMoves ==
    ASSUME Here, NEW c, EscU(c)
    PROVE  /\ UNCHANGED <<next_map, stack, type, matches>> /\ out' = <<>> /\ phase' = "reading"
           /\ map = "esc" /\ c = "u" /\ map' = "u" /\ ri' = 0
<1>1. map \notin Inside BY MapSets, Chosen DEF EscU, Here
<1>2. Entry(map, c, Action(c)) BY <1>1, Chosen DEF EscU, Here
<1>. QED BY <1>2 DEF EscU, Entry, Goto, Emit, Trail

\* A digit of an escape.
LEMMA UOkMoves ==
    ASSUME Here, NEW c, UOk(c)
    PROVE  /\ UNCHANGED <<next_map, stack, type, matches>> /\ out' = <<>> /\ phase' = "reading"
           /\ map = "u" /\ c \in Digit \cup HexLetter
           /\ ri' = ri + 1 /\ map' = IF 4 <= ri + 1 THEN "string" ELSE "u"
<1>1. map \notin Inside BY MapSets, Chosen DEF UOk, Here
<1>2. Entry(map, c, Action(c)) BY <1>1, Chosen DEF UOk, Here
<1>. QED BY <1>2 DEF UOk, Entry, Goto, Emit, Trail

\* The first byte of a character.
LEMMA UtfLeadMoves ==
    ASSUME Here, NEW c, UtfLead(c)
    PROVE  /\ UNCHANGED <<next_map, stack, type, matches>> /\ out' = <<>> /\ phase' = "reading"
           /\ map = "string" /\ c \in Lead /\ map' = "utf" /\ ri' = Follows[c]
<1>1. map \notin Inside BY MapSets, Chosen DEF UtfLead, Here
<1>2. Entry(map, c, Action(c)) BY <1>1, Chosen DEF UtfLead, Here
<1>. QED BY <1>2 DEF UtfLead, Entry, Goto, Emit, Trail, Lead, Follows

\* A later byte of a character.
LEMMA UtfXMoves ==
    ASSUME Here, NEW c, UtfX(c)
    PROVE  /\ UNCHANGED <<next_map, stack, type, matches>> /\ out' = <<>> /\ phase' = "reading"
           /\ map = "utf" /\ c = "follow"
           /\ ri' = ri - 1 /\ map' = IF ri - 1 <= 0 THEN "string" ELSE "utf"
<1>1. map \notin Inside BY MapSets, Chosen DEF UtfX, Here
<1>2. Entry(map, c, Action(c)) BY <1>1, Chosen DEF UtfX, Here
<1>. QED BY <1>2 DEF UtfX, Entry, Goto, Emit, Trail

\* An opening bracket.
LEMMA OpenMoves ==
    ASSUME Here, NEW c, Open(c)
    PROVE  \E kind \in Kinds :
             /\ UNCHANGED <<next_map, type, ri, matches>> /\ phase' = "reading"
             /\ map \in {"value", "comma"} /\ c = (IF kind = "array" THEN "lb" ELSE "lc")
             /\ depth < MaxDepth /\ stack' = Append(stack, kind)
             /\ map' = IF kind = "array" THEN "value" ELSE "key1"
             /\ out' = <<Call(OpenFun(kind), Context(stack))>>
<1>1. map \notin Inside BY MapSets, Chosen DEF Open, Here
<1>2. PICK kind \in Kinds :
        /\ Action(c) = IF kind = "array" THEN "OPEN_ARRAY" ELSE "OPEN_OBJECT"
        /\ depth < MaxDepth
        /\ stack' = Append(stack, kind)
        /\ UNCHANGED <<next_map, type, ri, matches>>
        /\ Goto(IF kind = "array" THEN "value" ELSE "key1")
        /\ Emit(<<Call(OpenFun(kind), Context(stack))>>)
  BY DEF Open, Kinds
<1>3. Entry(map, c, Action(c)) BY <1>1, <1>2, Chosen DEF Here
<1>4. map \in {"value", "comma"} /\ c = (IF kind = "array" THEN "lb" ELSE "lc")
  BY <1>2, <1>3 DEF Entry
<1>5. stack' # <<>> BY <1>2, Contexts DEF Here
<1>6. map' = IF kind = "array" THEN "value" ELSE "key1" BY <1>2, <1>5 DEF Goto, Trail
<1>. QED BY <1>2, <1>4, <1>6 DEF Emit

\* A closing bracket.
LEMMA CloseMoves ==
    ASSUME Here, NEW c, Close(c)
    PROVE  \E kind \in Kinds : \E calls \in {<<>>, NumberCall} :
             LET rest == SubSeq(stack, 1, Len(stack) - 1) IN
             /\ UNCHANGED <<next_map, ri, matches>>
             /\ c = IF kind = "array" THEN "rb" ELSE "rc"
             /\ \/ /\ map \in {"value", "after", "key1"} /\ (kind = "array" => map # "key1")
                   /\ calls = <<>> /\ type' = type
                \/ map \in numeric /\ calls = NumberCall /\ type' = "none"
             /\ IF Context(stack) # kind
                THEN map' \in {"value", "after"} /\ stack' = stack /\ phase' = "raised"
                ELSE /\ stack # <<>> /\ stack' = rest
                     /\ map' = Trail(IF rest = <<>> THEN "value" ELSE "after", rest, just_one)
                     /\ phase' = "reading" /\ out' = Append(calls, Call(CloseFun(kind), Context(rest)))
<1>. DEFINE rest == SubSeq(stack, 1, Len(stack) - 1)
            plain(kind) == IF kind = "array" THEN "CLOSE_ARRAY" ELSE "CLOSE_OBJECT"
            num(kind)   == IF kind = "array" THEN "NUM_CLOSE_ARRAY" ELSE "NUM_CLOSE_OBJECT"
<1>1. PICK kind \in Kinds :
        /\ Action(c) \in {plain(kind), num(kind)}
        /\ type' = IF Action(c) = num(kind) THEN "none" ELSE type
        /\ UNCHANGED <<next_map, ri, matches>>
        /\ IF Unmatched(kind)
           THEN map' = AfterClose /\ stack' = stack /\ phase' = "raised"
           ELSE /\ stack' = rest
                /\ Goto(AfterClose)
                /\ Emit(Append(IF Action(c) = num(kind) THEN NumberCall ELSE <<>>,
                               Call(CloseFun(kind), Context(stack'))))
  BY DEF Close, Kinds, depth
<1>2. map \notin Inside BY <1>1, MapSets, Chosen DEF Here
<1>3. Entry(map, c, Action(c)) BY <1>1, <1>2, Chosen DEF Here
<1>4. /\ c = IF kind = "array" THEN "rb" ELSE "rc"
      /\ \/ /\ map \in {"value", "after", "key1"} /\ (kind = "array" => map # "key1")
            /\ Action(c) = plain(kind)
         \/ map \in numeric /\ Action(c) = num(kind)
  BY <1>1, <1>3 DEF Entry, Kinds
<1>5. plain(kind) # num(kind) OBVIOUS
<1>. HIDE DEF plain, num
<1>. DEFINE calls == IF Action(c) = num(kind) THEN NumberCall ELSE <<>>
<1>6. calls \in {<<>>, NumberCall} OBVIOUS
<1>7. \/ /\ map \in {"value", "after", "key1"} /\ (kind = "array" => map # "key1")
         /\ calls = <<>> /\ type' = type
      \/ map \in numeric /\ calls = NumberCall /\ type' = "none"
  BY <1>1, <1>4, <1>5
<1>8. IF Context(stack) # kind
      THEN map' \in {"value", "after"} /\ stack' = stack /\ phase' = "raised"
      ELSE /\ stack # <<>> /\ stack' = rest
           /\ map' = Trail(IF rest = <<>> THEN "value" ELSE "after", rest, just_one)
           /\ phase' = "reading" /\ out' = Append(calls, Call(CloseFun(kind), Context(rest)))
  <2>1. CASE Context(stack) # kind
    BY <1>1, <2>1, Depths DEF Here, AfterClose
  <2>2. CASE Context(stack) = kind
    <3>1. ~Unmatched(kind) BY <2>2, Depths DEF Here
    <3>2. stack # <<>> BY <2>2, Contexts DEF Here, Kinds
    <3>3. stack' = rest /\ map' = Trail(AfterClose, stack', just_one)
          /\ phase' = "reading" /\ out' = Append(calls, Call(CloseFun(kind), Context(stack')))
      BY <1>1, <3>1 DEF Goto, Emit
    <3>4. AfterClose = IF rest = <<>> THEN "value" ELSE "after"
      BY <3>2, Contexts, Depths DEF Here, AfterClose
    <3>. QED BY <2>2, <3>2, <3>3, <3>4
  <2>. QED BY <2>1, <2>2
<1>. QED BY <1>1, <1>4, <1>6, <1>7, <1>8

\* A comma after a number.
LEMMA NumCommaMoves ==
    ASSUME Here, NEW c, NumComma(c)
    PROVE  /\ UNCHANGED <<next_map, stack, ri, matches>> /\ type' = "none" /\ phase' = "reading"
           /\ out' = NumberCall /\ map \in numeric /\ c = "comma"
           /\ map' = IF Context(stack) = "object" THEN "key" ELSE "comma"
<1>1. map \notin Inside BY MapSets, Chosen DEF NumComma, Here
<1>2. Entry(map, c, Action(c)) BY <1>1, Chosen DEF NumComma, Here
<1>. QED BY <1>2, Depths DEF NumComma, Entry, Goto, Emit, Trail, Here

\* A blank after a number.
LEMMA NumSpaceMoves ==
    ASSUME Here, NEW c, NumSpace(c)
    PROVE  /\ UNCHANGED <<map, next_map, stack, ri, matches>> /\ type' = "none" /\ phase' = "reading"
           /\ out' = NumberCall /\ map \in numeric /\ c \in Blank
<1>1. map \notin Inside BY MapSets, Chosen DEF NumSpace, Here
<1>2. Entry(map, c, Action(c)) BY <1>1, Chosen DEF NumSpace, Here
<1>3. map \in numeric /\ c \in Blank BY <1>2 DEF NumSpace, Entry, Blank
<1>. QED BY <1>3 DEF NumSpace, Goto, Emit, Trail, numeric

\* The first byte of a number.
LEMMA StartNumberMoves ==
    ASSUME Here, NEW c, StartNumber(c)
    PROVE  /\ UNCHANGED <<next_map, stack, ri, matches>> /\ type' = "int" /\ out' = <<>> /\ phase' = "reading"
           /\ map \in {"value", "comma"}
           /\ \/ c = "zero" /\ map' = "zero"
              \/ c = "minus" /\ map' = "neg"
              \/ c = "digit" /\ map' = "digit"
<1>1. map \notin Inside BY MapSets, Chosen DEF StartNumber, Here, number
<1>2. Entry(map, c, Action(c)) BY <1>1, Chosen DEF StartNumber, Here, number
<1>. QED BY <1>2 DEF StartNumber, Entry, Goto, Emit, Trail, number

\* The point or the exponent of a number.
LEMMA DecimalMoves ==
    ASSUME Here, NEW c, Decimal(c)
    PROVE  /\ UNCHANGED <<next_map, stack, ri, matches>> /\ type' = "decimal" /\ out' = <<>> /\ phase' = "reading"
           /\ \/ map \in {"zero", "digit"} /\ c = "dot" /\ map' = "dot"
              \/ map \in {"digit", "frac"} /\ c \in ExpLetter /\ map' = "exp_sign"
<1>1. map \notin Inside BY MapSets, Chosen DEF Decimal, Here
<1>2. Entry(map, c, Action(c)) BY <1>1, Chosen DEF Decimal, Here
<1>. QED BY <1>2 DEF Decimal, Entry, Goto, Emit, Trail

\* A digit of a number.
LEMMA MoreDigitsMoves ==
    ASSUME Here, NEW c, MoreDigits(c)
    PROVE  /\ UNCHANGED <<next_map, stack, ri, matches>> /\ out' = <<>> /\ phase' = "reading"
           /\ c \in Digit
           /\ \/ map = "digit" /\ map' = "digit" /\ type' = type
              \/ map = "digit" /\ map' = "big_digit" /\ type' = BigType
              \/ map \in {"dot", "frac"} /\ map' = "frac" /\ type' = type
              \/ map \in {"dot", "frac"} /\ map' = "big_frac" /\ type' = BigType
              \/ map \in {"exp_sign", "exp_zero", "exp"} /\ map' = "exp" /\ type' = type
              \/ map = "exp" /\ map' = "big_exp" /\ type' = BigType
<1>1. map \notin Inside BY MapSets, Chosen DEF MoreDigits, Here, digits
<1>2. Entry(map, c, Action(c)) BY <1>1, Chosen DEF MoreDigits, Here, digits
<1>. QED BY <1>2 DEF MoreDigits, Entry, Goto, Emit, Trail, digits, big_digits

\* The first letter of a literal.
LEMMA LiteralMoves ==
    ASSUME Here, NEW c, Literal(c)
    PROVE  /\ UNCHANGED <<next_map, stack, type>> /\ ri' = 1 /\ matches' = TRUE
           /\ out' = <<>> /\ phase' = "reading" /\ map \in {"value", "comma"}
           /\ \/ c = "n" /\ map' = "in_null"
              \/ c = "t" /\ map' = "in_true"
              \/ c = "f" /\ map' = "in_false"
<1>1. map \notin Inside BY MapSets, Chosen DEF Literal, Here
<1>2. Entry(map, c, Action(c)) BY <1>1, Chosen DEF Literal, Here
<1>. QED BY <1>2 DEF Literal, Entry, Goto, Emit, Trail

\* A later letter of a literal.
LEMMA LettersMoves ==
    ASSUME Here, NEW c, LookAhead(c) \/ TokenOk(c)
    PROVE  \E w \in DOMAIN Words :
             /\ map = w \/ (map \in DOMAIN Lookahead /\ Lookahead[map] = w)
             /\ UNCHANGED <<next_map, stack, type>> /\ ri' = ri + 1
             /\ \/ /\ ri + 1 < Len(Words[w]) /\ matches' = (matches /\ c = Words[w][ri + 1])
                   /\ map' = map /\ out' = <<>> /\ phase' = "reading"
                \/ /\ ~(ri + 1 < Len(Words[w])) /\ matches' = FALSE
                   /\ matches /\ c = Words[w][ri + 1]
                   /\ map' = Trail(AfterValue, stack, just_one) /\ phase' = "reading"
                   /\ out' = <<Call(LiteralFun[w], Context(stack))>>
                \/ /\ ~(ri + 1 < Len(Words[w])) /\ matches' = FALSE
                   /\ ~(matches /\ c = Words[w][ri + 1])
                   /\ map' = map /\ out' = <<>> /\ phase' = "raised"
<1>1. PICK w \in DOMAIN Words :
        Letters(w, c) /\ (map = w \/ (map \in DOMAIN Lookahead /\ Lookahead[map] = w))
  BY MapSets, WordLengths DEF LookAhead, TokenOk
<1>2. map # "value" BY <1>1, MapSets, WordLengths
<1>3. Trail(map, stack', just_one) = map BY <1>2 DEF Trail
<1>4. stack' = stack /\ AfterValue = AfterValue BY <1>1 DEF Letters
<1>. QED BY <1>1, <1>3, <1>4 DEF Letters, Goto, Emit

\* A byte without an entry.
LEMMA CharErrMoves ==
    ASSUME Here, NEW c, CharErr(c)
    PROVE  /\ UNCHANGED <<map, next_map, stack, type, ri, matches>> /\ out' = <<>> /\ phase' = "raised"
           /\ map \notin Inside /\ \A a : ~Entry(map, c, a)
<1>1. map \notin Inside BY MapSets, Chosen DEF CharErr, Here
<1>. QED BY <1>1, Chosen DEF CharErr, Here

-----------------------------------------------------------------------------
\* What is stored besides map and stack.
Stored(m, nm, r, ph) ==
    /\ m \in Maps /\ nm \in {"none", "colon", "value", "after"} /\ r \in 0..5
    /\ m \in {"string", "esc", "u", "utf"} => nm # "none"
    /\ ph \notin {"reading", "raised"} => m \notin Inside
    /\ ph # "raised" =>
         /\ m \in {"null", "true", "in_null", "in_true"} => r \in 1..3
         /\ m \in {"false", "in_false"} => r \in 1..4
         /\ m = "u" => r \in 0..3
         /\ m = "utf" => r \in 1..3

\* The inductive invariant about types.
Typed ==
    /\ Stored(map, next_map, ri, phase)
    /\ stack \in Seq(Kinds) /\ Len(stack) <= MaxDepth
    /\ type \in {"none", "int", "decimal", "big"} /\ matches \in BOOLEAN
    /\ just_one \in BOOLEAN /\ entry \in Entries \cup {"none"}
    /\ phase \in {"new", "fresh", "reading", "waiting", "ended", "returned", "raised"}
    /\ split \in BOOLEAN

\* The letters still to come.
LEMMA LetterCounts ==
    ASSUME NEW w \in DOMAIN Words, NEW r \in Int, r + 1 < Len(Words[w])
    PROVE  r + 1 <= IF w = "false" THEN 4 ELSE 3
<1>1. Len(Words[w]) = IF w = "false" THEN 5 ELSE 4 BY MapSets, WordLengths
<1>. QED BY <1>1

\* A byte leaves in map, next_map and ri what the next one may find there.
LEMMA StoredByte ==
    ASSUME Here, NEW c, Reading, Stored(map, next_map, ri, phase),
           \/ Advance(c) \/ Skip(c) \/ Comma(c) \/ KeyQuote(c) \/ InKey(c) \/ ValQuote(c)
           \/ StrQuote(c) \/ EscU(c) \/ UOk(c) \/ UtfLead(c) \/ UtfX(c) \/ Open(c)
           \/ Close(c) \/ NumComma(c) \/ NumSpace(c) \/ StartNumber(c) \/ Decimal(c)
           \/ MoreDigits(c) \/ Literal(c) \/ LookAhead(c) \/ TokenOk(c) \/ CharErr(c)
    PROVE  Stored(map', next_map', ri', phase')
<1>. USE MapSets DEF Stored, Trail
<1>0. phase # "raised" BY DEF Reading
<1>1. CASE Advance(c) BY <1>0, <1>1, AdvanceMoves DEF Here
<1>2. CASE Skip(c) BY <1>0, <1>2, SkipMoves DEF spaced
<1>3. CASE Comma(c) BY <1>0, <1>3, CommaMoves
<1>4. CASE KeyQuote(c) BY <1>0, <1>4, KeyQuoteMoves
<1>5. CASE InKey(c) BY <1>0, <1>5, InKeyMoves DEF Lead, Follows
<1>6. CASE ValQuote(c) BY <1>0, <1>6, ValQuoteMoves DEF AfterValue
<1>7. CASE StrQuote(c) BY <1>0, <1>7, StrQuoteMoves
<1>8. CASE EscU(c) BY <1>0, <1>8, EscUMoves
<1>9. CASE UOk(c) BY <1>0, <1>9, UOkMoves
<1>10. CASE UtfLead(c) BY <1>0, <1>10, UtfLeadMoves DEF Lead, Follows
<1>11. CASE UtfX(c) BY <1>0, <1>11, UtfXMoves
<1>12. CASE Open(c) BY <1>0, <1>12, OpenMoves
<1>13. CASE Close(c)
  <2>1. UNCHANGED <<next_map, ri>> /\ map' \in {"value", "after", "trail"} /\ phase' \in {"reading", "raised"}
    BY <1>13, CloseMoves
  <2>. QED BY <1>0, <2>1
<1>14. CASE NumComma(c) BY <1>0, <1>14, NumCommaMoves
<1>15. CASE NumSpace(c) BY <1>0, <1>15, NumSpaceMoves
<1>16. CASE StartNumber(c) BY <1>0, <1>16, StartNumberMoves
<1>17. CASE Decimal(c) BY <1>0, <1>17, DecimalMoves
<1>18. CASE MoreDigits(c) BY <1>0, <1>18, MoreDigitsMoves
<1>19. CASE Literal(c)
  <2>1. map' \in {"in_null", "in_true", "in_false"} /\ ri' = 1 /\ next_map' = next_map /\ phase' = "reading"
    BY <1>19, LiteralMoves
  <2>. QED BY <1>0, <2>1
<1>20. CASE LookAhead(c) \/ TokenOk(c)
  <2>1. PICK w \in DOMAIN Words :
             /\ map = w \/ (map \in DOMAIN Lookahead /\ Lookahead[map] = w)
             /\ next_map' = next_map /\ ri' = ri + 1
             /\ \/ ri + 1 < Len(Words[w]) /\ map' = map /\ phase' = "reading"
                \/ map' \in {"value", "after", "trail"} /\ phase' = "reading"
                \/ map' = map /\ phase' = "raised"
    BY <1>20, LettersMoves DEF AfterValue
  <2>2. ri \in 1..4 BY <1>0, <2>1
  <2>3. CASE ri + 1 < Len(Words[w]) /\ map' = map /\ phase' = "reading"
    <3>1. ri + 1 <= IF w = "false" THEN 4 ELSE 3 BY <2>2, <2>3, LetterCounts
    <3>. QED BY <1>0, <2>1, <2>2, <2>3, <3>1, WordLengths
  <2>4. CASE \/ map' \in {"value", "after", "trail"} /\ phase' = "reading"
             \/ map' = map /\ phase' = "raised"
    BY <1>0, <2>1, <2>2, <2>4
  <2>. QED BY <2>1, <2>3, <2>4
<1>21. CASE CharErr(c) BY <1>0, <1>21, CharErrMoves
<1>. QED BY <1>1, <1>2, <1>3, <1>4, <1>5, <1>6, <1>7, <1>8, <1>9, <1>10, <1>11, <1>12, <1>13, <1>14,
            <1>15, <1>16, <1>17, <1>18, <1>19, <1>20, <1>21

\* A byte leaves the stack within its bounds.
LEMMA StackByte ==
    ASSUME Here, NEW c, Len(stack) <= MaxDepth, matches \in BOOLEAN,
           \/ Advance(c) \/ Skip(c) \/ Comma(c) \/ KeyQuote(c) \/ InKey(c) \/ ValQuote(c)
           \/ StrQuote(c) \/ EscU(c) \/ UOk(c) \/ UtfLead(c) \/ UtfX(c) \/ Open(c)
           \/ Close(c) \/ NumComma(c) \/ NumSpace(c) \/ StartNumber(c) \/ Decimal(c)
           \/ MoreDigits(c) \/ Literal(c) \/ LookAhead(c) \/ TokenOk(c) \/ CharErr(c)
    PROVE  /\ stack' \in Seq(Kinds) /\ Len(stack') <= MaxDepth /\ matches' \in BOOLEAN
           /\ phase' \in {"reading", "raised"}
<1>1. CASE Open(c)
  <2>1. PICK kind \in Kinds : matches' = matches /\ phase' = "reading" /\ depth < MaxDepth /\ stack' = Append(stack, kind)
    BY <1>1, OpenMoves
  <2>2. stack' \in Seq(Kinds) /\ Len(stack') = Len(stack) + 1 /\ Len(stack) \in Nat
    BY <2>1, Contexts DEF Here
  <2>. QED BY <2>1, <2>2, ParserAssumption DEF depth, ParserAssumption
<1>2. CASE Close(c)
  <2>1. /\ matches' = matches /\ phase' \in {"reading", "raised"}
        /\ stack' = stack \/ (stack # <<>> /\ stack' = SubSeq(stack, 1, Len(stack) - 1))
    BY <1>2, CloseMoves
  <2>2. stack' \in Seq(Kinds) /\ (Len(stack') = Len(stack) \/ Len(stack') = Len(stack) - 1) /\ Len(stack) \in Nat
    BY <2>1, Contexts DEF Here
  <2>. QED BY <2>1, <2>2, ParserAssumption DEF ParserAssumption
<1>3. CASE LookAhead(c) \/ TokenOk(c)
  BY <1>3, LettersMoves DEF Here
<1>4. CASE \/ Advance(c) \/ Skip(c) \/ Comma(c) \/ KeyQuote(c) \/ InKey(c) \/ ValQuote(c)
           \/ StrQuote(c) \/ EscU(c) \/ UOk(c) \/ UtfLead(c) \/ UtfX(c)
           \/ NumComma(c) \/ NumSpace(c) \/ StartNumber(c) \/ Decimal(c)
           \/ MoreDigits(c) \/ Literal(c) \/ CharErr(c)
  <2>1. stack' = stack /\ phase' \in {"reading", "raised"} /\ (matches' = matches \/ matches' \in BOOLEAN)
    BY <1>4 DEF Advance, Skip, Comma, KeyQuote, InKey, ValQuote, StrQuote, EscU, UOk, UtfLead, UtfX,
                NumComma, NumSpace, StartNumber, Decimal, MoreDigits, Literal, CharErr, Emit
  <2>. QED BY <2>1 DEF Here
<1>. QED BY <1>1, <1>2, <1>3, <1>4

\* Every step keeps the types.
LEMMA TypedStep ==
    ASSUME Typed, [Next]_vars
    PROVE  Typed'
<1>0. /\ Stored(map, next_map, ri, phase)
      /\ stack \in Seq(Kinds) /\ Len(stack) <= MaxDepth
      /\ type \in {"none", "int", "decimal", "big"} /\ matches \in BOOLEAN
      /\ just_one \in BOOLEAN /\ entry \in Entries \cup {"none"}
      /\ phase \in {"new", "fresh", "reading", "waiting", "ended", "returned", "raised"}
      /\ split \in BOOLEAN
  BY DEF Typed
<1>. SUFFICES /\ Stored(map', next_map', ri', phase')
              /\ stack' \in Seq(Kinds) /\ Len(stack') <= MaxDepth
              /\ type' \in {"none", "int", "decimal", "big"} /\ matches' \in BOOLEAN
              /\ just_one' \in BOOLEAN /\ entry' \in Entries \cup {"none"}
              /\ phase' \in {"new", "fresh", "reading", "waiting", "ended", "returned", "raised"}
              /\ split' \in BOOLEAN
  BY DEF Typed
<1>1. type' \in {"none", "int", "decimal", "big"} BY <1>0, TypeStep DEF Nesting
<1>2. CASE UNCHANGED vars BY <1>0, <1>2 DEF vars
<1>3. ASSUME NEW c \in Alphabet, ReadByte(c)
      PROVE  /\ Stored(map', next_map', ri', phase')
             /\ stack' \in Seq(Kinds) /\ Len(stack') <= MaxDepth /\ matches' \in BOOLEAN
             /\ phase' \in {"reading", "raised"}
             /\ UNCHANGED <<just_one, entry, split>>
  <2>1. Here /\ Reading BY <1>0, <1>3 DEF Here, Stored, ReadByte
  <2>. QED BY <1>0, <1>3, <2>1, StoredByte, StackByte DEF ReadByte
<1>4. CASE \E v \in JustOnes : SetJustOne(v)
  BY <1>0, <1>1, <1>4, ParserAssumption DEF SetJustOne, ParserAssumption
<1>5. CASE \E e \in Entries : Begin(e)
  <2>1. Stored("value", "none", ri, phase') BY <1>0, MapSets DEF Stored
  <2>2. <<>> \in Seq(Kinds) /\ Len(<<>>) <= MaxDepth BY EmptySequence, ParserAssumption DEF ParserAssumption
  <2>. QED BY <1>0, <1>5, <1>1, <2>1, <2>2 DEF Begin
<1>6. CASE Chunk \/ Return \/ NoInput
  <2>1. phase \in {"waiting", "ended"} /\ phase' \in {"fresh", "raised", "returned"}
        /\ UNCHANGED <<map, next_map, stack, type, ri, matches, just_one, entry, split>>
    BY <1>6 DEF Chunk, Return, NoInput
  <2>2. Stored(map, next_map, ri, phase') BY <1>0, <2>1 DEF Stored
  <2>. QED BY <1>0, <1>1, <2>1, <2>2
<1>7. CASE \E last \in BOOLEAN : EndChunk(last)
  <2>1. /\ phase = "reading" /\ phase' \in {"ended", "waiting"}
        /\ map' = CASE map = "in_key" -> "string" [] map \in DOMAIN Lookahead -> Lookahead[map] [] OTHER -> map
        /\ next_map' = IF map = "in_key" THEN "colon" ELSE next_map
        /\ UNCHANGED <<stack, ri, matches, just_one, entry>>
    BY <1>7 DEF EndChunk
  <2>2. split' \in BOOLEAN BY <1>7 DEF EndChunk
  <2>3. Stored(map', next_map', ri, phase')
    BY <1>0, <2>1, MapSets, WordLengths DEF Stored
  <2>. QED BY <1>0, <1>1, <2>1, <2>2, <2>3
<1>. QED BY <1>0, <1>1, <1>2, <1>3, <1>4, <1>5, <1>6, <1>7 DEF Next

\* Init stores a typed state.
LEMMA TypedInit == Init => Typed
<1>1. Stored("value", "none", 0, "new") BY MapSets DEF Stored
<1>2. <<>> \in Seq(Kinds) /\ Len(<<>>) <= MaxDepth BY EmptySequence, ParserAssumption DEF ParserAssumption
<1>. QED BY <1>1, <1>2 DEF Init, Typed

\* The stored state keeps its types: ri counts the letters, digits and bytes that are still owed,
\* next_map is set wherever a string may end, and the lookahead of a name or a literal does not
\* outlast its chunk.
THEOREM TypeCorrect == Spec => []TypeOK
<1>1. Init => Typed BY TypedInit
<1>2. Typed /\ [Next]_vars => Typed' BY TypedStep
<1>3. Typed => TypeOK BY DEF Typed, TypeOK, Stored, Kinds
<1>. QED BY <1>1, <1>2, <1>3, PTL DEF Spec

-----------------------------------------------------------------------------
(* What is read: the parser and the grammar, side by side.                   *)

\* The fields of the record the grammar keeps, and one given field by field.
Fields == {"at", "stack", "key", "left", "float", "many", "out"}
Is(n, at, st, key, left, float, many, es) ==
    /\ DOMAIN n = Fields
    /\ n.at = at /\ n.stack = st /\ n.key = key /\ n.left = left
    /\ n.float = float /\ n.many = many /\ n.out = es
\* What the grammar makes of a byte it does not take.
Rejected(n) == Is(n, "bad", <<>>, FALSE, <<>>, FALSE, FALSE, <<>>)

\* One call alone.
LEMMA AppendOne ==
    ASSUME NEW x
    PROVE  Append(<<>>, x) = <<x>>
OBVIOUS

\* The record of a text that is not well-formed.
LEMMA BadIs == Rejected(Grammar!Bad)
BY DEF Rejected, Is, Fields, Grammar!Bad, Grammar!Start

\* The parser and the grammar classify bytes, and name calls, alike.
LEMMA SameOperators ==
    /\ \A st : Grammar!Context(st) = Context(st)
    /\ \A f, x : Grammar!Call(f, x) = Call(f, x)
    /\ \A k : Grammar!OpenFun(k) = OpenFun(k) /\ Grammar!CloseFun(k) = CloseFun(k)
    /\ Grammar!Blank = Blank /\ Grammar!Digit = Digit /\ Grammar!ExpLetter = ExpLetter
    /\ Grammar!Lead = Lead /\ Grammar!Follows = Follows /\ Grammar!Words = Words
    /\ Grammar!LiteralFun = LiteralFun /\ Grammar!HexLetter = HexLetter
    /\ Grammar!Printable = Printable
BY DEF Grammar!Context, Context, Grammar!Call, Call, Grammar!OpenFun, OpenFun, Grammar!CloseFun,
       CloseFun, Grammar!Blank, Blank, Grammar!Digit, Digit, Grammar!ExpLetter, ExpLetter,
       Grammar!Lead, Lead, Grammar!Follows, Follows, Grammar!Words, Words, Grammar!LiteralFun,
       LiteralFun, Grammar!HexLetter, HexLetter, Grammar!Printable, Printable, Grammar!Letter, Letter

\* Where a text goes on after a value.
Past(st, many) == IF st # <<>> THEN "after" ELSE IF many THEN "done" ELSE "last"

\* A completed value: one call from the row of the innermost container.
LEMMA YieldIs ==
    ASSUME NEW g, DOMAIN g = Fields, NEW fun
    PROVE  Is(Grammar!Yield(g, fun), Past(g.stack, g.many), g.stack, FALSE, g.left, FALSE, g.many,
              Append(g.out, Call(fun, Context(g.stack))))
BY SameOperators DEF Is, Fields, Grammar!Yield, Past

\* An opening bracket: one call, and one more open container.
LEMMA OpenIs ==
    ASSUME NEW g, DOMAIN g = Fields, g.out = <<>>, NEW kind
    PROVE  Is(Grammar!Open(g, kind), IF kind = "array" THEN "first" ELSE "name1", Append(g.stack, kind),
              FALSE, g.left, FALSE, g.many, <<Call(OpenFun(kind), Context(g.stack))>>)
<1>. DEFINE y == Grammar!Yield(g, OpenFun(kind))
<1>1. Is(y, Past(g.stack, g.many), g.stack, FALSE, g.left, FALSE, g.many,
              <<Call(OpenFun(kind), Context(g.stack))>>)
  BY YieldIs, AppendOne
<1>2. Grammar!Open(g, kind) = [y EXCEPT !.stack = Append(@, kind),
                                      !.at = IF kind = "array" THEN "first" ELSE "name1"]
  BY SameOperators DEF Grammar!Open
<1>. HIDE DEF y
<1>. QED BY <1>1, <1>2 DEF Is, Fields

\* A closing bracket: it fits the innermost container, which is open no more.
LEMMA CloseIs ==
    ASSUME NEW g, DOMAIN g = Fields, NEW kind
    PROVE  IF Context(g.stack) # kind THEN Rejected(Grammar!Close(g, kind))
           ELSE LET rest == SubSeq(g.stack, 1, Len(g.stack) - 1)
                IN  Is(Grammar!Close(g, kind), Past(rest, g.many), rest, FALSE, g.left, FALSE, g.many,
                       Append(g.out, Call(CloseFun(kind), Context(rest))))
<1>1. CASE Context(g.stack) # kind
  BY <1>1, SameOperators, BadIs DEF Grammar!Close
<1>2. CASE Context(g.stack) = kind
  <2>. DEFINE rest == SubSeq(g.stack, 1, Len(g.stack) - 1)
              h == [g EXCEPT !.stack = SubSeq(@, 1, Len(@) - 1)]
  <2>1. Is(h, g.at, rest, g.key, g.left, g.float, g.many, g.out) BY DEF Is, Fields
  <2>2. Grammar!Close(g, kind) = Grammar!Yield(h, CloseFun(kind))
    BY <1>2, SameOperators DEF Grammar!Close
  <2>. HIDE DEF h, rest
  <2>3. Is(Grammar!Yield(h, CloseFun(kind)), Past(h.stack, h.many), h.stack, FALSE, h.left, FALSE, h.many,
              Append(h.out, Call(CloseFun(kind), Context(h.stack))))
    BY <2>1, YieldIs DEF Is
  <2>4. Is(Grammar!Close(g, kind), Past(rest, g.many), rest, FALSE, g.left, FALSE, g.many,
           Append(g.out, Call(CloseFun(kind), Context(rest))))
    BY <2>1, <2>2, <2>3 DEF Is
  <2>. QED BY <1>2, <2>4 DEF rest
<1>. QED BY <1>1, <1>2

\* The record before the step, its calls forgotten.
Blanked(g) == [g EXCEPT !.out = <<>>]
\* Nothing else changes.
LEMMA BlankedIs ==
    ASSUME NEW g, DOMAIN g = Fields
    PROVE  Is(Blanked(g), g.at, g.stack, g.key, g.left, g.float, g.many, <<>>)
BY DEF Blanked, Is, Fields

\* A blank between two tokens changes nothing.
LEMMA BlankStep ==
    ASSUME NEW g, DOMAIN g = Fields, g.at \in Grammar!Between, NEW c \in Blank
    PROVE  Is(Grammar!Step(g, c), g.at, g.stack, g.key, g.left, g.float, g.many, <<>>)
BY SameOperators DEF Is, Fields, Grammar!Step, Blank

\* Which part of the grammar reads the byte.
LEMMA StepAt ==
    ASSUME NEW g, DOMAIN g = Fields, NEW c,
           ~(g.at \in Grammar!Between /\ c \in Blank)
    PROVE  LET n == Grammar!Step(g, c)
               h == Blanked(g)
           IN  /\ g.at \in Grammar!Numbers => n = Grammar!Number(h, c)
               /\ g.at = "after" => n = Grammar!Separator(h, c)
               /\ g.at = "string" => n = Grammar!Text(h, c)
               /\ g.at = "escape" => n = Grammar!Escape(h, c)
               /\ g.at \in Grammar!Owing => n = Grammar!Owed(h, c)
               /\ g.at \in {"value", "done"} => n = Grammar!Value(h, c)
               /\ g.at = "first" => n = IF c = "rb" THEN Grammar!Close(h, "array") ELSE Grammar!Value(h, c)
               /\ g.at = "name1" => n = IF c = "rc" THEN Grammar!Close(h, "object") ELSE Grammar!Name(h, c)
               /\ g.at = "name" => n = Grammar!Name(h, c)
               /\ g.at = "colon" => n = IF c = "colon" THEN Grammar!Goto(h, "value") ELSE Grammar!Bad
               /\ g.at = "last" => n = Grammar!Bad
<1>. DEFINE h == Blanked(g)
<1>1. h.at = g.at BY BlankedIs DEF Is
<1>2. Grammar!Step(g, c) =
    CASE g.at \in Grammar!Numbers -> Grammar!Number(h, c)
      [] g.at = "after"   -> Grammar!Separator(h, c)
      [] g.at = "string"  -> Grammar!Text(h, c)
      [] g.at = "escape"  -> Grammar!Escape(h, c)
      [] g.at \in Grammar!Owing   -> Grammar!Owed(h, c)
      [] g.at \in {"value", "done"} -> Grammar!Value(h, c)
      [] g.at = "first"   -> IF c = "rb" THEN Grammar!Close(h, "array") ELSE Grammar!Value(h, c)
      [] g.at = "name1"   -> IF c = "rc" THEN Grammar!Close(h, "object") ELSE Grammar!Name(h, c)
      [] g.at = "name"    -> Grammar!Name(h, c)
      [] g.at = "colon"   -> IF c = "colon" THEN Grammar!Goto(h, "value") ELSE Grammar!Bad
      [] OTHER            -> Grammar!Bad
  BY <1>1, SameOperators DEF Grammar!Step, Blanked
<1>. HIDE DEF h
<1>. QED BY <1>2 DEF Grammar!Numbers, Grammar!Owing, Grammar!Words, Words, h

\* A byte that begins a value.
LEMMA ValueIs ==
    ASSUME NEW g, DOMAIN g = Fields, g.out = <<>>, NEW c
    PROVE  LET n == Grammar!Value(g, c) IN
           /\ c = "lb" => Is(n, "first", Append(g.stack, "array"), FALSE, g.left, FALSE, g.many,
                             <<Call("open_array", Context(g.stack))>>)
           /\ c = "lc" => Is(n, "name1", Append(g.stack, "object"), FALSE, g.left, FALSE, g.many,
                             <<Call("open_object", Context(g.stack))>>)
           /\ c = "quote" => Is(n, "string", g.stack, FALSE, g.left, g.float, g.many, <<>>)
           /\ c = "minus" => Is(n, "minus", g.stack, g.key, g.left, FALSE, g.many, <<>>)
           /\ c = "zero"  => Is(n, "int0", g.stack, g.key, g.left, FALSE, g.many, <<>>)
           /\ c = "digit" => Is(n, "int", g.stack, g.key, g.left, FALSE, g.many, <<>>)
           /\ c = "n" => Is(n, "null", g.stack, g.key, Tail(Words.null), g.float, g.many, <<>>)
           /\ c = "t" => Is(n, "true", g.stack, g.key, Tail(Words.true), g.float, g.many, <<>>)
           /\ c = "f" => Is(n, "false", g.stack, g.key, Tail(Words.false), g.float, g.many, <<>>)
           /\ c \notin {"lb", "lc", "quote", "minus", "zero", "digit", "n", "t", "f"} => Rejected(n)
<1>1. CASE c \in {"lb", "lc"}
  <2>1. Grammar!Value(g, c) = Grammar!Open(g, IF c = "lb" THEN "array" ELSE "object")
    BY <1>1 DEF Grammar!Value
  <2>. QED BY <1>1, <2>1, OpenIs DEF OpenFun
<1>2. CASE c \in {"n", "t", "f"}
  <2>1. \A w : Is(Grammar!Literal(g, w), w, g.stack, g.key, Tail(Words[w]), g.float, g.many, <<>>)
    BY SameOperators DEF Is, Fields, Grammar!Literal
  <2>2. Grammar!Value(g, c) = Grammar!Literal(g, CASE c = "n" -> "null" [] c = "t" -> "true" [] c = "f" -> "false")
    BY <1>2 DEF Grammar!Value
  <2>. QED BY <1>2, <2>1, <2>2
<1>3. CASE c \in {"quote", "minus", "zero", "digit"}
  BY <1>3 DEF Grammar!Value, Is, Fields
<1>4. CASE c \notin {"lb", "lc", "quote", "minus", "zero", "digit", "n", "t", "f"}
  BY <1>4, BadIs DEF Grammar!Value
<1>. QED BY <1>1, <1>2, <1>3, <1>4

\* A byte after a value inside a container.
LEMMA SeparatorIs ==
    ASSUME NEW g, DOMAIN g = Fields, NEW c
    PROVE  LET n == Grammar!Separator(g, c) IN
           /\ c \in Blank => n = g
           /\ c = "comma" => Is(n, IF Context(g.stack) = "object" THEN "name" ELSE "value", g.stack,
                                g.key, g.left, g.float, g.many, g.out)
           /\ c = "rb" => n = Grammar!Close(g, "array")
           /\ c = "rc" => n = Grammar!Close(g, "object")
           /\ c \notin Blank \cup {"comma", "rb", "rc"} => Rejected(n)
BY SameOperators, BadIs DEF Grammar!Separator, Grammar!Goto, Is, Fields, Blank

\* A byte inside a string.
LEMMA TextIs ==
    ASSUME NEW g, DOMAIN g = Fields, g.out = <<>>, NEW c
    PROVE  LET n == Grammar!Text(g, c) IN
           /\ c = "quote" /\ g.key => Is(n, "colon", g.stack, FALSE, g.left, g.float, g.many, <<>>)
           /\ c = "quote" /\ ~g.key => Is(n, Past(g.stack, g.many), g.stack, FALSE, g.left, FALSE, g.many,
                                          <<Call("add_str", Context(g.stack))>>)
           /\ c = "bslash" => Is(n, "escape", g.stack, g.key, g.left, g.float, g.many, <<>>)
           /\ c \in Lead => Is(n, "utf8", g.stack, g.key, [i \in 1..Follows[c] |-> "follow"], g.float, g.many, <<>>)
           /\ c \in Printable \ {"quote", "bslash"} => n = g
           /\ c \notin Printable \cup Lead => Rejected(n)
<1>. USE SameOperators
<1>1. CASE c = "quote"
  <2>1. Grammar!Text(g, c) = IF g.key THEN [g EXCEPT !.at = "colon", !.key = FALSE] ELSE Grammar!Yield(g, "add_str")
    BY <1>1 DEF Grammar!Text, Lead
  <2>2. Is([g EXCEPT !.at = "colon", !.key = FALSE], "colon", g.stack, FALSE, g.left, g.float, g.many, <<>>)
    BY DEF Is, Fields
  <2>3. Is(Grammar!Yield(g, "add_str"), Past(g.stack, g.many), g.stack, FALSE, g.left, FALSE, g.many,
          <<Call("add_str", Context(g.stack))>>)
    BY YieldIs, AppendOne
  <2>4. c \notin Lead /\ c # "bslash" /\ c \in Printable BY <1>1 DEF Lead, Printable
  <2>. QED BY <1>1, <2>1, <2>2, <2>3, <2>4
<1>2. CASE c = "bslash"
  <2>1. c \notin Lead /\ c \in Printable BY <1>2 DEF Lead, Printable
  <2>2. Grammar!Text(g, c) = Grammar!Goto(g, "escape") BY <1>2, <2>1 DEF Grammar!Text
  <2>3. Is(Grammar!Goto(g, "escape"), "escape", g.stack, g.key, g.left, g.float, g.many, <<>>)
    BY DEF Grammar!Goto, Is, Fields
  <2>. QED BY <1>2, <2>1, <2>2, <2>3
<1>3. CASE c \in Lead
  <2>1. c \notin Printable BY <1>3 DEF Lead, Printable, Digit, Letter, HexLetter
  <2>2. c \notin {"quote", "bslash"} BY <1>3 DEF Lead
  <2>. DEFINE tail == [i \in 1..Follows[c] |-> "follow"]
  <2>3. Grammar!Text(g, c) = [g EXCEPT !.at = "utf8", !.left = tail] BY <1>3, <2>1, <2>2 DEF Grammar!Text
  <2>. HIDE DEF tail
  <2>4. Is([g EXCEPT !.at = "utf8", !.left = tail], "utf8", g.stack, g.key, tail, g.float, g.many, <<>>)
    BY DEF Is, Fields
  <2>. QED BY <1>3, <2>1, <2>2, <2>3, <2>4 DEF tail
<1>4. CASE c \in Printable \ {"quote", "bslash"}
  <2>1. c \notin Lead BY <1>4 DEF Lead, Printable, Digit, Letter, HexLetter
  <2>. QED BY <1>4, <2>1 DEF Grammar!Text
<1>5. CASE c \notin Printable \cup Lead
  <2>1. c \notin {"quote", "bslash"} BY <1>5 DEF Printable
  <2>. QED BY <1>5, <2>1, BadIs DEF Grammar!Text
<1>. QED BY <1>1, <1>2, <1>3, <1>4, <1>5

\* The byte after a backslash.
LEMMA EscapeIs ==
    ASSUME NEW g, DOMAIN g = Fields, NEW c
    PROVE  LET n == Grammar!Escape(g, c) IN
           /\ c \in {"quote", "bslash", "slash", "b", "f", "n", "r", "t"} =>
                Is(n, "string", g.stack, g.key, g.left, g.float, g.many, g.out)
           /\ c = "u" => Is(n, "hex4", g.stack, g.key, <<"hex", "hex", "hex", "hex">>, g.float, g.many, g.out)
           /\ c \notin {"quote", "bslash", "slash", "b", "f", "n", "r", "t", "u"} => Rejected(n)
BY BadIs DEF Grammar!Escape, Grammar!Goto, Is, Fields

\* A byte that is owed.
LEMMA OwedIs ==
    ASSUME NEW g, DOMAIN g = Fields, g.out = <<>>, NEW c
    PROVE  LET n == Grammar!Owed(g, c)
               fits == IF g.at = "hex4" THEN c \in Digit \cup HexLetter ELSE c = Head(g.left)
               rest == Tail(g.left)
           IN  /\ ~fits => Rejected(n)
               /\ fits /\ rest # <<>> => Is(n, g.at, g.stack, g.key, rest, g.float, g.many, <<>>)
               /\ fits /\ rest = <<>> /\ g.at \in DOMAIN Words =>
                    Is(n, Past(g.stack, g.many), g.stack, FALSE, <<>>, FALSE, g.many,
                       <<Call(LiteralFun[g.at], Context(g.stack))>>)
               /\ fits /\ rest = <<>> /\ g.at \notin DOMAIN Words =>
                    Is(n, "string", g.stack, g.key, <<>>, g.float, g.many, <<>>)
<1>. DEFINE fits == IF g.at = "hex4" THEN c \in Digit \cup HexLetter ELSE c = Head(g.left)
            rest == Tail(g.left)
            h == [g EXCEPT !.left = Tail(@)]
<1>1. Is(h, g.at, g.stack, g.key, rest, g.float, g.many, <<>>)
  BY DEF Is, Fields
<1>2. Grammar!Owed(g, c) = IF ~fits THEN Grammar!Bad
       ELSE IF h.left # <<>> THEN h
       ELSE IF g.at \in DOMAIN Words THEN Grammar!Yield(h, LiteralFun[g.at])
       ELSE Grammar!Goto(h, "string")
  BY SameOperators DEF Grammar!Owed
<1>. HIDE DEF fits, h, rest
<1>3. Is(Grammar!Goto(h, "string"), "string", g.stack, g.key, rest, g.float, g.many, <<>>)
  BY <1>1 DEF Is, Fields, Grammar!Goto
<1>4. Is(Grammar!Yield(h, LiteralFun[g.at]), Past(g.stack, g.many), g.stack, FALSE, rest, FALSE, g.many,
         <<Call(LiteralFun[g.at], Context(g.stack))>>)
  <2>. DEFINE fun == LiteralFun[g.at]
  <2>. HIDE DEF fun
  <2>1. Is(Grammar!Yield(h, fun), Past(h.stack, h.many), h.stack, FALSE, h.left, FALSE, h.many,
           <<Call(fun, Context(h.stack))>>)
    BY <1>1, YieldIs, AppendOne, ZenonT(60) DEF Is
  <2>. QED BY <1>1, <2>1 DEF Is, fun
<1>5. h.left = rest BY <1>1 DEF Is
<1>. QED BY <1>1, <1>2, <1>3, <1>4, <1>5, BadIs DEF fits, rest

\* The end of a number.
LEMMA YieldNumberIs ==
    ASSUME ~AfterNumber, NEW g, DOMAIN g = Fields, g.out = <<>>, g.many \in BOOLEAN
    PROVE  Is(Grammar!YieldNumber(g), IF g.stack # <<>> THEN "after" ELSE "last", g.stack, FALSE, g.left, FALSE,
              g.many /\ g.stack # <<>>,
              <<Call(IF g.float THEN "add_float" ELSE "add_int", Context(g.stack))>>)
<1>. DEFINE h == [g EXCEPT !.many = @ /\ (AfterNumber \/ g.stack # <<>>)]
<1>1. Is(h, g.at, g.stack, g.key, g.left, g.float, g.many /\ g.stack # <<>>, <<>>)
  BY DEF Is, Fields
<1>2. Grammar!YieldNumber(g) = Grammar!Yield(h, IF g.float THEN "add_float" ELSE "add_int")
  BY DEF Grammar!YieldNumber
<1>. DEFINE fun == IF g.float THEN "add_float" ELSE "add_int"
<1>. HIDE DEF h, fun
<1>3. Is(Grammar!Yield(h, fun), Past(h.stack, h.many), h.stack, FALSE, h.left, FALSE, h.many,
         <<Call(fun, Context(h.stack))>>)
  BY <1>1, YieldIs, AppendOne, ZenonT(60) DEF Is
<1>4. Past(h.stack, h.many) = IF g.stack # <<>> THEN "after" ELSE "last"
  BY <1>1 DEF Is, Past
<1>. QED BY <1>1, <1>2, <1>3, <1>4 DEF Is, fun

\* A byte in or after a number.
LEMMA NumberIs ==
    ASSUME ~AfterNumber, NEW g, DOMAIN g = Fields, g.out = <<>>, g.many \in BOOLEAN, NEW c
    PROVE  LET n == Grammar!Number(g, c)
               next == Grammar!NumberStep(g.at, c)
               ends == next = "none" /\ g.at \in Grammar!NumberEnd
               within == g.stack # <<>>
               handed == Call(IF g.float THEN "add_float" ELSE "add_int", Context(g.stack))
               rest == SubSeq(g.stack, 1, Len(g.stack) - 1)
           IN  /\ next # "none" =>
                    Is(n, next, g.stack, g.key, g.left, g.float \/ next \in {"dot", "e"}, g.many, <<>>)
               /\ next = "none" /\ ~ends => Rejected(n)
               /\ ends /\ c \in Blank =>
                    Is(n, IF within THEN "after" ELSE "last", g.stack, FALSE, g.left, FALSE, g.many /\ within, <<handed>>)
               /\ ends /\ c \notin Blank /\ ~within => Rejected(n)
               /\ ends /\ c = "comma" /\ within =>
                    Is(n, IF Context(g.stack) = "object" THEN "name" ELSE "value", g.stack, FALSE, g.left,
                       FALSE, g.many, <<handed>>)
               /\ \A kind \in {"array", "object"} :
                    ends /\ c = (IF kind = "array" THEN "rb" ELSE "rc") /\ within =>
                      IF Context(g.stack) # kind THEN Rejected(n)
                      ELSE Is(n, Past(rest, g.many), rest, FALSE, g.left, FALSE, g.many,
                              <<handed, Call(CloseFun(kind), Context(rest))>>)
               /\ ends /\ c \notin Blank \cup {"comma", "rb", "rc"} => Rejected(n)
<1>. DEFINE next == Grammar!NumberStep(g.at, c)
            within == g.stack # <<>>
            handed == Call(IF g.float THEN "add_float" ELSE "add_int", Context(g.stack))
            y == Grammar!YieldNumber(g)
            n == Grammar!Number(g, c)
            rest == SubSeq(g.stack, 1, Len(g.stack) - 1)
<1>1. Is(y, IF within THEN "after" ELSE "last", g.stack, FALSE, g.left, FALSE, g.many /\ within, <<handed>>)
  BY YieldNumberIs
<1>2. n = IF next # "none" THEN [g EXCEPT !.at = next, !.float = @ \/ next \in {"dot", "e"}]
          ELSE IF g.at \notin Grammar!NumberEnd THEN Grammar!Bad
          ELSE IF g.stack = <<>> THEN IF c \in Blank THEN y ELSE Grammar!Bad
          ELSE Grammar!Separator(y, c)
  BY SameOperators DEF Grammar!Number
<1>. HIDE DEF next, y, n, handed
<1>3. CASE next # "none"
  <2>. DEFINE f == g.float \/ next \in {"dot", "e"}
  <2>1. n = [g EXCEPT !.at = next, !.float = f] BY <1>2, <1>3
  <2>. HIDE DEF f
  <2>2. Is(n, next, g.stack, g.key, g.left, f, g.many, <<>>) BY <2>1 DEF Is, Fields
  <2>. QED BY <1>3, <2>2 DEF f, next, n
<1>4. CASE next = "none" /\ g.at \notin Grammar!NumberEnd
  <2>1. Rejected(n) BY <1>2, <1>4, BadIs
  <2>. QED BY <1>4, <2>1 DEF next, n
<1>5. CASE next = "none" /\ g.at \in Grammar!NumberEnd /\ ~within
  <2>1. c \notin Blank => Rejected(n) BY <1>2, <1>5, BadIs
  <2>2. c \in Blank => n = y BY <1>2, <1>5
  <2>3. c \in {"comma", "rb", "rc"} => c \notin Blank BY DEF Blank
  <2>. QED BY <1>1, <1>5, <2>1, <2>2, <2>3 DEF next, n, handed
<1>6. CASE next = "none" /\ g.at \in Grammar!NumberEnd /\ within
  <2>1. n = Grammar!Separator(y, c) BY <1>2, <1>6
  <2>2. Is(y, "after", g.stack, FALSE, g.left, FALSE, g.many, <<handed>>) BY <1>1, <1>6
  <2>3. /\ c \in Blank => n = y
        /\ c = "comma" => Is(n, IF Context(g.stack) = "object" THEN "name" ELSE "value", g.stack,
                             FALSE, g.left, FALSE, g.many, <<handed>>)
        /\ c = "rb" => n = Grammar!Close(y, "array")
        /\ c = "rc" => n = Grammar!Close(y, "object")
        /\ c \notin Blank \cup {"comma", "rb", "rc"} => Rejected(n)
    BY <2>1, <2>2, SeparatorIs, ZenonT(60) DEF Is
  <2>4. ASSUME NEW kind \in {"array", "object"}, c = (IF kind = "array" THEN "rb" ELSE "rc")
        PROVE  IF Context(g.stack) # kind THEN Rejected(n)
               ELSE Is(n, Past(rest, g.many), rest, FALSE, g.left, FALSE, g.many,
                       <<handed, Call(CloseFun(kind), Context(rest))>>)
    <3>1. n = Grammar!Close(y, kind) BY <2>3, <2>4
    <3>2. Append(<<handed>>, Call(CloseFun(kind), Context(rest))) = <<handed, Call(CloseFun(kind), Context(rest))>>
      BY AppendPair
    <3>3. DOMAIN y = Fields /\ y.stack = g.stack /\ y.many = g.many /\ y.left = g.left /\ y.out = <<handed>>
      BY <2>2 DEF Is
    <3>4. IF Context(y.stack) # kind THEN Rejected(Grammar!Close(y, kind))
          ELSE LET top == SubSeq(y.stack, 1, Len(y.stack) - 1)
               IN  Is(Grammar!Close(y, kind), Past(top, y.many), top, FALSE, y.left, FALSE, y.many,
                      Append(y.out, Call(CloseFun(kind), Context(top))))
      BY <3>3, CloseIs
    <3>. QED BY <3>1, <3>2, <3>3, <3>4
  <2>5. c \in {"comma", "rb", "rc"} => c \notin Blank BY DEF Blank
  <2>. QED BY <1>6, <2>2, <2>3, <2>4, <2>5 DEF next, n, handed
<1>. QED BY <1>3, <1>4, <1>5, <1>6

\* Before the first byte.
LEMMA StartIs ==
    ASSUME NEW many
    PROVE  Is(Grammar!Start(many), "value", <<>>, FALSE, <<>>, FALSE, many, <<>>)
BY DEF Is, Fields, Grammar!Start

\* The end of the input completes a number, and nothing else.
LEMMA FinishIs ==
    ASSUME ~AfterNumber, NEW g, DOMAIN g = Fields, g.many \in BOOLEAN
    PROVE  LET n == Grammar!Finish(g) IN
           IF g.at \in Grammar!NumberEnd /\ g.stack = <<>>
           THEN Is(n, "last", <<>>, FALSE, g.left, FALSE, FALSE,
                   <<Call(IF g.float THEN "add_float" ELSE "add_int", "top")>>)
           ELSE Is(n, g.at, g.stack, g.key, g.left, g.float, g.many, <<>>)
<1>. DEFINE h == Blanked(g)
<1>1. Is(h, g.at, g.stack, g.key, g.left, g.float, g.many, <<>>) BY BlankedIs
<1>2. Grammar!Finish(g) = IF h.at \in Grammar!NumberEnd /\ h.stack = <<>> THEN Grammar!YieldNumber(h) ELSE h
  BY DEF Grammar!Finish, Blanked
<1>. HIDE DEF h
<1>3. Is(Grammar!YieldNumber(h), IF h.stack # <<>> THEN "after" ELSE "last", h.stack, FALSE, h.left, FALSE,
         h.many /\ h.stack # <<>>, <<Call(IF h.float THEN "add_float" ELSE "add_int", Context(h.stack))>>)
  BY <1>1, YieldNumberIs DEF Is
<1>4. g.stack = <<>> => Context(h.stack) = "top" BY <1>1 DEF Is, Context
<1>. QED BY <1>1, <1>2, <1>3, <1>4 DEF Is

\* The steps of the reader, by where it stands.
LEMMA AtValue ==
    ASSUME NEW g, DOMAIN g = Fields, g.at \in {"value", "done", "first"}, NEW c,
           c \notin Blank, g.at = "first" => c # "rb"
    PROVE  LET n == Grammar!Step(g, c) IN
           /\ c = "lb" => Is(n, "first", Append(g.stack, "array"), FALSE, g.left, FALSE, g.many,
                             <<Call("open_array", Context(g.stack))>>)
           /\ c = "lc" => Is(n, "name1", Append(g.stack, "object"), FALSE, g.left, FALSE, g.many,
                             <<Call("open_object", Context(g.stack))>>)
           /\ c = "quote" => Is(n, "string", g.stack, FALSE, g.left, g.float, g.many, <<>>)
           /\ c = "minus" => Is(n, "minus", g.stack, g.key, g.left, FALSE, g.many, <<>>)
           /\ c = "zero"  => Is(n, "int0", g.stack, g.key, g.left, FALSE, g.many, <<>>)
           /\ c = "digit" => Is(n, "int", g.stack, g.key, g.left, FALSE, g.many, <<>>)
           /\ c = "n" => Is(n, "null", g.stack, g.key, Tail(Words.null), g.float, g.many, <<>>)
           /\ c = "t" => Is(n, "true", g.stack, g.key, Tail(Words.true), g.float, g.many, <<>>)
           /\ c = "f" => Is(n, "false", g.stack, g.key, Tail(Words.false), g.float, g.many, <<>>)
           /\ c \notin {"lb", "lc", "quote", "minus", "zero", "digit", "n", "t", "f"} => Rejected(n)
<1>. DEFINE h == Blanked(g)
<1>1. Grammar!Step(g, c) = Grammar!Value(h, c) BY StepAt
<1>2. Is(h, g.at, g.stack, g.key, g.left, g.float, g.many, <<>>) BY BlankedIs
<1>3. DOMAIN h = Fields /\ h.out = <<>> /\ h.stack = g.stack /\ h.key = g.key /\ h.left = g.left
      /\ h.float = g.float /\ h.many = g.many
  BY <1>2 DEF Is
<1>. HIDE DEF h
<1>. QED BY <1>1, <1>3, ValueIs

\* A byte after a value inside a container.
LEMMA AtSeparator ==
    ASSUME NEW g, DOMAIN g = Fields, g.at = "after", NEW c
    PROVE  LET n == Grammar!Step(g, c)
               rest == SubSeq(g.stack, 1, Len(g.stack) - 1) IN
           /\ c \in Blank => Is(n, "after", g.stack, g.key, g.left, g.float, g.many, <<>>)
           /\ c = "comma" => Is(n, IF Context(g.stack) = "object" THEN "name" ELSE "value", g.stack,
                                g.key, g.left, g.float, g.many, <<>>)
           /\ \A kind \in Kinds : c = (IF kind = "array" THEN "rb" ELSE "rc") =>
                IF Context(g.stack) # kind THEN Rejected(n)
                ELSE Is(n, Past(rest, g.many), rest, FALSE, g.left, FALSE, g.many,
                        <<Call(CloseFun(kind), Context(rest))>>)
           /\ c \notin Blank \cup {"comma", "rb", "rc"} => Rejected(n)
<1>. DEFINE h == Blanked(g)
            n == Grammar!Step(g, c)
            rest == SubSeq(g.stack, 1, Len(g.stack) - 1)
<1>1. n = Grammar!Separator(h, c) BY StepAt DEF Grammar!Between
<1>2. Is(h, "after", g.stack, g.key, g.left, g.float, g.many, <<>>) BY BlankedIs
<1>3. DOMAIN h = Fields /\ h.out = <<>> /\ h.stack = g.stack /\ h.key = g.key /\ h.left = g.left
      /\ h.float = g.float /\ h.many = g.many
  BY <1>2 DEF Is
<1>. HIDE DEF h, n, rest
<1>4. /\ c \in Blank => n = h
      /\ c = "comma" => Is(n, IF Context(g.stack) = "object" THEN "name" ELSE "value", g.stack,
                           g.key, g.left, g.float, g.many, <<>>)
      /\ c = "rb" => n = Grammar!Close(h, "array")
      /\ c = "rc" => n = Grammar!Close(h, "object")
      /\ c \notin Blank \cup {"comma", "rb", "rc"} => Rejected(n)
  BY <1>1, <1>3, SeparatorIs
<1>5. ASSUME NEW kind \in Kinds, c = (IF kind = "array" THEN "rb" ELSE "rc")
      PROVE  IF Context(g.stack) # kind THEN Rejected(n)
             ELSE Is(n, Past(rest, g.many), rest, FALSE, g.left, FALSE, g.many,
                     <<Call(CloseFun(kind), Context(rest))>>)
  <2>1. n = Grammar!Close(h, kind) BY <1>4, <1>5 DEF Kinds
  <2>2. IF Context(g.stack) # kind THEN Rejected(Grammar!Close(h, kind))
        ELSE Is(Grammar!Close(h, kind), Past(rest, g.many), rest, FALSE, g.left, FALSE, g.many,
                Append(<<>>, Call(CloseFun(kind), Context(rest))))
    BY <1>3, CloseIs DEF rest
  <2>. QED BY <2>1, <2>2, AppendOne
<1>. QED BY <1>2, <1>4, <1>5 DEF n, rest

\* Names and the colon, and what does not fit where an array or object begins.
LEMMA AtName ==
    ASSUME NEW g, DOMAIN g = Fields, NEW c, c \notin Blank
    PROVE  LET n == Grammar!Step(g, c)
               rest == SubSeq(g.stack, 1, Len(g.stack) - 1) IN
           /\ g.at \in {"name1", "name"} /\ c = "quote" =>
                Is(n, "string", g.stack, TRUE, g.left, g.float, g.many, <<>>)
           /\ g.at = "name" /\ c # "quote" => Rejected(n)
           /\ g.at = "name1" /\ c \notin {"quote", "rc"} => Rejected(n)
           /\ g.at = "colon" /\ c = "colon" => Is(n, "value", g.stack, g.key, g.left, g.float, g.many, <<>>)
           /\ g.at = "colon" /\ c # "colon" => Rejected(n)
           /\ g.at = "last" => Rejected(n)
           /\ \A kind \in Kinds :
                /\ g.at = IF kind = "array" THEN "first" ELSE "name1"
                /\ c = IF kind = "array" THEN "rb" ELSE "rc"
                => IF Context(g.stack) # kind THEN Rejected(n)
                   ELSE Is(n, Past(rest, g.many), rest, FALSE, g.left, FALSE, g.many,
                           <<Call(CloseFun(kind), Context(rest))>>)
<1>. DEFINE h == Blanked(g)
            n == Grammar!Step(g, c)
            rest == SubSeq(g.stack, 1, Len(g.stack) - 1)
<1>1. /\ g.at = "first" => n = IF c = "rb" THEN Grammar!Close(h, "array") ELSE Grammar!Value(h, c)
      /\ g.at = "name1" => n = IF c = "rc" THEN Grammar!Close(h, "object") ELSE Grammar!Name(h, c)
      /\ g.at = "name" => n = Grammar!Name(h, c)
      /\ g.at = "colon" => n = IF c = "colon" THEN Grammar!Goto(h, "value") ELSE Grammar!Bad
      /\ g.at = "last" => n = Grammar!Bad
  BY StepAt
<1>2. Is(h, g.at, g.stack, g.key, g.left, g.float, g.many, <<>>) BY BlankedIs
<1>. HIDE DEF h, n, rest
<1>3. /\ c = "quote" => Is(Grammar!Name(h, c), "string", g.stack, TRUE, g.left, g.float, g.many, <<>>)
      /\ c # "quote" => Rejected(Grammar!Name(h, c))
  BY <1>2, BadIs DEF Grammar!Name, Is, Fields
<1>4. Is(Grammar!Goto(h, "value"), "value", g.stack, g.key, g.left, g.float, g.many, <<>>)
  BY <1>2 DEF Is, Fields, Grammar!Goto
<1>5. ASSUME NEW kind \in Kinds
      PROVE  IF Context(g.stack) # kind THEN Rejected(Grammar!Close(h, kind))
             ELSE Is(Grammar!Close(h, kind), Past(rest, g.many), rest, FALSE, g.left, FALSE, g.many,
                     <<Call(CloseFun(kind), Context(rest))>>)
  <2>1. DOMAIN h = Fields /\ h.out = <<>> /\ h.stack = g.stack /\ h.left = g.left /\ h.many = g.many
    BY <1>2 DEF Is
  <2>2. IF Context(g.stack) # kind THEN Rejected(Grammar!Close(h, kind))
        ELSE Is(Grammar!Close(h, kind), Past(rest, g.many), rest, FALSE, g.left, FALSE, g.many,
                Append(<<>>, Call(CloseFun(kind), Context(rest))))
    BY <2>1, CloseIs DEF rest
  <2>. QED BY <2>2, AppendOne
<1>6. ASSUME NEW kind \in Kinds, g.at = (IF kind = "array" THEN "first" ELSE "name1"),
             c = IF kind = "array" THEN "rb" ELSE "rc"
      PROVE  n = Grammar!Close(h, kind)
  BY <1>1, <1>6 DEF Kinds
<1>. QED BY <1>1, <1>3, <1>4, <1>5, <1>6, BadIs DEF n, rest

\* A byte inside a string.
LEMMA AtString ==
    ASSUME NEW g, DOMAIN g = Fields, g.at = "string", NEW c
    PROVE  LET n == Grammar!Step(g, c) IN
           /\ c = "quote" /\ g.key => Is(n, "colon", g.stack, FALSE, g.left, g.float, g.many, <<>>)
           /\ c = "quote" /\ ~g.key => Is(n, Past(g.stack, g.many), g.stack, FALSE, g.left, FALSE, g.many,
                                          <<Call("add_str", Context(g.stack))>>)
           /\ c = "bslash" => Is(n, "escape", g.stack, g.key, g.left, g.float, g.many, <<>>)
           /\ c \in Lead => Is(n, "utf8", g.stack, g.key, [i \in 1..Follows[c] |-> "follow"], g.float, g.many, <<>>)
           /\ c \in Printable \ {"quote", "bslash"} =>
                Is(n, "string", g.stack, g.key, g.left, g.float, g.many, <<>>)
           /\ c \notin Printable \cup Lead => Rejected(n)
<1>. DEFINE h == Blanked(g)
<1>1. Grammar!Step(g, c) = Grammar!Text(h, c) BY StepAt DEF Grammar!Between
<1>2. Is(h, "string", g.stack, g.key, g.left, g.float, g.many, <<>>) BY BlankedIs
<1>3. DOMAIN h = Fields /\ h.out = <<>> /\ h.stack = g.stack /\ h.key = g.key /\ h.left = g.left
      /\ h.float = g.float /\ h.many = g.many
  BY <1>2 DEF Is
<1>. DEFINE t == Grammar!Text(h, c)
<1>. HIDE DEF h
<1>4. /\ c = "quote" /\ h.key => Is(t, "colon", h.stack, FALSE, h.left, h.float, h.many, <<>>)
      /\ c = "quote" /\ ~h.key => Is(t, Past(h.stack, h.many), h.stack, FALSE, h.left, FALSE, h.many,
                                     <<Call("add_str", Context(h.stack))>>)
      /\ c = "bslash" => Is(t, "escape", h.stack, h.key, h.left, h.float, h.many, <<>>)
      /\ c \in Lead => Is(t, "utf8", h.stack, h.key, [i \in 1..Follows[c] |-> "follow"], h.float, h.many, <<>>)
      /\ c \in Printable \ {"quote", "bslash"} => t = h
      /\ c \notin Printable \cup Lead => Rejected(t)
  BY <1>3, TextIs
<1>. HIDE DEF t
<1>5. /\ c = "quote" /\ g.key => Is(t, "colon", g.stack, FALSE, g.left, g.float, g.many, <<>>)
      /\ c = "quote" /\ ~g.key => Is(t, Past(g.stack, g.many), g.stack, FALSE, g.left, FALSE, g.many,
                                     <<Call("add_str", Context(g.stack))>>)
  BY <1>3, <1>4
<1>6. /\ c = "bslash" => Is(t, "escape", g.stack, g.key, g.left, g.float, g.many, <<>>)
      /\ c \in Lead => Is(t, "utf8", g.stack, g.key, [i \in 1..Follows[c] |-> "follow"], g.float, g.many, <<>>)
  BY <1>3, <1>4
<1>7. /\ c \in Printable \ {"quote", "bslash"} =>
           Is(t, "string", g.stack, g.key, g.left, g.float, g.many, <<>>)
      /\ c \notin Printable \cup Lead => Rejected(t)
  BY <1>2, <1>4
<1>8. Grammar!Step(g, c) = t BY <1>1 DEF t
<1>. QED BY <1>5, <1>6, <1>7, <1>8

\* A byte after a backslash.
LEMMA AtEscape ==
    ASSUME NEW g, DOMAIN g = Fields, g.at = "escape", NEW c
    PROVE  LET n == Grammar!Step(g, c) IN
           /\ c \in {"quote", "bslash", "slash", "b", "f", "n", "r", "t"} =>
                Is(n, "string", g.stack, g.key, g.left, g.float, g.many, <<>>)
           /\ c = "u" => Is(n, "hex4", g.stack, g.key, <<"hex", "hex", "hex", "hex">>, g.float, g.many, <<>>)
           /\ c \notin {"quote", "bslash", "slash", "b", "f", "n", "r", "t", "u"} => Rejected(n)
<1>. DEFINE h == Blanked(g)
<1>1. Grammar!Step(g, c) = Grammar!Escape(h, c) BY StepAt DEF Grammar!Between
<1>2. Is(h, "escape", g.stack, g.key, g.left, g.float, g.many, <<>>) BY BlankedIs
<1>3. DOMAIN h = Fields /\ h.out = <<>> /\ h.stack = g.stack /\ h.key = g.key /\ h.left = g.left
      /\ h.float = g.float /\ h.many = g.many
  BY <1>2 DEF Is
<1>. HIDE DEF h
<1>. QED BY <1>1, <1>3, EscapeIs

\* A byte where certain bytes are owed: digits of an escape, bytes of a character, letters.
LEMMA AtOwing ==
    ASSUME NEW g, DOMAIN g = Fields, g.at \in {"hex4", "utf8"} \cup DOMAIN Words, NEW c
    PROVE  LET n == Grammar!Step(g, c)
               fits == IF g.at = "hex4" THEN c \in Digit \cup HexLetter ELSE c = Head(g.left)
               rest == Tail(g.left)
           IN  /\ ~fits => Rejected(n)
               /\ fits /\ rest # <<>> => Is(n, g.at, g.stack, g.key, rest, g.float, g.many, <<>>)
               /\ fits /\ rest = <<>> /\ g.at \in DOMAIN Words =>
                    Is(n, Past(g.stack, g.many), g.stack, FALSE, <<>>, FALSE, g.many,
                       <<Call(LiteralFun[g.at], Context(g.stack))>>)
               /\ fits /\ rest = <<>> /\ g.at \notin DOMAIN Words =>
                    Is(n, "string", g.stack, g.key, <<>>, g.float, g.many, <<>>)
<1>. DEFINE h == Blanked(g)
<1>1. Grammar!Step(g, c) = Grammar!Owed(h, c)
  <2>1. g.at \in Grammar!Owing /\ g.at \notin Grammar!Between
    BY SameOperators, MapSets DEF Grammar!Owing, Grammar!Between
  <2>. QED BY <2>1, StepAt
<1>2. Is(h, g.at, g.stack, g.key, g.left, g.float, g.many, <<>>) BY BlankedIs
<1>3. DOMAIN h = Fields /\ h.out = <<>> /\ h.stack = g.stack /\ h.key = g.key /\ h.left = g.left
      /\ h.float = g.float /\ h.many = g.many /\ h.at = g.at
  BY <1>2 DEF Is
<1>. HIDE DEF h
<1>. QED BY <1>1, <1>3, OwedIs

\* A byte in or after a number.
LEMMA AtNumber ==
    ASSUME ~AfterNumber, NEW g, DOMAIN g = Fields, g.many \in BOOLEAN, g.at \in Grammar!Numbers, NEW c
    PROVE  LET n == Grammar!Step(g, c)
               next == Grammar!NumberStep(g.at, c)
               ends == next = "none" /\ g.at \in Grammar!NumberEnd
               within == g.stack # <<>>
               handed == Call(IF g.float THEN "add_float" ELSE "add_int", Context(g.stack))
               rest == SubSeq(g.stack, 1, Len(g.stack) - 1)
           IN  /\ next # "none" =>
                    Is(n, next, g.stack, g.key, g.left, g.float \/ next \in {"dot", "e"}, g.many, <<>>)
               /\ next = "none" /\ ~ends => Rejected(n)
               /\ ends /\ c \in Blank =>
                    Is(n, IF within THEN "after" ELSE "last", g.stack, FALSE, g.left, FALSE, g.many /\ within, <<handed>>)
               /\ ends /\ c \notin Blank /\ ~within => Rejected(n)
               /\ ends /\ c = "comma" /\ within =>
                    Is(n, IF Context(g.stack) = "object" THEN "name" ELSE "value", g.stack, FALSE, g.left,
                       FALSE, g.many, <<handed>>)
               /\ \A kind \in {"array", "object"} :
                    ends /\ c = (IF kind = "array" THEN "rb" ELSE "rc") /\ within =>
                      IF Context(g.stack) # kind THEN Rejected(n)
                      ELSE Is(n, Past(rest, g.many), rest, FALSE, g.left, FALSE, g.many,
                              <<handed, Call(CloseFun(kind), Context(rest))>>)
               /\ ends /\ c \notin Blank \cup {"comma", "rb", "rc"} => Rejected(n)
<1>. DEFINE h == Blanked(g)
<1>1. Grammar!Step(g, c) = Grammar!Number(h, c)
  <2>1. g.at \notin Grammar!Between BY DEF Grammar!Between, Grammar!Numbers
  <2>. QED BY <2>1, StepAt
<1>2. Is(h, g.at, g.stack, g.key, g.left, g.float, g.many, <<>>) BY BlankedIs
<1>3. DOMAIN h = Fields /\ h.out = <<>> /\ h.stack = g.stack /\ h.key = g.key /\ h.left = g.left
      /\ h.float = g.float /\ h.many = g.many /\ h.at = g.at
  BY <1>2 DEF Is
<1>. HIDE DEF h
<1>. QED BY <1>1, <1>3, NumberIs, ZenonT(60)

\* The grammar of numbers, one row for each place.
LEMMA NumberRows ==
    ASSUME NEW c
    PROVE  /\ Grammar!NumberStep("minus", c) = IF c = "zero" THEN "int0" ELSE IF c = "digit" THEN "int" ELSE "none"
           /\ Grammar!NumberStep("int0", c) =
                IF c = "dot" THEN "dot" ELSE IF c \in ExpLetter THEN "e" ELSE "none"
           /\ Grammar!NumberStep("int", c) =
                IF c \in Digit THEN "int" ELSE IF c = "dot" THEN "dot" ELSE IF c \in ExpLetter THEN "e" ELSE "none"
           /\ Grammar!NumberStep("dot", c) = IF c \in Digit THEN "frac" ELSE "none"
           /\ Grammar!NumberStep("frac", c) =
                IF c \in Digit THEN "frac" ELSE IF c \in ExpLetter THEN "e" ELSE "none"
           /\ Grammar!NumberStep("e", c) =
                IF c \in {"minus", "plus"} THEN "sign" ELSE IF c \in Digit THEN "exp" ELSE "none"
           /\ Grammar!NumberStep("sign", c) = IF c \in Digit THEN "exp" ELSE "none"
           /\ Grammar!NumberStep("exp", c) = IF c \in Digit THEN "exp" ELSE "none"
BY SameOperators DEF Grammar!NumberStep, Digit, ExpLetter

\* A reader that has left the grammar does not come back.
LEMMA BadStays ==
    ASSUME NEW g, DOMAIN g = Fields, g.at = "bad", NEW c
    PROVE  /\ DOMAIN Grammar!Step(g, c) = Fields /\ Grammar!Step(g, c).at = "bad"
           /\ DOMAIN Grammar!Finish(g) = Fields /\ Grammar!Finish(g).at = "bad"
           /\ DOMAIN [g EXCEPT !.out = <<>>] = Fields /\ [g EXCEPT !.out = <<>>].at = "bad"
<1>. DEFINE h == [g EXCEPT !.out = <<>>]
<1>1. DOMAIN h = Fields /\ h.at = "bad" BY DEF Fields
<1>2. Grammar!Finish(g) = IF h.at \in Grammar!NumberEnd /\ h.stack = <<>> THEN Grammar!YieldNumber(h) ELSE h
  BY DEF Grammar!Finish
<1>3. Grammar!Step(g, c) =
    IF h.at \in Grammar!Between /\ c \in Grammar!Blank THEN h ELSE
    CASE h.at \in Grammar!Numbers -> Grammar!Number(h, c)
      [] h.at = "after"   -> Grammar!Separator(h, c)
      [] h.at = "string"  -> Grammar!Text(h, c)
      [] h.at = "escape"  -> Grammar!Escape(h, c)
      [] h.at \in Grammar!Owing   -> Grammar!Owed(h, c)
      [] h.at \in {"value", "done"} -> Grammar!Value(h, c)
      [] h.at = "first"   -> IF c = "rb" THEN Grammar!Close(h, "array") ELSE Grammar!Value(h, c)
      [] h.at = "name1"   -> IF c = "rc" THEN Grammar!Close(h, "object") ELSE Grammar!Name(h, c)
      [] h.at = "name"    -> Grammar!Name(h, c)
      [] h.at = "colon"   -> IF c = "colon" THEN Grammar!Goto(h, "value") ELSE Grammar!Bad
      [] OTHER            -> Grammar!Bad
  BY DEF Grammar!Step
<1>. HIDE DEF h
<1>4. "bad" \notin Grammar!Owing BY SameOperators, MapSets DEF Grammar!Owing
<1>5. Grammar!Step(g, c) = Grammar!Bad
  BY <1>1, <1>3, <1>4 DEF Grammar!Between, Grammar!Numbers
<1>6. Grammar!Finish(g) = h BY <1>1, <1>2 DEF Grammar!NumberEnd
<1>. QED BY <1>1, <1>5, <1>6, BadIs DEF Rejected, Is, h

-----------------------------------------------------------------------------
\* Where the parser stands and where the grammar does, as long as the input is
\* well-formed.  m, nm, st, ty, r, mt, one: the variables of the parser; g: gram.
BetweenTokens(m, st, one, g) ==
    /\ g.left = <<>>
    /\ \/ m = "value" /\ st = <<>> /\ (g.at = "value" \/ (g.at = "done" /\ ~one))
       \/ m = "value" /\ Context(st) = "array" /\ g.at = "first"
       \/ m = "value" /\ Context(st) = "object" /\ g.at = "value"
       \/ m = "comma" /\ Context(st) = "array" /\ g.at = "value"
       \/ m = "after" /\ st # <<>> /\ g.at = "after"
       \/ m = "trail" /\ st = <<>> /\ one /\ g.at \in {"last", "value"}
       \/ m = "key1" /\ Context(st) = "object" /\ g.at = "name1"
       \/ m = "key" /\ Context(st) = "object" /\ g.at = "name"
       \/ m = "colon" /\ Context(st) = "object" /\ g.at = "colon"

\* Inside a string, or a name of which something had to be copied.
InString(m, nm, st, r, g) ==
    /\ g.key \in BOOLEAN
    /\ IF g.key THEN nm = "colon" /\ Context(st) = "object"
       ELSE nm = IF st = <<>> THEN "value" ELSE "after"
    /\ \/ m = "string" /\ g.at = "string" /\ g.left = <<>>
       \/ m = "esc" /\ g.at = "escape" /\ g.left = <<>>
       \/ m = "u" /\ g.at = "hex4" /\ r \in 0..3 /\ g.left = [i \in 1..4 - r |-> "hex"]
       \/ m = "utf" /\ g.at = "utf8" /\ r \in 1..3 /\ g.left = [i \in 1..r |-> "follow"]

\* Inside a name that is looked for ahead.
InName(m, st, g) ==
    m = "in_key" /\ Context(st) = "object" /\ g.at = "string" /\ g.key = TRUE /\ g.left = <<>>

\* Inside null, true or false: as many letters are owed as ri says.
InLiteral(m, r, mt, g) ==
    /\ g.at \in DOMAIN Words
    /\ m = g.at \/ (m \in DOMAIN Lookahead /\ Lookahead[m] = g.at)
    /\ mt = TRUE /\ r \in 1..Len(Words[g.at]) - 1
    /\ g.left = SubSeq(Words[g.at], r + 1, Len(Words[g.at]))

\* Which part of a number the grammar has read when the parser has this map.
Place == [neg |-> "minus", zero |-> "int0", digit |-> "int", dot |-> "dot", frac |-> "frac",
          exp_sign |-> "e", exp_zero |-> "sign", exp |-> "exp",
          big_digit |-> "int", big_dot |-> "dot", big_frac |-> "frac",
          big_exp_sign |-> "e", big_exp_zero |-> "sign", big_exp |-> "exp"]
\* The maps of a number whose digits are collected as text.
Bigs  == {"big_digit", "big_dot", "big_frac", "big_exp_sign", "big_exp_zero", "big_exp"}
\* Unless the number is over at the end of a chunk.
InNumber(m, st, ty, sp, ph, g) ==
    /\ m \in DOMAIN Place /\ g.at = Place[m] /\ g.left = <<>>
    /\ IF g.at \in {"dot", "frac", "e", "sign", "exp"} THEN g.float = TRUE ELSE g.float = FALSE
    /\ ~sp /\ ph # "ended" =>
         ty = IF m \in Bigs THEN "big" ELSE IF m \in {"neg", "zero", "digit"} THEN "int" ELSE "decimal"
    /\ ph = "ended" => g.at \notin Grammar!NumberEnd \/ st # <<>>

\* A number that a blank has ended: the parser still has its map.
PastNumber(m, st, ty, g) ==
    m \in numeric /\ ty = "none" /\ g.at = (IF st = <<>> THEN "last" ELSE "after") /\ g.left = <<>>

\* All the places there are.
Spot(m, nm, st, ty, r, mt, one, sp, ph, g) ==
    \/ BetweenTokens(m, st, one, g)
    \/ InString(m, nm, st, r, g)
    \/ InName(m, st, g)
    \/ InLiteral(m, r, mt, g)
    \/ InNumber(m, st, ty, sp, ph, g)
    \/ PastNumber(m, st, ty, g)

\* The two agree.
Agree(m, nm, st, ty, r, mt, one, sp, ph, g) ==
    /\ g.stack = st
    /\ g.at # "last" => g.many = ~one
    /\ Spot(m, nm, st, ty, r, mt, one, sp, ph, g)

\* The calls of a step are those the grammar completes.
Told(at, calls, ref) ==
    Agrees(IF at = "colon" /\ calls = <<Call("add_str", "object")>> THEN <<>> ELSE calls, ref)

\* A call agrees with itself, and a big number with either type of number.
LEMMA AgreesSame ==
    /\ Agrees(<<>>, <<>>)
    /\ \A x : Agrees(<<x>>, <<x>>)
    /\ \A x, y : Agrees(<<x, y>>, <<x, y>>)
    /\ \A ctx : \A fun \in {"add_int", "add_float"} :
         /\ Agrees(<<Call("add_big", ctx)>>, <<Call(fun, ctx)>>)
         /\ \A y : Agrees(<<Call("add_big", ctx), y>>, <<Call(fun, ctx), y>>)
BY DEF Agrees, Call

\* No calls are those of no value; the name of a member is no value.
LEMMA ToldCalls ==
    /\ \A at : Told(at, <<>>, <<>>)
    /\ Told("colon", <<Call("add_str", "object")>>, <<>>)
    /\ \A at, calls, ref : at # "colon" /\ Agrees(calls, ref) => Told(at, calls, ref)
<1>1. <<Call("add_str", "object")>> # <<>> OBVIOUS
<1>. QED BY <1>1, AgreesSame DEF Told

\* The two of them before a byte is read.
Before(c) ==
    /\ ~AfterNumber
    /\ Here /\ Reading /\ just_one \in BOOLEAN /\ matches \in BOOLEAN /\ split \in BOOLEAN
    /\ DOMAIN gram = Fields
    /\ Agree(map, next_map, stack, type, ri, matches, just_one, split, phase, gram)
    /\ gram' = Grammar!Step(gram, c) /\ UNCHANGED <<just_one, entry, split>>

\* After it: they agree, or one of them does not take the byte.
Together ==
    /\ Agree(map', next_map', stack', type', ri', matches', just_one', split', phase', gram')
    /\ ~split' => Told(gram'.at, out', gram'.out)
\* One of the two does not take the byte: where the parser raises, the text is not well-formed,
\* or it is one of the two texts the parser is known to refuse; where it goes on, the slack is known.
Apart ==
    \/ phase' = "raised"
         /\ \/ gram'.at = "bad"
            \/ map = "zero" /\ gram'.at = "e"
            \/ map = "trail" /\ gram.at = "value"
    \/ phase' = "reading" /\ gram'.at = "bad" /\ Slack
\* What is proved of every byte.
After == DOMAIN gram' = Fields /\ (Apart \/ (phase' = "reading" /\ gram'.at # "bad" /\ Together))

\* The map tells which kind of place it is.
LEMMA Sorts ==
    ASSUME NEW m \in Maps, NEW nm, NEW st, NEW ty, NEW r, NEW mt, NEW one, NEW sp, NEW ph, NEW g,
           Spot(m, nm, st, ty, r, mt, one, sp, ph, g)
    PROVE  /\ m \in {"value", "comma", "after", "trail", "key1", "key", "colon"} => BetweenTokens(m, st, one, g)
           /\ m \in {"string", "esc", "u", "utf"} => InString(m, nm, st, r, g)
           /\ m = "in_key" => InName(m, st, g)
           /\ m \in DOMAIN Words \cup DOMAIN Lookahead => InLiteral(m, r, mt, g)
           /\ m \in DOMAIN Place => InNumber(m, st, ty, sp, ph, g) \/ PastNumber(m, st, ty, g)
<1>1. BetweenTokens(m, st, one, g) => m \in {"value", "comma", "after", "trail", "key1", "key", "colon"}
  BY DEF BetweenTokens
<1>2. InString(m, nm, st, r, g) => m \in {"string", "esc", "u", "utf"} BY DEF InString
<1>3. InName(m, st, g) => m = "in_key" BY DEF InName
<1>4. InLiteral(m, r, mt, g) => m \in {"null", "true", "false", "in_null", "in_true", "in_false"}
  BY MapSets DEF InLiteral
<1>5. InNumber(m, st, ty, sp, ph, g) \/ PastNumber(m, st, ty, g) => m \in DOMAIN Place
  BY DEF InNumber, PastNumber, numeric, Place
<1>6. DOMAIN Place = {"neg", "zero", "digit", "dot", "frac", "exp_sign", "exp_zero", "exp", "big_digit", "big_dot",
                      "big_frac", "big_exp_sign", "big_exp_zero", "big_exp"}
  BY DEF Place
<1>. QED BY <1>1, <1>2, <1>3, <1>4, <1>5, <1>6, MapSets DEF Spot

-----------------------------------------------------------------------------
\* A byte neither of them takes, and one only the parser does.
LEMMA Lost ==
    ASSUME Rejected(gram'), phase' = "raised" \/ (phase' = "reading" /\ Slack)
    PROVE  After
BY DEF Rejected, Is, After, Apart

\* One both of them take.
LEMMA Kept ==
    ASSUME NEW at, NEW key, NEW left, NEW float, NEW many, NEW es,
           Is(gram', at, stack', key, left, float, many, es), at # "bad",
           phase' = "reading",
           at # "last" => many = ~just_one',
           Spot(map', next_map', stack', type', ri', matches', just_one', split', phase', gram'),
           ~split' => Told(at, out', es)
    PROVE  After
BY DEF Is, After, Together, Agree

\* The letters a literal owes.
LEMMA Owes ==
    ASSUME NEW w \in DOMAIN Words, NEW r \in 1 .. Len(Words[w]) - 1
    PROVE  LET owed == SubSeq(Words[w], r + 1, Len(Words[w])) IN
           /\ owed # <<>> /\ Head(owed) = Words[w][r + 1]
           /\ Tail(owed) = SubSeq(Words[w], r + 2, Len(Words[w]))
           /\ Tail(owed) = <<>> <=> r + 1 = Len(Words[w])
<1>. DEFINE L == {"n", "u", "l", "t", "r", "e", "f", "a", "s"}
<1>1. Words[w] \in Seq(L) /\ Len(Words[w]) \in Nat
  <2>1. <<"n", "u", "l", "l">> \in Seq(L) OBVIOUS
  <2>2. <<"t", "r", "u", "e">> \in Seq(L) OBVIOUS
  <2>3. <<"f", "a", "l", "s", "e">> \in Seq(L) OBVIOUS
  <2>4. Words[w] \in {<<"n", "u", "l", "l">>, <<"t", "r", "u", "e">>, <<"f", "a", "l", "s", "e">>}
    BY MapSets, WordLengths
  <2>. HIDE DEF L
  <2>5. Words[w] \in Seq(L) BY <2>1, <2>2, <2>3, <2>4
  <2>. QED BY <2>5
<1>. DEFINE s == Words[w]
<1>. HIDE DEF s
<1>2. s \in Seq(L) /\ Len(s) \in Nat /\ r \in 1 .. Len(s) - 1 BY <1>1 DEF s
<1>3. r + 1 \in 1 .. Len(s) /\ Len(s) \in 1 .. Len(s) /\ r + 1 <= Len(s) BY <1>2
<1>4. Head(SubSeq(s, r + 1, Len(s))) = s[r + 1] /\ Tail(SubSeq(s, r + 1, Len(s))) = SubSeq(s, r + 1 + 1, Len(s))
  BY <1>2, <1>3, HeadTailOfSubSeq
<1>. DEFINE owed == SubSeq(s, r + 1, Len(s))
            rest == SubSeq(s, r + 2, Len(s))
<1>5. Len(owed) = IF r + 1 <= Len(s) THEN Len(s) - (r + 1) + 1 ELSE 0
  BY <1>2, <1>3, SubSeqProperties
<1>6. rest \in Seq(L) /\ Len(rest) = IF r + 2 <= Len(s) THEN Len(s) - (r + 2) + 1 ELSE 0
  <2>1. \A i \in r + 2 .. Len(s) : s[i] \in L BY <1>2
  <2>2. r + 2 \in Int /\ Len(s) \in Int BY <1>2
  <2>. QED BY <2>1, <2>2, SubSeqProperties
<1>. HIDE DEF owed, rest, L
<1>7. owed # <<>> BY <1>2, <1>5, EmptySequence
<1>8. rest = <<>> <=> Len(rest) = 0 BY <1>6, EmptySequence
<1>9. Len(rest) = 0 <=> r + 1 = Len(s)
  <2>1. ASSUME NEW n \in Nat, r \in 1 .. n - 1, NEW k, k = IF r + 2 <= n THEN n - (r + 2) + 1 ELSE 0
        PROVE  k = 0 <=> r + 1 = n
    BY <2>1
  <2>2. Len(s) \in Nat /\ r \in 1 .. Len(s) - 1 BY <1>2
  <2>. QED BY <1>6, <2>1, <2>2
<1>10. r + 1 + 1 = r + 2 BY <1>2
<1>. QED BY <1>4, <1>7, <1>8, <1>9, <1>10 DEF s, owed, rest

\* They are letters.
LEMMA LettersAre ==
    ASSUME NEW w \in DOMAIN Words, NEW r \in 1 .. Len(Words[w]) - 1
    PROVE  Words[w][r + 1] \in {"n", "u", "l", "t", "r", "e", "f", "a", "s"}
<1>1. CASE w = "null"
  <2>1. r \in {1, 2, 3} BY <1>1, WordLengths
  <2>. QED BY <1>1, <2>1, WordLengths
<1>2. CASE w = "true"
  <2>1. r \in {1, 2, 3} BY <1>2, WordLengths
  <2>. QED BY <1>2, <2>1, WordLengths
<1>3. CASE w = "false"
  <2>1. r \in {1, 2, 3, 4} BY <1>3, WordLengths
  <2>. QED BY <1>3, <2>1, WordLengths
<1>. QED BY <1>1, <1>2, <1>3, MapSets

\* A blank, or a character of a string, as the grammar reads it.
LEMMA SkipAgrees ==
    ASSUME NEW c, Before(c), Skip(c)
    PROVE  After
<1>1. /\ UNCHANGED <<next_map, stack, type, ri, matches>> /\ out' = <<>> /\ phase' = "reading"
      /\ map' = Trail(map, stack, just_one)
  BY SkipMoves DEF Before
<1>2. CASE map \in spaced /\ c \in Blank
  <2>1. BetweenTokens(map, stack, just_one, gram)
    BY <1>2, Sorts DEF Before, Here, Agree, spaced
  <2>2. gram.at \in Grammar!Between \/ gram.at = "after" BY <2>1 DEF BetweenTokens, Grammar!Between
  <2>3. Is(gram', gram.at, stack', gram.key, gram.left, gram.float, gram.many, <<>>)
    BY <1>1, <1>2, <2>2, BlankStep, AtSeparator DEF Before, Agree
  <2>4. BetweenTokens(map', stack', just_one', gram')
    <3>1. stack = <<>> => Context(stack) = "top" BY Contexts DEF Before, Here
    <3>2. gram'.at = gram.at /\ gram'.left = gram.left /\ stack' = stack /\ just_one' = just_one
      BY <1>1, <2>3 DEF Is, Before
    <3>3. CASE map' = map BY <2>1, <3>2, <3>3 DEF BetweenTokens
    <3>4. CASE map' = "trail" /\ map = "value" /\ stack = <<>> /\ just_one
      BY <2>1, <3>1, <3>2, <3>4 DEF BetweenTokens
    <3>. QED BY <1>1, <3>3, <3>4 DEF Trail
  <2>5. gram.at # "bad" BY <2>1 DEF BetweenTokens
  <2>. QED BY <1>1, <2>3, <2>4, <2>5, Kept, ToldCalls DEF Spot, Before, Agree
<1>3. CASE map = "string" /\ c \in Printable \ {"quote", "bslash"}
  <2>1. InString(map, next_map, stack, ri, gram)
    BY <1>3, Sorts DEF Before, Here, Agree
  <2>2. gram.at = "string" BY <1>3, <2>1 DEF InString
  <2>3. Is(gram', "string", stack', gram.key, gram.left, gram.float, gram.many, <<>>)
    BY <1>1, <1>3, <2>2, AtString DEF Before, Agree
  <2>4. InString(map', next_map', stack', ri', gram')
    BY <1>1, <1>3, <2>1, <2>3 DEF InString, Is, Trail
  <2>. QED BY <1>1, <2>2, <2>3, <2>4, Kept, ToldCalls DEF Spot, Before, Agree
<1>. QED BY <1>2, <1>3, SkipMoves DEF Before

\* A comma after a value, as the grammar reads it.
LEMMA CommaAgrees ==
    ASSUME NEW c, Before(c), Comma(c)
    PROVE  After
<1>1. /\ UNCHANGED <<next_map, stack, type, ri>> /\ out' = <<>> /\ phase' = "reading"
      /\ map \in {"after"} \cup DOMAIN Words /\ c = "comma"
      /\ map' = IF Context(stack) = "object" THEN "key" ELSE "comma"
  BY CommaMoves DEF Before
<1>2. CASE map = "after"
  <2>1. BetweenTokens(map, stack, just_one, gram)
    BY <1>2, Sorts DEF Before, Here, Agree
  <2>2. gram.at = "after" /\ stack # <<>> /\ gram.left = <<>> BY <1>2, <2>1 DEF BetweenTokens
  <2>3. Is(gram', IF Context(stack) = "object" THEN "name" ELSE "value", stack',
           gram.key, gram.left, gram.float, gram.many, <<>>)
    BY <1>1, <2>2, AtSeparator DEF Before, Agree
  <2>4. Context(stack) \in Kinds BY <2>2, Contexts DEF Before, Here
  <2>5. BetweenTokens(map', stack', just_one', gram')
    BY <1>1, <2>2, <2>3, <2>4 DEF BetweenTokens, Is, Kinds
  <2>. QED BY <1>1, <2>2, <2>3, <2>5, Kept, ToldCalls DEF Spot, Before, Agree
<1>3. CASE map \in DOMAIN Words
  <2>1. InLiteral(map, ri, matches, gram) BY <1>3, Sorts DEF Before, Here, Agree
  <2>2. Rejected(gram')
    <3>1. gram.at \in DOMAIN Words /\ gram.left = SubSeq(Words[gram.at], ri + 1, Len(Words[gram.at]))
          /\ ri \in 1 .. Len(Words[gram.at]) - 1
      BY <2>1 DEF InLiteral
    <3>2. Head(gram.left) = Words[gram.at][ri + 1] BY <3>1, Owes
    <3>3. gram.at # "hex4" BY <3>1, MapSets
    <3>4. Head(gram.left) # "comma" BY <3>1, <3>2, LettersAre
    <3>. QED BY <1>1, <3>1, <3>3, <3>4, AtOwing DEF Before
  <2>. QED BY <1>1, <1>3, <2>2, Lost DEF Slack
<1>. QED BY <1>1, <1>2, <1>3

\* What a \u escape or a UTF-8 sequence owes.
Repeated(x, n) == [i \in 1..n |-> x]

LEMMA Repeats ==
    ASSUME NEW x, NEW n \in Nat, n # 0
    PROVE  /\ Repeated(x, n) # <<>> /\ Head(Repeated(x, n)) = x
           /\ Tail(Repeated(x, n)) = Repeated(x, n - 1)
           /\ Tail(Repeated(x, n)) = <<>> <=> n = 1
<1>. DEFINE s == Repeated(x, n)
            r == Repeated(x, n - 1)
<1>1. s \in Seq({x}) /\ Len(s) = n BY DEF Repeated
<1>2. r \in Seq({x}) /\ Len(r) = n - 1
  <2>1. n - 1 \in Nat OBVIOUS
  <2>. QED BY <2>1 DEF Repeated
<1>3. s # <<>> BY <1>1, EmptySequence
<1>4. Head(s) = x BY <1>1
<1>5. Tail(s) \in Seq({x}) /\ Len(Tail(s)) = n - 1 /\ \A i \in 1..n - 1 : Tail(s)[i] = x
  <2>. HIDE DEF s
  <2>1. Tail(s) \in Seq({x}) /\ Len(Tail(s)) = Len(s) - 1 /\ \A i \in 1 .. Len(s) - 1 : Tail(s)[i] = s[i + 1]
    BY <1>1, <1>3, HeadTailProperties
  <2>2. \A i \in 1..n - 1 : s[i + 1] = x BY DEF s, Repeated
  <2>. QED BY <1>1, <2>1, <2>2
<1>6. \A i \in 1..n - 1 : Tail(s)[i] = r[i] BY <1>5 DEF Repeated
<1>. HIDE DEF s, r
<1>7. Tail(s) = r BY <1>2, <1>5, <1>6, SeqEqual
<1>8. r = <<>> <=> Len(r) = 0 BY <1>2, EmptySequence
<1>9. Len(r) = 0 <=> n = 1 BY <1>2
<1>. QED BY <1>3, <1>4, <1>7, <1>8, <1>9 DEF s, r

\* The four digits of an escape.
LEMMA FourDigits == <<"hex", "hex", "hex", "hex">> = [i \in 1..4 |-> "hex"]
OBVIOUS

\* The quote before a name, as the grammar reads it.
LEMMA KeyQuoteAgrees ==
    ASSUME NEW c, Before(c), KeyQuote(c)
    PROVE  After
<1>1. /\ UNCHANGED <<next_map, stack, type, ri, matches>> /\ out' = <<>> /\ phase' = "reading"
      /\ map \in {"key1", "key"} /\ c = "quote" /\ map' = "in_key"
  BY KeyQuoteMoves DEF Before
<1>2. BetweenTokens(map, stack, just_one, gram) BY <1>1, Sorts DEF Before, Here, Agree
<1>3. gram.at \in {"name1", "name"} /\ Context(stack) = "object" /\ gram.left = <<>>
  BY <1>1, <1>2 DEF BetweenTokens
<1>4. Is(gram', "string", stack', TRUE, <<>>, gram.float, gram.many, <<>>)
  BY <1>1, <1>3, AtName DEF Before, Agree, Blank
<1>5. InName(map', stack', gram') BY <1>1, <1>3, <1>4 DEF InName, Is
<1>. QED BY <1>1, <1>3, <1>4, <1>5, Kept, ToldCalls DEF Spot, Before, Agree

\* A character of a name, as the grammar reads it.
LEMMA InKeyAgrees ==
    ASSUME NEW c, Before(c), InKey(c)
    PROVE  After
<1>1. /\ map = "in_key" /\ UNCHANGED <<stack, type, matches>> /\ out' = <<>>
      /\ phase' = IF c \in Printable \cup Lead THEN "reading" ELSE "raised"
      /\ ri' = IF c \in Lead THEN Follows[c] ELSE ri
      /\ \/ c = "quote" /\ map' = "colon" /\ next_map' = next_map
         \/ c \in Printable \ {"quote", "bslash"} /\ map' = "in_key" /\ next_map' = next_map
         \/ c = "bslash" /\ map' = "esc" /\ next_map' = "colon"
         \/ c \in Lead /\ map' = "utf" /\ next_map' = "colon"
         \/ c \notin Printable \cup Lead /\ map' = "string" /\ next_map' = "colon"
  BY InKeyMoves DEF Before
<1>2. Context(stack) = "object" /\ gram.at = "string" /\ gram.key = TRUE /\ gram.left = <<>>
  <2>1. InName(map, stack, gram) BY <1>1, Sorts DEF Before, Here, Agree
  <2>. QED BY <2>1 DEF InName
<1>3. gram.stack = stack /\ gram.many = ~just_one' BY <1>2 DEF Before, Agree
<1>4. CASE c = "quote" /\ map' = "colon"
  <2>1. Is(gram', "colon", stack', FALSE, <<>>, gram.float, gram.many, <<>>)
    BY <1>1, <1>2, <1>3, <1>4, AtString DEF Before
  <2>2. BetweenTokens(map', stack', just_one', gram') BY <1>1, <1>2, <1>4, <2>1 DEF BetweenTokens, Is
  <2>3. phase' = "reading" BY <1>1, <1>4 DEF Printable
  <2>. QED BY <1>1, <1>3, <2>1, <2>2, <2>3, Kept, ToldCalls DEF Spot
<1>5. CASE c \in Printable \ {"quote", "bslash"} /\ map' = "in_key"
  <2>1. Is(gram', "string", stack', TRUE, <<>>, gram.float, gram.many, <<>>)
    BY <1>1, <1>2, <1>3, <1>5, AtString DEF Before
  <2>2. InName(map', stack', gram') BY <1>1, <1>2, <1>5, <2>1 DEF InName, Is
  <2>. QED BY <1>1, <1>3, <1>5, <2>1, <2>2, Kept, ToldCalls DEF Spot
<1>6. CASE c = "bslash" /\ map' = "esc" /\ next_map' = "colon"
  <2>1. Is(gram', "escape", stack', TRUE, <<>>, gram.float, gram.many, <<>>)
    BY <1>1, <1>2, <1>3, <1>6, AtString DEF Before
  <2>2. InString(map', next_map', stack', ri', gram') BY <1>1, <1>2, <1>6, <2>1 DEF InString, Is
  <2>3. phase' = "reading" BY <1>1, <1>6 DEF Printable
  <2>. QED BY <1>1, <1>3, <2>1, <2>2, <2>3, Kept, ToldCalls DEF Spot
<1>7. CASE c \in Lead /\ map' = "utf" /\ next_map' = "colon"
  <2>1. Is(gram', "utf8", stack', TRUE, [i \in 1..ri' |-> "follow"], gram.float, gram.many, <<>>)
    BY <1>1, <1>2, <1>3, <1>7, AtString DEF Before
  <2>2. ri' \in 1..3 BY <1>1, <1>7 DEF Lead, Follows
  <2>3. InString(map', next_map', stack', ri', gram') BY <1>1, <1>2, <1>7, <2>1, <2>2 DEF InString, Is
  <2>. QED BY <1>1, <1>3, <1>7, <2>1, <2>3, Kept, ToldCalls DEF Spot
<1>8. CASE c \notin Printable \cup Lead
  <2>1. Rejected(gram') BY <1>2, <1>8, AtString DEF Before
  <2>. QED BY <1>1, <1>8, <2>1, Lost
<1>. QED BY <1>1, <1>4, <1>5, <1>6, <1>7, <1>8

\* The quote before a string, as the grammar reads it.
LEMMA ValQuoteAgrees ==
    ASSUME NEW c, Before(c), ValQuote(c)
    PROVE  After
<1>1. /\ UNCHANGED <<stack, type, ri, matches>> /\ out' = <<>> /\ phase' = "reading"
      /\ next_map' = AfterValue
      /\ map \in {"value", "comma"} /\ c = "quote" /\ map' = "string"
  BY ValQuoteMoves DEF Before
<1>2. BetweenTokens(map, stack, just_one, gram) BY <1>1, Sorts DEF Before, Here, Agree
<1>3. gram.at \in {"value", "done", "first"} /\ gram.left = <<>> BY <1>1, <1>2 DEF BetweenTokens
<1>4. Is(gram', "string", stack', FALSE, <<>>, gram.float, gram.many, <<>>)
  BY <1>1, <1>3, AtValue DEF Before, Agree, Blank
<1>5. InString(map', next_map', stack', ri', gram')
  BY <1>1, <1>4 DEF InString, Is, AfterValue
<1>. QED BY <1>1, <1>3, <1>4, <1>5, Kept, ToldCalls DEF Spot, Before, Agree

\* The quote after a string, as the grammar reads it.
LEMMA StrQuoteAgrees ==
    ASSUME NEW c, Before(c), StrQuote(c)
    PROVE  After
<1>1. /\ UNCHANGED <<next_map, stack, type, ri, matches>> /\ phase' = "reading"
      /\ out' = <<Call("add_str", Context(stack))>>
      /\ map = "string" /\ c = "quote" /\ map' = Trail(next_map, stack, just_one)
  BY StrQuoteMoves DEF Before
<1>2. InString(map, next_map, stack, ri, gram) BY <1>1, Sorts DEF Before, Here, Agree
<1>3. gram.at = "string" /\ gram.left = <<>> BY <1>1, <1>2 DEF InString
<1>4. gram.stack = stack /\ gram.many = ~just_one' /\ just_one' = just_one /\ DOMAIN gram = Fields
      /\ gram' = Grammar!Step(gram, c)
  BY <1>3 DEF Before, Agree
<1>5. CASE gram.key
  <2>1. Is(gram', "colon", stack', FALSE, <<>>, gram.float, gram.many, <<>>)
    BY <1>1, <1>3, <1>4, <1>5, AtString
  <2>2. map' = "colon" /\ Context(stack) = "object" BY <1>1, <1>2, <1>5 DEF InString, Trail
  <2>3. BetweenTokens(map', stack', just_one', gram') BY <1>1, <2>1, <2>2 DEF BetweenTokens, Is
  <2>. QED BY <1>1, <1>4, <2>1, <2>2, <2>3, Kept, ToldCalls DEF Spot
<1>6. CASE ~gram.key
  <2>1. Is(gram', Past(stack, gram.many), stack', FALSE, <<>>, FALSE, gram.many, <<Call("add_str", Context(stack))>>)
    BY <1>1, <1>3, <1>4, <1>6, AtString
  <2>2. map' = Trail(IF stack = <<>> THEN "value" ELSE "after", stack, just_one)
    BY <1>1, <1>2, <1>6 DEF InString
  <2>3. BetweenTokens(map', stack', just_one', gram')
    BY <1>1, <1>4, <2>1, <2>2 DEF BetweenTokens, Is, Past, Trail
  <2>4. Past(stack, gram.many) \notin {"bad", "colon"} BY DEF Past
  <2>5. Told(Past(stack, gram.many), out', <<Call("add_str", Context(stack))>>)
    BY <1>1, <2>4, ToldCalls, AgreesSame
  <2>. QED BY <1>1, <1>4, <2>1, <2>3, <2>4, <2>5, Kept DEF Spot
<1>7. gram.key \in BOOLEAN BY <1>2 DEF InString
<1>. QED BY <1>5, <1>6, <1>7

\* The u of an escape, as the grammar reads it.
LEMMA EscUAgrees ==
    ASSUME NEW c, Before(c), EscU(c)
    PROVE  After
<1>1. /\ UNCHANGED <<next_map, stack, type, matches>> /\ out' = <<>> /\ phase' = "reading"
      /\ map = "esc" /\ c = "u" /\ map' = "u" /\ ri' = 0
  BY EscUMoves DEF Before
<1>2. InString(map, next_map, stack, ri, gram) BY <1>1, Sorts DEF Before, Here, Agree
<1>3. gram.at = "escape" BY <1>1, <1>2 DEF InString
<1>4. Is(gram', "hex4", stack', gram.key, [i \in 1..4 - ri' |-> "hex"], gram.float, gram.many, <<>>)
  BY <1>1, <1>3, AtEscape, FourDigits DEF Before, Agree
<1>5. InString(map', next_map', stack', ri', gram')
  BY <1>1, <1>2, <1>4 DEF InString, Is
<1>. QED BY <1>1, <1>3, <1>4, <1>5, Kept, ToldCalls DEF Spot, Before, Agree

\* A digit of an escape, as the grammar reads it.
LEMMA UOkAgrees ==
    ASSUME NEW c, Before(c), UOk(c)
    PROVE  After
<1>1. /\ UNCHANGED <<next_map, stack, type, matches>> /\ out' = <<>> /\ phase' = "reading"
      /\ map = "u" /\ c \in Digit \cup HexLetter
      /\ ri' = ri + 1 /\ map' = IF 4 <= ri + 1 THEN "string" ELSE "u"
  BY UOkMoves DEF Before
<1>2. InString(map, next_map, stack, ri, gram) BY <1>1, Sorts DEF Before, Here, Agree
<1>3. gram.at = "hex4" /\ ri \in 0..3 /\ gram.left = [i \in 1..4 - ri |-> "hex"] BY <1>1, <1>2 DEF InString
<1>4. 4 - ri \in Nat /\ 4 - ri # 0 /\ 4 - ri - 1 = 4 - (ri + 1) /\ (4 - ri = 1 <=> ri = 3) BY <1>3
<1>5. /\ Tail(gram.left) = [i \in 1..4 - ri' |-> "hex"] /\ (Tail(gram.left) = <<>> <=> ri = 3)
  <2>1. gram.left = Repeated("hex", 4 - ri) BY <1>3 DEF Repeated
  <2>2. Tail(Repeated("hex", 4 - ri)) = Repeated("hex", 4 - ri - 1) /\ (Tail(Repeated("hex", 4 - ri)) = <<>> <=> 4 - ri = 1)
    BY ONLY <1>4, Repeats
  <2>3. 4 - ri - 1 = 4 - ri' BY <1>1, <1>4
  <2>4. Tail(gram.left) = Repeated("hex", 4 - ri') /\ (Tail(gram.left) = <<>> <=> ri = 3)
    BY ONLY <1>4, <2>1, <2>2, <2>3
  <2>. QED BY <2>4 DEF Repeated
<1>6. "hex4" \notin DOMAIN Words BY MapSets
<1>7. CASE ri = 3
  <2>1. Is(gram', "string", stack', gram.key, <<>>, gram.float, gram.many, <<>>)
    BY <1>1, <1>3, <1>5, <1>6, <1>7, AtOwing DEF Before, Agree
  <2>2. InString(map', next_map', stack', ri', gram') BY <1>1, <1>2, <1>7, <2>1 DEF InString, Is
  <2>. QED BY <1>1, <1>3, <2>1, <2>2, Kept, ToldCalls DEF Spot, Before, Agree
<1>8. CASE ri # 3
  <2>1. Is(gram', "hex4", stack', gram.key, [i \in 1..4 - ri' |-> "hex"], gram.float, gram.many, <<>>)
    <3>. DEFINE rest == Tail(gram.left)
    <3>1. rest # <<>> BY <1>5, <1>8
    <3>2. DOMAIN gram = Fields /\ gram.at = "hex4" /\ gram' = Grammar!Step(gram, c) /\ gram.stack = stack'
      BY <1>1, <1>3 DEF Before, Agree
    <3>3. Is(gram', "hex4", gram.stack, gram.key, rest, gram.float, gram.many, <<>>)
      <4>1. c \in Digit \cup HexLetter BY <1>1
      <4>. QED BY <4>1, <3>1, <3>2, AtOwing
    <3>. QED BY <1>5, <3>2, <3>3
  <2>2. map' = "u" /\ ri' \in 0..3 BY <1>1, <1>3, <1>8
  <2>3. InString(map', next_map', stack', ri', gram') BY <1>1, <1>2, <2>2, <2>1 DEF InString, Is
  <2>. QED BY <1>1, <1>3, <2>1, <2>3, Kept, ToldCalls DEF Spot, Before, Agree
<1>. QED BY <1>7, <1>8

\* The first byte of a character, as the grammar reads it.
LEMMA UtfLeadAgrees ==
    ASSUME NEW c, Before(c), UtfLead(c)
    PROVE  After
<1>1. /\ UNCHANGED <<next_map, stack, type, matches>> /\ out' = <<>> /\ phase' = "reading"
      /\ map = "string" /\ c \in Lead /\ map' = "utf" /\ ri' = Follows[c]
  BY UtfLeadMoves DEF Before
<1>2. InString(map, next_map, stack, ri, gram) BY <1>1, Sorts DEF Before, Here, Agree
<1>3. gram.at = "string" BY <1>1, <1>2 DEF InString
<1>4. Is(gram', "utf8", stack', gram.key, [i \in 1..ri' |-> "follow"], gram.float, gram.many, <<>>)
  BY <1>1, <1>3, AtString DEF Before, Agree
<1>5. ri' \in 1..3 BY <1>1 DEF Lead, Follows
<1>6. InString(map', next_map', stack', ri', gram')
  BY <1>1, <1>2, <1>4, <1>5 DEF InString, Is
<1>. QED BY <1>1, <1>3, <1>4, <1>6, Kept, ToldCalls DEF Spot, Before, Agree

\* A later byte of a character, as the grammar reads it.
LEMMA UtfXAgrees ==
    ASSUME NEW c, Before(c), UtfX(c)
    PROVE  After
<1>1. /\ UNCHANGED <<next_map, stack, type, matches>> /\ out' = <<>> /\ phase' = "reading"
      /\ map = "utf" /\ c = "follow"
      /\ ri' = ri - 1 /\ map' = IF ri - 1 <= 0 THEN "string" ELSE "utf"
  BY UtfXMoves DEF Before
<1>2. InString(map, next_map, stack, ri, gram) BY <1>1, Sorts DEF Before, Here, Agree
<1>3. gram.at = "utf8" /\ ri \in 1..3 /\ gram.left = [i \in 1..ri |-> "follow"] BY <1>1, <1>2 DEF InString
<1>4. ri \in Nat /\ ri # 0 BY <1>3
<1>5. /\ Head(gram.left) = "follow" /\ Tail(gram.left) = [i \in 1..ri' |-> "follow"]
      /\ (Tail(gram.left) = <<>> <=> ri = 1)
  <2>1. gram.left = Repeated("follow", ri) BY <1>3 DEF Repeated
  <2>2. ri - 1 = ri' BY <1>1
  <2>3. /\ Head(gram.left) = "follow" /\ Tail(gram.left) = Repeated("follow", ri')
        /\ (Tail(gram.left) = <<>> <=> ri = 1)
    BY ONLY <1>4, <2>1, <2>2, Repeats
  <2>. QED BY <2>3 DEF Repeated
<1>6. "utf8" \notin DOMAIN Words BY MapSets
<1>7. CASE ri = 1
  <2>1. Is(gram', "string", stack', gram.key, <<>>, gram.float, gram.many, <<>>)
    BY <1>1, <1>3, <1>5, <1>6, <1>7, AtOwing DEF Before, Agree
  <2>2. InString(map', next_map', stack', ri', gram') BY <1>1, <1>2, <1>7, <2>1 DEF InString, Is
  <2>. QED BY <1>1, <1>3, <2>1, <2>2, Kept, ToldCalls DEF Spot, Before, Agree
<1>8. CASE ri # 1
  <2>1. Is(gram', "utf8", stack', gram.key, [i \in 1..ri' |-> "follow"], gram.float, gram.many, <<>>)
    <3>. DEFINE rest == Tail(gram.left)
    <3>1. rest # <<>> BY <1>5, <1>8
    <3>2. DOMAIN gram = Fields /\ gram.at = "utf8" /\ gram' = Grammar!Step(gram, c) /\ gram.stack = stack'
      BY <1>1, <1>3 DEF Before, Agree
    <3>3. Is(gram', "utf8", gram.stack, gram.key, rest, gram.float, gram.many, <<>>)
      BY <1>1, <1>5, <3>1, <3>2, AtOwing, ZenonT(60)
    <3>. QED BY <1>5, <3>2, <3>3
  <2>2. map' = "utf" /\ ri' \in 1..3 BY <1>1, <1>3, <1>8
  <2>3. InString(map', next_map', stack', ri', gram') BY <1>1, <1>2, <2>2, <2>1 DEF InString, Is
  <2>. QED BY <1>1, <1>3, <2>1, <2>3, Kept, ToldCalls DEF Spot, Before, Agree
<1>. QED BY <1>7, <1>8

\* After a value, or a closing bracket, that leaves the containers st open.
LEMMA PastSpot ==
    ASSUME NEW st, NEW one \in BOOLEAN, NEW key, NEW float, NEW es, NEW g,
           Is(g, Past(st, ~one), st, key, <<>>, float, ~one, es)
    PROVE  BetweenTokens(Trail(IF st = <<>> THEN "value" ELSE "after", st, one), st, one, g)
BY DEF BetweenTokens, Is, Past, Trail

\* Where that is.
LEMMA PastAt == \A st, many : Past(st, many) \in {"after", "done", "last"}
BY DEF Past

\* Where the reader stands when the parser reads the bytes of a number.
LEMMA InNumberAt ==
    ASSUME InNumber(map, stack, type, split, phase, gram), Reading
    PROVE  /\ map \in DOMAIN Place /\ gram.at = Place[map] /\ gram.left = <<>>
           /\ gram.at \in Grammar!Numbers
           /\ map \in numeric => gram.at \in Grammar!NumberEnd
           /\ map \in {"neg", "zero", "digit", "big_digit"} => gram.float = FALSE
           /\ map \in {"dot", "frac", "exp_sign", "exp_zero", "exp", "big_dot", "big_frac", "big_exp_sign",
                       "big_exp_zero", "big_exp"} => gram.float = TRUE
           /\ gram.float \in BOOLEAN
           /\ ~split =>
                /\ map \in {"neg", "zero", "digit"} => type = "int"
                /\ map \in {"dot", "frac", "exp_sign", "exp_zero", "exp"} => type = "decimal"
                /\ map \in Bigs => type = "big"
<1>1. phase # "ended" BY DEF Reading
<1>2. map \in DOMAIN Place /\ gram.at = Place[map] /\ gram.left = <<>> BY DEF InNumber
<1>3. gram.at \in Grammar!Numbers /\ (map \in numeric => gram.at \in Grammar!NumberEnd)
  BY <1>2 DEF Place, Grammar!Numbers, Grammar!NumberEnd, numeric
<1>4. IF gram.at \in {"dot", "frac", "e", "sign", "exp"} THEN gram.float = TRUE ELSE gram.float = FALSE
  BY DEF InNumber
<1>5. /\ map \in {"neg", "zero", "digit", "big_digit"} => gram.at \in {"minus", "int0", "int"}
      /\ map \in {"dot", "frac", "exp_sign", "exp_zero", "exp", "big_dot", "big_frac", "big_exp_sign",
                       "big_exp_zero", "big_exp"} => gram.at \in {"dot", "frac", "e", "sign", "exp"}
  BY <1>2 DEF Place
<1>6. ~split => type = IF map \in Bigs THEN "big" ELSE IF map \in {"neg", "zero", "digit"} THEN "int" ELSE "decimal"
  BY <1>1 DEF InNumber
<1>7. ~split =>
        /\ map \in {"neg", "zero", "digit"} => type = "int"
        /\ map \in {"dot", "frac", "exp_sign", "exp_zero", "exp"} => type = "decimal"
        /\ map \in Bigs => type = "big"
  BY <1>6 DEF Bigs
<1>8. /\ map \in {"neg", "zero", "digit", "big_digit"} => gram.float = FALSE
      /\ map \in {"dot", "frac", "exp_sign", "exp_zero", "exp", "big_dot", "big_frac", "big_exp_sign",
                       "big_exp_zero", "big_exp"} => gram.float = TRUE
      /\ gram.float \in BOOLEAN
  <2>1. gram.at \in {"minus", "int0", "int"} => gram.at \notin {"dot", "frac", "e", "sign", "exp"} OBVIOUS
  <2>2. gram.float = TRUE \/ gram.float = FALSE BY <1>4, Zenon
  <2>. QED BY <1>4, <1>5, <2>1, <2>2, Zenon
<1>. HIDE DEF InNumber
<1>. QED BY <1>2, <1>3, <1>7, <1>8, Zenon

\* The number as both of them hand it over.
NumberName(g) == Call(IF g.float THEN "add_float" ELSE "add_int", Context(g.stack))
\* They agree on it, alone or before the call of a closing bracket.
LEMMA NumberTold ==
    ASSUME InNumber(map, stack, type, split, phase, gram), Reading, ~split, map \in numeric, gram.stack = stack
    PROVE  /\ NumberCall = <<NumberName(gram)>> \/ NumberCall = <<Call("add_big", Context(stack))>>
           /\ Agrees(NumberCall, <<NumberName(gram)>>)
           /\ \A y : Agrees(Append(NumberCall, y), <<NumberName(gram), y>>)
<1>1. \/ map \in {"zero", "digit"} /\ type = "int" /\ gram.float = FALSE
      \/ map \in {"frac", "exp"} /\ type = "decimal" /\ gram.float = TRUE
      \/ map \in Bigs /\ type = "big" /\ gram.float \in BOOLEAN
  BY InNumberAt DEF numeric, Bigs
<1>2. NumberCall = <<NumberName(gram)>> \/ NumberCall = <<Call("add_big", Context(stack))>>
  BY <1>1 DEF NumberCall, NumberName
<1>3. PICK fun \in {"add_int", "add_float"} : NumberName(gram) = Call(fun, Context(stack))
  BY DEF NumberName
<1>4. ASSUME NEW x, NumberCall = <<x>> PROVE \A y : Append(NumberCall, y) = <<x, y>>
  BY <1>4, AppendPair
<1>5. Agrees(NumberCall, <<NumberName(gram)>>) BY <1>2, <1>3, AgreesSame
<1>6. ASSUME NEW y PROVE Agrees(Append(NumberCall, y), <<NumberName(gram), y>>)
  <2>1. CASE NumberCall = <<NumberName(gram)>>
    <3>1. Append(NumberCall, y) = <<NumberName(gram), y>> BY <1>4, <2>1
    <3>. QED BY <3>1, AgreesSame
  <2>2. CASE NumberCall = <<Call("add_big", Context(stack))>>
    <3>1. Append(NumberCall, y) = <<Call("add_big", Context(stack)), y>> BY <1>4, <2>2
    <3>. QED BY <1>3, <3>1, AgreesSame
  <2>. QED BY <1>2, <2>1, <2>2
<1>. QED BY <1>2, <1>5, <1>6

\* A number that has been handed over is not there any more.
LEMMA NothingTold == type = "none" => NumberCall = <<>>
BY DEF NumberCall

\* An opening bracket, as the grammar reads it.
LEMMA OpenAgrees ==
    ASSUME NEW c, Before(c), Open(c)
    PROVE  After
<1>1. PICK kind \in Kinds :
        /\ UNCHANGED <<next_map, type, ri, matches>> /\ phase' = "reading"
        /\ map \in {"value", "comma"} /\ c = (IF kind = "array" THEN "lb" ELSE "lc")
        /\ depth < MaxDepth /\ stack' = Append(stack, kind)
        /\ map' = IF kind = "array" THEN "value" ELSE "key1"
        /\ out' = <<Call(OpenFun(kind), Context(stack))>>
  BY OpenMoves DEF Before
<1>2. BetweenTokens(map, stack, just_one, gram) BY <1>1, Sorts DEF Before, Here, Agree
<1>3. gram.at \in {"value", "done", "first"} /\ gram.left = <<>> BY <1>1, <1>2 DEF BetweenTokens
<1>4. gram.stack = stack /\ gram.many = ~just_one' /\ just_one' = just_one /\ DOMAIN gram = Fields
      /\ gram' = Grammar!Step(gram, c)
  BY <1>3 DEF Before, Agree
<1>5. Is(gram', IF kind = "array" THEN "first" ELSE "name1", stack', FALSE, <<>>, FALSE, gram.many, out')
  BY <1>1, <1>3, <1>4, AtValue DEF Kinds, OpenFun, Blank
<1>6. Context(stack') = kind BY <1>1, Contexts DEF Before, Here
<1>7. BetweenTokens(map', stack', just_one', gram')
  BY <1>1, <1>5, <1>6 DEF BetweenTokens, Is, Kinds
<1>8. \A at : at # "colon" => Told(at, out', out') BY <1>1, ToldCalls, AgreesSame
<1>. QED BY <1>1, <1>4, <1>5, <1>7, <1>8, Kept DEF Spot

\* Closing what is open, after a value.
LEMMA CloseAgrees ==
    ASSUME NEW c, Before(c), Close(c)
    PROVE  After
<1>. DEFINE rest == SubSeq(stack, 1, Len(stack) - 1)
<1>1. PICK kind \in Kinds, calls \in {<<>>, NumberCall} :
             /\ UNCHANGED <<next_map, ri, matches>>
             /\ c = IF kind = "array" THEN "rb" ELSE "rc"
             /\ \/ /\ map \in {"value", "after", "key1"} /\ (kind = "array" => map # "key1")
                   /\ calls = <<>> /\ type' = type
                \/ map \in numeric /\ calls = NumberCall /\ type' = "none"
             /\ IF Context(stack) # kind
                THEN map' \in {"value", "after"} /\ stack' = stack /\ phase' = "raised"
                ELSE /\ stack # <<>> /\ stack' = rest
                     /\ map' = Trail(IF rest = <<>> THEN "value" ELSE "after", rest, just_one)
                     /\ phase' = "reading" /\ out' = Append(calls, Call(CloseFun(kind), Context(rest)))
  BY CloseMoves DEF Before
<1>. DEFINE close == Call(CloseFun(kind), Context(rest))
<1>2. just_one' = just_one /\ just_one \in BOOLEAN /\ DOMAIN gram = Fields /\ gram' = Grammar!Step(gram, c)
      /\ gram.stack = stack /\ split' = split
  BY DEF Before, Agree
<1>3. c \notin Blank /\ c \in {"rb", "rc"} BY <1>1 DEF Blank
\* It is enough to see what the reader does.
<1>4. ASSUME NEW es, gram.at # "last", gram.left = <<>>, Context(stack) = kind,
             Is(gram', Past(rest, gram.many), rest, FALSE, gram.left, FALSE, gram.many, es),
             ~split => Agrees(out', es)
      PROVE  After
  <2>1. gram.many = ~just_one' BY <1>2, <1>4 DEF Before, Agree
  <2>2. stack' = rest /\ phase' = "reading" /\ map' = Trail(IF rest = <<>> THEN "value" ELSE "after", rest, just_one)
    BY <1>1, <1>4
  <2>. HIDE DEF rest
  <2>3. BetweenTokens(map', stack', just_one', gram') BY <1>2, <1>4, <2>1, <2>2, PastSpot
  <2>4. ~split' => Told(Past(rest, gram.many), out', es) BY <1>2, <1>4, PastAt, ToldCalls
  <2>. QED BY <1>4, <2>1, <2>2, <2>3, <2>4, PastAt, Kept DEF Spot
<1>5. ASSUME Rejected(gram'), Context(stack) # kind PROVE After
  BY <1>1, <1>5, Lost
\* A bracket after a value, a number that has been handed over among them.
<1>6. ASSUME gram.at = "after", gram.left = <<>>, calls = <<>> PROVE After
  <2>1. IF Context(stack) # kind THEN Rejected(gram')
        ELSE Is(gram', Past(rest, gram.many), rest, FALSE, gram.left, FALSE, gram.many, <<close>>)
    BY <1>1, <1>2, <1>6, AtSeparator
  <2>2. CASE Context(stack) # kind BY <1>5, <2>1, <2>2
  <2>3. CASE Context(stack) = kind
    <3>1. out' = <<close>> BY <1>1, <1>6, <2>3, AppendOne
    <3>. HIDE DEF close, rest
    <3>. QED BY <1>4, <1>6, <2>1, <2>3, <3>1, AgreesSame
  <2>. QED BY <2>2, <2>3
<1>7. CASE map \in {"value", "after", "key1"}
  <2>1. calls = <<>> BY <1>1, <1>7 DEF numeric
  <2>2. BetweenTokens(map, stack, just_one, gram) BY <1>7, Sorts DEF Before, Here, Agree
  <2>3. stack = <<>> => Context(stack) = "top" BY Contexts DEF Before, Here
  <2>4. CASE gram.at \in {"value", "done"} \/ (gram.at = "first" /\ c # "rb")
    <3>1. Rejected(gram') BY <1>2, <1>3, <2>4, AtValue
    <3>2. CASE Context(stack) # kind BY <1>5, <3>1, <3>2
    <3>3. CASE Context(stack) = kind
      <4>1. map = "value" /\ Context(stack) = "object" /\ stack # <<>>
        BY <1>1, <1>7, <2>2, <2>3, <2>4, <3>3 DEF BetweenTokens, Kinds
      <4>2. stack' = rest /\ phase' = "reading" BY <1>1, <3>3
      <4>3. Len(rest) = Len(stack) - 1 /\ Len(stack) \in Nat BY <4>1, Contexts DEF Before, Here
      <4>4. InObject BY <4>1, Depths DEF Before, Here
      <4>5. Slack BY <4>1, <4>2, <4>3, <4>4 DEF Slack
      <4>. QED BY <3>1, <4>2, <4>5, Lost
    <3>. QED BY <3>2, <3>3
  <2>5. CASE (gram.at = "first" /\ c = "rb") \/ gram.at = "name1"
    <3>1. gram.left = <<>> /\ gram.at = (IF kind = "array" THEN "first" ELSE "name1") /\ Context(stack) = kind
      <4>1. /\ c = IF kind = "array" THEN "rb" ELSE "rc"
            /\ map = "key1" => kind # "array"
        BY <1>1 DEF numeric
      <4>2. /\ gram.left = <<>>
            /\ gram.at = "first" => Context(stack) = "array"
            /\ gram.at = "name1" => map = "key1" /\ Context(stack) = "object"
        BY <2>2, <2>5 DEF BetweenTokens
      <4>. QED BY <2>5, <4>1, <4>2 DEF Kinds
    <3>2. Is(gram', Past(rest, gram.many), rest, FALSE, gram.left, FALSE, gram.many, <<close>>)
      BY <1>1, <1>2, <1>3, <3>1, AtName
    <3>3. out' = <<close>> BY <1>1, <2>1, <3>1, AppendOne
    <3>. HIDE DEF close, rest
    <3>. QED BY <1>4, <3>1, <3>2, <3>3, <2>5, AgreesSame
  <2>6. CASE gram.at = "after"
    BY <1>6, <2>1, <2>2, <2>6 DEF BetweenTokens
  <2>. QED BY <1>7, <2>2, <2>4, <2>5, <2>6 DEF BetweenTokens
<1>8. CASE map \in numeric
  <2>1. calls = NumberCall /\ map \in DOMAIN Place BY <1>1, <1>8 DEF numeric, Place
  <2>2. CASE InNumber(map, stack, type, split, phase, gram)
    <3>1. gram.at \in Grammar!Numbers /\ gram.at \in Grammar!NumberEnd /\ gram.left = <<>> /\ gram.at # "last"
      BY <1>8, <2>2, InNumberAt DEF Before, Grammar!NumberEnd
    <3>2. Grammar!NumberStep(gram.at, c) = "none"
      BY <1>3, <3>1, NumberRows DEF Grammar!NumberEnd, Digit, ExpLetter
    <3>3. ~AfterNumber /\ gram.many \in BOOLEAN BY <1>2, <3>1 DEF Before, Agree
    <3>4. CASE stack = <<>>
      <4>1. Rejected(gram') BY <1>2, <1>3, <3>1, <3>2, <3>3, <3>4, AtNumber
      <4>2. Context(stack) # kind BY <3>4, Contexts DEF Before, Here, Kinds
      <4>. QED BY <1>5, <4>1, <4>2
    <3>5. CASE stack # <<>>
      <4>1. IF Context(stack) # kind THEN Rejected(gram')
            ELSE Is(gram', Past(rest, gram.many), rest, FALSE, gram.left, FALSE, gram.many,
                    <<NumberName(gram), close>>)
        BY <1>1, <1>2, <3>1, <3>2, <3>3, <3>5, AtNumber DEF NumberName, Kinds
      <4>2. CASE Context(stack) # kind BY <1>5, <4>1, <4>2
      <4>3. CASE Context(stack) = kind
        <5>1. out' = Append(NumberCall, close) BY <1>1, <2>1, <4>3
        <5>. HIDE DEF close, rest
        <5>2. ~split => Agrees(out', <<NumberName(gram), close>>)
          BY <1>2, <1>8, <2>2, <5>1, NumberTold DEF Before
        <5>. QED BY <1>4, <3>1, <4>1, <4>3, <5>2
      <4>. QED BY <4>2, <4>3
    <3>. QED BY <3>4, <3>5
  <2>3. CASE PastNumber(map, stack, type, gram)
    <3>1. calls = <<>> /\ gram.left = <<>> /\ gram.at = (IF stack = <<>> THEN "last" ELSE "after")
      BY <2>1, <2>3, NothingTold DEF PastNumber
    <3>2. CASE stack = <<>>
      <4>1. Rejected(gram') BY <1>2, <1>3, <3>1, <3>2, AtName
      <4>2. Context(stack) # kind BY <3>2, Contexts DEF Before, Here, Kinds
      <4>. QED BY <1>5, <4>1, <4>2
    <3>. QED BY <1>6, <3>1, <3>2
  <2>. QED BY <2>1, <2>2, <2>3, Sorts DEF Before, Here, Agree
<1>. QED BY <1>1, <1>7, <1>8

\* What the handlers of numbers may rely on.
LEMMA Numbering ==
    ASSUME NEW c, Before(c), map \in DOMAIN Place
    PROVE  /\ DOMAIN gram = Fields /\ gram' = Grammar!Step(gram, c) /\ gram.stack = stack
           /\ just_one' = just_one /\ split' = split /\ just_one \in BOOLEAN
           /\ ~AfterNumber /\ Reading
           /\ \/ /\ InNumber(map, stack, type, split, phase, gram)
                 /\ gram.many = ~just_one' /\ gram.many \in BOOLEAN
                 /\ gram.at \in Grammar!Numbers /\ gram.left = <<>> /\ gram.at = Place[map]
              \/ PastNumber(map, stack, type, gram)
<1>1. InNumber(map, stack, type, split, phase, gram) \/ PastNumber(map, stack, type, gram)
  BY Sorts DEF Before, Here, Agree
<1>2. CASE InNumber(map, stack, type, split, phase, gram)
  <2>1. gram.at \in Grammar!Numbers /\ gram.left = <<>> /\ gram.at = Place[map] BY <1>2, InNumberAt DEF Before
  <2>2. gram.at # "last" BY <2>1 DEF Grammar!Numbers
  <2>. QED BY <1>2, <2>1, <2>2 DEF Before, Agree
<1>. QED BY <1>1, <1>2 DEF Before, Agree

\* A byte inside a number that both of them take.
LEMMA KeptNumber ==
    ASSUME NEW c, Before(c), map \in DOMAIN Place, InNumber(map, stack, type, split, phase, gram),
           phase' = "reading", out' = <<>>, stack' = stack,
           NEW at, at = Grammar!NumberStep(gram.at, c), at # "none", at # "bad", at # "last",
           map' \in DOMAIN Place, at = Place[map'],
           gram.float = TRUE \/ at \in {"dot", "e"} <=> at \in {"dot", "frac", "e", "sign", "exp"},
           ~split => type' = IF map' \in Bigs THEN "big" ELSE IF map' \in {"neg", "zero", "digit"} THEN "int"
                             ELSE "decimal"
    PROVE  After
<1>1. /\ DOMAIN gram = Fields /\ gram' = Grammar!Step(gram, c) /\ gram.stack = stack
      /\ split' = split /\ ~AfterNumber
      /\ gram.many = ~just_one' /\ gram.many \in BOOLEAN
      /\ gram.at \in Grammar!Numbers /\ gram.left = <<>>
  <2>1. ~PastNumber(map, stack, type, gram)
    <3>1. gram.at \in Grammar!Numbers BY InNumberAt DEF Before
    <3>. QED BY <3>1 DEF PastNumber, Grammar!Numbers
  <2>. QED BY <2>1, Numbering
<1>. DEFINE float == gram.float \/ at \in {"dot", "e"}
<1>2. Is(gram', at, stack', gram.key, <<>>, float, gram.many, <<>>) BY <1>1, AtNumber
<1>3. gram.float = TRUE \/ gram.float = FALSE BY InNumberAt DEF Before
<1>4. IF at \in {"dot", "frac", "e", "sign", "exp"} THEN float = TRUE ELSE float = FALSE
  BY <1>3, Zenon
<1>. HIDE DEF float
<1>5. InNumber(map', stack', type', split', phase', gram')
  BY <1>1, <1>2, <1>4 DEF InNumber, Is
<1>. QED BY <1>1, <1>2, <1>5, Kept, ToldCalls DEF Spot

\* A comma after a number, as the grammar reads it.
LEMMA NumCommaAgrees ==
    ASSUME NEW c, Before(c), NumComma(c)
    PROVE  After
<1>1. /\ UNCHANGED <<next_map, stack, ri, matches>> /\ type' = "none" /\ phase' = "reading"
      /\ out' = NumberCall /\ map \in numeric /\ c = "comma"
      /\ map' = IF Context(stack) = "object" THEN "key" ELSE "comma"
  BY NumCommaMoves DEF Before
<1>2. map \in DOMAIN Place /\ map \in number_maps BY <1>1 DEF numeric, Place, number_maps
<1>3. c \notin Blank BY <1>1 DEF Blank
<1>4. stack = <<>> => map' = "comma" /\ Slack
  <2>1. stack = <<>> => Context(stack) = "top" BY Contexts DEF Before, Here
  <2>. QED BY <1>1, <1>2, <2>1 DEF Slack
<1>5. stack # <<>> => Context(stack) \in Kinds BY Contexts DEF Before, Here
<1>6. ASSUME stack # <<>>, NEW es, ~split => Agrees(out', es), NEW key, NEW float,
             Is(gram', IF Context(stack) = "object" THEN "name" ELSE "value", stack', key, <<>>, float, ~just_one', es)
      PROVE  After
  <2>1. Is(gram', IF Context(stack) = "object" THEN "name" ELSE "value", stack', key, <<>>, float, ~just_one', es)
    BY <1>6
  <2>2. BetweenTokens(map', stack', just_one', gram') BY <1>1, <1>5, <1>6, <2>1 DEF BetweenTokens, Is, Kinds
  <2>3. ~split' => Told(IF Context(stack) = "object" THEN "name" ELSE "value", out', es)
    BY <1>6, ToldCalls DEF Before
  <2>. QED BY <1>1, <2>1, <2>2, <2>3, Kept DEF Spot
<1>7. CASE InNumber(map, stack, type, split, phase, gram)
  <2>1. gram.at \in Grammar!Numbers /\ gram.at \in Grammar!NumberEnd /\ gram.left = <<>>
    BY <1>1, <1>7, InNumberAt DEF Before
  <2>2. Grammar!NumberStep(gram.at, c) = "none"
    BY <1>1, <2>1, NumberRows DEF Grammar!NumberEnd, Digit, ExpLetter
  <2>3. /\ DOMAIN gram = Fields /\ gram' = Grammar!Step(gram, c) /\ gram.stack = stack
        /\ split' = split /\ ~AfterNumber /\ gram.many = ~just_one' /\ gram.many \in BOOLEAN
    BY <1>2, <2>1, Numbering DEF PastNumber, Grammar!Numbers
  <2>4. CASE stack = <<>>
    <3>1. Rejected(gram') BY <1>3, <2>1, <2>2, <2>3, <2>4, AtNumber
    <3>. QED BY <1>1, <1>4, <2>4, <3>1, Lost
  <2>5. CASE stack # <<>>
    <3>1. Is(gram', IF Context(stack) = "object" THEN "name" ELSE "value", stack', FALSE, <<>>,
             FALSE, gram.many, <<NumberName(gram)>>)
      BY <1>1, <2>1, <2>2, <2>3, <2>5, AtNumber DEF NumberName
    <3>2. ~split => Agrees(out', <<NumberName(gram)>>) BY <1>1, <1>7, <2>3, NumberTold DEF Before
    <3>. QED BY <1>6, <2>3, <2>5, <3>1, <3>2
  <2>. QED BY <2>4, <2>5
<1>8. CASE PastNumber(map, stack, type, gram)
  <2>1. gram.at = (IF stack = <<>> THEN "last" ELSE "after") /\ gram.left = <<>> /\ out' = <<>>
    BY <1>1, <1>8, NothingTold DEF PastNumber
  <2>2. CASE stack = <<>>
    <3>1. Rejected(gram') BY <1>3, <2>1, <2>2, AtName DEF Before
    <3>. QED BY <1>1, <1>4, <2>2, <3>1, Lost
  <2>3. CASE stack # <<>>
    <3>0. gram.many = ~just_one' /\ gram.stack = stack' BY <1>1, <2>1, <2>3 DEF Before, Agree
    <3>1. Is(gram', IF Context(stack) = "object" THEN "name" ELSE "value", stack', gram.key, <<>>,
             gram.float, ~just_one', <<>>)
      BY <1>1, <2>1, <2>3, <3>0, AtSeparator DEF Before
    <3>. QED BY <1>6, <2>1, <2>3, <3>1, AgreesSame
  <2>. QED BY <2>2, <2>3
<1>. QED BY <1>2, <1>7, <1>8, Numbering

\* A blank after a number, as the grammar reads it.
LEMMA NumSpaceAgrees ==
    ASSUME NEW c, Before(c), NumSpace(c)
    PROVE  After
<1>1. /\ UNCHANGED <<map, next_map, stack, ri, matches>> /\ type' = "none" /\ phase' = "reading"
      /\ out' = NumberCall /\ map \in numeric /\ c \in Blank
  BY NumSpaceMoves DEF Before
<1>2. map \in DOMAIN Place BY <1>1 DEF numeric, Place
<1>3. CASE InNumber(map, stack, type, split, phase, gram)
  <2>1. gram.at \in Grammar!Numbers /\ gram.at \in Grammar!NumberEnd /\ gram.left = <<>>
    BY <1>1, <1>3, InNumberAt DEF Before
  <2>2. Grammar!NumberStep(gram.at, c) = "none"
    BY <1>1, <2>1, NumberRows DEF Grammar!NumberEnd, Digit, ExpLetter, Blank
  <2>3. /\ DOMAIN gram = Fields /\ gram' = Grammar!Step(gram, c) /\ gram.stack = stack
        /\ split' = split /\ ~AfterNumber /\ gram.many = ~just_one' /\ gram.many \in BOOLEAN
    BY <1>2, <2>1, Numbering DEF PastNumber, Grammar!Numbers
  <2>. DEFINE within == stack # <<>>
              at == IF within THEN "after" ELSE "last"
  <2>4. Is(gram', at, stack', FALSE, <<>>, FALSE, gram.many /\ within, <<NumberName(gram)>>)
    BY <1>1, <2>1, <2>2, <2>3, AtNumber DEF NumberName
  <2>5. at # "last" => (gram.many /\ within) = ~just_one' BY <2>3
  <2>6. at \notin {"bad", "colon"} /\ (at = IF stack = <<>> THEN "last" ELSE "after") OBVIOUS
  <2>. HIDE DEF at, within
  <2>7. PastNumber(map', stack', type', gram') BY <1>1, <2>4, <2>6 DEF PastNumber, Is
  <2>8. ~split => Agrees(out', <<NumberName(gram)>>) BY <1>1, <1>3, <2>3, NumberTold DEF Before
  <2>9. ~split' => Told(at, out', <<NumberName(gram)>>) BY <2>3, <2>6, <2>8, ToldCalls
  <2>. QED BY <1>1, <2>4, <2>5, <2>6, <2>7, <2>9, Kept DEF Spot
<1>4. CASE PastNumber(map, stack, type, gram)
  <2>1. gram.at = (IF stack = <<>> THEN "last" ELSE "after") /\ gram.left = <<>> /\ out' = <<>>
    BY <1>1, <1>4, NothingTold DEF PastNumber
  <2>2. Is(gram', gram.at, stack', gram.key, <<>>, gram.float, gram.many, <<>>)
    BY <1>1, <2>1, AtSeparator, BlankStep DEF Before, Agree, Grammar!Between
  <2>3. PastNumber(map', stack', type', gram') BY <1>1, <2>1, <2>2 DEF PastNumber, Is
  <2>4. gram.at # "last" => gram.many = ~just_one' BY DEF Before, Agree
  <2>. QED BY <1>1, <2>1, <2>2, <2>3, <2>4, Kept, ToldCalls DEF Spot
<1>. QED BY <1>2, <1>3, <1>4, Numbering

\* The first byte of a number, as the grammar reads it.
LEMMA StartNumberAgrees ==
    ASSUME NEW c, Before(c), StartNumber(c)
    PROVE  After
<1>1. /\ UNCHANGED <<next_map, stack, ri, matches>> /\ type' = "int" /\ out' = <<>> /\ phase' = "reading"
      /\ map \in {"value", "comma"}
      /\ \/ c = "zero" /\ map' = "zero"
         \/ c = "minus" /\ map' = "neg"
         \/ c = "digit" /\ map' = "digit"
  BY StartNumberMoves DEF Before
<1>2. BetweenTokens(map, stack, just_one, gram) BY <1>1, Sorts DEF Before, Here, Agree
<1>3. gram.at \in {"value", "done", "first"} /\ gram.left = <<>> BY <1>1, <1>2 DEF BetweenTokens
<1>4. gram.stack = stack /\ gram.many = ~just_one' /\ just_one' = just_one /\ DOMAIN gram = Fields
      /\ gram' = Grammar!Step(gram, c) /\ split' = split
  BY <1>3 DEF Before, Agree
<1>5. map' \in DOMAIN Place /\ Place[map'] \in {"minus", "int0", "int"} /\ map' \in {"neg", "zero", "digit"}
  BY <1>1 DEF Place
<1>6. Is(gram', Place[map'], stack', gram.key, <<>>, FALSE, gram.many, <<>>)
  <2>1. \/ c = "zero" /\ Place[map'] = "int0"
        \/ c = "minus" /\ Place[map'] = "minus"
        \/ c = "digit" /\ Place[map'] = "int"
    BY <1>1 DEF Place
  <2>2. c \notin Blank /\ c # "rb" BY <1>1 DEF Blank
  <2>. QED BY <1>1, <1>3, <1>4, <2>1, <2>2, AtValue
<1>7. InNumber(map', stack', type', split', phase', gram')
  BY <1>1, <1>5, <1>6 DEF InNumber, Is, Bigs
<1>. QED BY <1>1, <1>4, <1>5, <1>6, <1>7, Kept, ToldCalls DEF Spot

\* More of a number that has been handed over.
LEMMA MorePast ==
    ASSUME NEW c, Before(c), PastNumber(map, stack, type, gram), phase' = "reading",
           c \in {"dot"} \cup ExpLetter \cup Digit
    PROVE  After
<1>1. gram.at = (IF stack = <<>> THEN "last" ELSE "after") /\ map \in number_loop
  BY DEF PastNumber, numeric, number_loop, number_maps
<1>2. c \notin Blank \cup {"comma", "rb", "rc"} BY DEF Blank, ExpLetter, Digit
<1>3. Rejected(gram')
  <2>1. CASE gram.at = "last" BY <1>2, <2>1, AtName DEF Before
  <2>2. CASE gram.at = "after" BY <1>2, <2>2, AtSeparator DEF Before
  <2>. QED BY <1>1, <2>1, <2>2
<1>4. Slack BY <1>1 DEF Slack
<1>. QED BY <1>3, <1>4, Lost

\* The point or the exponent of a number, as the grammar reads it.
LEMMA DecimalAgrees ==
    ASSUME NEW c, Before(c), Decimal(c)
    PROVE  After
<1>1. /\ UNCHANGED <<next_map, stack, ri, matches>> /\ type' = "decimal" /\ out' = <<>> /\ phase' = "reading"
      /\ \/ map \in {"zero", "digit"} /\ c = "dot" /\ map' = "dot"
         \/ map \in {"digit", "frac"} /\ c \in ExpLetter /\ map' = "exp_sign"
  BY DecimalMoves DEF Before
<1>2. map \in DOMAIN Place BY <1>1 DEF Place
<1>3. CASE InNumber(map, stack, type, split, phase, gram)
  <2>1. gram.at = Place[map] BY <1>3, InNumberAt DEF Before
  <2>2. CASE map' = "dot" /\ c = "dot" /\ map \in {"zero", "digit"}
    <3>1. Grammar!NumberStep(gram.at, c) = "dot" BY <2>1, <2>2, NumberRows DEF Place, Digit
    <3>2. map' \in DOMAIN Place /\ Place[map'] = "dot" /\ map' \notin Bigs BY <2>2 DEF Place, Bigs
    <3>. QED BY <1>1, <1>2, <1>3, <2>2, <3>1, <3>2, KeptNumber
  <2>3. CASE map' = "exp_sign" /\ c \in ExpLetter /\ map \in {"digit", "frac"}
    <3>1. Grammar!NumberStep(gram.at, c) = "e" BY <2>1, <2>3, NumberRows DEF Place, Digit, ExpLetter
    <3>2. map' \in DOMAIN Place /\ Place[map'] = "e" /\ map' \notin Bigs BY <2>3 DEF Place, Bigs
    <3>. QED BY <1>1, <1>2, <1>3, <2>3, <3>1, <3>2, KeptNumber
  <2>. QED BY <1>1, <2>2, <2>3
<1>4. CASE PastNumber(map, stack, type, gram) BY <1>1, <1>4, MorePast
<1>. QED BY <1>2, <1>3, <1>4, Numbering

\* A digit of a number, as the grammar reads it.
LEMMA MoreDigitsAgrees ==
    ASSUME NEW c, Before(c), MoreDigits(c)
    PROVE  After
<1>1. /\ UNCHANGED <<next_map, stack, ri, matches>> /\ out' = <<>> /\ phase' = "reading"
      /\ c \in Digit
      /\ \/ map = "digit" /\ map' = "digit" /\ type' = type
         \/ map = "digit" /\ map' = "big_digit" /\ type' = BigType
         \/ map \in {"dot", "frac"} /\ map' = "frac" /\ type' = type
         \/ map \in {"dot", "frac"} /\ map' = "big_frac" /\ type' = BigType
         \/ map \in {"exp_sign", "exp_zero", "exp"} /\ map' = "exp" /\ type' = type
         \/ map = "exp" /\ map' = "big_exp" /\ type' = BigType
  BY MoreDigitsMoves DEF Before
<1>2. map \in DOMAIN Place BY <1>1 DEF Place
<1>3. CASE InNumber(map, stack, type, split, phase, gram)
  <2>1. gram.at = Place[map] BY <1>3, InNumberAt DEF Before
  <2>2. map' \in DOMAIN Place BY <1>1 DEF Place
  <2>3. Grammar!NumberStep(gram.at, c) = Place[map'] /\ Place[map'] \in {"int", "frac", "exp"}
    BY <1>1, <2>1, NumberRows DEF Place, Digit
  <2>4. gram.float = TRUE \/ Place[map'] \in {"dot", "e"} <=> Place[map'] \in {"dot", "frac", "e", "sign", "exp"}
    <3>1. CASE map = "digit"
      <4>1. gram.float = FALSE BY <1>3, <3>1, InNumberAt DEF Before
      <4>2. Place[map'] = "int" BY <1>1, <3>1 DEF Place
      <4>. QED BY <4>1, <4>2
    <3>2. CASE map # "digit"
      <4>1. gram.float = TRUE BY <1>1, <1>3, <3>2, InNumberAt DEF Before
      <4>2. Place[map'] \in {"frac", "exp"} BY <1>1, <3>2 DEF Place
      <4>. QED BY <4>1, <4>2
    <3>. QED BY <3>1, <3>2
  <2>5. ASSUME ~split
        PROVE  type' = IF map' \in Bigs THEN "big" ELSE IF map' \in {"neg", "zero", "digit"} THEN "int" ELSE "decimal"
    <3>1. /\ map = "digit" => type = "int"
          /\ map # "digit" => type = "decimal"
      BY <1>1, <1>3, <2>5, InNumberAt DEF Before
    <3>. QED BY <1>1, <3>1 DEF BigType, Bigs
  <2>. QED BY <1>1, <1>2, <1>3, <2>2, <2>3, <2>4, <2>5, KeptNumber
<1>4. CASE PastNumber(map, stack, type, gram) BY <1>1, <1>4, MorePast
<1>. QED BY <1>2, <1>3, <1>4, Numbering

\* A byte that only changes the map, as the grammar reads it.
LEMMA AdvanceAgrees ==
    ASSUME NEW c, Before(c), Advance(c)
    PROVE  After
<1>1. /\ UNCHANGED <<next_map, stack, type, ri, matches>> /\ out' = <<>> /\ phase' = "reading"
      /\ \/ map = "colon" /\ c = "colon" /\ map' = Trail("value", stack, just_one)
         \/ map = "neg" /\ c = "zero" /\ map' = "zero"
         \/ map = "neg" /\ c = "digit" /\ map' = "digit"
         \/ map = "exp_sign" /\ c \in {"plus", "minus"} /\ map' = "exp_zero"
         \/ map = "big_digit" /\ c \in Digit /\ map' = "big_digit"
         \/ map = "big_digit" /\ c = "dot" /\ map' = "big_dot"
         \/ map \in {"big_dot", "big_frac"} /\ c \in Digit /\ map' = "big_frac"
         \/ map \in {"big_digit", "big_frac"} /\ c \in ExpLetter /\ map' = "big_exp_sign"
         \/ map = "big_exp_sign" /\ c \in {"plus", "minus"} /\ map' = "big_exp_zero"
         \/ map \in {"big_exp_sign", "big_exp_zero", "big_exp"} /\ c \in Digit /\ map' = "big_exp"
         \/ map = "string" /\ c = "bslash" /\ map' = "esc"
         \/ map = "esc" /\ c \in {"quote", "bslash", "slash", "b", "f", "n", "r", "t"} /\ map' = "string"
  BY AdvanceMoves DEF Before, Here
<1>2. CASE map = "colon" /\ c = "colon" /\ map' = Trail("value", stack, just_one)
  <2>1. BetweenTokens(map, stack, just_one, gram) BY <1>2, Sorts DEF Before, Here, Agree
  <2>2. gram.at = "colon" /\ gram.left = <<>> /\ Context(stack) = "object" BY <1>2, <2>1 DEF BetweenTokens
  <2>3. Is(gram', "value", stack', gram.key, <<>>, gram.float, gram.many, <<>>)
    BY <1>1, <1>2, <2>2, AtName DEF Before, Agree, Blank
  <2>4. stack # <<>> BY <2>2, Contexts DEF Before, Here
  <2>5. BetweenTokens(map', stack', just_one', gram')
    BY <1>1, <1>2, <2>2, <2>3, <2>4 DEF BetweenTokens, Is, Trail
  <2>. QED BY <1>1, <2>2, <2>3, <2>5, Kept, ToldCalls DEF Spot, Before, Agree
<1>3. CASE \/ map = "string" /\ c = "bslash" /\ map' = "esc"
           \/ map = "esc" /\ c \in {"quote", "bslash", "slash", "b", "f", "n", "r", "t"} /\ map' = "string"
  <2>1. InString(map, next_map, stack, ri, gram) BY <1>3, Sorts DEF Before, Here, Agree
  <2>2. gram.left = <<>> /\ (map = "string" => gram.at = "string") /\ (map = "esc" => gram.at = "escape")
    BY <1>3, <2>1 DEF InString
  <2>3. Is(gram', IF map = "string" THEN "escape" ELSE "string", stack', gram.key, <<>>, gram.float, gram.many, <<>>)
    BY <1>1, <1>3, <2>2, AtString, AtEscape DEF Before, Agree
  <2>4. InString(map', next_map', stack', ri', gram')
    BY <1>1, <1>3, <2>1, <2>3 DEF InString, Is
  <2>. QED BY <1>1, <1>3, <2>2, <2>3, <2>4, Kept, ToldCalls DEF Spot, Before, Agree
<1>4. CASE \/ map = "neg" /\ c = "zero" /\ map' = "zero"
           \/ map = "neg" /\ c = "digit" /\ map' = "digit"
           \/ map = "exp_sign" /\ c \in {"plus", "minus"} /\ map' = "exp_zero"
           \/ map = "big_digit" /\ c \in Digit /\ map' = "big_digit"
           \/ map = "big_digit" /\ c = "dot" /\ map' = "big_dot"
           \/ map \in {"big_dot", "big_frac"} /\ c \in Digit /\ map' = "big_frac"
           \/ map \in {"big_digit", "big_frac"} /\ c \in ExpLetter /\ map' = "big_exp_sign"
           \/ map = "big_exp_sign" /\ c \in {"plus", "minus"} /\ map' = "big_exp_zero"
           \/ map \in {"big_exp_sign", "big_exp_zero", "big_exp"} /\ c \in Digit /\ map' = "big_exp"
  <2>1. map \in DOMAIN Place /\ map' \in DOMAIN Place BY <1>4 DEF Place
  <2>2. CASE InNumber(map, stack, type, split, phase, gram)
    <3>1. gram.at = Place[map] BY <2>2, InNumberAt DEF Before
    <3>2. Grammar!NumberStep(gram.at, c) = Place[map']
      BY <1>4, <3>1, NumberRows DEF Place, Digit, ExpLetter
    <3>3. Place[map'] \notin {"none", "bad", "last"} BY <2>1 DEF Place
    <3>4. gram.float = TRUE \/ Place[map'] \in {"dot", "e"} <=> Place[map'] \in {"dot", "frac", "e", "sign", "exp"}
      <4>1. CASE map \in {"neg", "big_digit"}
        <5>1. gram.float = FALSE BY <2>2, <4>1, InNumberAt DEF Before
        <5>2. Place[map'] \in {"int0", "int", "dot", "e"} BY <1>4, <4>1 DEF Place
        <5>. QED BY <5>1, <5>2
      <4>2. CASE map \notin {"neg", "big_digit"}
        <5>1. gram.float = TRUE BY <1>4, <2>2, <4>2, InNumberAt DEF Before
        <5>2. Place[map'] \in {"e", "sign", "frac", "exp"} BY <1>4, <4>2 DEF Place
        <5>. QED BY <5>1, <5>2
      <4>. QED BY <4>1, <4>2
    <3>5. ASSUME ~split
          PROVE  type' = IF map' \in Bigs THEN "big" ELSE IF map' \in {"neg", "zero", "digit"} THEN "int" ELSE "decimal"
      <4>1. /\ map = "neg" => type = "int"
            /\ map = "exp_sign" => type = "decimal"
            /\ map \in Bigs => type = "big"
        BY <2>2, <3>5, InNumberAt DEF Before
      <4>. QED BY <1>1, <1>4, <4>1 DEF Bigs
    <3>. QED BY <1>1, <2>1, <2>2, <3>2, <3>3, <3>4, <3>5, KeptNumber
  <2>3. CASE PastNumber(map, stack, type, gram)
    <3>1. c \in {"dot"} \cup ExpLetter \cup Digit BY <1>4, <2>3 DEF PastNumber, numeric
    <3>. QED BY <1>1, <2>3, <3>1, MorePast
  <2>. QED BY <2>1, <2>2, <2>3, Numbering
<1>. QED BY <1>1, <1>2, <1>3, <1>4

\* The letters owed after the first.
LEMMA FirstLetter ==
    \A w \in DOMAIN Words : Tail(Words[w]) = SubSeq(Words[w], 1 + 1, Len(Words[w])) /\ 1 \in 1 .. Len(Words[w]) - 1
<1>1. \A w \in DOMAIN Words : 1 \in 1 .. Len(Words[w]) - 1 BY MapSets, WordLengths
<1>2. \A s : Tail(s) = SubSeq(s, 2, Len(s)) OBVIOUS
<1>. QED BY <1>1, <1>2

\* The first letter of a literal, as the grammar reads it.
LEMMA LiteralAgrees ==
    ASSUME NEW c, Before(c), Literal(c)
    PROVE  After
<1>1. /\ UNCHANGED <<next_map, stack, type>> /\ ri' = 1 /\ matches' = TRUE
      /\ out' = <<>> /\ phase' = "reading" /\ map \in {"value", "comma"}
      /\ \/ c = "n" /\ map' = "in_null"
         \/ c = "t" /\ map' = "in_true"
         \/ c = "f" /\ map' = "in_false"
  BY LiteralMoves DEF Before
<1>2. BetweenTokens(map, stack, just_one, gram) BY <1>1, Sorts DEF Before, Here, Agree
<1>3. gram.at \in {"value", "done", "first"} /\ gram.left = <<>> BY <1>1, <1>2 DEF BetweenTokens
<1>4. gram.stack = stack /\ gram.many = ~just_one' /\ just_one' = just_one /\ DOMAIN gram = Fields
      /\ gram' = Grammar!Step(gram, c) /\ split' = split
  BY <1>3 DEF Before, Agree
<1>5. PICK w \in DOMAIN Words : map' \in DOMAIN Lookahead /\ Lookahead[map'] = w
                                /\ c = (CASE w = "null" -> "n" [] w = "true" -> "t" [] w = "false" -> "f")
  BY <1>1, MapSets, WordLengths
<1>6. Is(gram', w, stack', gram.key, Tail(Words[w]), gram.float, gram.many, <<>>)
  <2>1. \/ w = "null" /\ c = "n"
        \/ w = "true" /\ c = "t"
        \/ w = "false" /\ c = "f"
    BY <1>5, MapSets
  <2>2. c \notin Blank /\ c # "rb" BY <1>1 DEF Blank
  <2>. QED BY <1>1, <1>3, <1>4, <2>1, <2>2, AtValue
<1>7. InLiteral(map', ri', matches', gram')
  BY <1>1, <1>5, <1>6, FirstLetter DEF InLiteral, Is
<1>8. w \notin {"bad", "last"} BY MapSets
<1>. QED BY <1>1, <1>4, <1>6, <1>7, <1>8, Kept, ToldCalls DEF Spot

\* A later letter of a literal, as the grammar reads it.
LEMMA LettersAgree ==
    ASSUME NEW c, Before(c), LookAhead(c) \/ TokenOk(c)
    PROVE  After
<1>1. PICK w \in DOMAIN Words :
             /\ map = w \/ (map \in DOMAIN Lookahead /\ Lookahead[map] = w)
             /\ UNCHANGED <<next_map, stack, type>> /\ ri' = ri + 1
             /\ \/ /\ ri + 1 < Len(Words[w]) /\ matches' = (matches /\ c = Words[w][ri + 1])
                   /\ map' = map /\ out' = <<>> /\ phase' = "reading"
                \/ /\ ~(ri + 1 < Len(Words[w])) /\ matches' = FALSE
                   /\ matches /\ c = Words[w][ri + 1]
                   /\ map' = Trail(AfterValue, stack, just_one) /\ phase' = "reading"
                   /\ out' = <<Call(LiteralFun[w], Context(stack))>>
                \/ /\ ~(ri + 1 < Len(Words[w])) /\ matches' = FALSE
                   /\ ~(matches /\ c = Words[w][ri + 1])
                   /\ map' = map /\ out' = <<>> /\ phase' = "raised"
  BY LettersMoves DEF Before
<1>2. map \in DOMAIN Words \cup DOMAIN Lookahead BY <1>1
<1>3. InLiteral(map, ri, matches, gram) BY <1>2, Sorts DEF Before, Here, Agree
<1>4. gram.at = w
  <2>1. DOMAIN Words \cap DOMAIN Lookahead = {} BY MapSets
  <2>. QED BY <1>1, <1>3, <2>1 DEF InLiteral
<1>5. matches = TRUE /\ ri \in 1 .. Len(Words[w]) - 1 /\ gram.left = SubSeq(Words[w], ri + 1, Len(Words[w]))
  BY <1>3, <1>4 DEF InLiteral
<1>6. gram.stack = stack /\ gram.many = ~just_one' /\ just_one' = just_one /\ DOMAIN gram = Fields
      /\ gram' = Grammar!Step(gram, c) /\ split' = split /\ just_one \in BOOLEAN
  BY <1>4, MapSets DEF Before, Agree
<1>. DEFINE rest == Tail(gram.left)
<1>7. /\ Head(gram.left) = Words[w][ri + 1] /\ rest = SubSeq(Words[w], ri + 2, Len(Words[w]))
      /\ (rest = <<>> <=> ri + 1 = Len(Words[w]))
  BY <1>5, Owes
<1>8. w \notin {"bad", "last", "hex4", "utf8"} BY MapSets
<1>9. /\ c # Words[w][ri + 1] => Rejected(gram')
      /\ c = Words[w][ri + 1] /\ rest # <<>> => Is(gram', w, stack', gram.key, rest, gram.float, gram.many, <<>>)
      /\ c = Words[w][ri + 1] /\ rest = <<>> =>
           Is(gram', Past(stack, gram.many), stack', FALSE, <<>>, FALSE, gram.many, <<Call(LiteralFun[w], Context(stack))>>)
  BY <1>1, <1>4, <1>6, <1>7, <1>8, AtOwing
<1>10. CASE c # Words[w][ri + 1]
  <2>1. Slack BY <1>2 DEF Slack
  <2>2. phase' \in {"reading", "raised"} BY <1>1
  <2>. QED BY <1>9, <1>10, <2>1, <2>2, Lost
<1>11. CASE c = Words[w][ri + 1] /\ ri + 1 < Len(Words[w])
  <2>1. matches' = TRUE BY <1>1, <1>5, <1>11
  <2>2. map' = map /\ out' = <<>> /\ phase' = "reading" /\ ri' = ri + 1 BY <1>1, <1>11
  <2>3. rest # <<>> BY <1>5, <1>7, <1>11
  <2>4. ri' \in 1 .. Len(Words[w]) - 1 /\ ri + 2 = ri' + 1
    <3>1. Len(Words[w]) \in Nat BY MapSets, WordLengths
    <3>. QED BY <1>5, <1>11, <2>2, <3>1
  <2>. HIDE DEF rest
  <2>5. Is(gram', w, stack', gram.key, rest, gram.float, gram.many, <<>>) BY <1>9, <1>11, <2>3
  <2>6. InLiteral(map', ri', matches', gram')
    BY <1>1, <1>7, <2>1, <2>2, <2>4, <2>5 DEF InLiteral, Is
  <2>. QED BY <1>6, <1>8, <2>2, <2>5, <2>6, Kept, ToldCalls DEF Spot
<1>12. CASE c = Words[w][ri + 1] /\ ~(ri + 1 < Len(Words[w]))
  <2>1. map' = Trail(AfterValue, stack, just_one) /\ phase' = "reading" /\ stack' = stack
        /\ out' = <<Call(LiteralFun[w], Context(stack))>>
    BY <1>1, <1>5, <1>12
  <2>2. rest = <<>>
    <3>1. Len(Words[w]) \in Nat BY MapSets, WordLengths
    <3>. QED BY <1>5, <1>7, <1>12, <3>1
  <2>. HIDE DEF rest
  <2>3. Is(gram', Past(stack, gram.many), stack', FALSE, <<>>, FALSE, gram.many, out') BY <1>9, <1>12, <2>1, <2>2
  <2>4. BetweenTokens(map', stack', just_one', gram')
    BY <1>6, <2>1, <2>3, PastSpot DEF AfterValue
  <2>5. Told(Past(stack, gram.many), out', out') BY <2>1, PastAt, ToldCalls, AgreesSame
  <2>. QED BY <1>6, <2>1, <2>3, <2>4, <2>5, PastAt, Kept DEF Spot
<1>. QED BY <1>10, <1>11, <1>12

\* What a byte without an entry is not.
LEMMA NoEntry ==
    ASSUME NEW m, NEW c, \A a : ~Entry(m, c, a)
    PROVE  /\ m \in spaced => c \notin Blank
           /\ m \in {"value", "comma"} => c \notin {"quote", "minus", "zero", "digit", "lb", "lc", "n", "t", "f"}
           /\ m \in {"value", "after"} => c \notin {"rb", "rc"}
           /\ m \in {"after"} \cup DOMAIN Words => c # "comma"
           /\ m = "key1" => c # "rc"
           /\ m \in {"key1", "key"} => c # "quote"
           /\ m = "colon" => c # "colon"
           /\ m = "null" => c \notin {"u", "l"}
           /\ m = "true" => c \notin {"r", "u", "e"}
           /\ m = "false" => c \notin {"a", "l", "s", "e"}
           /\ m = "neg" => c \notin {"zero", "digit"}
           /\ m \in numeric => c \notin Blank \cup {"comma", "rb", "rc"}
           /\ m \in {"zero", "digit", "big_digit"} => c # "dot"
           /\ m \in {"digit", "big_digit", "dot", "frac", "big_dot", "big_frac", "exp_sign", "exp_zero", "exp",
                     "big_exp_sign", "big_exp_zero", "big_exp"} => c \notin Digit
           /\ m \in {"digit", "frac", "big_digit", "big_frac"} => c \notin ExpLetter
           /\ m \in {"exp_sign", "big_exp_sign"} => c \notin {"plus", "minus"}
           /\ m = "string" => c \notin Printable \cup Lead
           /\ m = "esc" => c \notin {"quote", "bslash", "slash", "b", "f", "n", "r", "t", "u"}
           /\ m = "u" => c \notin Digit \cup HexLetter
           /\ m = "utf" => c # "follow"
<1>. USE DEF Entry
<1>1. m \in spaced => c \notin Blank
  <2>1. ~Entry(m, c, "SKIP_CHAR") /\ ~Entry(m, c, "SKIP_NEWLINE") OBVIOUS
  <2>. QED BY <2>1 DEF Blank
<1>2. m \in {"value", "comma"} => c \notin {"quote", "minus", "zero", "digit", "lb", "lc", "n", "t", "f"}
  <2>1. ~Entry(m, c, "VAL_QUOTE") /\ ~Entry(m, c, "VAL_NEG") /\ ~Entry(m, c, "VAL0") /\ ~Entry(m, c, "VAL_DIGIT")
    OBVIOUS
  <2>2. ~Entry(m, c, "OPEN_ARRAY") /\ ~Entry(m, c, "OPEN_OBJECT") OBVIOUS
  <2>3. ~Entry(m, c, "VAL_NULL") /\ ~Entry(m, c, "VAL_TRUE") /\ ~Entry(m, c, "VAL_FALSE") OBVIOUS
  <2>. QED BY <2>1, <2>2, <2>3
<1>3. /\ m \in {"value", "after"} => c \notin {"rb", "rc"}
      /\ m = "key1" => c # "rc"
  <2>1. ~Entry(m, c, "CLOSE_ARRAY") /\ ~Entry(m, c, "CLOSE_OBJECT") OBVIOUS
  <2>. QED BY <2>1
<1>4. /\ m \in {"after"} \cup DOMAIN Words => c # "comma"
      /\ m \in {"key1", "key"} => c # "quote"
      /\ m = "colon" => c # "colon"
  <2>1. ~Entry(m, c, "AFTER_COMMA") /\ ~Entry(m, c, "KEY_QUOTE") /\ ~Entry(m, c, "COLON_COLON") OBVIOUS
  <2>. QED BY <2>1
<1>5. /\ m = "null" => c \notin {"u", "l"}
      /\ m = "true" => c \notin {"r", "u", "e"}
      /\ m = "false" => c \notin {"a", "l", "s", "e"}
  <2>1. ~Entry(m, c, "TOKEN_OK") OBVIOUS
  <2>. QED BY <2>1
<1>6. m = "neg" => c \notin {"zero", "digit"}
  <2>1. ~Entry(m, c, "NUM_ZERO") /\ ~Entry(m, c, "NEG_DIGIT") OBVIOUS
  <2>. QED BY <2>1
<1>7. m \in numeric => c \notin Blank \cup {"comma", "rb", "rc"}
  <2>1. ~Entry(m, c, "NUM_SPC") /\ ~Entry(m, c, "NUM_NEWLINE") /\ ~Entry(m, c, "NUM_COMMA") OBVIOUS
  <2>2. ~Entry(m, c, "NUM_CLOSE_ARRAY") /\ ~Entry(m, c, "NUM_CLOSE_OBJECT") OBVIOUS
  <2>. QED BY <2>1, <2>2 DEF Blank
<1>8. /\ m \in {"zero", "digit", "big_digit"} => c # "dot"
      /\ m \in {"digit", "frac", "big_digit", "big_frac"} => c \notin ExpLetter
  <2>1. ~Entry(m, c, "NUM_DOT") /\ ~Entry(m, c, "BIG_DOT") /\ ~Entry(m, c, "FRAC_E") /\ ~Entry(m, c, "BIG_E") OBVIOUS
  <2>. QED BY <2>1
<1>9. m \in {"digit", "big_digit", "dot", "frac", "big_dot", "big_frac", "exp_sign", "exp_zero", "exp",
             "big_exp_sign", "big_exp_zero", "big_exp"} => c \notin Digit
  <2>1. ~Entry(m, c, "NUM_DIGIT") /\ ~Entry(m, c, "NUM_FRAC") /\ ~Entry(m, c, "EXP_DIGIT") OBVIOUS
  <2>2. ~Entry(m, c, "BIG_DIGIT") /\ ~Entry(m, c, "BIG_FRAC") /\ ~Entry(m, c, "BIG_EXP") OBVIOUS
  <2>. QED BY <2>1, <2>2
<1>10. m \in {"exp_sign", "big_exp_sign"} => c \notin {"plus", "minus"}
  <2>1. ~Entry(m, c, "EXP_SIGN") /\ ~Entry(m, c, "BIG_EXP_SIGN") OBVIOUS
  <2>. QED BY <2>1
<1>11. m = "string" => c \notin Printable \cup Lead
  <2>1. ~Entry(m, c, "STR_OK") /\ ~Entry(m, c, "STR_QUOTE") /\ ~Entry(m, c, "STR_SLASH") OBVIOUS
  <2>2. ~Entry(m, c, "UTF1") /\ ~Entry(m, c, "UTF2") /\ ~Entry(m, c, "UTF3") OBVIOUS
  <2>. QED BY <2>1, <2>2 DEF Lead
<1>12. /\ m = "esc" => c \notin {"quote", "bslash", "slash", "b", "f", "n", "r", "t", "u"}
       /\ m = "u" => c \notin Digit \cup HexLetter
       /\ m = "utf" => c # "follow"
  <2>1. ~Entry(m, c, "ESC_OK") /\ ~Entry(m, c, "ESC_U") /\ ~Entry(m, c, "U_OK") /\ ~Entry(m, c, "UTFX") OBVIOUS
  <2>. QED BY <2>1
<1>. HIDE DEF Entry
<1>. QED BY <1>1, <1>2, <1>3, <1>4, <1>5, <1>6, <1>7, <1>8, <1>9, <1>10, <1>11, <1>12

\* The bytes no table has an entry for are those the grammar does not take, either.
LEMMA ErrBetween ==
    ASSUME NEW c, Before(c), \A a : ~Entry(map, c, a), BetweenTokens(map, stack, just_one, gram)
    PROVE  Rejected(gram') \/ (map = "trail" /\ gram.at = "value" /\ DOMAIN gram' = Fields)
<1>0. DOMAIN gram = Fields /\ gram' = Grammar!Step(gram, c) BY DEF Before
<1>1. map \in spaced BY DEF BetweenTokens, spaced
<1>2. c \notin Blank BY <1>1, NoEntry
<1>3. CASE map \in {"value", "comma"}
  <2>1. gram.at \in {"value", "done", "first"} /\ (gram.at = "first" => map = "value")
    BY <1>3 DEF BetweenTokens
  <2>2. c \notin {"quote", "minus", "zero", "digit", "lb", "lc", "n", "t", "f"} /\ (gram.at = "first" => c # "rb")
    BY <1>3, <2>1, NoEntry
  <2>. QED BY <1>0, <1>2, <2>1, <2>2, AtValue
<1>4. CASE map = "after"
  <2>1. gram.at = "after" BY <1>4 DEF BetweenTokens
  <2>2. c \notin Blank \cup {"comma", "rb", "rc"} BY <1>2, <1>4, NoEntry
  <2>. QED BY <1>0, <2>1, <2>2, AtSeparator
<1>5. CASE map \in {"key1", "key", "colon"}
  <2>1. /\ map = "key1" => gram.at = "name1" /\ c \notin {"quote", "rc"}
        /\ map = "key" => gram.at = "name" /\ c # "quote"
        /\ map = "colon" => gram.at = "colon" /\ c # "colon"
    BY <1>5, NoEntry DEF BetweenTokens
  <2>. QED BY <1>0, <1>2, <1>5, <2>1, AtName
<1>6. CASE map = "trail"
  <2>1. gram.at \in {"last", "value"} BY <1>6 DEF BetweenTokens
  <2>2. CASE gram.at = "last" BY <1>0, <1>2, <2>2, AtName
  <2>3. CASE gram.at = "value"
    <3>1. c \in {"lb", "lc", "quote", "minus", "zero", "digit", "n", "t", "f"} => DOMAIN gram' = Fields
      <4>1. c \in {"lb", "lc", "quote"} => DOMAIN gram' = Fields BY <1>0, <1>2, <2>3, AtValue DEF Is
      <4>2. c \in {"minus", "zero", "digit"} => DOMAIN gram' = Fields BY <1>0, <1>2, <2>3, AtValue DEF Is
      <4>3. c \in {"n", "t", "f"} => DOMAIN gram' = Fields BY <1>0, <1>2, <2>3, AtValue, ZenonT(60) DEF Is
      <4>. QED BY <4>1, <4>2, <4>3
    <3>2. c \notin {"lb", "lc", "quote", "minus", "zero", "digit", "n", "t", "f"} => Rejected(gram')
      BY <1>0, <1>2, <2>3, AtValue
    <3>. QED BY <1>6, <2>3, <3>1, <3>2
  <2>. QED BY <2>1, <2>2, <2>3
<1>. QED BY <1>1, <1>3, <1>4, <1>5, <1>6 DEF spaced

\* Inside a string.
LEMMA ErrString ==
    ASSUME NEW c, Before(c), \A a : ~Entry(map, c, a), InString(map, next_map, stack, ri, gram)
    PROVE  Rejected(gram')
<1>0. DOMAIN gram = Fields /\ gram' = Grammar!Step(gram, c) BY DEF Before
<1>1. CASE map = "string"
  <2>1. gram.at = "string" BY <1>1 DEF InString
  <2>. QED BY <1>0, <1>1, <2>1, NoEntry, AtString
<1>2. CASE map = "esc"
  <2>1. gram.at = "escape" BY <1>2 DEF InString
  <2>. QED BY <1>0, <1>2, <2>1, NoEntry, AtEscape
<1>3. CASE map = "u"
  <2>1. gram.at = "hex4" BY <1>3 DEF InString
  <2>. QED BY <1>0, <1>3, <2>1, NoEntry, AtOwing
<1>4. CASE map = "utf"
  <2>1. gram.at = "utf8" /\ ri \in 1..3 /\ gram.left = [i \in 1..ri |-> "follow"] BY <1>4 DEF InString
  <2>2. ri \in Nat /\ ri # 0 BY <2>1
  <2>3. gram.left = Repeated("follow", ri) BY <2>1 DEF Repeated
  <2>4. Head(gram.left) = "follow" BY ONLY <2>2, <2>3, Repeats
  <2>. QED BY <1>0, <1>4, <2>1, <2>4, NoEntry, AtOwing
<1>. QED BY <1>1, <1>2, <1>3, <1>4 DEF InString

\* Inside a literal.
LEMMA ErrLiteral ==
    ASSUME NEW c, Before(c), map \notin Inside, \A a : ~Entry(map, c, a), InLiteral(map, ri, matches, gram)
    PROVE  Rejected(gram')
<1>0. DOMAIN gram = Fields /\ gram' = Grammar!Step(gram, c) BY DEF Before
<1>1. map = gram.at /\ map \in DOMAIN Words BY MapSets DEF InLiteral
<1>2. ri \in 1 .. Len(Words[map]) - 1 /\ gram.left = SubSeq(Words[map], ri + 1, Len(Words[map]))
  BY <1>1 DEF InLiteral
<1>3. Head(gram.left) = Words[map][ri + 1] BY <1>1, <1>2, Owes
<1>4. c # Words[map][ri + 1]
  <2>1. CASE map = "null"
    <3>1. ri \in {1, 2, 3} BY <1>2, <2>1, WordLengths
    <3>2. c \notin {"u", "l"} BY <2>1, NoEntry
    <3>3. Words[map] = Words["null"] BY <2>1
    <3>. QED BY <3>1, <3>2, <3>3, WordLengths
  <2>2. CASE map = "true"
    <3>1. ri \in {1, 2, 3} BY <1>2, <2>2, WordLengths
    <3>2. c \notin {"r", "u", "e"} BY <2>2, NoEntry
    <3>3. Words[map] = Words["true"] BY <2>2
    <3>. QED BY <3>1, <3>2, <3>3, WordLengths
  <2>3. CASE map = "false"
    <3>1. ri \in {1, 2, 3, 4} BY <1>2, <2>3, WordLengths
    <3>2. c \notin {"a", "l", "s", "e"} BY <2>3, NoEntry
    <3>3. Words[map] = Words["false"] BY <2>3
    <3>. QED BY <3>1, <3>2, <3>3, WordLengths
  <2>. QED BY <1>1, <2>1, <2>2, <2>3, MapSets
<1>5. map # "hex4" BY <1>1, MapSets
<1>. QED BY <1>0, <1>1, <1>3, <1>4, <1>5, AtOwing

\* Inside a number.
LEMMA ErrNumber ==
    ASSUME NEW c, Before(c), map \in DOMAIN Place, \A a : ~Entry(map, c, a)
    PROVE  Rejected(gram') \/ (map = "zero" /\ gram'.at = "e" /\ DOMAIN gram' = Fields)
<1>0. DOMAIN gram = Fields /\ gram' = Grammar!Step(gram, c) BY DEF Before
<1>1. map \in numeric => c \notin Blank \cup {"comma", "rb", "rc"} BY NoEntry
<1>2. CASE PastNumber(map, stack, type, gram)
  <2>1. gram.at \in {"last", "after"} /\ map \in numeric BY <1>2 DEF PastNumber
  <2>. QED BY <1>0, <1>1, <2>1, AtName, AtSeparator
<1>3. CASE InNumber(map, stack, type, split, phase, gram)
  <2>1. /\ ~AfterNumber /\ gram.many \in BOOLEAN /\ gram.at \in Grammar!Numbers /\ gram.at = Place[map]
    <3>1. gram.at \in Grammar!Numbers /\ gram.at = Place[map] BY <1>3, InNumberAt DEF Before
    <3>2. ~PastNumber(map, stack, type, gram) BY <3>1 DEF PastNumber, Grammar!Numbers
    <3>. QED BY <3>1, <3>2, Numbering
  <2>2. \/ Grammar!NumberStep(gram.at, c) = "none"
        \/ map = "zero" /\ Grammar!NumberStep(gram.at, c) = "e"
    <3>1. CASE map = "zero"
      <4>1. c # "dot" BY <3>1, NoEntry
      <4>. QED BY <2>1, <3>1, <4>1, NumberRows DEF Place
    <3>2. CASE map = "neg"
      <4>1. c \notin {"zero", "digit"} BY <3>2, NoEntry
      <4>. QED BY <2>1, <3>2, <4>1, NumberRows DEF Place
    <3>3. CASE map \in {"digit", "big_digit"}
      <4>1. c # "dot" /\ c \notin Digit /\ c \notin ExpLetter BY <3>3, NoEntry
      <4>. QED BY <2>1, <3>3, <4>1, NumberRows DEF Place
    <3>4. CASE map \in {"dot", "big_dot", "frac", "big_frac"}
      <4>1. c \notin Digit /\ (map \in {"frac", "big_frac"} => c \notin ExpLetter) BY <3>4, NoEntry
      <4>. QED BY <2>1, <3>4, <4>1, NumberRows DEF Place
    <3>5. CASE map \in {"exp_sign", "big_exp_sign", "exp_zero", "big_exp_zero", "exp", "big_exp"}
      <4>1. c \notin Digit /\ (map \in {"exp_sign", "big_exp_sign"} => c \notin {"plus", "minus"}) BY <3>5, NoEntry
      <4>. QED BY <2>1, <3>5, <4>1, NumberRows DEF Place
    <3>. QED BY <3>1, <3>2, <3>3, <3>4, <3>5 DEF Place
  <2>3. map \notin numeric => gram.at \notin Grammar!NumberEnd
    BY <2>1 DEF Place, numeric, Grammar!NumberEnd
  <2>4. CASE Grammar!NumberStep(gram.at, c) = "none"
    BY <1>0, <1>1, <2>1, <2>3, <2>4, AtNumber
  <2>5. CASE map = "zero" /\ Grammar!NumberStep(gram.at, c) = "e"
    BY <1>0, <2>1, <2>5, AtNumber DEF Is
  <2>. QED BY <2>2, <2>4, <2>5
<1>. QED BY <1>2, <1>3, Numbering

\* A byte without an entry is one the grammar does not take, with the two exceptions of Apart.
LEMMA CharErrAgrees ==
    ASSUME NEW c, Before(c), CharErr(c)
    PROVE  After
<1>1. phase' = "raised" /\ map \notin Inside /\ \A a : ~Entry(map, c, a) BY CharErrMoves DEF Before
<1>2. map # "in_key" BY <1>1, MapSets
<1>3. ~InName(map, stack, gram) BY <1>2 DEF InName
<1>4. InNumber(map, stack, type, split, phase, gram) \/ PastNumber(map, stack, type, gram) => map \in DOMAIN Place
  BY DEF InNumber, PastNumber, numeric, Place
<1>5. \/ Rejected(gram')
      \/ map = "trail" /\ gram.at = "value" /\ DOMAIN gram' = Fields
      \/ map = "zero" /\ gram'.at = "e" /\ DOMAIN gram' = Fields
  BY <1>1, <1>3, <1>4, ErrBetween, ErrString, ErrLiteral, ErrNumber DEF Before, Agree, Spot
<1>. QED BY <1>1, <1>5, Lost DEF After, Apart

\* Whatever byte is read.
LEMMA ByteAgrees ==
    ASSUME NEW c, Before(c),
           \/ Advance(c) \/ Skip(c) \/ Comma(c) \/ KeyQuote(c) \/ InKey(c) \/ ValQuote(c)
           \/ StrQuote(c) \/ EscU(c) \/ UOk(c) \/ UtfLead(c) \/ UtfX(c) \/ Open(c)
           \/ Close(c) \/ NumComma(c) \/ NumSpace(c) \/ StartNumber(c) \/ Decimal(c)
           \/ MoreDigits(c) \/ Literal(c) \/ LookAhead(c) \/ TokenOk(c) \/ CharErr(c)
    PROVE  After
BY AdvanceAgrees, SkipAgrees, CommaAgrees, KeyQuoteAgrees, InKeyAgrees, ValQuoteAgrees, StrQuoteAgrees,
   EscUAgrees, UOkAgrees, UtfLeadAgrees, UtfXAgrees, OpenAgrees, CloseAgrees, NumCommaAgrees,
   NumSpaceAgrees, StartNumberAgrees, DecimalAgrees, MoreDigitsAgrees, LiteralAgrees, LettersAgree, CharErrAgrees

-----------------------------------------------------------------------------
\* During a call.
Calling == {"fresh", "reading", "waiting", "ended"}

\* The parser and the grammar during a call, and after one that returned.
Faith ==
    /\ Typed
    /\ phase \in Calling =>
         /\ DOMAIN gram = Fields /\ entry # "none"
         /\ gram.at # "bad" =>
              /\ Agree(map, next_map, stack, type, ri, matches, just_one, split, phase, gram)
              /\ ~split /\ (phase = "ended" => Grammar!Complete(gram)) => Told(gram.at, out, gram.out)
    /\ phase \in {"waiting", "fresh"} => gram.out = <<>>
    /\ phase = "returned" /\ gram.at # "bad" => Grammar!Complete(gram) \/ Unfinished

\* One more byte.
LEMMA FaithByte ==
    ASSUME ~AfterNumber, Faith, NEW c \in Alphabet, ReadByte(c), Typed'
    PROVE  /\ Faith'
           /\ gram.at # "bad" => After
<1>1. /\ Here /\ Reading /\ just_one \in BOOLEAN /\ matches \in BOOLEAN /\ split \in BOOLEAN
      /\ phase \in Calling
      /\ \/ Advance(c) \/ Skip(c) \/ Comma(c) \/ KeyQuote(c) \/ InKey(c) \/ ValQuote(c)
         \/ StrQuote(c) \/ EscU(c) \/ UOk(c) \/ UtfLead(c) \/ UtfX(c) \/ Open(c)
         \/ Close(c) \/ NumComma(c) \/ NumSpace(c) \/ StartNumber(c) \/ Decimal(c)
         \/ MoreDigits(c) \/ Literal(c) \/ LookAhead(c) \/ TokenOk(c) \/ CharErr(c)
      /\ gram' = Grammar!Step(gram, c) /\ UNCHANGED <<just_one, entry, split>>
  BY DEF Faith, Typed, Stored, Here, ReadByte, Reading, Calling
<1>2. DOMAIN gram = Fields /\ entry # "none"
      /\ (gram.at # "bad" => Agree(map, next_map, stack, type, ri, matches, just_one, split, phase, gram))
  BY <1>1 DEF Faith
<1>3. phase' \in {"reading", "raised"} BY <1>1, StackByte DEF Faith, Typed
<1>4. CASE gram.at = "bad"
  <2>1. DOMAIN gram' = Fields /\ gram'.at = "bad" BY <1>1, <1>2, <1>4, BadStays
  <2>. QED BY <1>1, <1>2, <1>3, <1>4, <2>1 DEF Faith, Calling
<1>5. CASE gram.at # "bad"
  <2>1. Before(c) BY <1>1, <1>2, <1>5 DEF Before
  <2>2. After BY <1>1, <2>1, ByteAgrees
  <2>3. DOMAIN gram' = Fields BY <2>2 DEF After
  <2>4. phase' = "reading" /\ gram'.at # "bad" => Together BY <2>2 DEF After, Apart
  <2>. QED BY <1>1, <1>2, <1>3, <1>5, <2>2, <2>3, <2>4 DEF Faith, Calling, Together
<1>. QED BY <1>4, <1>5

\* The end of a chunk or of the input.
LEMMA FaithEnd ==
    ASSUME ~AfterNumber, Faith, NEW last \in BOOLEAN, EndChunk(last), Typed'
    PROVE  Faith'
<1>1. /\ phase = "reading" /\ phase' = IF last THEN "ended" ELSE "waiting"
      /\ split' = (split \/ (~last /\ stack = <<>> /\ map \in number_maps))
      /\ out'  = IF EndsNumber THEN NumberCall ELSE <<>>
      /\ type' = IF EndsNumber THEN "none" ELSE type
      /\ map' = CASE map = "in_key"            -> "string"
                  [] map \in DOMAIN Lookahead -> Lookahead[map]
                  [] OTHER                    -> map
      /\ next_map' = IF map = "in_key" THEN "colon" ELSE next_map
      /\ gram' = IF last THEN Grammar!Finish(gram) ELSE [gram EXCEPT !.out = <<>>]
      /\ UNCHANGED <<stack, ri, matches, just_one, entry>>
  BY DEF EndChunk
<1>2. DOMAIN gram = Fields /\ entry # "none"
      /\ (gram.at # "bad" => Agree(map, next_map, stack, type, ri, matches, just_one, split, phase, gram))
  BY <1>1 DEF Faith, Calling
<1>3. Here /\ Reading /\ just_one \in BOOLEAN /\ split \in BOOLEAN /\ split' \in BOOLEAN
  BY <1>1 DEF Faith, Typed, Stored, Here, Reading
<1>4. CASE gram.at = "bad"
  <2>1. DOMAIN gram' = Fields /\ gram'.at = "bad" BY <1>1, <1>2, <1>4, BadStays
  <2>2. gram'.out = <<>> \/ last
    BY <1>1, <1>2 DEF Fields
  <2>. QED BY <1>1, <1>2, <1>4, <2>1, <2>2 DEF Faith, Calling
<1>5. CASE gram.at # "bad"
  <2>1. gram.stack = stack /\ (gram.at # "last" => gram.many = ~just_one)
        /\ Spot(map, next_map, stack, type, ri, matches, just_one, split, phase, gram)
    BY <1>2, <1>5 DEF Agree
  <2>. DEFINE ends == last /\ gram.at \in Grammar!NumberEnd /\ stack = <<>>
  <2>2. Is(Blanked(gram), gram.at, stack, gram.key, gram.left, gram.float, gram.many, <<>>)
    BY <1>2, <2>1, BlankedIs
  <2>3. CASE ~ends
    <3>1. gram' = Blanked(gram)
      <4>1. CASE ~last BY <1>1, <4>1 DEF Blanked
      <4>2. CASE last
        <5>1. Blanked(gram).at = gram.at /\ Blanked(gram).stack = stack BY <2>2 DEF Is
        <5>2. Grammar!Finish(gram) = IF Blanked(gram).at \in Grammar!NumberEnd /\ Blanked(gram).stack = <<>>
                                     THEN Grammar!YieldNumber(Blanked(gram)) ELSE Blanked(gram)
          BY DEF Grammar!Finish, Blanked
        <5>. QED BY <1>1, <2>3, <4>2, <5>1, <5>2
      <4>. QED BY <4>1, <4>2
    <3>2. Is(gram', gram.at, stack', gram.key, gram.left, gram.float, gram.many, <<>>)
      BY <1>1, <2>2, <3>1
    <3>3. Spot(map', next_map', stack', type', ri', matches', just_one', split', phase', gram')
      <4>1. CASE BetweenTokens(map, stack, just_one, gram)
        <5>1. map' = map BY <1>1, <4>1, MapSets DEF BetweenTokens
        <5>2. BetweenTokens(map', stack', just_one', gram') BY <1>1, <3>2, <4>1, <5>1 DEF BetweenTokens, Is
        <5>. QED BY <5>2 DEF Spot
      <4>2. CASE InString(map, next_map, stack, ri, gram)
        <5>1. map' = map /\ next_map' = next_map BY <1>1, <4>2, MapSets DEF InString
        <5>2. InString(map', next_map', stack', ri', gram') BY <1>1, <3>2, <4>2, <5>1 DEF InString, Is
        <5>. QED BY <5>2 DEF Spot
      <4>3. CASE InName(map, stack, gram)
        <5>0. map = "in_key" BY <4>3 DEF InName
        <5>1. map' = "string" /\ next_map' = "colon" BY <1>1, <5>0, MapSets
        <5>2. InString(map', next_map', stack', ri', gram') BY <1>1, <3>2, <4>3, <5>1 DEF InName, InString, Is
        <5>. QED BY <5>2 DEF Spot
      <4>4. CASE InLiteral(map, ri, matches, gram)
        <5>1. map' = gram.at BY <1>1, <4>4, MapSets DEF InLiteral
        <5>2. InLiteral(map', ri', matches', gram') BY <1>1, <3>2, <4>4, <5>1 DEF InLiteral, Is
        <5>. QED BY <5>2 DEF Spot
      <4>5. CASE InNumber(map, stack, type, split, phase, gram)
        <5>1. map \in DOMAIN Place /\ map' = map BY <1>1, <4>5, MapSets DEF InNumber, Place
        <5>2. gram'.at = gram.at /\ gram'.left = gram.left /\ gram'.float = gram.float /\ stack' = stack
          BY <1>1, <3>2 DEF Is
        <5>3. phase' = "ended" => gram'.at \notin Grammar!NumberEnd \/ stack' # <<>>
          BY <1>1, <2>3, <5>2
        <5>4. ~split' /\ phase' # "ended" => ~split /\ type' = type
          BY <1>1 DEF EndsNumber
        <5>5. InNumber(map', stack', type', split', phase', gram')
          BY <1>1, <4>5, <5>1, <5>2, <5>3, <5>4 DEF InNumber
        <5>. QED BY <5>5 DEF Spot
      <4>6. CASE PastNumber(map, stack, type, gram)
        <5>1. map' = map /\ type' = "none" BY <1>1, <4>6, MapSets DEF PastNumber, numeric
        <5>2. PastNumber(map', stack', type', gram') BY <1>1, <3>2, <4>6, <5>1 DEF PastNumber, Is
        <5>. QED BY <5>2 DEF Spot
      <4>. QED BY <2>1, <4>1, <4>2, <4>3, <4>4, <4>5, <4>6 DEF Spot
    <3>4. ASSUME ~split', phase' = "ended" => Grammar!Complete(gram')
          PROVE  out' = <<>>
      <4>1. CASE ~last BY <1>1, <3>4, <4>1 DEF EndsNumber
      <4>2. CASE last /\ ~EndsNumber BY <1>1, <4>2
      <4>3. CASE last /\ EndsNumber
        <5>1. gram'.at \in {"done", "last"} /\ gram'.at = gram.at BY <1>1, <3>2, <3>4, <4>3 DEF Grammar!Complete, Is
        <5>2. map \in DOMAIN Place BY <4>3 DEF EndsNumber, number_maps, Place
        <5>3. gram.at \notin Grammar!Numbers BY <5>1 DEF Grammar!Numbers
        <5>4. PastNumber(map, stack, type, gram) BY <1>2, <1>3, <1>5, <5>2, <5>3, Sorts, InNumberAt DEF Here, Agree
        <5>. QED BY <1>1, <5>4, NothingTold DEF PastNumber
      <4>. QED BY <4>1, <4>2, <4>3
    <3>5. Agree(map', next_map', stack', type', ri', matches', just_one', split', phase', gram')
      BY <1>1, <2>1, <3>2, <3>3 DEF Agree, Is
    <3>6. DOMAIN gram' = Fields /\ gram'.out = <<>> /\ gram'.at = gram.at BY <3>2 DEF Is
    <3>. QED BY <1>1, <1>2, <3>4, <3>5, <3>6, ToldCalls DEF Faith
  <2>4. CASE ends
    <3>1. Is(gram', "last", stack', FALSE, gram.left, FALSE, FALSE, <<NumberName(gram)>>)
      <4>1. gram.many \in BOOLEAN /\ gram.stack = <<>> /\ gram' = Grammar!Finish(gram)
        BY <1>1, <1>3, <2>1, <2>4 DEF Grammar!NumberEnd
      <4>2. Context(gram.stack) = "top" BY <4>1 DEF Context
      <4>3. Is(gram', "last", <<>>, FALSE, gram.left, FALSE, FALSE,
               <<Call(IF gram.float THEN "add_float" ELSE "add_int", "top")>>)
        BY <1>2, <2>4, <4>1, FinishIs
      <4>. QED BY <1>1, <2>4, <4>2, <4>3 DEF NumberName
    <3>2. InNumber(map, stack, type, split, phase, gram)
      BY <2>1, <2>4, MapSets
         DEF Spot, Grammar!NumberEnd, BetweenTokens, InString, InName, InLiteral, PastNumber
    <3>3. gram.at = Place[map] /\ map \in DOMAIN Place /\ gram.left = <<>> BY <3>2 DEF InNumber
    <3>4. map \in numeric /\ map \in number_maps
      BY <2>4, <3>3 DEF Place, numeric, number_maps, Grammar!NumberEnd
    <3>5. EndsNumber BY <2>4, <3>4 DEF EndsNumber
    <3>6. map' = map BY <1>1, <3>3, MapSets DEF Place
    <3>7. PastNumber(map', stack', type', gram') BY <1>1, <2>4, <3>1, <3>3, <3>4, <3>5, <3>6 DEF PastNumber, Is
    <3>8. ~split' => Told("last", out', <<NumberName(gram)>>)
      BY <1>1, <1>3, <2>1, <3>2, <3>4, <3>5, NumberTold, ToldCalls
    <3>9. Agree(map', next_map', stack', type', ri', matches', just_one', split', phase', gram')
      BY <3>1, <3>7 DEF Agree, Is, Spot
    <3>10. DOMAIN gram' = Fields /\ gram'.out = <<NumberName(gram)>> /\ gram'.at = "last" BY <3>1 DEF Is
    <3>11. phase' = "ended" /\ entry' # "none" BY <1>1, <1>2, <2>4
    <3>. QED BY <3>8, <3>9, <3>10, <3>11 DEF Faith
  <2>. QED BY <2>3, <2>4
<1>. QED BY <1>4, <1>5

\* A call begins.
LEMMA FaithBegin ==
    ASSUME Faith, NEW e \in Entries, Begin(e), Typed'
    PROVE  Faith'
<1>1. /\ entry' = e /\ phase' \in {"reading", "waiting"}
      /\ map' = "value" /\ stack' = <<>> /\ out' = <<>> /\ gram' = Grammar!Start(~just_one)
      /\ just_one' = just_one
  BY DEF Begin
<1>2. entry' # "none" BY <1>1, ParserAssumption DEF ParserAssumption
<1>3. Is(gram', "value", <<>>, FALSE, <<>>, FALSE, ~just_one, <<>>) BY <1>1, StartIs
<1>4. BetweenTokens(map', stack', just_one', gram') BY <1>1, <1>3 DEF BetweenTokens, Is
<1>5. Agree(map', next_map', stack', type', ri', matches', just_one', split', phase', gram')
  BY <1>1, <1>3, <1>4 DEF Agree, Spot, Is
<1>6. DOMAIN gram' = Fields /\ gram'.out = <<>> BY <1>3 DEF Is
<1>. QED BY <1>1, <1>2, <1>5, <1>6, ToldCalls DEF Faith

\* The next chunk.
LEMMA FaithChunk ==
    ASSUME Faith, Chunk, Typed'
    PROVE  Faith'
<1>1. /\ phase = "waiting" /\ phase' = "fresh" /\ out' = <<>>
      /\ UNCHANGED <<map, next_map, stack, type, ri, matches, just_one, entry, gram, split>>
  BY DEF Chunk
<1>2. InNumber(map, stack, type, split, phase, gram) => InNumber(map, stack, type, split, phase', gram)
  BY <1>1 DEF InNumber
<1>3. /\ DOMAIN gram = Fields /\ entry # "none" /\ gram.out = <<>>
      /\ gram.at # "bad" => Agree(map, next_map, stack, type, ri, matches, just_one, split, phase, gram)
  BY <1>1 DEF Faith, Calling
<1>4. gram.at # "bad" => Agree(map, next_map, stack, type, ri, matches, just_one, split, phase', gram)
  BY <1>2, <1>3 DEF Agree, Spot
<1>. QED BY <1>1, <1>3, <1>4, ToldCalls DEF Faith

\* Where the parser stands when the input has ended inside the grammar.
LEMMA Ended ==
    ASSUME Faith, phase = "ended", gram.at # "bad"
    PROVE  /\ Grammar!Complete(gram) => ~Incomplete
           /\ ~Incomplete => Grammar!Complete(gram) \/ Unfinished
<1>1. Spot(map, next_map, stack, type, ri, matches, just_one, split, phase, gram)
  BY DEF Faith, Agree, Calling
<1>2. stack \in Seq(Kinds) /\ map \in Maps /\ map \notin Inside /\ entry \in Entries /\ Here
  BY DEF Faith, Typed, Stored, Calling, Here
<1>3. (stack = <<>> <=> depth = 0) /\ depth \in Nat /\ (stack = <<>> => Context(stack) = "top")
  BY <1>2, Contexts DEF depth
<1>4. entry \in {"parse", "load", "file"} BY <1>2, ParserAssumption DEF ParserAssumption
<1>5. ~Incomplete => \/ entry = "file"
                     \/ stack = <<>> /\ (entry # "parse" \/ ~(ri > 0 /\ map \in DOMAIN Words))
  BY <1>3, <1>4 DEF Incomplete
<1>6. Incomplete => depth > 0 \/ map \in DOMAIN Words BY DEF Incomplete
<1>7. depth > 0 => stack # <<>> BY <1>3
<1>8. entry = "file" => Unfinished BY DEF Unfinished
<1>. HIDE DEF Incomplete, depth
<1>9. CASE BetweenTokens(map, stack, just_one, gram)
  <2>1. map \notin DOMAIN Words BY <1>9, MapSets DEF BetweenTokens
  <2>2. Grammar!Complete(gram) => stack = <<>> BY <1>9 DEF BetweenTokens, Grammar!Complete
  <2>3. stack = <<>> => Grammar!Complete(gram) \/ Unfinished
    BY <1>3, <1>9 DEF BetweenTokens, Grammar!Complete, Unfinished
  <2>. QED BY <1>5, <1>6, <1>7, <1>8, <2>1, <2>2, <2>3
<1>10. CASE InString(map, next_map, stack, ri, gram)
  <2>1. ~Grammar!Complete(gram) BY <1>10 DEF InString, Grammar!Complete
  <2>2. stack = <<>> => Unfinished BY <1>10 DEF InString, Unfinished
  <2>. QED BY <1>5, <1>8, <2>1, <2>2
<1>11. CASE InLiteral(map, ri, matches, gram)
  <2>1. ~Grammar!Complete(gram) BY <1>11, MapSets DEF InLiteral, Grammar!Complete
  <2>2. map \in DOMAIN Words /\ ri \in 1 .. Len(Words[gram.at]) - 1 BY <1>2, <1>11, MapSets DEF InLiteral
  <2>3. ri > 0
    <3>1. Len(Words[gram.at]) \in Nat BY <1>11, MapSets, WordLengths DEF InLiteral
    <3>. QED BY <2>2, <3>1
  <2>4. stack = <<>> /\ entry # "parse" => Unfinished BY <2>2 DEF Unfinished
  <2>. QED BY <1>5, <1>8, <2>1, <2>2, <2>3, <2>4
<1>12. CASE InNumber(map, stack, type, split, phase, gram)
  <2>1. map \in DOMAIN Place /\ gram.at = Place[map] /\ (gram.at \notin Grammar!NumberEnd \/ stack # <<>>)
    BY <1>12 DEF InNumber
  <2>2. ~Grammar!Complete(gram) BY <2>1 DEF Place, Grammar!Complete
  <2>3. stack = <<>> => Unfinished BY <2>1 DEF Place, Grammar!NumberEnd, Unfinished
  <2>. QED BY <1>5, <1>8, <2>2, <2>3
<1>13. CASE PastNumber(map, stack, type, gram)
  <2>1. map \notin DOMAIN Words /\ gram.at = IF stack = <<>> THEN "last" ELSE "after"
    BY <1>13, MapSets DEF PastNumber, numeric
  <2>. QED BY <1>5, <1>6, <1>7, <1>8, <2>1 DEF Grammar!Complete
<1>14. ~InName(map, stack, gram) BY <1>2, MapSets DEF InName
<1>. QED BY <1>1, <1>9, <1>10, <1>11, <1>12, <1>13, <1>14 DEF Spot

\* The end of the call.
LEMMA FaithReturn ==
    ASSUME Faith, Return \/ NoInput, Typed'
    PROVE  Faith'
<1>1. /\ phase' \in {"raised", "returned"}
      /\ UNCHANGED <<map, next_map, stack, type, ri, matches, just_one, entry, gram, split>>
  BY DEF Return, NoInput
<1>2. ASSUME phase' = "returned", gram.at # "bad"
      PROVE  Grammar!Complete(gram) \/ Unfinished
  <2>1. CASE Return
    <3>1. phase = "ended" /\ ~Incomplete BY <1>2, <2>1 DEF Return
    <3>. QED BY <1>2, <3>1, Ended
  <2>2. CASE NoInput
    <3>1. phase = "waiting" /\ gram = Grammar!Start(~just_one) BY <2>2 DEF NoInput
    <3>2. gram.at = "value" /\ gram.stack = <<>> BY <3>1, StartIs DEF Is
    <3>3. gram.stack = stack BY <1>2, <3>1 DEF Faith, Calling, Agree
    <3>. QED BY <3>2, <3>3 DEF Unfinished
  <2>. QED BY <2>1, <2>2
<1>3. phase' = "returned" /\ gram'.at # "bad" => Grammar!Complete(gram') \/ Unfinished'
  BY <1>1, <1>2 DEF Unfinished
<1>. QED BY <1>1, <1>3 DEF Faith, Calling

\* Every step.
LEMMA FaithStep ==
    ASSUME ~AfterNumber, Faith, [Next]_vars
    PROVE  Faith'
<1>0. Typed' BY TypedStep DEF Faith
<1>1. CASE UNCHANGED vars
  <2>1. UNCHANGED <<map, next_map, stack, type, ri, matches, just_one, entry, phase, out, gram, split>>
    BY <1>1 DEF vars
  <2>2. Unfinished' <=> Unfinished BY <2>1 DEF Unfinished
  <2>. QED BY <1>0, <2>1, <2>2 DEF Faith
<1>2. CASE \E v \in JustOnes : SetJustOne(v)
  <2>1. phase' = phase /\ phase \in {"new", "returned", "raised"}
        /\ UNCHANGED <<map, stack, entry, gram>>
    BY <1>2 DEF SetJustOne, Idle
  <2>2. Unfinished' <=> Unfinished BY <2>1 DEF Unfinished
  <2>. QED BY <1>0, <2>1, <2>2 DEF Faith, Calling
<1>3. CASE \E e \in Entries : Begin(e) BY <1>0, <1>3, FaithBegin
<1>4. CASE Chunk BY <1>0, <1>4, FaithChunk
<1>5. CASE \E c \in Alphabet : ReadByte(c) BY <1>0, <1>5, FaithByte
<1>6. CASE \E last \in BOOLEAN : EndChunk(last) BY <1>0, <1>6, FaithEnd
<1>7. CASE Return \/ NoInput BY <1>0, <1>7, FaithReturn
<1>. QED BY <1>1, <1>2, <1>3, <1>4, <1>5, <1>6, <1>7 DEF Next

\* Before the first call.
LEMMA FaithInit == Init => Faith
<1>1. Init => Typed BY TypedInit
<1>2. Init => phase = "new" BY DEF Init
<1>. QED BY <1>1, <1>2 DEF Faith, Calling

\* The invariant.
LEMMA FaithAlways ==
    ASSUME ~AfterNumber
    PROVE  Spec => []Faith
<1>1. Faith /\ [Next]_vars => Faith' BY FaithStep
<1>. QED BY <1>1, FaithInit, PTL DEF Spec

\* As long as the text is well-formed and no top-level number is split, the calls of every step
\* are the values the grammar completes with the byte, in its order, but for the name of a member.
THEOREM EventsFaithful ==
    ASSUME ~AfterNumber
    PROVE  Spec => []FaithfulEvents
<1>1. ASSUME Faith PROVE FaithfulEvents
  <2>1. SUFFICES ASSUME gram.at # "bad", Active, ~split
                 PROVE  Agrees(IF AnnouncedKey THEN <<>> ELSE out, gram.out)
    BY DEF FaithfulEvents, Valid, Grammar!Alive
  <2>2. phase \in Calling /\ (phase = "ended" => Grammar!Complete(gram))
    BY <2>1 DEF Active, Reading, Calling
  <2>3. Told(gram.at, out, gram.out) BY <1>1, <2>1, <2>2 DEF Faith
  <2>. QED BY <2>3 DEF Told, AnnouncedKey
<1>. QED BY <1>1, FaithAlways, PTL

\* A call that returns has read a whole text, or one of the prefixes Unfinished lists.
THEOREM WholeTexts ==
    ASSUME ~AfterNumber
    PROVE  Spec => []ReturnsWhole
<1>1. ASSUME Faith PROVE ReturnsWhole
  <2>1. TypeOK BY <1>1 DEF Faith, Typed, TypeOK, Stored, Kinds
  <2>. QED BY <1>1, <2>1 DEF Faith, ReturnsWhole, Valid, Grammar!Alive
<1>. QED BY <1>1, FaithAlways, PTL

\* The parser raises on bytes the grammar does not take, and at the end of incomplete texts;
\* the two exceptions are an exponent after a zero and a second text of just_one.
THEOREM NeverRejectsValid ==
    ASSUME ~AfterNumber
    PROVE  Spec => RejectsOnlyInvalid
<1>1. ASSUME Faith, [Next]_vars, Reading \/ phase = "ended", phase' = "raised", phase' # phase
      PROVE  IF phase = "ended" THEN ~Grammar!Complete(gram)
             ELSE \/ gram'.at = "bad"
                  \/ map = "zero" /\ gram'.at = "e"
                  \/ map = "trail" /\ gram.at = "value"
  <2>1. CASE phase = "ended"
    <3>1. Incomplete
      BY <1>1, <2>1 DEF Next, vars, SetJustOne, Idle, Begin, Chunk, ReadByte, Reading, EndChunk, Return, NoInput
    <3>2. gram.at # "bad" => ~Grammar!Complete(gram) BY <1>1, <2>1, <3>1, Ended
    <3>. QED BY <2>1, <3>2 DEF Grammar!Complete
  <2>2. CASE phase # "ended"
    <3>1. PICK c \in Alphabet : ReadByte(c)
      BY <1>1, <2>2 DEF Next, vars, SetJustOne, Idle, Begin, Chunk, Reading, EndChunk, Return, NoInput
    <3>2. Faith' BY <1>1, FaithStep
    <3>3. gram.at # "bad" => After BY <1>1, <3>1, <3>2, FaithByte DEF Faith
    <3>4. gram.at = "bad" => gram'.at = "bad"
      BY <1>1, <3>1, BadStays DEF Faith, Calling, ReadByte, Reading
    <3>. QED BY <1>1, <2>2, <3>3, <3>4 DEF After, Apart
  <2>. QED BY <2>1, <2>2
<1>2. Faith /\ [Next]_vars =>
        [(Reading \/ phase = "ended") /\ phase' = "raised" =>
         IF phase = "ended" THEN ~Grammar!Complete(gram)
         ELSE \/ gram'.at = "bad"
              \/ map = "zero" /\ gram'.at = "e"
              \/ map = "trail" /\ gram.at = "value"]_vars
  BY <1>1 DEF Reading
<1>. QED BY <1>2, FaithAlways, PTL DEF Spec, RejectsOnlyInvalid

\* A text that is not well-formed goes on being read at the places Slack lists and at no other.
THEOREM SlackIsKnown ==
    ASSUME ~AfterNumber
    PROVE  Spec => OnlyKnownSlack
<1>1. ASSUME Faith, [Next]_vars, Reading, phase' = "reading", Valid, gram'.at = "bad"
      PROVE  Slack
  <2>1. gram.at # "bad" BY <1>1 DEF Valid, Grammar!Alive
  <2>2. gram' # gram BY <1>1, <2>1
  <2>3. PICK c \in Alphabet : ReadByte(c)
    BY <1>1, <2>2 DEF Next, vars, SetJustOne, Idle, Begin, Chunk, Reading, EndChunk, Return, NoInput
  <2>4. Faith' BY <1>1, FaithStep
  <2>5. After BY <1>1, <2>1, <2>3, <2>4, FaithByte DEF Faith
  <2>. QED BY <1>1, <2>5 DEF After, Apart
<1>2. Faith /\ [Next]_vars => [Reading /\ phase' = "reading" /\ Valid /\ gram'.at = "bad" => Slack]_vars
  BY <1>1
<1>. QED BY <1>2, FaithAlways, PTL DEF Spec, OnlyKnownSlack
===============================================================================
