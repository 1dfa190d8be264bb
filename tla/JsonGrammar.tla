---------------------------- MODULE JsonGrammar ----------------------------
(* JSON texts (RFC 8259), one or several in a row, read one byte at a time.  *)
(* This is the reference the push parser is compared with; it is written     *)
(* from the grammar, not from parser.c.  A reader is a record:               *)
(*   at     where in the grammar the input stands ("bad": it left it)        *)
(*   stack  the containers that are open, outermost first                    *)
(*   key    the string being read is a member name                          *)
(*   left   bytes still owed: letters of a literal, hex digits, UTF-8 tail   *)
(*   float  the number being read has a fraction or an exponent              *)
(*   many   another text may follow the first one                           *)
(*   out    what the last byte completed, as calls of the delegate           *)
EXTENDS JsonBytes

CONSTANT AfterNumber  \* may another text follow one that is a number?

Start(many) == [at |-> "value", stack |-> <<>>, key |-> FALSE, left |-> <<>>,
                float |-> FALSE, many |-> many, out |-> <<>>]
Bad == [Start(FALSE) EXCEPT !.at = "bad"]

Alive(g) == g.at # "bad"
\* The input may end here: a whole text has been read ("last": the last one).
Complete(g) == g.at \in {"done", "last"}

NumberEnd == {"int0", "int", "frac", "exp"}

Goto(g, at)  == [g EXCEPT !.at = at]
Yield(g, fun) == [g EXCEPT !.out = Append(@, Call(fun, Context(g.stack))),
                           !.key = FALSE, !.float = FALSE,
                           !.at  = IF g.stack # <<>> THEN "after"
                                   ELSE IF g.many THEN "done" ELSE "last"]

Open(g, kind) ==
    [Yield(g, OpenFun(kind)) EXCEPT !.stack = Append(@, kind),
                                      !.at = IF kind = "array" THEN "first" ELSE "name1"]
Close(g, kind) ==
    IF Context(g.stack) # kind THEN Bad
    ELSE Yield([g EXCEPT !.stack = SubSeq(@, 1, Len(@) - 1)], CloseFun(kind))

Literal(g, w) == [g EXCEPT !.at = w, !.left = Tail(Words[w])]

Value(g, c) ==
    CASE c = "lb"    -> Open(g, "array")
      [] c = "lc"    -> Open(g, "object")
      [] c = "quote" -> [g EXCEPT !.at = "string", !.key = FALSE]
      [] c = "minus" -> [g EXCEPT !.at = "minus", !.float = FALSE]
      [] c = "zero"  -> [g EXCEPT !.at = "int0", !.float = FALSE]
      [] c = "digit" -> [g EXCEPT !.at = "int", !.float = FALSE]
      [] c = "n"     -> Literal(g, "null")
      [] c = "t"     -> Literal(g, "true")
      [] c = "f"     -> Literal(g, "false")
      [] OTHER       -> Bad

\* After a value inside a container.
Separator(g, c) ==
    CASE c \in Blank -> g
      [] c = "comma" -> Goto(g, IF Context(g.stack) = "object" THEN "name" ELSE "value")
      [] c = "rb"    -> Close(g, "array")
      [] c = "rc"    -> Close(g, "object")
      [] OTHER       -> Bad

Name(g, c) == IF c = "quote" THEN [g EXCEPT !.at = "string", !.key = TRUE] ELSE Bad

Text(g, c) ==
    CASE c = "quote"  -> IF g.key THEN [g EXCEPT !.at = "colon", !.key = FALSE] ELSE Yield(g, "add_str")
      [] c = "bslash" -> Goto(g, "escape")
      [] c \in Lead   -> [g EXCEPT !.at = "utf8", !.left = [i \in 1..Follows[c] |-> "follow"]]
      [] c \in Printable \ {"quote", "bslash"} -> g
      [] OTHER -> Bad

Escape(g, c) ==
    CASE c \in {"quote", "bslash", "slash", "b", "f", "n", "r", "t"} -> Goto(g, "string")
      [] c = "u" -> [g EXCEPT !.at = "hex4", !.left = <<"hex", "hex", "hex", "hex">>]
      [] OTHER   -> Bad

\* The bytes a literal, a \u escape or a UTF-8 sequence still owes.
Owed(g, c) ==
    LET fits == IF g.at = "hex4" THEN c \in Digit \cup HexLetter ELSE c = Head(g.left)
        rest == [g EXCEPT !.left = Tail(@)]
    IN IF ~fits THEN Bad
       ELSE IF rest.left # <<>> THEN rest
       ELSE IF g.at \in DOMAIN Words THEN Yield(rest, LiteralFun[g.at])
       ELSE Goto(rest, "string")

\* What may extend the number, by where in it the input stands.
NumberStep(at, c) ==
    CASE at = "minus" /\ c = "zero"                    -> "int0"
      [] at = "minus" /\ c = "digit"                   -> "int"
      [] at = "int" /\ c \in Digit                     -> "int"
      [] at \in {"int0", "int"} /\ c = "dot"           -> "dot"
      [] at \in {"dot", "frac"} /\ c \in Digit         -> "frac"
      [] at \in {"int0", "int", "frac"} /\ c \in ExpLetter -> "e"
      [] at = "e" /\ c \in {"minus", "plus"}           -> "sign"
      [] at \in {"e", "sign", "exp"} /\ c \in Digit    -> "exp"
      [] OTHER                                         -> "none"

Numbers == {"minus", "int0", "int", "dot", "frac", "e", "sign", "exp"}
YieldNumber(g) ==
    Yield([g EXCEPT !.many = @ /\ (AfterNumber \/ g.stack # <<>>)],
          IF g.float THEN "add_float" ELSE "add_int")

Number(g, c) ==
    LET at == NumberStep(g.at, c) IN
    IF at # "none" THEN [g EXCEPT !.at = at, !.float = @ \/ at \in {"dot", "e"}]
    ELSE IF g.at \notin NumberEnd THEN Bad
    ELSE IF g.stack = <<>> THEN IF c \in Blank THEN YieldNumber(g) ELSE Bad
    ELSE Separator(YieldNumber(g), c)

\* Between two tokens, where white space may stand; an owing reader is inside one.
Between == {"value", "done", "last", "first", "name1", "name", "colon"}
Owing   == {"hex4", "utf8"} \cup DOMAIN Words

\* One more byte.
Step(reader, c) ==
    LET g == [reader EXCEPT !.out = <<>>] IN
    IF g.at \in Between /\ c \in Blank THEN g ELSE
    CASE g.at \in Numbers -> Number(g, c)
      [] g.at = "after"   -> Separator(g, c)
      [] g.at = "string"  -> Text(g, c)
      [] g.at = "escape"  -> Escape(g, c)
      [] g.at \in Owing   -> Owed(g, c)
      [] g.at \in {"value", "done"} -> Value(g, c)
      [] g.at = "first"   -> IF c = "rb" THEN Close(g, "array") ELSE Value(g, c)
      [] g.at = "name1"   -> IF c = "rc" THEN Close(g, "object") ELSE Name(g, c)
      [] g.at = "name"    -> Name(g, c)
      [] g.at = "colon"   -> IF c = "colon" THEN Goto(g, "value") ELSE Bad
      [] OTHER            -> Bad

\* The input ends here.
Finish(reader) ==
    LET g == [reader EXCEPT !.out = <<>>] IN
    IF g.at \in NumberEnd /\ g.stack = <<>> THEN YieldNumber(g) ELSE g
=============================================================================
