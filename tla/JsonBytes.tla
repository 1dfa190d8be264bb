----------------------------- MODULE JsonBytes -----------------------------
(* The input alphabet of the push parser.  The tables of parser.c send bytes *)
(* that behave alike to the same action, so a byte is represented by its     *)
(* class: one member of Classes stands for every byte of the class.          *)
EXTENDS Sequences, Integers

Blank     == {"sp", "tab", "nl"}      \* ' ' | '\t' '\r' | '\n'
Digit     == {"zero", "digit"}        \* '0' | '1'..'9'
ExpLetter == {"e", "E"}
\* "b" stands for itself, "hex" for c d A B C D F, "other" for every
\* printable byte that no table singles out.
HexLetter == {"a", "b", "e", "f", "E", "hex"}
Letter    == HexLetter \cup {"l", "n", "r", "s", "t", "u"}
Printable == Digit \cup Letter \cup
             {"sp", "lb", "rb", "lc", "rc", "comma", "colon", "quote", "bslash",
              "minus", "plus", "dot", "slash", "other"}
\* UTF-8 lead bytes by length of the sequence, and follow bytes.
Lead      == {"lead2", "lead3", "lead4"}
Classes   == Printable \cup Lead \cup {"tab", "nl", "follow", "ctl"}

\* How many follow bytes a lead byte announces.
Follows == [lead2 |-> 1, lead3 |-> 2, lead4 |-> 3]

\* The three literals, letter by letter.
Words == [null  |-> <<"n", "u", "l", "l">>,
          true  |-> <<"t", "r", "u", "e">>,
          false |-> <<"f", "a", "l", "s", "e">>]

\* The function that delivers a literal.
LiteralFun == [null |-> "add_null", true |-> "add_true", false |-> "add_false"]

\* A call of one of the delegate's functions: which one, and which of the three
\* rows of funcs[] it was taken from (that of the innermost open container).
Call(fun, ctx) == [fun |-> fun, ctx |-> ctx]
Context(stack) == IF stack = <<>> THEN "top" ELSE stack[Len(stack)]
\* What the delegate is asked for when a container opens and when it closes.
OpenFun(kind)  == IF kind = "array" THEN "open_array" ELSE "open_object"
CloseFun(kind) == IF kind = "array" THEN "close_array" ELSE "close_object"
=============================================================================
