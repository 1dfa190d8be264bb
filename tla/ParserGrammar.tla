---------------------------- MODULE ParserGrammar ----------------------------
(* What the push parser promises about the documents it reads: it is compared *)
(* with the reference reader gram, which has read the same bytes.             *)
EXTENDS Parser

Valid == Grammar!Alive(gram)
\* A call is under way and its input is not cut short.
Active == Reading \/ phase = "waiting" \/ (phase = "ended" /\ Grammar!Complete(gram))

\* A reference number may be delivered as text.
Agrees(calls, ref) ==
    /\ Len(calls) = Len(ref)
    /\ \A i \in DOMAIN ref :
        \/ calls[i] = ref[i]
        \/ /\ ref[i].fun \in {"add_int", "add_float"}
           /\ calls[i] = Call("add_big", ref[i].ctx)

\* A key that needed decoding, or that the end of a chunk split, is announced
\* by a call of add_str when its closing quote is read.
AnnouncedKey == gram.at = "colon" /\ out = <<Call("add_str", "object")>>

\* As long as the input is well-formed, the delegate is called for exactly the
\* values the grammar completes, at the byte that completes them, in the context
\* of the container they belong to: add_int only for numbers without fraction
\* and exponent, add_float only for the others, add_big for either.  Excepted are
\* inputs with a chunk that ends inside a number at the top level: parse() takes
\* the end of the chunk for the end of the number and drops the digits to come.
FaithfulEvents ==
    Valid /\ Active /\ ~split =>
        Agrees(IF AnnouncedKey THEN <<>> ELSE out, gram.out)

\* A well-formed prefix is never rejected, and neither is a complete text at the
\* end of the input.  Two inputs are excepted: an exponent right after a leading
\* zero ("0e1"), which zero_map does not have, and, with just_one, white space
\* before the text, which the check at the end of the switch takes for the white
\* space after it.
RejectsOnlyInvalid ==
    [][(Reading \/ phase = "ended") /\ phase' = "raised" =>
         IF phase = "ended" THEN ~Grammar!Complete(gram)
         ELSE \/ gram'.at = "bad"
              \/ map = "zero" /\ gram'.at = "e"
              \/ map = "trail" /\ gram.at = "value"]_vars

number_loop == number_maps \cup {"dot", "exp_sign", "big_dot", "big_exp_zero"}

\* The steps that let a byte through that the grammar does not.
Slack ==
    \* 1,2 at the top level
    \/ stack = <<>> /\ map \in number_maps /\ map' = "comma"
    \* {"a":}
    \/ InObject /\ map = "value" /\ Len(stack') < Len(stack)
    \* 1 2 and [1 2]: the table of a number stays selected after the white space
    \/ gram.at \in {"after", "last"} /\ map \in number_loop
    \* the letters of a literal are compared when there are enough of them, and a
    \* literal that the end of the chunk split may be cut short by a comma
    \/ map \in DOMAIN Words \cup DOMAIN Lookahead

\* An ill-formed byte is rejected when it is read, but for the listed cases.
OnlyKnownSlack ==
    [][Reading /\ phase' = "reading" /\ Valid /\ gram'.at = "bad" => Slack]_vars

\* For every input, well-formed or not, the delegate sees nested calls only.
Protocol == INSTANCE DelegateProtocol
KeepsProtocol == Protocol!Spec

\* What each entry point lets pass for a document although the text is unfinished:
\* nothing at all; a string or number cut at the top level; a literal, unless
\* parse() was called; and in file() anything.
Unfinished ==
    \/ gram.at = "value" /\ stack = <<>>
    \/ stack = <<>> /\ map \in {"string", "esc", "u", "utf", "neg", "dot", "exp_sign", "exp_zero",
                                "big_dot", "big_exp_sign", "big_exp_zero"}
    \/ entry # "parse" /\ stack = <<>> /\ map \in DOMAIN Words
    \/ entry = "file"

\* A call that returns without an error has read a whole text, or one of the
\* unfinished ones the entry point does not check for; in particular parse() and
\* load() return only at depth 0, and nothing that was read stays undelivered.
ReturnsWhole ==
    /\ TypeOK
    /\ phase = "returned" /\ Valid => Grammar!Complete(gram) \/ Unfinished
=============================================================================
