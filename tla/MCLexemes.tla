------------------------------ MODULE MCLexemes ------------------------------
(* Texts for Lexemes.  The limits are scaled down: 922 stands for 2^63 - 1,  *)
(* so that the third decimal overflows, and integers are big from their      *)
(* second digit on.                                                          *)
EXTENDS Lexemes

Load    == [mode |-> "other", allowNan |-> TRUE, bigdec |-> "auto", allowInvalid |-> FALSE, inPlace |-> TRUE]
StrictLoad == [Load EXCEPT !.mode = "strict", !.allowNan = FALSE]
CompatLoad == [Load EXCEPT !.mode = "compat", !.bigdec = "float"]
File    == [Load EXCEPT !.inPlace = FALSE]

Singles(set) == {<<c>> : c \in set}
\* The texts of n fragments.
Topic(c, fragments, lengths) ==
    [config |-> c, texts |-> UNION {{FlattenSeq(t) : t \in [1..n -> fragments]} : n \in lengths}]

Figures  == Singles({"0", "7", "-", ".", "e"})
Numbers  == {Topic(c, Figures, 0..6) : c \in {Load, StrictLoad, CompatLoad, [Load EXCEPT !.bigdec = "fast"]}}
            \cup {Topic(c, Figures \cup Singles({"+", " "}), 0..4) :
                     c \in {StrictLoad, CompatLoad, Load, [Load EXCEPT !.bigdec = "big"], [Load EXCEPT !.bigdec = "ruby"]}}
Words    == {Topic(c, Singles({"t", "rue", "f", "alse", "n", "u", "ll", "a", "N", "I", "nfinity", "-"}), 1..3) :
                c \in {Load, StrictLoad}}
Comments == {Topic(Load, Singles({"/", "*", "\n", "7"}), 2..6)}
Strings  == {Topic(c, Singles({"\"", "\\", "n", "x", "/"}), 2..5) : c \in {Load, CompatLoad}}
Unicodes == {Topic(c, {<<"\"">>, <<"\\", "u", "D80", "0">>, <<"\\", "u", "DC0", "0">>, <<"\\", "u", "004", "0">>,
                       <<"\\">>, <<"u">>, <<"DC0">>}, 3..5) : c \in {Load, [Load EXCEPT !.allowInvalid = TRUE]}}
Streams  == {Topic(File, {<<"\"">>, <<"\\", "n">>, <<"7">>, <<",">>, <<"x">>}, 1..6)}
AllTopics == Numbers \cup Words \cup Comments \cup Strings \cup Unicodes \cup Streams
=============================================================================
