------------------------------ MODULE Decimals ------------------------------
(* What the text of a number says, as a reference for the parsers: its digits *)
(* without the dot, and the power of ten.                                      *)
LOCAL INSTANCE Integers
LOCAL INSTANCE Sequences
LOCAL INSTANCE SequencesExt

NumberOf == [x \in {"0", "1", "2", "3", "4", "5", "6", "7", "8", "9"} |->
                CHOOSE n \in 0..9 : <<"0", "1", "2", "3", "4", "5", "6", "7", "8", "9">>[n + 1] = x]

Places(s) == SelectSeq(s, LAMBDA c : c \in DOMAIN NumberOf)
ValueOf(s) == FoldLeft(LAMBDA n, c : 10 * n + NumberOf[c], 0, Places(s))
Cut(s, c) == IF c \in ToSet(s) THEN SelectInSeq(s, LAMBDA d : d = c) ELSE Len(s) + 1
Before(s, c) == SubSeq(s, 1, Cut(s, c) - 1)
After(s, c)  == SubSeq(s, Cut(s, c) + 1, Len(s))

Integer(s)  == Before(Before(s, "e"), ".")
Fraction(s) == After(Before(s, "e"), ".")
Mantissa(s) == ValueOf(Integer(s) \o Fraction(s))
Negative(s) == s # <<>> /\ s[1] = "-"
Exponent(s) == LET x == After(s, "e") IN IF Negative(x) THEN -ValueOf(x) ELSE ValueOf(x)

\* One representation per number: no zeros at the end of the mantissa.
Stripped[m \in Nat, e \in Int] ==
    IF m = 0 THEN <<0, 0>> ELSE IF m % 10 = 0 THEN Stripped[m \div 10, e + 1] ELSE <<m, e>>
Value(negative, m, e) == LET s == Stripped[m, e]
                         IN IF negative THEN <<-s[1], s[2]>> ELSE s
TextValue(s) == Value(Negative(s), Mantissa(s), Exponent(s) - Len(Fraction(s)))
=============================================================================
