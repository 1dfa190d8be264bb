-------------------------------- MODULE Number --------------------------------
(* How the push parser (parser.c) collects a number: the digits go into       *)
(* num.fixnum, num.shift and num.exp until one of them would not fit, and from *)
(* then on, as text, into p->buf.  Parser has the tables and when a number     *)
(* ends; here it is what is delivered: a fixnum, a float, or a text that       *)
(* BigDecimal reads.                                                           *)
(*                                                                             *)
(* Rounding is left out: a float is its decimal value.  The limits are         *)
(* constants, so that a few digits reach them.                                 *)
EXTENDS Integers, Sequences, SequencesExt, Decimals

CONSTANTS
    Bytes,      \* the bytes numbers are made of here: digits, "-", "+", ".", "e"
    BigLimit,   \* LLONG_MAX / 10
    FracLimit,  \* 10^16
    MaxExp,     \* 4932
    ExpMod,     \* 2^16: the values of an int16_t
    ShiftMod,   \* 2^8: the values of a uint8_t
    MaxLen,     \* bound: the bytes of a number
    Leftovers   \* bound: what earlier values have left in p->buf

Digits == Bytes \cap DOMAIN NumberOf

ASSUME NumberAssumption ==
    /\ Bytes \subseteq DOMAIN NumberOf \cup {"-", "+", ".", "e"}
    /\ BigLimit \in Nat /\ FracLimit \in Nat /\ 10 <= FracLimit /\ FracLimit <= BigLimit
    /\ MaxExp \in Nat /\ ExpMod \in Nat /\ ShiftMod \in Nat /\ MaxLen \in Nat
    /\ MaxExp < ExpMod \div 2

VARIABLES
    map,      \* p->map; "in_neg": inside the loop of NEG_DIGIT; "value": no number yet
    type,     \* p->type
    fixnum, shift, exp, neg, exp_neg,  \* p->num
    buf,      \* p->buf, as a sequence of bytes
    again,    \* b--: the byte to be read once more, "" for none
    text,     \* history: the bytes of the number
    given     \* what calc_num delivers, as [fun, mantissa, exp10], or None

num  == <<fixnum, shift, exp, neg, exp_neg>>
vars == <<map, type, num, buf, again, text, given>>

-----------------------------------------------------------------------------
\* int16_t and uint8_t arithmetic.
Int16(x) == LET r == x % ExpMod IN IF r < ExpMod \div 2 THEN r ELSE r - ExpMod
Uint8(x) == x % ShiftMod

Written[i \in Nat] == IF i = 0 THEN <<>>
                      ELSE Append(Written[i \div 10], CHOOSE c \in DOMAIN NumberOf : NumberOf[c] = i % 10)

\* big_change: what has been collected, written into p->buf.  The dot is written
\* when the loop over the digits comes to it, and the zeros of the exponent are
\* left out.  A number that is text already starts again from an empty buffer.
Sign == IF neg THEN <<"-">> ELSE <<>>
Dotted(ds) == IF shift < Len(ds)
              THEN SubSeq(ds, 1, Len(ds) - shift) \o <<".">> \o SubSeq(ds, Len(ds) - shift + 1, Len(ds))
              ELSE ds
ExpText == IF 0 < exp
           THEN <<"e">> \o (IF exp_neg THEN <<"-">> ELSE <<>>)
                        \o SelectSeq(Written[exp], LAMBDA c : c # "0")
           ELSE <<>>
BigText == CASE type = "int"     -> Sign \o Written[fixnum]
             [] type = "decimal" -> Sign \o Dotted(Written[fixnum]) \o ExpText
             [] OTHER            -> <<>>
ToText == buf' = BigText /\ type' = "big" /\ UNCHANGED num

Goto(m)   == map' = m
\* The byte is used up.
Taken(c)  == again' = "" /\ text' = IF again = "" THEN Append(text, c) ELSE text
\* The byte is to be read once more: text has it from the first time.
Kept(c)   == text' = IF again = "" THEN Append(text, c) ELSE text

\* VAL0, VAL_DIGIT, VAL_NEG.
StartNumber(c) ==
    /\ map = "value"
    /\ c \in Digits \cup {"-"}
    /\ type' = "int" /\ shift' = 0 /\ exp' = 0 /\ exp_neg' = FALSE
    /\ neg' = (c = "-")
    /\ fixnum' = IF c = "-" THEN 0 ELSE NumberOf[c]
    /\ Goto(CASE c = "-" -> "neg" [] c = "0" -> "zero" [] OTHER -> "digit")
    /\ Taken(c) /\ UNCHANGED buf

\* NUM_ZERO.
NegZero(c) == map = "neg" /\ c = "0" /\ Goto("zero") /\ Taken(c) /\ UNCHANGED <<type, num, buf>>

\* One digit more for fixnum, if it stays below limit.
Fits(c, limit) == fixnum * 10 + NumberOf[c] < limit
Collect(c) == fixnum' = fixnum * 10 + NumberOf[c] /\ UNCHANGED <<type, exp, neg, exp_neg, buf>>

\* The loops of VAL_DIGIT and NUM_DIGIT.
Digit(c) ==
    /\ map = "digit" /\ c \in Digits
    /\ IF Fits(c, BigLimit)
       THEN Collect(c) /\ Goto("digit") /\ Taken(c) /\ UNCHANGED shift
       ELSE ToText /\ Goto("big_digit") /\ again' = c /\ Kept(c)

\* The loop of NEG_DIGIT, after which digit_map is selected in either case.
NegDigit(c) ==
    /\ map = "in_neg" \/ (map = "neg" /\ c # "0")
    /\ c \in Digits
    /\ IF Fits(c, BigLimit)
       THEN Collect(c) /\ Goto("in_neg") /\ Taken(c) /\ UNCHANGED shift
       ELSE ToText /\ Goto("digit") /\ again' = c /\ Kept(c)

\* The chunk of load() ends in the number: the loop is left.
ChunkEnds == map = "in_neg" /\ again = "" /\ Goto("digit") /\ UNCHANGED <<type, num, buf, again, text, given>>

IntMaps == {"zero", "digit", "in_neg"}
\* NUM_DOT, FRAC_E.
Dot(c) == map \in IntMaps /\ c = "." /\ type' = "decimal" /\ Goto("dot") /\ Taken(c) /\ UNCHANGED <<num, buf>>
FracE(c) ==
    /\ map \in {"digit", "in_neg", "frac"} /\ c = "e"
    /\ type' = "decimal" /\ Goto("exp_sign") /\ Taken(c) /\ UNCHANGED <<num, buf>>

\* NUM_FRAC.  Variant: the shift is not counted for a zero.
FracShiftNonzero(c) == IF c = "0" THEN shift ELSE Uint8(shift + 1)
FracShift(c) == Uint8(shift + 1)
Frac(c) ==
    /\ map \in {"dot", "frac"} /\ c \in Digits
    /\ IF Fits(c, FracLimit)
       THEN Collect(c) /\ shift' = FracShift(c) /\ Goto("frac") /\ Taken(c)
       ELSE ToText /\ Goto("big_frac") /\ again' = c /\ Kept(c)

\* EXP_SIGN, EXP_DIGIT.
ExpSign(c) ==
    /\ map = "exp_sign" /\ c \in Bytes \cap {"-", "+"}
    /\ exp_neg' = (c = "-") /\ Goto("exp_zero") /\ Taken(c)
    /\ UNCHANGED <<type, fixnum, shift, exp, neg, buf>>
ExpDigit(c) ==
    /\ map \in {"exp_sign", "exp_zero", "exp"} /\ c \in Digits
    /\ LET x == Int16(exp * 10 + NumberOf[c])
       IN IF x <= MaxExp
          THEN exp' = x /\ Goto("exp") /\ Taken(c) /\ UNCHANGED <<type, fixnum, shift, neg, exp_neg, buf>>
          ELSE ToText /\ Goto("big_exp") /\ again' = c /\ Kept(c)

BigMaps == {"big_digit", "big_dot", "big_frac", "big_exp_sign", "big_exp_zero", "big_exp"}
\* BIG_DIGIT .. BIG_EXP: the byte goes into the text.
BigMap(c) ==
    CASE map = "big_digit" /\ c \in Digits                               -> "big_digit"
      [] map = "big_digit" /\ c = "."                                    -> "big_dot"
      [] map \in {"big_dot", "big_frac"} /\ c \in Digits                 -> "big_frac"
      [] map \in {"big_digit", "big_frac"} /\ c = "e"                    -> "big_exp_sign"
      [] map = "big_exp_sign" /\ c \in {"-", "+"}                        -> "big_exp_zero"
      [] map \in {"big_exp_sign", "big_exp_zero", "big_exp"} /\ c \in Digits -> "big_exp"
      [] OTHER                                                           -> "none"
Big(c) ==
    /\ BigMap(c) # "none"
    /\ buf' = Append(buf, c) /\ Goto(BigMap(c)) /\ Taken(c) /\ UNCHANGED <<type, num>>

None == [fun |-> "none", value |-> <<0, 0>>]

ReadByte(c) ==
    /\ Len(text) < MaxLen \/ again # ""
    /\ again \in {"", c}
    /\ \/ StartNumber(c) \/ NegZero(c) \/ Digit(c) \/ NegDigit(c) \/ Dot(c) \/ FracE(c)
       \/ Frac(c) \/ ExpSign(c) \/ ExpDigit(c) \/ Big(c)
    /\ given' = None

\* calc_num, when the byte after the number is read.  BigDecimal has nothing to
\* say of a text without digits.
Delivered ==
    CASE type = "int"     -> [fun |-> "add_int", value |-> Value(neg, fixnum, 0)]
      [] type = "decimal" -> [fun |-> "add_float",
                              value |-> Value(neg, fixnum, (IF 0 < exp THEN IF exp_neg THEN -exp ELSE exp ELSE 0) - shift)]
      [] OTHER            -> [fun |-> "add_big", value |-> TextValue(buf)]
CalcNum ==
    /\ map \in IntMaps \cup {"frac", "exp", "big_digit", "big_frac", "big_exp"}
    /\ again = ""
    /\ given' = Delivered
    /\ IF type = "int" /\ neg THEN fixnum' = -fixnum /\ neg' = FALSE ELSE UNCHANGED <<fixnum, neg>>
    /\ Goto("value") /\ type' = "none"
    /\ UNCHANGED <<shift, exp, exp_neg, buf, again, text>>

\* The next number.  Strings and keys in between leave their text in p->buf.
Another ==
    /\ given # None
    /\ text' = <<>> /\ given' = None
    /\ buf' \in Leftovers
    /\ UNCHANGED <<map, type, num, again>>

Init ==
    /\ map = "value" /\ type = "none"
    /\ fixnum = 0 /\ shift = 0 /\ exp = 0 /\ neg = FALSE /\ exp_neg = FALSE
    /\ buf = <<>> /\ again = "" /\ text = <<>> /\ given = None

Next == (\E c \in Bytes : given = None /\ ReadByte(c)) \/ ChunkEnds \/ CalcNum \/ Another

Spec == Init /\ [][Next]_vars

-----------------------------------------------------------------------------
\* Type correctness: what has been collected never exceeds the limit that is to
\* keep it from overflowing, whatever digits come, and a number that has become
\* text is read with the tables for text.
TypeOK ==
    /\ fixnum \in (1 - BigLimit)..(BigLimit - 1)
    /\ shift \in 0..(ShiftMod - 1) /\ exp \in (-(ExpMod \div 2))..MaxExp
    /\ neg \in BOOLEAN /\ exp_neg \in BOOLEAN
    /\ type \in {"none", "int", "decimal", "big"}
    /\ (type = "big") <=> (map \in BigMaps \/ (map = "digit" /\ again # ""))
    /\ again \in Bytes \cup {""} /\ text \in Seq(Bytes) /\ Len(text) <= MaxLen

\* The known losses.  A negative integer that is too long starts again from an
\* empty text inside the loop of NEG_DIGIT.  Of a decimal below one that is too
\* long the dot is not written, and its shift is a byte.  An exponent beyond
\* MaxExp is wrapped to 16 bits or loses its zeros.
Lossy(s) ==
    \/ Negative(s) /\ BigLimit <= ValueOf(Integer(s))
    \/ ValueOf(Integer(s)) = 0 /\ (FracLimit <= Mantissa(s) \/ ShiftMod <= Len(Fraction(s)))
    \/ MaxExp < ValueOf(After(s, "e"))

\* Whichever of the three ways a number takes, and wherever in it the change to
\* text comes, in the integer, the fraction or the exponent, and in however many
\* chunks it arrives, the delegate is given the value that was written.
ValueKept == TypeOK /\ (given # None /\ ~Lossy(text) => given.value = TextValue(text))
=============================================================================
