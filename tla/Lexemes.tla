------------------------------- MODULE Lexemes -------------------------------
(* What makes a token of bytes for the classic parsers.  sparse.c reads its  *)
(* bytes one at a time through a Reader, which may run out of them anywhere; *)
(* parse.c has the whole text and looks where it likes.  Stream is the state *)
(* machine of the first, Memory a function of the text for the second.       *)
(*                                                                           *)
(* One symbol stands for what either reads in one go: "nfinity", "rue", and  *)
(* the first three of the four hex digits of a \u escape.  NUL bytes, and    *)
(* the three long numbers that stand for Infinity and NaN, are left out.     *)
EXTENDS Reader, Decimals, FiniteSets, TLC

CONSTANTS
    Topics,   \* what is read: texts, and a config for them
    DecMax,   \* DEC_MAX
    IntMax,   \* INT64_MAX
    ExpMax    \* EXP_MAX

Configs == [mode : STRING, allowNan : BOOLEAN, bigdec : STRING, allowInvalid : BOOLEAN, inPlace : BOOLEAN]
Symbols == STRING \ {EOF, Junk, Beyond}

ASSUME LexemesAssumption ==
    /\ DecMax \in Nat /\ IntMax \in Nat /\ ExpMax \in Nat
    /\ \A topic \in Topics : topic.config \in Configs /\ topic.texts \subseteq Seq(Symbols)

VARIABLES
    config,   \* mode, allowNan, bigdec, allowInvalid, inPlace
    text,     \* the source
    lx        \* the lexer of sparse.c

vars == <<rd, left, config, text, lx>>

White       == {" ", "\n"}
Punctuation == {"{", "}", "[", "]", ",", ":"}
HexHeads    == {"D80", "DC0", "004"}
Surrogates  == {"D80", "DC0"}
LowDigit    == "0"
EscapeOf    == [c \in {"n", "\"", "\\", "/"} |-> IF c = "n" THEN "\n" ELSE c]

\* Int64 arithmetic.
Int64(x) == LET r == x % (2 * (IntMax + 1)) IN IF r <= IntMax THEN r ELSE r - 2 * (IntMax + 1)

\* struct _numInfo
NoNum == [neg |-> FALSE, i |-> 0, num |-> 0, div |-> 1, di |-> 0, exp |-> 0, eneg |-> FALSE,
          big |-> FALSE, zero1 |-> FALSE, cnt |-> 0, hasExp |-> FALSE]
\* A lexer: where in which function it is, the string or number it has begun, what it
\* held of it, and the tokens so far.
Idle == [at |-> "token", raw |-> <<>>, buf |-> <<>>, held |-> "", ni |-> NoNum, out |-> <<>>, answer |-> "reading"]

To(l, at)  == [l EXCEPT !.at = at]
Kept(l, c) == IF l.at = "token" THEN l ELSE [l EXCEPT !.raw = Append(@, c)]
Emit(l, t) == [l EXCEPT !.out = Append(@, t), !.at = "token", !.raw = <<>>, !.buf = <<>>, !.ni = NoNum]
Error(l)   == [l EXCEPT !.answer = "error"]
Char(c)    == <<c>>
Chars(s)   == [i \in DOMAIN s |-> Char(s[i])]
Compat     == config.mode = "compat"
Strict     == config.mode = "strict"
NoBig      == config.bigdec \in {"float", "fast", "ruby"}

-----------------------------------------------------------------------------
(* What both do alike.                                                       *)

\* strtod and BigDecimal read the whole of it.
Whole(s) ==
    /\ Places(Before(s, "e")) # <<>>
    /\ "e" \in ToSet(s) => Places(After(s, "e")) # <<>>
WholeBig(s) == Whole(s) /\ ("." \in ToSet(s) => Fraction(s) # <<>>)

IsInteger(ni)       == ni.div = 1 /\ ni.exp = 0 /\ ~ni.hasExp
\* oj_num_as_value for the number ni written s: a token, or an error.
NumAsValue(l, ni, s) ==
    LET exp == IF ni.eneg THEN -ni.exp ELSE ni.exp
        big == ni.big \/ config.bigdec = "big"
        integer == Value(ni.neg, IF big THEN Mantissa(s) ELSE ni.i, 0)
        fast == IF ni.i * ni.div + ni.num < 0 THEN Value(~ni.neg, -(ni.i * ni.div + ni.num), exp - ni.di)
                ELSE Value(ni.neg, ni.i * ni.div + ni.num, exp - ni.di)
    IN  IF IsInteger(ni) THEN Emit(l, <<"integer", s, integer>>)
        ELSE IF big THEN IF WholeBig(s) THEN Emit(l, <<"decimal", s, TextValue(s)>>) ELSE Error(l)
        ELSE CASE config.bigdec = "fast" -> Emit(l, <<"decimal", s, fast>>)
               [] config.bigdec = "ruby" -> Emit(l, <<"decimal", s, TextValue(s)>>)
               [] OTHER -> IF Whole(s) THEN Emit(l, <<"decimal", s, TextValue(s)>>) ELSE Error(l)

\* One more digit of the exponent.
ExpDigit(ni, d) == LET exp == ni.exp * 10 + d IN [ni EXCEPT !.exp = exp, !.big = @ \/ ExpMax <= exp]

\* Two surrogates are one character.
Halves(l) == <<"pair", l.buf[Len(l.buf) - 1][1], Last(l.buf)[1]>>
\* Variant: the first one stays.
PairKept(l) == [To(l, "escaped") EXCEPT !.buf = Append(Front(@), Halves(l))]
Pair(l)     == [To(l, "escaped") EXCEPT !.buf = Append(Front(Front(@)), Halves(l))]
\* read_escaped_str and read_hex, but for what follows the first of two surrogates.
Escape(l, c) ==
    CASE l.at = "escaped" -> IF c = "\"" THEN Emit(l, <<"string", l.raw, l.buf>>)
                             ELSE IF c = EOF THEN Error(l)
                             ELSE IF c = "\\" THEN To(l, "escape") ELSE [l EXCEPT !.buf = Append(@, Char(c))]
      [] l.at = "escape" -> IF c = "u" THEN To(l, "hex")
                            ELSE IF c \in DOMAIN EscapeOf
                            THEN [To(l, "escaped") EXCEPT !.buf = Append(@, Char(EscapeOf[c]))]
                            ELSE IF Compat /\ c # EOF THEN [To(l, "escaped") EXCEPT !.buf = Append(@, Char(c))] ELSE Error(l)
      [] l.at \in {"hex", "hex 2"} ->
            IF c \in HexHeads THEN [To(l, IF l.at = "hex" THEN "digit" ELSE "digit 2") EXCEPT !.buf = Append(@, Char(c))]
            ELSE Error(l)
      [] l.at = "digit" -> IF c # LowDigit THEN Error(l)
                           ELSE IF Last(l.buf)[1] \in Surrogates THEN To(l, "pair")
                           ELSE [To(l, "escaped") EXCEPT !.buf = Append(Front(@), <<"code", Last(l.buf)[1]>>)]
      [] l.at = "digit 2" -> IF c # LowDigit THEN Error(l) ELSE Pair(l)
\* The first of two surrogates stays alone.
Alone(l) == [To(l, "escaped") EXCEPT !.buf = Append(Front(@), <<"code", Last(l.buf)[1]>>)]
EscapeAts == {"escaped", "escape", "hex", "hex 2", "digit", "digit 2"}

\* The rest of a word, after its first letter.
Expect(l, word) == [To(l, "word") EXCEPT !.held = word]
Word(l, c) == IF c = l.held THEN Emit(l, <<"word", c, l.ni.neg>>) ELSE Error(l)
Infinity(l) == IF config.allowNan THEN Expect(l, "nfinity") ELSE Error(l)
NaN(l, c) ==
    CASE l.at = "nan"   -> IF c = "a" THEN To(l, "nan 2") ELSE Error(l)
      [] l.at = "nan 2" -> IF c \in {"N", "n"} THEN Emit(l, <<"nan">>) ELSE Error(l)
      [] l.at = "n"     -> CASE c = "u" -> Expect(l, "ll") [] c = "a" -> To(l, "nan 2") [] OTHER -> Error(l)

-----------------------------------------------------------------------------
(* parse.c.                                                                  *)

MemoryToken(l, c) ==
    CASE c \in White -> l
      [] c = EOF  -> [l EXCEPT !.answer = "done"]
      [] c \in Punctuation -> Emit(l, <<"punctuation", c>>)
      [] c = "\"" -> To(l, "escaped")
      [] c = "+"  -> IF Compat \/ Strict THEN Error(l) ELSE [To(l, "sign") EXCEPT !.raw = <<c>>]
      [] c = "-"  -> [To(l, "sign") EXCEPT !.raw = <<c>>, !.ni.neg = TRUE]
      [] c \in DOMAIN NumberOf ->
            [To(l, "int") EXCEPT !.raw = <<c>>, !.ni.i = NumberOf[c], !.ni.zero1 = (c = "0")]
      [] c = "I"  -> Infinity(l)
      [] c = "N"  -> IF config.allowNan THEN To(l, "nan") ELSE Error(l)
      [] c = "t"  -> Expect(l, "rue")
      [] c = "f"  -> Expect(l, "alse")
      [] c = "n"  -> To(l, "n")
      [] c = "/"  -> To(l, "slash")
      [] OTHER    -> Error(l)

\* read_num.
MemoryDigit(ni, d) ==
    [ni EXCEPT !.i = Int64(@ * 10 + d), !.cnt = IF ni.i # 0 THEN @ + 1 ELSE @,
               !.zero1 = @ \/ (ni.i = 0 /\ d = 0)]
MemoryFrac(ni, d) ==
    [ni EXCEPT !.num = Int64(@ * 10 + d), !.div = Int64(@ * 10), !.di = @ + 1,
               !.cnt = IF ni.num # 0 \/ ni.i # 0 THEN @ + 1 ELSE @]
\* After the digits before the dot, and after those behind it.
AfterInt(ni)  == [ni EXCEPT !.big = @ \/ IntMax <= ni.i \/ DecMax < ni.cnt]
AfterFrac(ni) == [ni EXCEPT !.big = @ \/ (~NoBig /\ (IntMax <= ni.div \/ DecMax < ni.cnt))]

\* The number is complete; c comes after it.
MemoryEnds(l, ni, c) ==
    LET done == NumAsValue(l, ni, l.raw) IN IF done.answer = "error" THEN done ELSE MemoryToken(done, c)
MemoryDigits(l, d) ==
    CASE l.at \in {"sign", "int"} -> [To(l, "int")  EXCEPT !.ni = MemoryDigit(@, d)]
      [] l.at \in {"dot", "frac"} -> [To(l, "frac") EXCEPT !.ni = MemoryFrac(@, d)]
      [] l.at \in {"e", "exp"}    -> [To(l, "exp")  EXCEPT !.ni = ExpDigit(@, d)]
Picky == Strict \/ Compat
MemoryOther(l, c) ==
    LET whole == l.at \in {"sign", "int"}
        ni    == IF whole THEN AfterInt(l.ni) ELSE l.ni
    IN  IF l.at = "sign" /\ c \in {"I", "N", "n"} THEN IF c = "I" THEN Infinity(l) ELSE To(l, "nan")
        ELSE IF l.at = "e" /\ c \in {"+", "-"} THEN [To(l, "exp") EXCEPT !.ni.eneg = (c = "-")]
        ELSE IF l.at \in {"e", "exp"} THEN MemoryEnds(l, ni, c)
        ELSE IF whole /\ ni.i # 0 /\ ni.zero1 /\ Compat THEN Error(l)
        ELSE IF Picky /\ (l.at = "dot" \/ (l.at = "sign" /\ c = ".")) THEN Error(l)
        ELSE IF whole /\ c = "." THEN [To(l, "dot") EXCEPT !.ni = ni]
        ELSE IF c = "e" THEN [To(l, "e") EXCEPT !.ni = [AfterFrac(ni) EXCEPT !.hasExp = TRUE]]
        ELSE MemoryEnds(l, AfterFrac(ni), c)
MemoryNumber(l, c) ==
    LET s == IF c \in DOMAIN NumberOf THEN MemoryDigits(l, NumberOf[c]) ELSE MemoryOther(l, c)
    IN  IF s.out = l.out THEN Kept(s, c) ELSE s

\* read_str and read_escaped_str, which looks at two bytes before it takes them.
MemoryString(l, c) ==
    CASE l.at \in EscapeAts -> Escape(l, c)
      [] l.at = "pair"   -> IF c = "\\" THEN To(l, "pair 2")
                            ELSE IF config.allowInvalid THEN Escape(Alone(l), c) ELSE Error(l)
      [] l.at = "pair 2" -> IF c = "u" THEN To(l, "hex 2")
                            ELSE IF config.allowInvalid THEN Escape(Escape(Alone(l), "\\"), c) ELSE Error(l)

\* skip_comment: the end of the text ends a comment, too.
MemoryComment(l, c) ==
    LET done == Emit(l, <<"comment">>) IN
    IF l.at = "slash" THEN IF c = "*" THEN To(l, "block") ELSE IF c = "/" THEN To(l, "line") ELSE Error(l)
    ELSE IF c = EOF THEN MemoryToken(done, c)
    ELSE IF l.at = "line" THEN IF c = "\n" THEN done ELSE l
    ELSE IF l.at = "block *" /\ c = "/" THEN done
    ELSE To(l, IF c = "*" THEN "block *" ELSE "block")

StringAts  == {"pair", "pair 2"} \cup EscapeAts
NumberAts  == {"sign", "int", "dot", "frac", "e", "exp"}
CommentAts == {"slash", "block", "block *", "line"}
NaNAts     == {"nan", "nan 2", "n"}

\* oj_parse2, as far as it is about bytes.
MemoryStep(l, c) ==
    IF l.answer # "reading" THEN l
    ELSE CASE l.at = "token"        -> MemoryToken(l, c)
           [] l.at \in StringAts   -> Kept(MemoryString(l, c), c)
           [] l.at \in NumberAts   -> MemoryNumber(l, c)
           [] l.at \in CommentAts  -> MemoryComment(l, c)
           [] l.at \in NaNAts      -> NaN(l, c)
           [] l.at = "word"        -> Word(l, c)
Memory == FoldLeft(MemoryStep, Idle, Append(text, EOF))

-----------------------------------------------------------------------------
(* sparse.c.  Each step takes one byte of the reader r: what becomes of the  *)
(* lexer, and of the reader.                                                 *)

Both(l, r) == [lx |-> l, rd |-> r]

\* oj_sparse2, as far as it is about bytes: the byte a number begins with is read again,
\* but for a "+".
StreamToken(l, r, c) ==
    IF c = "\"" THEN Both(To(l, "string"), Protect(r))
    ELSE IF c \in DOMAIN NumberOf \cup {"-"} \/ (c = "I" /\ config.allowNan)
    THEN Both(To(l, "first"), Protect(Backup(r)))
    ELSE IF c = "+" /\ ~Compat THEN Both(To(l, "first"), Protect(r))
    ELSE Both(CASE c \in White -> l
                [] c = EOF -> [l EXCEPT !.answer = "done"]
                [] c \in Punctuation -> Emit(l, <<"punctuation", c>>)
                [] c = "N" /\ config.allowNan -> To(l, "nan")
                [] c = "t" -> Expect(l, "rue")
                [] c = "f" -> Expect(l, "alse")
                [] c = "n" -> To(l, "n")
                [] c = "/" -> To(l, "slash")
                [] OTHER -> Error(l), r)

\* read_str, until there is a backslash; read_escaped_str, which takes two bytes before
\* it looks at them.
StreamString(l, r, c) ==
    LET so == [l EXCEPT !.raw = Front(Slice(r))] IN
    CASE l.at = "string" ->
            IF c = EOF THEN Both(Error(l), r)
            ELSE IF c = "\"" THEN Both(Emit(l, <<"string", so.raw, Chars(so.raw)>>), Release(r))
            ELSE IF c = "\\"
            THEN Both([To(l, "escaped") EXCEPT !.buf = Chars(so.raw)], Backup(r))
            ELSE Both(l, r)
      [] l.at \in EscapeAts ->
            IF c = "\"" /\ l.at = "escaped" THEN Both(Escape(so, c), Release(r)) ELSE Both(Escape(l, c), r)
      [] l.at = "pair" -> Both([To(l, "pair 2") EXCEPT !.held = c], r)
      [] l.at = "pair 2" ->
            IF l.held = "\\" /\ c = "u" THEN Both(To(l, "hex 2"), r)
            ELSE IF config.allowInvalid THEN Both(Alone(l), Backup(Backup(r))) ELSE Both(Error(l), r)

\* read_num.
StreamDigit(ni, d) ==
    LET i == IF ni.big THEN ni.i ELSE ni.i * 10 + d
        cnt == IF 0 < ni.i THEN ni.cnt + 1 ELSE ni.cnt
    IN  [ni EXCEPT !.i = i, !.cnt = cnt, !.big = @ \/ IntMax <= i \/ DecMax < cnt,
                   !.zero1 = (@ \/ (ni.i = 0 /\ d = 0)) /\ (ni.big \/ d = 0)]
StreamFrac(ni, d) ==
    LET cnt  == IF 0 < ni.num \/ 0 < ni.i THEN ni.cnt + 1 ELSE ni.cnt
        full == IntMax <= ni.div
        div  == IF full THEN ni.div ELSE Int64(ni.div * 10)
    IN  [ni EXCEPT !.cnt = cnt, !.div = div,
                   !.num = IF full THEN @ ELSE Int64(@ * 10 + d),
                   !.di  = IF full THEN @ ELSE @ + 1,
                   !.big = @ \/ (~NoBig /\ (full \/ IntMax <= div \/ DecMax < cnt))]
StreamDigits(l, d) ==
    CASE l.at \in {"first", "sign", "int"} ->
            IF 0 < d /\ Compat /\ ~l.ni.big /\ l.ni.zero1 THEN Error(l) ELSE [To(l, "int") EXCEPT !.ni = StreamDigit(@, d)]
      [] l.at \in {"dot", "frac"} -> [To(l, "frac") EXCEPT !.ni = StreamFrac(@, d)]
      [] l.at \in {"e", "exp"}    -> [To(l, "exp")  EXCEPT !.ni = ExpDigit(@, d)]
\* The byte after the number is given back.
\* Variant: it is not.
StreamEndsTakes(l, r, c) == Both(NumAsValue(l, l.ni, Slice(IF c = EOF THEN r ELSE Backup(r))), Release(r))
StreamEnds(l, r, c) ==
    LET back == IF c = EOF THEN r ELSE Backup(r) IN Both(NumAsValue(l, l.ni, Slice(back)), Release(back))
StreamOther(l, r, c) ==
    LET whole == l.at \in {"first", "sign", "int"} IN
    IF l.at = "first" /\ c \in {"-", "+"} THEN Both([To(l, "sign") EXCEPT !.ni.neg = (c = "-")], r)
    ELSE IF l.at \in {"first", "sign"} /\ c = "I" THEN Both(Infinity(l), r)
    ELSE IF l.at = "dot" /\ Compat THEN Both(Error(l), r)
    ELSE IF whole /\ c = "." THEN Both(To(l, "dot"), r)
    ELSE IF whole \/ l.at \in {"dot", "frac"}
    THEN IF c = "e" THEN Both([To(l, "e") EXCEPT !.ni.hasExp = TRUE], r) ELSE StreamEnds(l, r, c)
    ELSE IF l.at = "e" /\ c \in {"+", "-"} THEN Both([To(l, "exp") EXCEPT !.ni.eneg = (c = "-")], r)
    ELSE StreamEnds(l, r, c)
StreamNumber(l, r, c) == IF c \in DOMAIN NumberOf THEN Both(StreamDigits(l, NumberOf[c]), r) ELSE StreamOther(l, r, c)

\* skip_comment: a star takes the byte after it along, and the end is an error.
StreamComment(l, r, c) ==
    Both(IF l.at = "slash" THEN IF c = "*" THEN To(l, "block") ELSE IF c = "/" THEN To(l, "line") ELSE Error(l)
         ELSE IF c = EOF THEN Error(l)
         ELSE IF l.at = "line" THEN IF c = "\n" THEN Emit(l, <<"comment">>) ELSE l
         ELSE IF l.at = "block" THEN To(l, IF c = "*" THEN "block *" ELSE "block")
         ELSE IF c = "/" THEN Emit(l, <<"comment">>) ELSE To(l, "block"), r)

\* read_nan and the words.
StreamWord(l, r, c) ==
    IF l.at = "word" THEN Both(Word(l, c), IF l.held = "nfinity" THEN Release(r) ELSE r) ELSE Both(NaN(l, c), r)

\* One byte of the stream, for the function that is reading.
Reads(ats, Step(_, _, _)) ==
    /\ lx.answer = "reading" /\ lx.at \in ats
    /\ \E g \in Gets :
          /\ left' = g.left
          /\ LET next == IF g.c = Beyond THEN Both([lx EXCEPT !.answer = Beyond], g.rd) ELSE Step(lx, g.rd, g.c)
             IN  lx' = next.lx /\ rd' = next.rd
    /\ UNCHANGED <<config, text>>

ReadToken   == Reads({"token"}, StreamToken)
ReadString  == Reads({"string"} \cup StringAts, StreamString)
ReadNumber  == Reads({"first"} \cup NumberAts, StreamNumber)
ReadComment == Reads(CommentAts, StreamComment)
ReadWord    == Reads({"word"} \cup NaNAts, StreamWord)
Over        == lx.answer # "reading" /\ UNCHANGED vars

Init ==
    \E topic \in Topics :
        /\ config = topic.config
        /\ text \in topic.texts
        /\ rd = ReaderOf(config.inPlace, text)
        /\ left = IF config.inPlace THEN <<>> ELSE text
        /\ lx = Idle

Next == ReadToken \/ ReadString \/ ReadNumber \/ ReadComment \/ ReadWord \/ Over
Spec == Init /\ [][Next]_vars

-----------------------------------------------------------------------------
(* The reference.                                                            *)

Numeric == DOMAIN NumberOf \cup {"-", "+", ".", "e"}
Digits(s) == s # <<>> /\ ToSet(s) \subseteq DOMAIN NumberOf
Unsigned(s) == IF s # <<>> /\ s[1] \in {"-", "+"} THEN Tail(s) ELSE s
LeadingZero(s) == Len(Integer(Unsigned(s))) > 1 /\ Unsigned(s)[1] = "0"
\* RFC 8259.
JsonNumber(s) ==
    LET u == IF Negative(s) THEN Tail(s) ELSE s IN
    /\ Digits(Integer(u)) /\ ~LeadingZero(u)
    /\ "." \in ToSet(u) => Digits(Fraction(u))
    /\ "e" \in ToSet(u) => Digits(Unsigned(After(u, "e")))

\* Every surrogate is half of a pair.
WellPaired(s) ==
    \A i \in DOMAIN s : s[i] \in Surrogates =>
        \/ s[i] = "D80" /\ i + 4 <= Len(s) /\ SubSeq(s, i + 1, i + 4) = <<LowDigit, "\\", "u", "DC0">>
        \/ s[i] = "DC0" /\ i > 4 /\ SubSeq(s, i - 4, i - 1) = <<"D80", LowDigit, "\\", "u">>
\* The characters a string stands for.
Decoded[s \in Seq(STRING)] ==
    IF s = <<>> THEN <<>>
    ELSE IF s[1] # "\\" THEN <<Char(s[1])>> \o Decoded[Tail(s)]
    ELSE IF s[2] = "u" /\ s[3] = "D80" THEN <<<<"pair", s[3], s[7]>>>> \o Decoded[SubSeq(s, 9, Len(s))]
    ELSE IF s[2] = "u" THEN <<<<"code", s[3]>>>> \o Decoded[SubSeq(s, 5, Len(s))]
    ELSE <<Char(IF s[2] \in DOMAIN EscapeOf THEN EscapeOf[s[2]] ELSE s[2])>> \o Decoded[SubSeq(s, 3, Len(s))]

Occurs(s) == \E i \in 0..(Len(text) - Len(s)) : SubSeq(text, i + 1, i + Len(s)) = s
OneOf(set) == \E s \in set : Occurs(s)
TokensOf(l, kinds) == {t \in ToSet(l.out) : t[1] \in kinds}

\* A number that fills the buffer: see InBounds.
FillsBuffer ==
    ~config.inPlace /\ \E i \in 1..(Len(text) - Base + 2) : ToSet(SubSeq(text, i, i + Base - 2)) \subseteq Numeric

\* When halves of pairs are allowed, one at the end of the text: read_escaped_str has taken
\* one byte after it, the end is none, and it gives back two.
HalfAtEnd == config.allowInvalid /\ OneOf({<<c, LowDigit, "\"">> : c \in Surrogates})

\* What the two read differently: a "+" before a number, a dot without digits on both
\* sides, a sign before NaN, a comment that has a star before its last one or ends with
\* the text, and half a pair at the very end.
Differ ==
    \/ OneOf({<<"+">>, <<"-", "N">>, <<"-", "n">>})
    \/ \E i \in DOMAIN text : text[i] = "." /\ ~({i - 1, i + 1} \subseteq DOMAIN text /\ Digits(<<text[i - 1], text[i + 1]>>))
    \/ OneOf({<<"/", "*">>}) /\ (Occurs(<<"*", "*">>) \/ lx.answer = "error")
    \/ OneOf({<<"/", "/">>}) /\ lx.answer = "error"
    \/ HalfAtEnd

-----------------------------------------------------------------------------
TypeOK ==
    /\ lx.at \in {"token", "string", "first", "word"} \cup StringAts \cup NumberAts \cup CommentAts \cup NaNAts
    /\ lx.answer \in {"reading", "done", "error", Beyond}
    /\ rd.pro \in {Null} \cup 0..rd.tail /\ rd.pos \in 0..Len(text)
    /\ ToSet(lx.raw) \cup ToSet(rd.mem) \subseteq ToSet(text) \cup {EOF, Junk}
    /\ lx.answer = "reading" /\ lx.at \in NumberAts \cup StringAts \cup {"first", "string"} => rd.pro # Null

\* Whatever the source gives at a time, and however the buffer slides and grows, it
\* holds what is being read and what follows as they are in the source.
Mirrored == lx.answer = "reading" => Mirrors(text)

\* The reader stays inside its buffer, and always finds room to read into.  Excepted is
\* a number as long as the buffer, when its first byte is the first there: the character
\* to be left before it is outside, the size_t wraps, and everything moves up.
InBounds == IF lx.answer = Beyond THEN FillsBuffer ELSE InBuffer

\* The three together: the buffer is as good as the source.
Mirror == TypeOK /\ Mirrored /\ InBounds

\* A stream is read as the same text in memory is: the same tokens, or an error in both.
Agree == lx.answer # "reading" /\ ~Differ /\ ~FillsBuffer =>
            lx.answer = Memory.answer /\ (lx.answer = "done" => lx.out = Memory.out)

\* A number of JSON is taken, as one token, and no number is given another value than
\* its text has: whether its digits, its decimals or its exponent make it big.  Excepted
\* are decimals too many for an int64 with bigdecimal_load: :fast.
TooFine(s) == config.bigdec = "fast" /\ IntMax < 10^Len(Fraction(s))
NumbersRead == lx.answer # "reading" /\ ~FillsBuffer =>
    \A l \in {lx, Memory} :
        /\ JsonNumber(text) => Len(l.out) = 1 /\ l.answer = "done"
        /\ \A t \in TokensOf(l, {"integer", "decimal"}) :
              /\ TooFine(t[2]) \/ t[3] = TextValue(t[2])
              /\ JsonNumber(t[2]) => (t[1] = "integer") = Digits(Unsigned(t[2]))

\* In strict and compat mode parse.c takes for a number only what JSON does, but for
\* zeros in front and a lone sign.
NumbersOfJson == lx.answer # "reading" /\ config.mode \in {"strict", "compat"} =>
    \A t \in TokensOf(Memory, {"integer", "decimal"}) : JsonNumber(t[2]) \/ LeadingZero(t[2]) \/ t[2] = <<"-">>

\* A string is what is written between its quotes, with its escapes decoded, wherever
\* in it the buffer moved.  Excepted is half a pair at the end of the source.
StringsRead == lx.answer # "reading" /\ ~HalfAtEnd =>
    \A l \in {lx, Memory} : \A t \in TokensOf(l, {"string"}) : WellPaired(t[2]) => t[3] = Decoded[t[2]]

\* Every token means what is written.
TokensRead == NumbersRead /\ NumbersOfJson /\ StringsRead
=============================================================================
