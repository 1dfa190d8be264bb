------------------------------- MODULE Escape -------------------------------
(* oj_dump_cstr (dump.c): how a string is written, in each escape mode.  The  *)
(* size is estimated first, from a table with a cost for each byte; the same  *)
(* table then says how each byte is written.  Bytes are numbers, and past the *)
(* end of a string a zero is read.                                           *)
EXTENDS Integers, Sequences, SequencesExt

Modes == {"NLEsc", "JSONEsc", "SlashEsc", "XSSEsc", "ASCIIEsc", "JXEsc", "RailsXEsc", "RailsEsc"}
\* The modes that look for broken characters on the way.
Validating == {"JXEsc", "RailsXEsc", "RailsEsc"}
Byte == 0..255

Quote     == 34
Backslash == 92
Slash     == 47
Colon     == 58
Hat       == 94
LetterU   == 117
\* The controls that have an escape of one letter.
Short == [b \in {8, 9, 10, 12, 13} |-> CASE b = 8 -> 98 [] b = 9 -> 116 [] b = 10 -> 110 [] b = 12 -> 102 [] b = 13 -> 114]
Html  == {38, 60, 62}
LineSeparators == {<<226, 128, 168>>, <<226, 128, 169>>}

Lead(b)   == b >= 192
Follow(b) == b \in 128..191
High(b)   == b >= 128
At(text, i) == IF i \in DOMAIN text THEN text[i] ELSE 0
\* How many bytes follow the first of a character: -1 if it is not one.
Follows(b) == CASE b \in 192..223 -> 1 [] b \in 224..239 -> 2 [] b \in 240..247 -> 3
                [] b \in 248..251 -> 4 [] b \in 252..253 -> 5 [] OTHER -> -1

-----------------------------------------------------------------------------
(* The tables: 1 as it is, 2 behind a backslash, 3 as \u of its character,    *)
(* 6 as \u of the byte.                                                      *)

Cost(mode, b) ==
    IF b = 10 /\ mode = "NLEsc" THEN 1
    ELSE IF b \in DOMAIN Short \cup {Quote, Backslash} THEN 2
    ELSE IF b < 32 THEN 6
    ELSE IF b = Slash /\ mode \in {"SlashEsc", "XSSEsc"} THEN 2
    ELSE IF b \in Html /\ mode \in {"XSSEsc", "RailsXEsc"} THEN 6
    ELSE IF b = 127 /\ mode \in {"XSSEsc", "ASCIIEsc"} THEN 6
    ELSE IF High(b) /\ mode \in {"XSSEsc", "ASCIIEsc"} THEN 3
    ELSE IF b = 226 /\ mode \in {"JXEsc", "RailsXEsc"} THEN 6
    ELSE 1

\* calculate_string_size.  Variant: a character outside of ASCII costs two bytes.
Total(costs) ==
    LET upto[n \in 0..Len(costs)] == IF n = 0 THEN 0 ELSE upto[n - 1] + costs[n]
    IN  upto[Len(costs)]
Extra(mode, text) == IF mode = "JXEsc" /\ \E i \in DOMAIN text: High(text[i]) THEN 1 ELSE 0
SizeOfTwo(mode, text) ==
    Total([i \in 1..Len(text) |-> IF Cost(mode, text[i]) = 3 THEN 2 ELSE Cost(mode, text[i])]) + Extra(mode, text)
SizeOf(mode, text) == Total([i \in 1..Len(text) |-> Cost(mode, text[i])]) + Extra(mode, text)
HasHigh(mode, text) ==
    \/ mode = "SlashEsc"
    \/ mode \in {"RailsXEsc", "RailsEsc"} /\ \E i \in DOMAIN text: High(text[i])

-----------------------------------------------------------------------------
(* Writing: w.out what is written, w.at the byte that is looked at, w.check   *)
(* the first one not yet known to be part of a character, w.raised.          *)

HexDigit(d) == IF d < 10 THEN 48 + d ELSE 87 + d
Hex4(code)  == <<Backslash, LetterU, HexDigit((code \div 4096) % 16), HexDigit((code \div 256) % 16),
                 HexDigit((code \div 16) % 16), HexDigit(code % 16)>>
Raise(w)    == [w EXCEPT !.raised = TRUE]
Put(w, bytes) == [w EXCEPT !.out = @ \o bytes]

WholeChar(text, i) ==
    LET n == Follows(At(text, i))
    IN  n > 0 /\ \A k \in i + 1 .. i + n: k \in DOMAIN text /\ Follow(text[k])

\* The number in a character's bytes.
FirstBits(b) == CASE b \in 192..223 -> b % 32 [] b \in 224..239 -> b % 16 [] b \in 240..247 -> b % 8
                  [] b \in 248..251 -> b % 4 [] OTHER -> b % 2
More(code, b) == (code * 64) + (b % 64)
CodeOf(text, i) ==
    LET code[k \in 0..Follows(text[i])] ==
            IF k = 0 THEN FirstBits(text[i]) ELSE More(code[k - 1], text[i + k])
    IN  code[Follows(text[i])]

\* Variant: the second half of a pair is not put into its range.
UnicodeHalf(code) ==
    IF code > 65535 THEN Hex4((((code - 65536) \div 1024) % 1024) + 55296) \o Hex4((code - 65536) % 1024)
    ELSE Hex4(code)
Unicode(code) ==
    IF code > 65535 THEN Hex4((((code - 65536) \div 1024) % 1024) + 55296) \o Hex4(((code - 65536) % 1024) + 56320)
    ELSE Hex4(code)
DumpUnicode(text, w) ==
    IF WholeChar(text, w.at)
    THEN [Put(w, Unicode(CodeOf(text, w.at))) EXCEPT !.at = @ + Follows(text[w.at])]
    ELSE Raise(w)

CheckUnicode(text, w) ==
    IF WholeChar(text, w.at) THEN [w EXCEPT !.check = w.at + Follows(text[w.at]) + 1] ELSE Raise(w)

\* process_character.
Plain(mode, text, w) ==
    Put(IF mode \in Validating /\ w.check <= w.at /\ High(text[w.at]) THEN CheckUnicode(text, w) ELSE w,
        <<text[w.at]>>)
Backslashed(b) == <<Backslash, IF b \in DOMAIN Short THEN Short[b] ELSE b>>
AsUnicode(mode, text, w) ==
    IF text[w.at] = 226 /\ mode \in Validating /\ w.at < Len(text)
    THEN IF <<226, At(text, w.at + 1), At(text, w.at + 2)>> \in LineSeparators THEN DumpUnicode(text, w)
         ELSE Put(CheckUnicode(text, w), <<226>>)
    ELSE DumpUnicode(text, w)
ProcessCharacter(mode, omitNull, text, w) ==
    LET b == text[w.at]   cost == Cost(mode, b)
    IN  CASE cost = 1 -> Plain(mode, text, w)
          [] cost = 2 -> Put(w, Backslashed(b))
          [] cost = 3 -> AsUnicode(mode, text, w)
          [] cost = 6 /\ High(b) -> AsUnicode(mode, text, w)
          [] OTHER -> IF b = 0 /\ omitNull THEN w ELSE Put(w, Hex4(b))

\* The loop: each round takes at least one byte of the text.
Round(mode, omitNull, text, w) ==
    IF w.raised \/ w.at > Len(text) THEN w
    ELSE [ProcessCharacter(mode, omitNull, text, w) EXCEPT !.at = @ + 1]
Body(mode, omitNull, text, w) ==
    LET after[n \in 0..Len(text)] == IF n = 0 THEN w ELSE Round(mode, omitNull, text, after[n - 1])
    IN  after[Len(text)]

\* Once more, for the last character alone: at most three bytes follow its first.
LastBroken(text) ==
    /\ text # <<>> /\ High(Last(text))
    /\ ~ \E n \in 1..3: /\ n < Len(text) /\ Follows(text[Len(text) - n]) = n
                        /\ \A k \in 0..n - 1: Follow(text[Len(text) - k])

\* oj_dump_cstr.  isSym writes a colon first, escape1 the first byte as \u.
DumpCstr(mode, omitNull, text, isSym, escape1) ==
    LET size  == SizeOf(mode, text)
        left  == IF escape1 THEN Len(text) - 1 ELSE Len(text)
        first == IF escape1 THEN Hex4(text[1]) ELSE IF isSym THEN <<Colon>> ELSE <<>>
        from  == IF escape1 THEN 2 ELSE 1
        start == [out |-> <<Quote>> \o first, at |-> from, check |-> from, raised |-> FALSE]
        fast  == left = (IF escape1 THEN size - 1 ELSE size) /\ ~HasHigh(mode, text)
        body  == IF fast THEN Put(start, SubSeq(text, from, Len(text))) ELSE Body(mode, omitNull, text, start)
    IN  [out |-> Append(body.out, Quote), size |-> size,
         raised |-> body.raised \/ (mode \in Validating /\ ~fast /\ LastBroken(text))]

\* dump_str_class and dump_sym of object mode; the other modes write both alike.
Escapes(text) == At(text, 1) = Colon \/ (At(text, 1) = Hat /\ At(text, 2) \in {105, 114})
DumpText(o, text) ==
    DumpCstr(o.mode, o.omitNull, text, o.object /\ o.symbol, o.object /\ ~o.symbol /\ Escapes(text))

-----------------------------------------------------------------------------
(* Every byte is part of a character; and the characters are those of UTF-8. *)

Shaped(text) ==
    \A i \in DOMAIN text: High(text[i]) =>
        \E j \in 1..i: WholeChar(text, j) /\ i <= j + Follows(text[j])
Shortest(text, i) ==
    LET second == At(text, i + 1)
    IN  CASE text[i] \in {192, 193} -> FALSE
          [] text[i] = 224 -> second >= 160
          [] text[i] = 237 -> second < 160
          [] text[i] = 240 -> second >= 144
          [] text[i] = 244 -> second < 144
          [] OTHER -> text[i] < 245
IsUtf8(text) == Shaped(text) /\ \A i \in DOMAIN text: Lead(text[i]) => Shortest(text, i)

-----------------------------------------------------------------------------
(* The reference: what a reader of JSON makes of a literal, as bytes.  It     *)
(* holds the bytes of an escape until the escape is complete.                *)

HexDigits == 48..57 \cup 97..102
HexValue(b) == IF b < 58 THEN b - 48 ELSE b - 87
CodeAt(l, i) == (HexValue(l[i + 2]) * 4096) + (HexValue(l[i + 3]) * 256) + (HexValue(l[i + 4]) * 16) + HexValue(l[i + 5])
FirstHalf  == 55296..56319
SecondHalf == 56320..57343
Utf8(code) ==
    CASE code < 128 -> <<code>>
      [] code >= 128 /\ code < 2048 -> <<192 + (code \div 64), 128 + (code % 64)>>
      [] code >= 2048 /\ code < 65536 -> <<224 + (code \div 4096), 128 + ((code \div 64) % 64), 128 + (code % 64)>>
      [] OTHER -> <<240 + (code \div 262144), 128 + ((code \div 4096) % 64), 128 + ((code \div 64) % 64), 128 + (code % 64)>>

\* A byte as it is (a newline as well, which NLEsc leaves alone); an escape of
\* one letter; of a character; and of a pair of halves.
Single(l)   == Len(l) = 1 /\ l[1] \notin {Quote, Backslash} /\ (l[1] >= 32 \/ l[1] = 10)
Lettered(l) == Len(l) = 2 /\ l[1] = Backslash
                   /\ l[2] \in {Quote, Backslash, Slash} \cup {Short[b] : b \in DOMAIN Short}
CodedAt(l, i) == l[i] = Backslash /\ l[i + 1] = LetterU /\ \A k \in 2..5: l[i + k] \in HexDigits
Coded(l)    == Len(l) = 6 /\ CodedAt(l, 1) /\ CodeAt(l, 1) \notin FirstHalf \cup SecondHalf
Paired(l)   == Len(l) = 12 /\ CodedAt(l, 1) /\ CodedAt(l, 7)
                   /\ CodeAt(l, 1) \in FirstHalf /\ CodeAt(l, 7) \in SecondHalf
Named(x) == IF x \in {Quote, Backslash, Slash} THEN x ELSE CHOOSE b \in DOMAIN Short: Short[b] = x
Joins(high, low) == 65536 + ((high - 55296) * 1024) + (low - 56320)
Meaning(l) ==
    CASE Single(l) -> l
      [] Lettered(l) -> <<Named(l[2])>>
      [] Coded(l) -> Utf8(CodeAt(l, 1))
      [] Paired(l) -> Utf8(Joins(CodeAt(l, 1), CodeAt(l, 7)))

Take(r, b) ==
    LET l == Append(r.held, b)
    IN  IF Single(l) \/ Lettered(l) \/ Coded(l) \/ Paired(l)
        THEN [held |-> <<>>, bytes |-> r.bytes \o Meaning(l)]
        ELSE [held |-> l, bytes |-> r.bytes]
Read(lit) ==
    LET after[n \in 0..Len(lit)] == IF n = 0 THEN [held |-> <<>>, bytes |-> <<>>] ELSE Take(after[n - 1], lit[n])
    IN  after[Len(lit)]
StandsFor(lit, bytes) ==
    /\ Len(lit) >= 2 /\ lit[1] = Quote /\ lit[Len(lit)] = Quote
    /\ Read(SubSeq(lit, 2, Len(lit) - 1)) = [held |-> <<>>, bytes |-> bytes]

\* A text, without its null bytes where they are left out.
Kept(omitNull, text) ==
    LET upto[n \in 0..Len(text)] ==
            IF n = 0 THEN <<>>
            ELSE IF omitNull /\ text[n] = 0 THEN upto[n - 1]
            ELSE Append(upto[n - 1], text[n])
    IN  upto[Len(text)]
=============================================================================
