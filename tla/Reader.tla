------------------------------- MODULE Reader -------------------------------
(* The buffer a stream is read through (reader.h, reader.c).  Offsets count  *)
(* from head; whenever the buffer is grown or its contents slide, tail,      *)
(* read_end, pro and str have to go with them.                               *)
EXTENDS Integers, Sequences, SequencesExt

CONSTANTS
    Base,   \* end - head of the buffer to begin with
    Pad     \* BUF_PAD

ASSUME ReaderAssumption == Base \in Nat \ {0} /\ Pad \in Nat \ {0, 1}

VARIABLES
    rd,     \* the Reader; mem is what the buffer holds
    left    \* what the source still has

Null == -1
EOF  == "end"    \* '\0'
Junk == "junk"
\* What a read beyond the buffer gives.
Beyond == "beyond"

Blank(n) == [i \in 1..n |-> Junk]

\* oj_reader_init: a String is read where it is, for anything else base is used.
ReaderOf(inPlace, source) ==
    [mem |-> IF inPlace THEN Append(source, EOF) ELSE Blank(Base + Pad), end |-> Base,
     tail |-> 0, readEnd |-> IF inPlace THEN Len(source) ELSE 0, pro |-> Null, str |-> 0,
     pos |-> 0, inPlace |-> inPlace]

\* There is no room to shift into: the buffer is doubled, and everything stays.
Grow(r) == [r EXCEPT !.mem = @ \o Blank(Len(@)), !.end = 2 * (@ + Pad) - Pad]

\* The contents move down by shift, or up by one when shift has wrapped.
\* Variant: the string that is being read stays behind.
SlideString(r, shift) ==
    [r EXCEPT !.mem = [i \in DOMAIN @ |-> IF i > r.readEnd - shift THEN @[i]
                                          ELSE IF i + shift = 0 THEN Junk ELSE @[i + shift]],
              !.tail = @ - shift, !.readEnd = @ - shift, !.pro = IF @ = Null THEN Null ELSE @ - shift]
Slide(r, shift) ==
    [r EXCEPT !.mem = [i \in DOMAIN @ |-> IF i > r.readEnd - shift THEN @[i]
                                          ELSE IF i + shift = 0 THEN Junk ELSE @[i + shift]],
              !.tail = @ - shift, !.readEnd = @ - shift, !.str = @ - shift,
              !.pro = IF @ = Null THEN Null ELSE @ - shift]

\* oj_reader_read, before it reads: one character before pro is kept.
Shift(r) == IF r.pro = Null THEN r.tail ELSE r.pro - 1
MakeRoom(r) ==
    IF 0 < r.tail /\ Base + Pad > r.end - r.tail
    THEN IF Shift(r) = 0 THEN Grow(r) ELSE Slide(r, Shift(r)) ELSE r

\* read_from_fd, read_from_io: n bytes at tail.  The byte after them is the end.
Stored(r, bytes) ==
    LET readEnd == IF bytes = <<>> THEN r.readEnd ELSE r.tail + Len(bytes)
    IN  [r EXCEPT !.readEnd = readEnd,
                  !.mem = [i \in DOMAIN @ |-> IF i = readEnd + 1 THEN EOF
                                              ELSE IF r.tail < i /\ i <= readEnd THEN bytes[i - r.tail] ELSE @[i]]]

\* reader_get, when there is something to give.
Taken(r, source) == [rd |-> [r EXCEPT !.tail = @ + 1, !.pos = @ + 1],
                     left |-> source, c |-> r.mem[r.tail + 1]]
\* reader_get: a read may give any part of what there is and there is room for.
Gets ==
    LET r == MakeRoom(rd)
        room == r.end - r.tail
    IN  IF rd.tail < rd.readEnd THEN {Taken(rd, left)}
        ELSE IF rd.inPlace THEN {[rd |-> rd, left |-> left, c |-> EOF]}
        ELSE IF left = <<>> \/ room = 0 THEN {[rd |-> Stored(r, <<>>), left |-> left, c |-> EOF]}
        ELSE IF room < 0 THEN {[rd |-> r, left |-> left, c |-> Beyond]}
        ELSE {Taken(Stored(r, SubSeq(left, 1, n)), SubSeq(left, n + 1, Len(left))) :
                  n \in 1..(IF room < Len(left) THEN room ELSE Len(left))}

Backup(r)  == [r EXCEPT !.tail = @ - 1, !.pos = @ - 1]
Protect(r) == [r EXCEPT !.pro = r.tail, !.str = r.tail]
Release(r) == [r EXCEPT !.pro = Null]
\* The string that is being read, as far as it has been read.
Slice(r)   == SubSeq(r.mem, r.str + 1, r.tail)

\* The source as it is in the buffer: the string that is being read and what follows it.
Mirrors(source) ==
    LET from == IF rd.pro = Null THEN rd.tail ELSE rd.str
    IN  \A i \in (from + 1)..rd.readEnd :
            /\ i \in DOMAIN rd.mem /\ rd.pos - rd.tail + i \in DOMAIN source
            /\ rd.mem[i] = source[rd.pos - rd.tail + i]
InBuffer == 0 <= rd.tail /\ rd.tail <= rd.readEnd /\ rd.readEnd < Len(rd.mem)
=============================================================================
