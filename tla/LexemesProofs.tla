--------------------------- MODULE LexemesProofs ---------------------------
(* What is proved of Lexemes: Mirror, for every source, every size of the    *)
(* buffer and every way a source gives what it has.  First what each step of *)
(* the reader keeps of Holds: what must be in the buffer is there as it is   *)
(* in the source, and the rest is still to come.  Then what each function of *)
(* sparse.c leaves protected where it goes on (Where), on which it depends   *)
(* how far the contents move and how many bytes can be given back.           *)
EXTENDS Lexemes, SequenceTheorems, TLAPS

-----------------------------------------------------------------------------
(* The reader.                                                               *)

\* What a buffer may hold.
Bytes == STRING \cup {EOF, Junk}
Readers == [mem : Seq(Bytes), end : Int, tail : Int, readEnd : Int, pro : Int, str : Int,
            pos : Int, inPlace : BOOLEAN]

\* Where what the buffer must hold begins, and where it is in the source s.
From(r) == IF r.pro = Null THEN r.tail ELSE r.pro
Copied(r, s) ==
    \A i \in Int : From(r) < i /\ i <= r.readEnd =>
        /\ i \in DOMAIN r.mem /\ r.pos - r.tail + i \in DOMAIN s
        /\ r.mem[i] = s[r.pos - r.tail + i]

\* What stays true even when a byte was taken from beyond the buffer.
Sound(r, s) ==
    /\ r \in Readers
    /\ \A i \in DOMAIN r.mem : r.mem[i] \in ToSet(s) \cup {EOF, Junk}
    /\ r.pro = Null \/ (0 <= r.pro /\ r.pro <= r.tail /\ r.str = r.pro)
    /\ 0 <= r.tail /\ 0 <= r.pos /\ r.pos <= Len(s)
\* Every byte read is within the buffer; one more only when the contents moved up.
Roomy(r)  == r.inPlace \/ r.readEnd <= r.end
MovedUp(r) == r.readEnd = r.end + 1 /\ r.tail = r.readEnd /\ r.pro # 0

\* The buffer of a stream, of whose source lf is left.
Streamed(r, lf, s) ==
    /\ Len(r.mem) = r.end + Pad /\ Base <= r.end
    /\ Roomy(r) \/ MovedUp(r)
    /\ lf \in Seq(Bytes) /\ r.pos - r.tail + r.readEnd + Len(lf) = Len(s)
    /\ \A j \in 1..Len(lf) : lf[j] = s[r.pos - r.tail + r.readEnd + j]
InPlace(r, s) == r.mem = Append(s, EOF) /\ r.readEnd = Len(s) /\ r.pos = r.tail

Holds(r, lf, s) ==
    /\ Sound(r, s)
    /\ r.tail <= r.readEnd /\ 0 <= r.pos - r.tail + From(r)
    /\ Copied(r, s)
    /\ IF r.inPlace THEN InPlace(r, s) ELSE Streamed(r, lf, s)

\* The fields of a reader, and what is left of them when some are set.
LEMMA ReaderFields ==
    ASSUME NEW r, r \in Readers
    PROVE  /\ r = [mem |-> r.mem, end |-> r.end, tail |-> r.tail, readEnd |-> r.readEnd, pro |-> r.pro,
                   str |-> r.str, pos |-> r.pos, inPlace |-> r.inPlace]
           /\ r.mem \in Seq(Bytes) /\ r.end \in Int /\ r.tail \in Int /\ r.readEnd \in Int /\ r.pro \in Int
           /\ r.str \in Int /\ r.pos \in Int /\ r.inPlace \in BOOLEAN
BY DEF Readers

LEMMA SetTail ==
    ASSUME NEW r, r \in Readers, NEW t \in Int, NEW p \in Int
    PROVE  LET q == [r EXCEPT !.tail = t, !.pos = p] IN
              /\ q.mem = r.mem /\ q.end = r.end /\ q.tail = t /\ q.readEnd = r.readEnd /\ q.pro = r.pro
              /\ q.str = r.str /\ q.pos = p /\ q.inPlace = r.inPlace /\ q \in Readers
BY DEF Readers

LEMMA SetPro ==
    ASSUME NEW r, r \in Readers, NEW p \in Int
    PROVE  LET q == [r EXCEPT !.pro = p] IN
              /\ q.mem = r.mem /\ q.end = r.end /\ q.tail = r.tail /\ q.readEnd = r.readEnd /\ q.pro = p
              /\ q.str = r.str /\ q.pos = r.pos /\ q.inPlace = r.inPlace /\ q \in Readers
BY DEF Readers

LEMMA SetString ==
    ASSUME NEW r, r \in Readers, NEW p \in Int
    PROVE  LET q == [r EXCEPT !.pro = p, !.str = p] IN
              /\ q.mem = r.mem /\ q.end = r.end /\ q.tail = r.tail /\ q.readEnd = r.readEnd /\ q.pro = p
              /\ q.str = p /\ q.pos = r.pos /\ q.inPlace = r.inPlace /\ q \in Readers
BY DEF Readers

\* A text and its bytes.
Text(s) == s \in Seq(Symbols)

LEMMA TextBytes ==
    ASSUME NEW s, Text(s)
    PROVE  /\ s \in Seq(Bytes) /\ Len(s) \in Nat /\ DOMAIN s = 1..Len(s)
           /\ \A i \in 1..Len(s) : s[i] \in ToSet(s) /\ s[i] # EOF /\ s[i] # Junk /\ s[i] # Beyond
           /\ \A c \in ToSet(s) : c \in Bytes
<1>1. /\ Len(s) \in Nat /\ DOMAIN s = 1..Len(s) /\ \A i \in 1..Len(s) : s[i] \in Symbols
    BY DEF Text
<1>2. \A c \in Symbols : c \in Bytes /\ c # EOF /\ c # Junk /\ c # Beyond
    BY DEF Symbols, Bytes
<1>3. s \in Seq(Bytes)
    BY <1>1, <1>2 DEF Text, Bytes
<1>4. \A i \in 1..Len(s) : s[i] \in ToSet(s)
    BY <1>1 DEF ToSet
<1>5. \A c \in ToSet(s) : c \in Bytes
    BY <1>1, <1>2 DEF ToSet, Bytes
<1> QED BY <1>1, <1>2, <1>3, <1>4, <1>5

-----------------------------------------------------------------------------
(* Backup, Protect, Release.                                                 *)

\* The byte before tail is there to be given back.
Returnable(r, s) ==
    IF r.pro = Null
    THEN /\ 1 <= r.tail /\ 1 <= r.pos /\ r.tail \in DOMAIN r.mem /\ r.pos \in DOMAIN s
         /\ r.mem[r.tail] = s[r.pos]
    ELSE r.pro < r.tail

\* A byte that is there to be given back can be.
LEMMA BackupHolds ==
    ASSUME NEW r, NEW lf, NEW s, Text(s), Holds(r, lf, s), Roomy(r), Returnable(r, s)
    PROVE  /\ Holds(Backup(r), lf, s) /\ Roomy(Backup(r)) /\ Backup(r).pro = r.pro
           /\ Backup(r).tail = r.tail - 1 /\ Backup(r).pos = r.pos - 1 /\ Backup(r).inPlace = r.inPlace
           /\ r.pro # Null => From(Backup(r)) = From(r)
<1> DEFINE q == Backup(r)
<1>1. r \in Readers
    BY DEF Holds, Sound
<1>2. /\ q.mem = r.mem /\ q.end = r.end /\ q.tail = r.tail - 1 /\ q.readEnd = r.readEnd /\ q.pro = r.pro
      /\ q.str = r.str /\ q.pos = r.pos - 1 /\ q.inPlace = r.inPlace /\ q \in Readers
    <2>1. r.tail - 1 \in Int /\ r.pos - 1 \in Int
        BY <1>1, ReaderFields
    <2> QED BY <1>1, <2>1, SetTail DEF Backup
<1>3. /\ r.mem \in Seq(Bytes) /\ r.end \in Int /\ r.tail \in Int /\ r.readEnd \in Int /\ r.pro \in Int
      /\ r.str \in Int /\ r.pos \in Int
    BY <1>1, ReaderFields
<1> HIDE DEF q
<1>16. /\ r.tail \in Int /\ r.pos \in Int /\ r.readEnd \in Int /\ r.pro \in Int
       /\ q.tail = r.tail - 1 /\ q.pos = r.pos - 1 /\ q.readEnd = r.readEnd /\ q.pro = r.pro
    BY <1>2, <1>3
<1>17. q.pos - q.tail = r.pos - r.tail
    BY ONLY <1>16
<1>4. Null = -1 /\ Len(s) \in Nat
    BY TextBytes DEF Null
<1>5. r.pro = Null => 1 <= r.tail /\ 1 <= r.pos /\ r.tail \in DOMAIN r.mem /\ r.pos \in DOMAIN s /\ r.mem[r.tail] = s[r.pos]
    BY DEF Returnable
<1>6. r.pro # Null => r.pro < r.tail
    BY DEF Returnable
<1>7. /\ r.pro = Null \/ (0 <= r.pro /\ r.pro <= r.tail /\ r.str = r.pro)
      /\ 0 <= r.tail /\ 0 <= r.pos /\ r.pos <= Len(s) /\ r.tail <= r.readEnd /\ 0 <= r.pos - r.tail + From(r)
    BY DEF Holds, Sound
<1>8. Sound(q, s)
    <2>1. r.pro # Null => 1 <= r.pos
        BY <1>3, <1>4, <1>6, <1>7 DEF From
    <2>2. \A i \in DOMAIN q.mem : q.mem[i] \in ToSet(s) \cup {EOF, Junk}
        BY <1>2 DEF Holds, Sound
    <2>3. q.pro = Null \/ (0 <= q.pro /\ q.pro <= q.tail /\ q.str = q.pro)
        BY <1>2, <1>3, <1>4, <1>6, <1>7
    <2>4. 0 <= q.tail /\ 0 <= q.pos /\ q.pos <= Len(s)
        BY <1>2, <1>3, <1>4, <1>5, <1>6, <1>7, <2>1
    <2> QED BY <1>2, <2>2, <2>3, <2>4 DEF Sound
<1>9. Copied(q, s)
    <2> SUFFICES ASSUME NEW i \in Int, From(q) < i, i <= r.readEnd
                 PROVE  i \in DOMAIN r.mem /\ r.pos - r.tail + i \in DOMAIN s /\ r.mem[i] = s[r.pos - r.tail + i]
        BY <1>2, <1>17 DEF Copied
    <2>1. CASE From(r) < i
        BY <2>1 DEF Holds, Copied
    <2>2. CASE ~(From(r) < i)
        <3>1. r.pro = Null /\ i = r.tail
            BY <1>2, <1>3, <2>2 DEF From
        <3>2. r.pos - r.tail + i = r.pos
            BY <1>3, <3>1
        <3> QED BY <1>5, <3>1, <3>2
    <2> QED BY <2>1, <2>2
<1>10. q.tail <= q.readEnd /\ 0 <= q.pos - q.tail + From(q)
    <2>1. CASE r.pro = Null
        <3>1. From(q) = q.tail
            BY <1>2, <2>1 DEF From
        <3>2. 1 <= r.pos
            BY <1>5, <2>1
        <3>3. r.tail <= r.readEnd
            BY <1>7
        <3> QED BY ONLY <1>16, <3>1, <3>2, <3>3
    <2>2. CASE r.pro # Null
        <3>1. From(q) = r.pro /\ From(r) = r.pro
            BY <1>2, <2>2 DEF From
        <3>2. r.pro < r.tail /\ r.tail <= r.readEnd /\ 0 <= r.pos - r.tail + r.pro
            BY <1>6, <1>7, <2>2, <3>1
        <3> QED BY ONLY <1>16, <3>1, <3>2
    <2> QED BY <2>1, <2>2
<1>11. Roomy(q)
    BY <1>2 DEF Roomy
<1>12. q.inPlace => InPlace(q, s)
    <2>1. q.inPlace => InPlace(r, s)
        BY <1>2 DEF Holds
    <2> QED BY <1>2, <1>3, <2>1 DEF InPlace
<1>13. ~q.inPlace => Streamed(q, lf, s)
    <2>1. ~q.inPlace => Streamed(r, lf, s)
        BY <1>2 DEF Holds
    <2> QED BY <1>2, <1>11, <1>17, <2>1 DEF Streamed
<1>14. Holds(q, lf, s)
    BY <1>8, <1>9, <1>10, <1>12, <1>13 DEF Holds
<1>15. r.pro # Null => From(q) = From(r)
    BY <1>2 DEF From
<1> QED BY <1>2, <1>11, <1>14, <1>15 DEF q

\* What is protected from tail on is as it is in the source, as what follows is.
LEMMA ProtectHolds ==
    ASSUME NEW r, NEW lf, NEW s, Text(s), Holds(r, lf, s), Base \in Nat \ {0}
    PROVE  /\ Holds(Protect(r), lf, s) /\ Protect(r).pro = r.tail /\ Protect(r).tail = r.tail
           /\ Protect(r).pos = r.pos /\ Protect(r).inPlace = r.inPlace
<1> DEFINE q == Protect(r)
<1>1. r \in Readers
    BY DEF Holds, Sound
<1>2. /\ q.mem = r.mem /\ q.end = r.end /\ q.tail = r.tail /\ q.readEnd = r.readEnd /\ q.pro = r.tail
      /\ q.str = r.tail /\ q.pos = r.pos /\ q.inPlace = r.inPlace /\ q \in Readers
    <2>1. r.tail \in Int
        BY <1>1, ReaderFields
    <2> QED BY <1>1, <2>1, SetString DEF Protect
<1>3. /\ r.mem \in Seq(Bytes) /\ r.end \in Int /\ r.tail \in Int /\ r.readEnd \in Int /\ r.pro \in Int
      /\ r.str \in Int /\ r.pos \in Int
    BY <1>1, ReaderFields
<1> HIDE DEF q
<1>4. Null = -1
    BY DEF Null
<1>5. /\ r.pro = Null \/ (0 <= r.pro /\ r.pro <= r.tail /\ r.str = r.pro)
      /\ 0 <= r.tail /\ 0 <= r.pos /\ r.pos <= Len(s) /\ r.tail <= r.readEnd /\ 0 <= r.pos - r.tail + From(r)
    BY DEF Holds, Sound
<1>6. From(q) = r.tail /\ From(r) <= r.tail
    BY <1>2, <1>3, <1>5 DEF From
<1>7. Sound(q, s)
    <2>1. \A i \in DOMAIN q.mem : q.mem[i] \in ToSet(s) \cup {EOF, Junk}
        BY <1>2 DEF Holds, Sound
    <2> QED BY <1>2, <1>3, <1>5, <2>1 DEF Sound
<1>8. Copied(q, s)
    <2>1. \A i \in Int : From(q) < i => From(r) < i
        BY <1>3, <1>6 DEF From
    <2> QED BY <1>2, <2>1 DEF Holds, Copied
<1>9. 0 <= q.pos - q.tail + From(q) /\ q.tail <= q.readEnd
    BY <1>2, <1>3, <1>5, <1>6
<1>10. q.inPlace => InPlace(q, s)
    BY <1>2 DEF Holds, InPlace
<1>11. ~q.inPlace => Streamed(q, lf, s)
    <2>1. ~q.inPlace => Streamed(r, lf, s)
        BY <1>2 DEF Holds
    <2>2. ~q.inPlace /\ MovedUp(r) => MovedUp(q)
        BY <1>2, <1>3, <2>1 DEF MovedUp, Streamed
    <2>3. Roomy(r) => Roomy(q)
        BY <1>2 DEF Roomy
    <2> QED BY <1>2, <2>1, <2>2, <2>3 DEF Streamed
<1> QED BY <1>2, <1>7, <1>8, <1>9, <1>10, <1>11 DEF q, Holds

\* Nothing has to be there before tail any more.
LEMMA ReleaseHolds ==
    ASSUME NEW r, NEW lf, NEW s, Text(s), Holds(r, lf, s)
    PROVE  /\ Holds(Release(r), lf, s) /\ Release(r).pro = Null /\ Release(r).tail = r.tail
           /\ Release(r).pos = r.pos /\ Release(r).inPlace = r.inPlace
<1> DEFINE q == Release(r)
<1>1. r \in Readers
    BY DEF Holds, Sound
<1>2. /\ q.mem = r.mem /\ q.end = r.end /\ q.tail = r.tail /\ q.readEnd = r.readEnd /\ q.pro = Null
      /\ q.str = r.str /\ q.pos = r.pos /\ q.inPlace = r.inPlace /\ q \in Readers
    <2>1. Null \in Int
        BY DEF Null
    <2> QED BY <1>1, <2>1, SetPro DEF Release
<1>3. /\ r.mem \in Seq(Bytes) /\ r.end \in Int /\ r.tail \in Int /\ r.readEnd \in Int /\ r.pro \in Int
      /\ r.str \in Int /\ r.pos \in Int
    BY <1>1, ReaderFields
<1> HIDE DEF q
<1>4. Null = -1
    BY DEF Null
<1>5. /\ r.pro = Null \/ (0 <= r.pro /\ r.pro <= r.tail /\ r.str = r.pro)
      /\ 0 <= r.tail /\ 0 <= r.pos /\ r.pos <= Len(s) /\ r.tail <= r.readEnd /\ 0 <= r.pos - r.tail + From(r)
    BY DEF Holds, Sound
<1>6. From(q) = r.tail /\ From(r) <= r.tail
    BY <1>2, <1>3, <1>5 DEF From
<1>7. Sound(q, s)
    <2>1. \A i \in DOMAIN q.mem : q.mem[i] \in ToSet(s) \cup {EOF, Junk}
        BY <1>2 DEF Holds, Sound
    <2> QED BY <1>2, <1>3, <1>5, <2>1 DEF Sound
<1>8. Copied(q, s)
    <2>1. \A i \in Int : From(q) < i => From(r) < i
        BY <1>3, <1>6 DEF From
    <2> QED BY <1>2, <2>1 DEF Holds, Copied
<1>9. 0 <= q.pos - q.tail + From(q) /\ q.tail <= q.readEnd
    BY <1>2, <1>3, <1>5, <1>6
<1>10. q.inPlace => InPlace(q, s)
    BY <1>2 DEF Holds, InPlace
<1>11. ~q.inPlace => Streamed(q, lf, s)
    <2>1. ~q.inPlace => Streamed(r, lf, s)
        BY <1>2 DEF Holds
    <2>2. MovedUp(r) => MovedUp(q)
        BY <1>2, <1>4 DEF MovedUp
    <2>3. Roomy(r) => Roomy(q)
        BY <1>2 DEF Roomy
    <2> QED BY <1>2, <2>1, <2>2, <2>3 DEF Streamed
<1> QED BY <1>2, <1>7, <1>8, <1>9, <1>10, <1>11 DEF q, Holds
-----------------------------------------------------------------------------
(* Room to read into.                                                        *)

\* A function of the first n numbers is a sequence; a reader may hold it.
LEMMA FunctionSeq ==
    ASSUME NEW n \in Nat, NEW f \in [1..n -> Bytes]
    PROVE  f \in Seq(Bytes) /\ Len(f) = n /\ DOMAIN f = 1..n
OBVIOUS

LEMMA SetContents ==
    ASSUME NEW r, r \in Readers, NEW m, m \in Seq(Bytes), NEW e \in Int
    PROVE  [r EXCEPT !.mem = m, !.end = e] \in Readers
BY DEF Readers

LEMMA SetMem ==
    ASSUME NEW r, r \in Readers, NEW m, m \in Seq(Bytes), NEW d, d \in Int
    PROVE  [r EXCEPT !.readEnd = d, !.mem = m] \in Readers
BY DEF Readers

LEMMA SetPlaces ==
    ASSUME NEW r, r \in Readers, NEW m, m \in Seq(Bytes), NEW t, t \in Int, NEW p, p \in Int, NEW b, b \in Int
    PROVE  [r EXCEPT !.mem = m, !.tail = t, !.readEnd = t, !.str = b, !.pro = p] \in Readers
BY DEF Readers

\* The reader q that r becomes so that there is room behind tail; what is read stays.
Roomed(q, r, s) ==
    /\ Sound(q, s)
    /\ ~q.inPlace /\ q.tail = q.readEnd /\ 0 <= q.pos - q.tail + From(q)
    /\ Copied(q, s)
    /\ Len(q.mem) = q.end + Pad /\ Base <= q.end
    /\ q.readEnd <= q.end \/ (q.readEnd = q.end + 1 /\ r.pro = 0 /\ q.pro = 1 /\ r.tail = r.end)
    /\ q.pos = r.pos
    /\ q.pro = Null <=> r.pro = Null
    /\ r.pro # Null => q.tail - q.pro = r.tail - r.pro
    /\ 1 <= r.pro => 1 <= q.pro

\* All that was in the buffer has been taken, and it is not the source itself.
Exhausted(r, lf, s) == Holds(r, lf, s) /\ ~r.inPlace /\ r.tail = r.readEnd

\* What that says of the numbers of the reader.
LEMMA ExhaustedFacts ==
    ASSUME NEW r, NEW lf, NEW s, Text(s), Exhausted(r, lf, s)
    PROVE  /\ r \in Readers /\ r.mem \in Seq(Bytes) /\ r.end \in Int /\ r.tail \in Int /\ r.readEnd \in Int
           /\ r.pro \in Int /\ r.str \in Int /\ r.pos \in Int /\ ~r.inPlace /\ Len(s) \in Nat
           /\ r.pro = Null \/ (0 <= r.pro /\ r.pro <= r.tail /\ r.str = r.pro)
           /\ 0 <= r.tail /\ 0 <= r.pos /\ r.pos <= Len(s) /\ r.tail = r.readEnd /\ 0 <= r.pos - r.tail + From(r)
           /\ Len(r.mem) = r.end + Pad /\ Base <= r.end /\ r.tail <= r.end + 1
           /\ r.tail = r.end + 1 => r.pro # 0
           /\ DOMAIN r.mem = 1..Len(r.mem) /\ \A i \in DOMAIN r.mem : r.mem[i] \in Bytes
           /\ \A i \in DOMAIN r.mem : r.mem[i] \in ToSet(s) \cup {EOF, Junk}
<1>1. r \in Readers /\ ~r.inPlace /\ Streamed(r, lf, s) /\ Sound(r, s) /\ r.tail = r.readEnd
    BY DEF Exhausted, Holds, Sound
<1>2. /\ r.mem \in Seq(Bytes) /\ r.end \in Int /\ r.tail \in Int /\ r.readEnd \in Int /\ r.pro \in Int
      /\ r.str \in Int /\ r.pos \in Int
    BY <1>1, ReaderFields
<1>3. DOMAIN r.mem = 1..Len(r.mem) /\ \A i \in DOMAIN r.mem : r.mem[i] \in Bytes
    BY <1>2
<1>4. Len(s) \in Nat
    BY TextBytes
<1>5. r.tail <= r.end + 1 /\ (r.tail = r.end + 1 => r.pro # 0)
    BY <1>1, <1>2 DEF Streamed, Roomy, MovedUp
<1>6. Len(r.mem) = r.end + Pad /\ Base <= r.end
    BY <1>1 DEF Streamed
<1>7. 0 <= r.pos - r.tail + From(r)
    BY DEF Exhausted, Holds
<1> QED BY <1>1, <1>2, <1>3, <1>4, <1>5, <1>6, <1>7 DEF Sound

LEMMA BlankSeq ==
    ASSUME NEW n \in Nat
    PROVE  Blank(n) \in Seq(Bytes) /\ Len(Blank(n)) = n /\ \A i \in 1..n : Blank(n)[i] = Junk
<1>1. Junk \in Bytes
    BY DEF Bytes
<1>2. Blank(n) \in [1..n -> Bytes] /\ \A i \in 1..n : Blank(n)[i] = Junk
    BY <1>1 DEF Blank
<1>3. DOMAIN Blank(n) = 1..n
    BY DEF Blank
<1> QED BY <1>2, <1>3, FunctionSeq

\* What is put behind a sequence leaves it as it is.
LEMMA Behind ==
    ASSUME NEW a \in Seq(Bytes), NEW b \in Seq(Bytes)
    PROVE  /\ a \o b \in Seq(Bytes) /\ Len(a \o b) = Len(a) + Len(b) /\ DOMAIN (a \o b) = 1..(Len(a) + Len(b))
           /\ \A i \in Int : 1 <= i /\ i <= Len(a) => (a \o b)[i] = a[i]
           /\ \A i \in Int : Len(a) < i /\ i <= Len(a) + Len(b) => (a \o b)[i] = b[i - Len(a)]
<1>1. a \o b \in Seq(Bytes) /\ Len(a \o b) = Len(a) + Len(b)
    OBVIOUS
<1>2. DOMAIN (a \o b) = 1..(Len(a) + Len(b))
    BY <1>1
<1>3. \A i \in Int : 1 <= i /\ i <= Len(a) => (a \o b)[i] = a[i]
    OBVIOUS
<1>4. \A i \in Int : Len(a) < i /\ i <= Len(a) + Len(b) => (a \o b)[i] = b[i - Len(a)]
    OBVIOUS
<1> QED BY <1>1, <1>2, <1>3, <1>4

\* A sequence and as much junk.
LEMMA Doubled ==
    ASSUME NEW a \in Seq(Bytes), NEW n, n = Len(a)
    PROVE  LET m == a \o Blank(n) IN
           /\ m \in Seq(Bytes) /\ Len(m) = n + n /\ DOMAIN m = 1..(n + n)
           /\ \A i \in Int : 1 <= i /\ i <= n => m[i] = a[i]
           /\ \A i \in Int : n < i /\ i <= n + n => m[i] = Junk
<1> DEFINE b == Blank(n)
<1>1. n \in Nat
    OBVIOUS
<1>2. b \in Seq(Bytes) /\ Len(b) = n /\ \A i \in 1..n : b[i] = Junk
    BY <1>1, BlankSeq
<1> HIDE DEF b
<1>3. /\ a \o b \in Seq(Bytes) /\ Len(a \o b) = n + n /\ DOMAIN (a \o b) = 1..(n + n)
      /\ \A i \in Int : 1 <= i /\ i <= n => (a \o b)[i] = a[i]
      /\ \A i \in Int : n < i /\ i <= n + n => (a \o b)[i] = b[i - n]
    BY <1>2, Behind
<1>4. \A i \in Int : n < i /\ i <= n + n => b[i - n] = Junk
    <2> SUFFICES ASSUME NEW i \in Int, n < i, i <= n + n PROVE b[i - n] = Junk
        OBVIOUS
    <2>1. i - n \in 1..n
        BY <1>1
    <2> QED BY <1>2, <2>1
<1> QED BY <1>3, <1>4 DEF b

\* Doubling the buffer leaves everything where it is.
LEMMA GrowRooms ==
    ASSUME NEW r, NEW lf, NEW s, Text(s), Exhausted(r, lf, s), ReaderAssumption, r.pro # 0
    PROVE  Roomed(Grow(r), r, s)
<1> DEFINE n == Len(r.mem)
           m == r.mem \o Blank(n)
           e == 2 * (r.end + Pad) - Pad
           q == [r EXCEPT !.mem = m, !.end = e]
<1>1. /\ r \in Readers /\ r.mem \in Seq(Bytes) /\ r.end \in Int /\ r.tail \in Int /\ r.readEnd \in Int
      /\ r.pro \in Int /\ r.str \in Int /\ r.pos \in Int /\ ~r.inPlace /\ Len(s) \in Nat
      /\ r.pro = Null \/ (0 <= r.pro /\ r.pro <= r.tail /\ r.str = r.pro)
      /\ 0 <= r.tail /\ 0 <= r.pos /\ r.pos <= Len(s) /\ r.tail = r.readEnd /\ 0 <= r.pos - r.tail + From(r)
      /\ n = r.end + Pad /\ Base <= r.end /\ r.tail <= r.end + 1
      /\ DOMAIN r.mem = 1..n
    BY ExhaustedFacts
<1>2. \A i \in Int : 1 <= i /\ i <= n => r.mem[i] \in ToSet(s) \cup {EOF, Junk}
    <2>1. \A i \in 1..n : r.mem[i] \in ToSet(s) \cup {EOF, Junk}
        BY ExhaustedFacts
    <2> QED BY <1>1, <2>1
<1>3. n \in Nat
    BY <1>1
<1>4. /\ m \in Seq(Bytes) /\ Len(m) = n + n /\ DOMAIN m = 1..(n + n)
      /\ \A i \in Int : 1 <= i /\ i <= n => m[i] = r.mem[i]
      /\ \A i \in Int : n < i /\ i <= n + n => m[i] = Junk
    BY <1>1, Doubled
<1>5. q = Grow(r)
    BY DEF Grow
<1> HIDE DEF m, n
<1>6. e \in Int /\ n + n = e + Pad /\ Base <= e /\ r.end + 1 <= e
    <2>1. Pad \in Int /\ 2 <= Pad /\ Base \in Int /\ 1 <= Base
        BY DEF ReaderAssumption
    <2>2. r.end \in Int /\ n = r.end + Pad /\ Base <= r.end
        BY <1>1
    <2> QED BY ONLY <2>1, <2>2
<1> HIDE DEF e
<1>7. /\ q.mem = m /\ q.end = e /\ q.tail = r.tail /\ q.readEnd = r.readEnd /\ q.pro = r.pro
      /\ q.str = r.str /\ q.pos = r.pos /\ q.inPlace = r.inPlace
    BY <1>1 DEF Readers
<1>8. q \in Readers
    BY <1>1, <1>4, <1>6, SetContents
<1> HIDE DEF q
<1>9. q.readEnd <= q.end
    <2>1. r.readEnd \in Int /\ r.end \in Int /\ r.readEnd <= r.end + 1
        BY <1>1
    <2> QED BY <1>6, <1>7, <2>1
<1>10. Sound(q, s)
    <2>1. ASSUME NEW i \in 1..(n + n) PROVE m[i] \in ToSet(s) \cup {EOF, Junk}
        <3>1. i \in Int /\ 1 <= i /\ i <= n + n
            BY <1>3
        <3>2. CASE i <= n
            BY <1>2, <1>4, <3>1, <3>2
        <3>3. CASE n < i
            BY <1>4, <3>1, <3>3
        <3> QED BY <1>3, <3>1, <3>2, <3>3
    <2>2. \A i \in DOMAIN q.mem : q.mem[i] \in ToSet(s) \cup {EOF, Junk}
        BY <1>4, <1>7, <2>1
    <2> QED BY <1>1, <1>7, <1>8, <2>2 DEF Sound
<1>11. From(q) = From(r)
    BY <1>7 DEF From
<1>12. Copied(q, s)
    <2>1. ASSUME NEW i \in Int, From(r) < i, i <= r.readEnd
          PROVE  i \in DOMAIN m /\ r.pos - r.tail + i \in DOMAIN s /\ m[i] = s[r.pos - r.tail + i]
        <3>1. i \in DOMAIN r.mem /\ r.pos - r.tail + i \in DOMAIN s /\ r.mem[i] = s[r.pos - r.tail + i]
            BY <2>1 DEF Exhausted, Holds, Copied
        <3>2. 1 <= i /\ i <= n
            BY <1>1, <3>1
        <3>3. i \in DOMAIN m /\ m[i] = r.mem[i]
            BY <1>3, <1>4, <3>2
        <3> QED BY <3>1, <3>3
    <2> QED BY <1>7, <1>11, <2>1 DEF Copied
<1>13. Len(q.mem) = q.end + Pad /\ Base <= q.end
    BY <1>4, <1>6, <1>7
<1>14. Roomed(q, r, s)
    BY <1>1, <1>7, <1>9, <1>10, <1>11, <1>12, <1>13 DEF Roomed
<1> QED BY <1>5, <1>14

\* By how much the contents can move down.
Movable(r, k) ==
    /\ k # 0 /\ -1 <= k /\ k <= r.tail
    /\ IF r.pro = Null THEN 1 <= k ELSE r.pro - k = 1

\* Sliding moves what must stay with tail, pro and str.
LEMMA SlideRooms ==
    ASSUME NEW r, NEW lf, NEW s, NEW k \in Int, Text(s), Exhausted(r, lf, s), ReaderAssumption, Movable(r, k)
    PROVE  Roomed(Slide(r, k), r, s)
<1> DEFINE n == Len(r.mem)
           m == [i \in DOMAIN r.mem |-> IF i > r.readEnd - k THEN r.mem[i]
                                        ELSE IF i + k = 0 THEN Junk ELSE r.mem[i + k]]
           t == r.tail - k
           p == IF r.pro = Null THEN Null ELSE r.pro - k
           b == r.str - k
           q == [r EXCEPT !.mem = m, !.tail = t, !.readEnd = t, !.str = b, !.pro = p]
<1>1. /\ r \in Readers /\ r.mem \in Seq(Bytes) /\ r.end \in Int /\ r.tail \in Int /\ r.readEnd \in Int
      /\ r.pro \in Int /\ r.str \in Int /\ r.pos \in Int /\ ~r.inPlace /\ Len(s) \in Nat
      /\ r.pro = Null \/ (0 <= r.pro /\ r.pro <= r.tail /\ r.str = r.pro)
      /\ 0 <= r.tail /\ 0 <= r.pos /\ r.pos <= Len(s) /\ r.tail = r.readEnd /\ 0 <= r.pos - r.tail + From(r)
      /\ n = r.end + Pad /\ Base <= r.end /\ r.tail <= r.end + 1
      /\ r.tail = r.end + 1 => r.pro # 0
      /\ DOMAIN r.mem = 1..n
    BY ExhaustedFacts
<1>2. \A i \in Int : 1 <= i /\ i <= n => r.mem[i] \in ToSet(s) \cup {EOF, Junk}
    <2>1. \A i \in 1..n : r.mem[i] \in ToSet(s) \cup {EOF, Junk}
        BY ExhaustedFacts
    <2> QED BY <1>1, <2>1
<1>3. n \in Nat
    BY <1>1
<1>4. q = Slide(r, k)
    BY <1>1 DEF Slide
<1> HIDE DEF n
<1>5. /\ r.end \in Int /\ r.tail \in Int /\ r.pro \in Int /\ r.pos \in Int /\ k \in Int /\ Pad \in Int /\ 2 <= Pad
      /\ n \in Int /\ n = r.end + Pad /\ r.tail <= r.end + 1 /\ Null = -1
      /\ k # 0 /\ -1 <= k /\ k <= r.tail /\ (r.pro = Null => 1 <= k) /\ (r.pro # Null => r.pro - k = 1)
      /\ r.pro = -1 \/ (0 <= r.pro /\ r.pro <= r.tail)
      /\ r.tail = r.end + 1 => r.pro # 0
      /\ t = r.tail - k /\ p = (IF r.pro = Null THEN Null ELSE r.pro - k)
    BY <1>1, <1>3 DEF ReaderAssumption, Movable, Null
<1>6. /\ t \in Int /\ p \in Int /\ 0 <= t /\ t <= n /\ r.tail <= n
      /\ t <= r.end \/ (t = r.end + 1 /\ r.pro = 0 /\ p = 1 /\ r.tail = r.end)
      /\ p = Null <=> r.pro = Null
      /\ p = Null \/ (p = 1 /\ p <= t)
      /\ r.pro # Null => t - p = r.tail - r.pro
    <2> HIDE DEF t, p
    <2>1. t \in Int /\ 0 <= t /\ t <= n /\ r.tail <= n
        BY ONLY <1>5
    <2>2. CASE r.pro = Null
        BY ONLY <1>5, <2>1, <2>2
    <2>3. CASE r.pro # Null
        <3>1. p = 1 /\ r.pro = k + 1 /\ p # Null
            BY ONLY <1>5, <2>3
        <3> QED BY ONLY <1>5, <2>1, <2>3, <3>1
    <2> QED BY ONLY <2>1, <2>2, <2>3
<1>7. \A i \in Int : 1 <= i /\ i <= n /\ ~(i > r.readEnd - k) /\ i + k # 0 => i + k \in Int /\ 1 <= i + k /\ i + k <= n
    <2>1. r.readEnd = r.tail
        BY <1>1
    <2> QED BY ONLY <1>5, <1>6, <2>1
<1>8. \A i \in 1..n : m[i] = IF i > r.readEnd - k THEN r.mem[i] ELSE IF i + k = 0 THEN Junk ELSE r.mem[i + k]
    BY <1>1
<1>9. \A i \in 1..n : m[i] \in ToSet(s) \cup {EOF, Junk}
    <2> SUFFICES ASSUME NEW i \in 1..n PROVE m[i] \in ToSet(s) \cup {EOF, Junk}
        OBVIOUS
    <2>1. i \in Int /\ 1 <= i /\ i <= n
        BY <1>3
    <2>2. m[i] = IF i > r.readEnd - k THEN r.mem[i] ELSE IF i + k = 0 THEN Junk ELSE r.mem[i + k]
        BY <1>8
    <2> HIDE DEF m
    <2>3. CASE i > r.readEnd - k
        BY <1>2, <2>1, <2>2, <2>3
    <2>4. CASE ~(i > r.readEnd - k) /\ i + k = 0
        BY <2>2, <2>4
    <2>5. CASE ~(i > r.readEnd - k) /\ i + k # 0
        <3>1. i + k \in Int /\ 1 <= i + k /\ i + k <= n
            BY <1>7, <2>1, <2>5
        <3>2. r.mem[i + k] \in ToSet(s) \cup {EOF, Junk}
            BY <1>2, <3>1
        <3> QED BY <2>2, <2>5, <3>2
    <2> QED BY <2>3, <2>4, <2>5
<1>10. m \in Seq(Bytes) /\ Len(m) = n /\ DOMAIN m = 1..n
    <2>1. DOMAIN m = 1..n /\ m = [i \in 1..n |-> m[i]]
        BY <1>1
    <2> HIDE DEF m
    <2>2. \A c \in ToSet(s) : c \in Bytes
        BY TextBytes
    <2>3. \A i \in 1..n : m[i] \in Bytes
        BY <1>9, <2>2 DEF Bytes
    <2>4. m \in [1..n -> Bytes]
        BY <2>1, <2>3
    <2> QED BY <1>3, <2>4, FunctionSeq
<1>11. b \in Int /\ (r.pro # Null => b = p)
    BY <1>1
<1> HIDE DEF m, t, p, b
<1>12. /\ q.mem = m /\ q.end = r.end /\ q.tail = t /\ q.readEnd = t /\ q.pro = p
       /\ q.str = b /\ q.pos = r.pos /\ q.inPlace = r.inPlace
    BY <1>1 DEF Readers
<1>13. q \in Readers
    <2>1. r \in Readers /\ m \in Seq(Bytes) /\ t \in Int /\ p \in Int /\ b \in Int
        BY <1>1, <1>6, <1>10, <1>11
    <2> QED BY ONLY <2>1, SetPlaces
<1> HIDE DEF q
<1>14. Sound(q, s)
    <2>1. \A i \in DOMAIN q.mem : q.mem[i] \in ToSet(s) \cup {EOF, Junk}
        BY <1>9, <1>10, <1>12
    <2>2. q.pro = Null \/ (0 <= q.pro /\ q.pro <= q.tail /\ q.str = q.pro)
        BY <1>6, <1>11, <1>12
    <2>3. 0 <= q.tail /\ 0 <= q.pos /\ q.pos <= Len(s)
        BY <1>1, <1>6, <1>12
    <2> QED BY <1>13, <2>1, <2>2, <2>3 DEF Sound
<1>15. From(q) = From(r) - k /\ From(r) \in Int /\ 0 <= From(q) /\ 0 <= From(r)
    <2>1. CASE r.pro = Null
        <3>1. From(q) = t /\ From(r) = r.tail
            BY <1>6, <1>12, <2>1 DEF From
        <3> QED BY <1>1, <1>5, <1>6, <3>1
    <2>2. CASE r.pro # Null
        <3>1. From(q) = p /\ From(r) = r.pro /\ p = r.pro - k /\ p = 1 /\ 0 <= r.pro
            BY <1>1, <1>5, <1>6, <1>12, <2>2 DEF From
        <3> QED BY <1>1, <3>1
    <2> QED BY <2>1, <2>2
<1>16. q.pos - q.tail = r.pos - r.tail + k
    <2>1. q.pos = r.pos /\ q.tail = r.tail - k
        BY <1>5, <1>12
    <2> QED BY ONLY <1>5, <2>1
<1>17. Copied(q, s)
    <2>1. ASSUME NEW i \in Int, From(q) < i, i <= t
          PROVE  i \in DOMAIN m /\ r.pos - r.tail + k + i \in DOMAIN s /\ m[i] = s[r.pos - r.tail + k + i]
        <3>1. i + k \in Int /\ From(r) < i + k /\ i + k <= r.tail /\ 1 <= i /\ i <= n
            BY ONLY <1>5, <1>6, <1>15, <2>1
        <3>2. i + k \in DOMAIN r.mem /\ r.pos - r.tail + (i + k) \in DOMAIN s /\ r.mem[i + k] = s[r.pos - r.tail + (i + k)]
            <4>1. i + k <= r.readEnd
                BY <1>1, <3>1
            <4> QED BY <3>1, <4>1 DEF Exhausted, Holds, Copied
        <3>3. r.pos - r.tail + (i + k) = r.pos - r.tail + k + i
            BY ONLY <1>5, <2>1
        <3>4. ~(i > r.readEnd - k) /\ i + k # 0
            <4>1. r.readEnd = r.tail
                BY <1>1
            <4> QED BY ONLY <1>5, <1>6, <1>15, <2>1, <3>1, <4>1
        <3>5. i \in 1..n
            BY <1>3, <3>1
        <3>6. m[i] = r.mem[i + k]
            BY <1>8, <3>4, <3>5
        <3> QED BY <1>10, <3>2, <3>3, <3>5, <3>6
    <2> QED BY <1>12, <1>16, <2>1 DEF Copied
<1>18. 0 <= q.pos - q.tail + From(q)
    <2>1. 0 <= r.pos - r.tail + From(r)
        BY <1>1
    <2> QED BY ONLY <1>5, <1>15, <1>16, <2>1
<1>19. 1 <= r.pro => 1 <= q.pro
    <2>1. 1 <= r.pro => r.pro # Null
        BY <1>5
    <2> QED BY <1>6, <1>12, <2>1
<1>20. Roomed(q, r, s)
    BY <1>1, <1>6, <1>10, <1>12, <1>14, <1>17, <1>18, <1>19 DEF Roomed
<1> QED BY <1>4, <1>20

\* Either of them, or neither, makes room without losing a byte.
LEMMA MakeRoomRooms ==
    ASSUME NEW r, NEW lf, NEW s, Text(s), Exhausted(r, lf, s), ReaderAssumption
    PROVE  Roomed(MakeRoom(r), r, s)
<1>1. /\ r.end \in Int /\ r.tail \in Int /\ r.readEnd \in Int /\ r.pro \in Int
      /\ r.pro = Null \/ (0 <= r.pro /\ r.pro <= r.tail)
      /\ 0 <= r.tail /\ r.tail <= r.end + 1 /\ r.tail = r.readEnd /\ Null = -1
    BY ExhaustedFacts DEF Null
<1>2. CASE 0 < r.tail /\ Base + Pad > r.end - r.tail /\ Shift(r) = 0
    <2>1. MakeRoom(r) = Grow(r)
        BY <1>2 DEF MakeRoom
    <2>2. r.pro # 0
        BY <1>1, <1>2 DEF Shift
    <2> QED BY <2>1, <2>2, GrowRooms
<1>3. CASE 0 < r.tail /\ Base + Pad > r.end - r.tail /\ Shift(r) # 0
    <2>1. MakeRoom(r) = Slide(r, Shift(r))
        BY <1>3 DEF MakeRoom
    <2>2. Shift(r) \in Int /\ Movable(r, Shift(r))
        <3>1. CASE r.pro = Null
            <4>1. Shift(r) = r.tail
                BY <3>1 DEF Shift
            <4> QED BY <1>1, <1>3, <3>1, <4>1 DEF Movable
        <3>2. CASE r.pro # Null
            <4>1. Shift(r) = r.pro - 1
                BY <3>2 DEF Shift
            <4> QED BY <1>1, <1>3, <3>2, <4>1 DEF Movable
        <3> QED BY <3>1, <3>2
    <2> QED BY <2>1, <2>2, SlideRooms
<1>4. CASE ~(0 < r.tail /\ Base + Pad > r.end - r.tail)
    <2>1. MakeRoom(r) = r
        BY <1>4 DEF MakeRoom
    <2>2. r.tail <= r.end
        BY <1>1, <1>4, ExhaustedFacts DEF ReaderAssumption
    <2>3. Len(r.mem) = r.end + Pad /\ Base <= r.end /\ ~r.inPlace /\ r.tail = r.readEnd
        BY ExhaustedFacts
    <2>4. Sound(r, s) /\ Copied(r, s) /\ 0 <= r.pos - r.tail + From(r)
        BY DEF Exhausted, Holds
    <2> QED BY <1>1, <2>1, <2>2, <2>3, <2>4 DEF Roomed
<1> QED BY <1>2, <1>3, <1>4

-----------------------------------------------------------------------------
(* One byte.                                                                 *)

\* What protects the string stays in its place, n bytes further.
Kin(q, r, n) ==
    /\ q.pro = Null <=> r.pro = Null
    /\ r.pro # Null => q.tail - q.pro = r.tail - r.pro + n
    /\ 1 <= r.pro => 1 <= q.pro
    /\ q.inPlace = r.inPlace

\* A byte is taken; there is none; it would be beyond the buffer.
Took(g, r, s) ==
    /\ Holds(g.rd, g.left, s) /\ Roomy(g.rd) /\ Returnable(g.rd, s) /\ Kin(g.rd, r, 1)
    /\ g.rd.pos = r.pos + 1 /\ g.rd.pos \in DOMAIN s /\ g.c = s[g.rd.pos]
Ended(g, r, s) ==
    /\ Holds(g.rd, g.left, s) /\ Kin(g.rd, r, 0) /\ (Roomy(g.rd) \/ r.pro = 0)
    /\ g.rd.pos = r.pos /\ g.c = EOF
Overran(g, r, s) ==
    /\ Sound(g.rd, s) /\ g.c = Beyond
    /\ r.pro = 0 /\ r.tail = r.end /\ Base <= r.end /\ ~r.inPlace

\* The byte at tail is the next one of the source.
LEMMA TakenHolds ==
    ASSUME NEW r, NEW lf, NEW s, Text(s), Holds(r, lf, s), Roomy(r), r.tail < r.readEnd
    PROVE  Took(Taken(r, lf), r, s)
<1> DEFINE t == r.tail + 1
           p == r.pos + 1
           q == [r EXCEPT !.tail = t, !.pos = p]
           g == Taken(r, lf)
<1>1. /\ r \in Readers /\ r.tail \in Int /\ r.readEnd \in Int /\ r.pro \in Int /\ r.pos \in Int /\ Null = -1
      /\ r.pro = Null \/ (0 <= r.pro /\ r.pro <= r.tail /\ r.str = r.pro)
      /\ 0 <= r.tail /\ 0 <= r.pos /\ r.pos <= Len(s) /\ 0 <= r.pos - r.tail + From(r) /\ r.tail <= r.readEnd
      /\ Len(s) \in Nat
    BY ReaderFields, TextBytes DEF Holds, Sound, Null
<1>2. g.rd = q /\ g.left = lf /\ g.c = r.mem[t]
    BY DEF Taken
<1> HIDE DEF g
<1>3. t = r.tail + 1 /\ p = r.pos + 1 /\ t \in Int /\ p \in Int
    BY <1>1
<1> HIDE DEF t, p
<1>4. /\ q.mem = r.mem /\ q.end = r.end /\ q.tail = t /\ q.readEnd = r.readEnd /\ q.pro = r.pro
      /\ q.str = r.str /\ q.pos = p /\ q.inPlace = r.inPlace /\ q \in Readers
    <2>1. r \in Readers /\ t \in Int /\ p \in Int
        BY <1>1, <1>3
    <2> QED BY ONLY <2>1, SetTail
<1> HIDE DEF q
<1>5. From(r) \in Int /\ From(r) <= r.tail /\ From(q) \in Int /\ From(r) <= From(q) /\ From(q) <= t
    BY <1>1, <1>3, <1>4 DEF From
<1>6. q.pos - q.tail = r.pos - r.tail
    <2>1. r.tail \in Int /\ r.pos \in Int
        BY <1>1
    <2> QED BY ONLY <1>3, <1>4, <2>1
<1>7. t \in DOMAIN r.mem /\ p \in DOMAIN s /\ r.mem[t] = s[p]
    <2>1. From(r) < t /\ t <= r.readEnd
        BY <1>1, <1>3, <1>5
    <2>2. t \in DOMAIN r.mem /\ r.pos - r.tail + t \in DOMAIN s /\ r.mem[t] = s[r.pos - r.tail + t]
        BY <1>3, <2>1 DEF Holds, Copied
    <2>3. r.pos - r.tail + t = p
        <3>1. r.tail \in Int /\ r.pos \in Int
            BY <1>1
        <3> QED BY ONLY <1>3, <3>1
    <2> QED BY <2>2, <2>3
<1>8. p \in 1..Len(s)
    BY <1>7, TextBytes
<1>9. Sound(q, s)
    <2>1. \A i \in DOMAIN q.mem : q.mem[i] \in ToSet(s) \cup {EOF, Junk}
        BY <1>4 DEF Holds, Sound
    <2>2. q.pro = Null \/ (0 <= q.pro /\ q.pro <= q.tail /\ q.str = q.pro)
        BY <1>1, <1>3, <1>4
    <2>3. 0 <= q.tail /\ 0 <= q.pos /\ q.pos <= Len(s)
        BY <1>1, <1>3, <1>4, <1>8
    <2> QED BY <1>4, <2>1, <2>2, <2>3 DEF Sound
<1>10. Copied(q, s)
    <2>1. \A i \in Int : From(q) < i => From(r) < i
        BY ONLY <1>5
    <2> QED BY <1>4, <1>6, <2>1 DEF Holds, Copied
<1>11. q.tail <= q.readEnd /\ 0 <= q.pos - q.tail + From(q)
    <2>1. /\ r.tail \in Int /\ r.pos \in Int /\ r.readEnd \in Int /\ r.tail < r.readEnd
          /\ 0 <= r.pos - r.tail + From(r)
        BY <1>1
    <2>2. q.readEnd = r.readEnd /\ q.tail = t
        BY <1>4
    <2> QED BY ONLY <1>3, <1>5, <1>6, <2>1, <2>2
<1>12. Roomy(q)
    BY <1>4 DEF Roomy
<1>13. q.inPlace => InPlace(q, s)
    <2>1. q.inPlace => InPlace(r, s)
        BY <1>4 DEF Holds
    <2> QED BY <1>1, <1>3, <1>4, <2>1 DEF InPlace
<1>14. ~q.inPlace => Streamed(q, lf, s)
    <2>1. ~q.inPlace => Streamed(r, lf, s)
        BY <1>4 DEF Holds
    <2> QED BY <1>4, <1>6, <1>12, <2>1 DEF Streamed
<1>15. Holds(q, lf, s)
    BY <1>9, <1>10, <1>11, <1>13, <1>14 DEF Holds
<1>16. Returnable(q, s)
    <2>1. q.pro = Null => 1 <= q.tail /\ 1 <= q.pos
        BY <1>1, <1>3, <1>4
    <2>2. q.pro # Null => q.pro < q.tail
        BY <1>1, <1>3, <1>4
    <2> QED BY <1>4, <1>7, <2>1, <2>2 DEF Returnable
<1>17. Kin(q, r, 1)
    <2>1. q.tail - q.pro = r.tail - r.pro + 1
        <3>1. r.tail \in Int /\ r.pro \in Int /\ q.tail = t /\ q.pro = r.pro
            BY <1>1, <1>4
        <3> QED BY ONLY <1>3, <3>1
    <2> QED BY <1>4, <2>1 DEF Kin
<1>18. Took(g, r, s)
    BY <1>2, <1>3, <1>4, <1>7, <1>12, <1>15, <1>16, <1>17 DEF Took
<1> QED BY <1>18 DEF g

\* What is left of the source of r, when its buffer is at its end.
Rest(r, lf, s) ==
    /\ lf \in Seq(Bytes) /\ r.pos + Len(lf) = Len(s)
    /\ \A j \in Int : 1 <= j /\ j <= Len(lf) => lf[j] = s[r.pos + j]

\* What is left is the rest of the source.
LEMMA ExhaustedRest ==
    ASSUME NEW r, NEW lf, NEW s, Text(s), Exhausted(r, lf, s)
    PROVE  Rest(r, lf, s)
<1>1. r.pos \in Int /\ r.tail \in Int /\ r.tail = r.readEnd /\ Streamed(r, lf, s)
    BY ExhaustedFacts DEF Exhausted, Holds
<1>2. r.pos - r.tail + r.readEnd = r.pos
    BY ONLY <1>1
<1>3. /\ lf \in Seq(Bytes) /\ r.pos + Len(lf) = Len(s)
      /\ \A j \in 1..Len(lf) : lf[j] = s[r.pos + j]
    BY <1>1, <1>2 DEF Streamed
<1>4. \A j \in Int : 1 <= j /\ j <= Len(lf) => lf[j] = s[r.pos + j]
    BY <1>3
<1> QED BY <1>3, <1>4 DEF Rest

\* A read divides what was left in two.
LEMMA Split ==
    ASSUME NEW a \in Seq(Bytes), NEW n \in Int, 1 <= n, n <= Len(a)
    PROVE  /\ SubSeq(a, 1, n) \in Seq(Bytes) /\ Len(SubSeq(a, 1, n)) = n /\ SubSeq(a, 1, n) # <<>>
           /\ \A j \in Int : 1 <= j /\ j <= n => SubSeq(a, 1, n)[j] = a[j]
           /\ SubSeq(a, n + 1, Len(a)) \in Seq(Bytes) /\ Len(SubSeq(a, n + 1, Len(a))) = Len(a) - n
           /\ \A j \in Int : 1 <= j /\ j <= Len(a) - n => SubSeq(a, n + 1, Len(a))[j] = a[n + j]
<1>1. SubSeq(a, 1, n) \in Seq(Bytes) /\ Len(SubSeq(a, 1, n)) = n
    OBVIOUS
<1>2. \A j \in Int : 1 <= j /\ j <= n => SubSeq(a, 1, n)[j] = a[j]
    OBVIOUS
<1>3. SubSeq(a, n + 1, Len(a)) \in Seq(Bytes) /\ Len(SubSeq(a, n + 1, Len(a))) = Len(a) - n
    OBVIOUS
<1>4. \A j \in Int : 1 <= j /\ j <= Len(a) - n => SubSeq(a, n + 1, Len(a))[j] = a[n + j]
    OBVIOUS
<1>5. SubSeq(a, 1, n) # <<>>
    BY <1>1
<1> QED BY <1>1, <1>2, <1>3, <1>4, <1>5

\* A read that gives bytes, or none.
Stores(q, bytes, lf, rest, s) ==
    /\ ~q.inPlace /\ Rest(q, lf, s)
    /\ \/ bytes = <<>> /\ rest = lf
       \/ /\ bytes \in Seq(Bytes) /\ bytes # <<>> /\ q.tail + Len(bytes) <= q.end /\ Len(bytes) <= Len(lf)
          /\ \A j \in Int : 1 <= j /\ j <= Len(bytes) => bytes[j] = lf[j]
          /\ rest \in Seq(Bytes) /\ Len(rest) = Len(lf) - Len(bytes)
          /\ \A j \in Int : 1 <= j /\ j <= Len(rest) => rest[j] = lf[Len(bytes) + j]

LEMMA Counted ==
    ASSUME NEW i, NEW t, NEW d, NEW p, NEW b, NEW a, NEW z, i \in Int, t \in Int, d \in Int, p \in Int, b \in Int,
           a \in Int, z \in Int, t < i, i <= d, d = t + b, b <= a, p + a = z, 0 <= p
    PROVE  /\ i - t \in Int /\ 1 <= i - t /\ i - t <= b /\ i - t <= a
           /\ p - t + i \in 1..z /\ p + (i - t) = p - t + i
OBVIOUS

\* What is read is put where the source has it.
LEMMA StoredHolds ==
    ASSUME NEW q, NEW r, NEW lf, NEW rest, NEW bytes, NEW s, Text(s), Roomed(q, r, s), ReaderAssumption,
           Stores(q, bytes, lf, rest, s)
    PROVE  LET w == Stored(q, bytes) IN
           /\ Holds(w, rest, s) /\ w.pro = q.pro /\ w.tail = q.tail /\ w.pos = q.pos /\ w.inPlace = q.inPlace
           /\ bytes # <<>> => Roomy(w) /\ w.tail < w.readEnd
           /\ Roomy(w) \/ r.pro = 0
<1> DEFINE n == Len(q.mem)
           d == IF bytes = <<>> THEN q.readEnd ELSE q.tail + Len(bytes)
           m == [i \in DOMAIN q.mem |-> IF i = d + 1 THEN EOF
                                        ELSE IF q.tail < i /\ i <= d THEN bytes[i - q.tail] ELSE q.mem[i]]
           w == [q EXCEPT !.readEnd = d, !.mem = m]
<1>1. w = Stored(q, bytes)
    BY DEF Stored
<1>2. /\ q \in Readers /\ q.mem \in Seq(Bytes) /\ q.end \in Int /\ q.tail \in Int /\ q.readEnd \in Int
      /\ q.pro \in Int /\ q.pos \in Int /\ ~q.inPlace
    BY ReaderFields DEF Roomed, Sound
<1>3. n \in Nat /\ DOMAIN q.mem = 1..n /\ n = q.end + Pad /\ Base <= q.end /\ Len(s) \in Nat
    BY <1>2, TextBytes DEF Roomed
<1>4. \A i \in 1..n : q.mem[i] \in ToSet(s) \cup {EOF, Junk}
    BY <1>3 DEF Roomed, Sound
<1> HIDE DEF n
<1>5. /\ q.tail = q.readEnd /\ 0 <= q.tail /\ 0 <= q.pos - q.tail + From(q)
      /\ q.readEnd <= q.end \/ (q.readEnd = q.end + 1 /\ r.pro = 0 /\ q.pro = 1)
      /\ q.pro = Null \/ (0 <= q.pro /\ q.pro <= q.tail /\ q.str = q.pro)
      /\ 0 <= q.pos /\ q.pos <= Len(s)
    BY DEF Roomed, Sound
<1>6. /\ lf \in Seq(Bytes) /\ Len(lf) \in Nat /\ q.pos + Len(lf) = Len(s)
      /\ \A j \in Int : 1 <= j /\ j <= Len(lf) => lf[j] = s[q.pos + j]
    <2>1. Rest(q, lf, s)
        BY DEF Stores
    <2> QED BY <2>1 DEF Rest
<1>7. /\ bytes = <<>> => rest = lf
      /\ bytes # <<>> => /\ Len(bytes) \in Nat /\ 1 <= Len(bytes) /\ q.tail + Len(bytes) <= q.end /\ Len(bytes) <= Len(lf)
                         /\ \A j \in Int : 1 <= j /\ j <= Len(bytes) => bytes[j] = lf[j]
                         /\ rest \in Seq(Bytes) /\ Len(rest) = Len(lf) - Len(bytes)
                         /\ \A j \in Int : 1 <= j /\ j <= Len(rest) => rest[j] = lf[Len(bytes) + j]
    <2>1. bytes \in Seq(Bytes) /\ bytes # <<>> => Len(bytes) \in Nat /\ 1 <= Len(bytes)
        OBVIOUS
    <2> QED BY <2>1 DEF Stores
<1>26. /\ q.tail \in Int /\ q.end \in Int /\ q.pos \in Int /\ n \in Int /\ n = q.end + Pad /\ Pad \in Int /\ 2 <= Pad
       /\ q.tail = q.readEnd /\ 0 <= q.tail /\ 0 <= q.pos /\ q.pos + Len(lf) = Len(s) /\ Len(lf) \in Int /\ Len(s) \in Int
       /\ q.tail <= q.end \/ (q.tail = q.end + 1 /\ r.pro = 0 /\ q.pro = 1)
    BY <1>2, <1>3, <1>5, <1>6 DEF ReaderAssumption
<1>8. /\ d \in Int /\ q.tail <= d /\ d + 1 <= n
      /\ d <= q.end \/ (d = q.end + 1 /\ q.tail = d /\ r.pro = 0 /\ q.pro = 1)
      /\ bytes # <<>> => d <= q.end /\ q.tail < d
      /\ bytes = <<>> => d = q.tail
      /\ bytes # <<>> => d = q.tail + Len(bytes)
    <2>1. bytes = <<>> => d = q.readEnd
        OBVIOUS
    <2>2. bytes # <<>> => d = q.tail + Len(bytes) /\ Len(bytes) \in Int /\ 1 <= Len(bytes) /\ q.tail + Len(bytes) <= q.end
        BY <1>7
    <2> HIDE DEF d
    <2>3. CASE bytes = <<>>
        BY ONLY <1>26, <2>1, <2>3
    <2>4. CASE bytes # <<>>
        BY ONLY <1>26, <2>2, <2>4
    <2> QED BY ONLY <2>3, <2>4
<1> HIDE DEF d
<1>9. \A i \in 1..n : m[i] = IF i = d + 1 THEN EOF
                             ELSE IF q.tail < i /\ i <= d THEN bytes[i - q.tail] ELSE q.mem[i]
    BY <1>3
<1>10. DOMAIN m = 1..n /\ m = [i \in 1..n |-> m[i]]
    BY <1>3
<1> HIDE DEF m
\* What was read.
<1>11. ASSUME NEW i \in Int, q.tail < i, i <= d
       PROVE  /\ i \in 1..n /\ m[i] = s[q.pos - q.tail + i] /\ q.pos - q.tail + i \in 1..Len(s)
    <2>1. bytes # <<>> /\ d = q.tail + Len(bytes) /\ i \in Int
        BY <1>2, <1>8, <1>11
    <2> DEFINE b == Len(bytes)
               a == Len(lf)
               z == Len(s)
    <2>2. /\ i - q.tail \in Int /\ 1 <= i - q.tail /\ i - q.tail <= b /\ i - q.tail <= a
          /\ q.pos - q.tail + i \in 1..z /\ q.pos + (i - q.tail) = q.pos - q.tail + i
        <3>1. /\ i \in Int /\ q.tail \in Int /\ d \in Int /\ q.pos \in Int /\ b \in Int /\ a \in Int /\ z \in Int
              /\ q.tail < i /\ i <= d /\ d = q.tail + b /\ b <= a /\ q.pos + a = z /\ 0 <= q.pos
            BY <1>7, <1>8, <1>11, <1>26, <2>1
        <3> HIDE DEF b, a, z
        <3> QED BY ONLY <3>1, Counted
    <2>3. bytes[i - q.tail] = lf[i - q.tail] /\ lf[i - q.tail] = s[q.pos + (i - q.tail)]
        BY <1>6, <1>7, <2>1, <2>2
    <2>5. i \in 1..n /\ i # d + 1
        BY ONLY <1>8, <1>11, <1>26
    <2>6. m[i] = bytes[i - q.tail]
        BY <1>9, <1>11, <2>5
    <2> QED BY <2>2, <2>3, <2>5, <2>6
\* What was there.
<1>12. ASSUME NEW i \in Int, 1 <= i, i <= q.tail
       PROVE  i \in 1..n /\ m[i] = q.mem[i]
    <2>1. i \in 1..n /\ i # d + 1 /\ ~(q.tail < i)
        BY <1>2, <1>3, <1>8, <1>12
    <2> QED BY <1>9, <2>1
<1>13. \A i \in 1..n : m[i] \in ToSet(s) \cup {EOF, Junk}
    <2> SUFFICES ASSUME NEW i \in 1..n PROVE m[i] \in ToSet(s) \cup {EOF, Junk}
        OBVIOUS
    <2>1. CASE q.tail < i /\ i <= d
        <3>1. m[i] = s[q.pos - q.tail + i] /\ q.pos - q.tail + i \in 1..Len(s)
            BY <1>11, <2>1
        <3> QED BY <3>1, TextBytes
    <2>2. CASE ~(q.tail < i /\ i <= d)
        BY <1>4, <1>9, <2>2
    <2> QED BY <2>1, <2>2
<1>14. m \in Seq(Bytes) /\ Len(m) = n
    <2>1. \A c \in ToSet(s) : c \in Bytes
        BY TextBytes
    <2>2. \A i \in 1..n : m[i] \in Bytes
        BY <1>13, <2>1 DEF Bytes
    <2>3. m \in [1..n -> Bytes]
        BY <1>10, <2>2
    <2> QED BY <1>3, <2>3, FunctionSeq
<1>15. /\ w.mem = m /\ w.end = q.end /\ w.tail = q.tail /\ w.readEnd = d /\ w.pro = q.pro
       /\ w.str = q.str /\ w.pos = q.pos /\ w.inPlace = q.inPlace
    BY <1>2 DEF Readers
<1>16. w \in Readers
    <2>1. q \in Readers /\ m \in Seq(Bytes) /\ d \in Int
        BY <1>2, <1>8, <1>14
    <2> QED BY ONLY <2>1, SetMem
<1> HIDE DEF w
<1>17. From(w) = From(q) /\ From(q) \in Int /\ 0 <= From(q) /\ From(q) <= q.tail
    BY <1>2, <1>5, <1>15 DEF From
<1>18. Sound(w, s)
    <2>1. \A i \in DOMAIN w.mem : w.mem[i] \in ToSet(s) \cup {EOF, Junk}
        BY <1>10, <1>13, <1>15
    <2> QED BY <1>5, <1>15, <1>16, <2>1 DEF Sound
<1>19. Copied(w, s)
    <2>1. ASSUME NEW i \in Int, From(q) < i, i <= d
          PROVE  i \in 1..n /\ q.pos - q.tail + i \in DOMAIN s /\ m[i] = s[q.pos - q.tail + i]
        <3>1. CASE q.tail < i
            BY <1>11, <2>1, <3>1, TextBytes
        <3>2. CASE ~(q.tail < i)
            <4>1. 1 <= i /\ i <= q.tail /\ i <= q.readEnd
                BY <1>2, <1>5, <1>17, <2>1, <3>2
            <4>2. q.pos - q.tail + i \in DOMAIN s /\ q.mem[i] = s[q.pos - q.tail + i]
                BY <2>1, <4>1 DEF Roomed, Copied
            <4> QED BY <1>12, <4>1, <4>2
        <3> QED BY <3>1, <3>2
    <2> QED BY <1>10, <1>15, <1>17, <2>1 DEF Copied
<1>20. Roomy(w) \/ (MovedUp(w) /\ r.pro = 0)
    BY <1>8, <1>15 DEF Roomy, MovedUp
<1>21. /\ rest \in Seq(Bytes) /\ q.pos - q.tail + d + Len(rest) = Len(s)
       /\ \A j \in 1..Len(rest) : rest[j] = s[q.pos - q.tail + d + j]
    <2>1. CASE bytes = <<>>
        <3>1. q.pos - q.tail + d = q.pos /\ rest = lf
            BY <1>2, <1>7, <1>8, <2>1
        <3> QED BY <1>6, <3>1
    <2>2. CASE bytes # <<>>
        <3>1. q.pos - q.tail + d = q.pos + Len(bytes) /\ Len(bytes) \in Nat
            BY <1>2, <1>7, <1>8, <2>2
        <3>2. rest \in Seq(Bytes) /\ Len(rest) = Len(lf) - Len(bytes) /\ q.pos + Len(bytes) + Len(rest) = Len(s)
            BY <1>2, <1>6, <1>7, <2>2, <3>1
        <3>3. ASSUME NEW j \in 1..Len(rest) PROVE rest[j] = s[q.pos + Len(bytes) + j]
            <4>1. j \in Int /\ 1 <= j /\ j <= Len(rest)
                BY <3>2
            <4>2. rest[j] = lf[Len(bytes) + j]
                BY <1>7, <2>2, <4>1
            <4>3. Len(bytes) + j \in Int /\ 1 <= Len(bytes) + j /\ Len(bytes) + j <= Len(lf)
                BY <1>6, <3>1, <3>2, <4>1
            <4>4. lf[Len(bytes) + j] = s[q.pos + (Len(bytes) + j)]
                BY <1>6, <4>3
            <4>5. q.pos + (Len(bytes) + j) = q.pos + Len(bytes) + j
                BY <1>2, <3>1
            <4> QED BY <4>2, <4>4, <4>5
        <3> QED BY <3>1, <3>2, <3>3
    <2> QED BY <2>1, <2>2
<1>22. Streamed(w, rest, s)
    <2>1. Len(w.mem) = w.end + Pad /\ Base <= w.end
        BY <1>3, <1>14, <1>15
    <2> QED BY <1>15, <1>20, <1>21, <2>1 DEF Streamed
<1>23. Holds(w, rest, s)
    <2>1. w.tail <= w.readEnd /\ 0 <= w.pos - w.tail + From(w)
        BY <1>5, <1>8, <1>15, <1>17
    <2> QED BY <1>2, <1>15, <1>18, <1>19, <1>22, <2>1 DEF Holds
<1>24. bytes # <<>> => Roomy(w) /\ w.tail < w.readEnd
    BY <1>8, <1>15 DEF Roomy
<1>25. /\ Holds(w, rest, s) /\ w.pro = q.pro /\ w.tail = q.tail /\ w.pos = q.pos /\ w.inPlace = q.inPlace
       /\ bytes # <<>> => Roomy(w) /\ w.tail < w.readEnd
       /\ Roomy(w) \/ r.pro = 0
    BY <1>15, <1>20, <1>23, <1>24
<1> QED BY <1>1, <1>25

\* reader_get: a byte of the source, its end, or a byte beyond the buffer.
LEMMA GetsOne ==
    ASSUME NEW g \in Gets, Text(text), Holds(rd, left, text), ReaderAssumption
    PROVE  Took(g, rd, text) \/ Ended(g, rd, text) \/ Overran(g, rd, text)
<1> DEFINE q == MakeRoom(rd)
           room == q.end - q.tail
<1>1. rd \in Readers /\ rd.tail \in Int /\ rd.readEnd \in Int /\ rd.tail <= rd.readEnd /\ rd.pro \in Int
    BY ReaderFields DEF Holds, Sound
<1>2. CASE rd.tail < rd.readEnd
    <2>1. g = Taken(rd, left)
        BY <1>2 DEF Gets
    <2>2. Roomy(rd)
        BY <1>1, <1>2 DEF Holds, Streamed, MovedUp, Roomy
    <2> QED BY <1>2, <2>1, <2>2, TakenHolds
<1>3. CASE ~(rd.tail < rd.readEnd) /\ rd.inPlace
    <2>1. g = [rd |-> rd, left |-> left, c |-> EOF]
        BY <1>3 DEF Gets
    <2>2. Kin(rd, rd, 0)
        BY <1>1 DEF Kin
    <2> QED BY <1>3, <2>1, <2>2 DEF Ended, Roomy
<1>4. CASE ~(rd.tail < rd.readEnd) /\ ~rd.inPlace
    <2>1. Exhausted(rd, left, text)
        BY <1>1, <1>4 DEF Exhausted
    <2>2. Roomed(q, rd, text)
        BY <2>1, MakeRoomRooms
    <2>3. Rest(q, left, text)
        <3>1. Rest(rd, left, text)
            BY <2>1, ExhaustedRest
        <3>2. q.pos = rd.pos
            BY <2>2 DEF Roomed
        <3> QED BY <3>1, <3>2 DEF Rest
    <2>4. \/ (left = <<>> \/ room = 0) /\ g = [rd |-> Stored(q, <<>>), left |-> left, c |-> EOF]
          \/ ~(left = <<>> \/ room = 0) /\ room < 0 /\ g = [rd |-> q, left |-> left, c |-> Beyond]
          \/ /\ ~(left = <<>> \/ room = 0) /\ ~(room < 0)
             /\ \E n \in 1..(IF room < Len(left) THEN room ELSE Len(left)) :
                   g = Taken(Stored(q, SubSeq(left, 1, n)), SubSeq(left, n + 1, Len(left)))
        BY <1>4 DEF Gets
    <2> HIDE DEF q
    <2>5. q \in Readers /\ q.end \in Int /\ q.tail \in Int /\ q.pro \in Int /\ ~q.inPlace /\ q.tail = q.readEnd
        BY <2>2, ReaderFields DEF Roomed, Sound
    <2>10. q.inPlace = rd.inPlace
        <3>1. q.inPlace = FALSE
            BY <2>5, ReaderFields
        <3>2. rd.inPlace = FALSE
            BY <1>1, <1>4, ReaderFields
        <3> QED BY <3>1, <3>2
    <2>6. /\ q.pos = rd.pos /\ (q.pro = Null <=> rd.pro = Null) /\ (1 <= rd.pro => 1 <= q.pro)
          /\ rd.pro # Null => q.tail - q.pro = rd.tail - rd.pro
        BY <2>2 DEF Roomed
    <2>7. CASE (left = <<>> \/ room = 0) /\ g = [rd |-> Stored(q, <<>>), left |-> left, c |-> EOF]
        <3> DEFINE w == Stored(q, <<>>)
        <3>1. Stores(q, <<>>, left, left, text)
            BY <2>3, <2>5 DEF Stores
        <3>2. /\ Holds(w, left, text) /\ w.pro = q.pro /\ w.tail = q.tail /\ w.pos = q.pos /\ w.inPlace = q.inPlace
              /\ Roomy(w) \/ rd.pro = 0
            BY <2>2, <3>1, StoredHolds
        <3>3. g.rd = w /\ g.left = left /\ g.c = EOF
            BY <2>7
        <3> HIDE DEF w
        <3>4. Kin(w, rd, 0)
            <4>1. rd.pro # Null => w.tail - w.pro = rd.tail - rd.pro + 0
                BY <1>1, <2>6, <3>2
            <4> QED BY <2>10, <2>6, <3>2, <4>1 DEF Kin
        <3> QED BY <2>6, <3>2, <3>3, <3>4 DEF Ended
    <2>8. CASE room < 0 /\ g = [rd |-> q, left |-> left, c |-> Beyond]
        <3>1. q.end < q.readEnd
            BY <2>5, <2>8
        <3>2. rd.pro = 0 /\ rd.tail = rd.end
            BY <2>2, <2>5, <3>1 DEF Roomed
        <3>3. Base <= rd.end
            BY <2>1, ExhaustedFacts
        <3> QED BY <1>4, <2>2, <2>8, <3>2, <3>3 DEF Overran, Roomed
    <2>9. ASSUME NEW n \in 1..(IF room < Len(left) THEN room ELSE Len(left)), room > 0,
                 g = Taken(Stored(q, SubSeq(left, 1, n)), SubSeq(left, n + 1, Len(left)))
          PROVE  Took(g, rd, text)
        <3> DEFINE bytes == SubSeq(left, 1, n)
                   rest  == SubSeq(left, n + 1, Len(left))
                   w == Stored(q, bytes)
        <3>1. left \in Seq(Bytes) /\ Len(left) \in Nat
            BY <2>3 DEF Rest
        <3>2. n \in Int /\ 1 <= n /\ n <= Len(left) /\ q.tail + n <= q.end
            BY <2>5, <2>9, <3>1
        <3>3. /\ bytes \in Seq(Bytes) /\ Len(bytes) = n /\ bytes # <<>>
              /\ \A j \in Int : 1 <= j /\ j <= n => bytes[j] = left[j]
              /\ rest \in Seq(Bytes) /\ Len(rest) = Len(left) - n
              /\ \A j \in Int : 1 <= j /\ j <= Len(left) - n => rest[j] = left[n + j]
            BY <3>1, <3>2, Split
        <3>4. g = Taken(w, rest)
            BY <2>9
        <3> HIDE DEF bytes, rest
        <3>5. Stores(q, bytes, left, rest, text)
            BY <2>3, <2>5, <3>2, <3>3 DEF Stores
        <3>6. /\ Holds(w, rest, text) /\ w.pro = q.pro /\ w.tail = q.tail /\ w.pos = q.pos /\ w.inPlace = q.inPlace
              /\ Roomy(w) /\ w.tail < w.readEnd
            BY <2>2, <3>3, <3>5, StoredHolds
        <3> HIDE DEF w
        <3>7. Took(Taken(w, rest), w, text)
            BY <3>6, TakenHolds
        <3>8. Kin(g.rd, rd, 1)
            <4>1. Kin(g.rd, w, 1)
                BY <3>4, <3>7 DEF Took
            <4>2. rd.pro # Null => g.rd.tail - g.rd.pro = rd.tail - rd.pro + 1
                BY <2>6, <3>6, <4>1 DEF Kin
            <4> QED BY <2>10, <2>6, <3>6, <4>1, <4>2 DEF Kin
        <3> QED BY <2>6, <3>4, <3>6, <3>7, <3>8 DEF Took
    <2> QED BY <2>4, <2>5, <2>7, <2>8, <2>9
<1> QED BY <1>2, <1>3, <1>4

-----------------------------------------------------------------------------
(* The lexer.                                                                *)

Lexer(l) == DOMAIN l = {"at", "raw", "buf", "held", "ni", "out", "answer"} /\ l.raw = <<>>
Ats == {"token", "string", "first", "word"} \cup StringAts \cup NumberAts \cup CommentAts \cup NaNAts

\* What l becomes: an error, or it goes on at one of ats.
Goes(m, l, ats) ==
    /\ Lexer(m)
    /\ \/ m.answer = "error" /\ m.at = l.at
       \/ m.answer = l.answer /\ m.at \in ats

\* The operators a function of the lexer is made of.
LEMMA ToGoes ==
    ASSUME NEW l, Lexer(l), NEW ats, NEW at, at \in ats
    PROVE  Goes(To(l, at), l, ats)
BY DEF To, Lexer, Goes

LEMMA BufGoes ==
    ASSUME NEW l, Lexer(l), NEW ats, NEW at, at \in ats, NEW x
    PROVE  Goes([To(l, at) EXCEPT !.buf = x], l, ats)
BY DEF To, Lexer, Goes

LEMMA HeldGoes ==
    ASSUME NEW l, Lexer(l), NEW ats, NEW at, at \in ats, NEW x
    PROVE  Goes([To(l, at) EXCEPT !.held = x], l, ats)
BY DEF To, Lexer, Goes

LEMMA NiGoes ==
    ASSUME NEW l, Lexer(l), NEW ats, NEW at, at \in ats, NEW x
    PROVE  Goes([To(l, at) EXCEPT !.ni = x], l, ats)
BY DEF To, Lexer, Goes

LEMMA ExpectGoes ==
    ASSUME NEW l, Lexer(l), NEW ats, "word" \in ats, NEW w
    PROVE  Goes(Expect(l, w), l, ats) /\ Expect(l, w).held = w
BY DEF To, Lexer, Goes, Expect

LEMMA EmitGoes ==
    ASSUME NEW l, Lexer(l), NEW ats, "token" \in ats, NEW t
    PROVE  Goes(Emit(l, t), l, ats)
BY DEF Emit, Lexer, Goes

LEMMA RawEmitGoes ==
    ASSUME NEW l, Lexer(l), NEW ats, "token" \in ats, NEW t, NEW x
    PROVE  Goes(Emit([l EXCEPT !.raw = x], t), l, ats)
BY DEF Emit, Lexer, Goes

LEMMA ErrorGoes ==
    ASSUME NEW l, Lexer(l), NEW ats
    PROVE  Goes(Error(l), l, ats) /\ Error(l).answer = "error"
BY DEF Error, Lexer, Goes

LEMMA AnswerGoes ==
    ASSUME NEW l, Lexer(l), NEW a
    PROVE  LET m == [l EXCEPT !.answer = a] IN Lexer(m) /\ m.answer = a /\ m.at = l.at
BY DEF Lexer

\* A number ends in a token, or an error.
LEMMA NumAsValueGoes ==
    ASSUME NEW l, Lexer(l), NEW ni, NEW s
    PROVE  Goes(NumAsValue(l, ni, s), l, {"token"})
<1>1. NumAsValue(l, ni, s) = Error(l) \/ \E t : NumAsValue(l, ni, s) = Emit(l, t)
    BY DEF NumAsValue
<1> QED BY <1>1, EmitGoes, ErrorGoes

\* Bytes that are told apart.
LEMMA DigitsOf == DOMAIN NumberOf = {"0", "1", "2", "3", "4", "5", "6", "7", "8", "9"}
BY DEF NumberOf

LEMMA EndIsNone ==
    /\ EOF \notin HexHeads /\ EOF # "u" /\ EOF # LowDigit /\ EOF # "\\" /\ EOF # "\"" /\ EOF \notin DOMAIN EscapeOf
    /\ EOF \notin DOMAIN NumberOf /\ EOF \notin Numeric /\ EOF # "I" /\ EOF # Beyond
BY DigitsOf DEF EOF, HexHeads, LowDigit, EscapeOf, Numeric, Beyond

\* Where in a string an escape goes on.
EscapeGoesTo(at) == CASE at = "escaped" -> {"escaped", "escape"}
                      [] at = "escape"  -> {"escaped", "hex"}
                      [] OTHER          -> StringAts

\* Where each function of the lexer goes on.
LEMMA EscapeGoes ==
    ASSUME NEW l, Lexer(l), l.at \in EscapeAts, NEW c, ~(c = "\"" /\ l.at = "escaped")
    PROVE  Goes(Escape(l, c), l, EscapeGoesTo(l.at)) /\ (c = EOF => Escape(l, c).answer = "error")
<1> DEFINE m == Escape(l, c)
<1>1. CASE l.at = "escaped"
    <2> DEFINE ats == {"escaped", "escape"}
    <2>1. EscapeGoesTo(l.at) = ats
        BY <1>1 DEF EscapeGoesTo
    <2>2. m = IF c = EOF THEN Error(l)
              ELSE IF c = "\\" THEN To(l, "escape") ELSE [l EXCEPT !.buf = Append(@, Char(c))]
        BY <1>1 DEF Escape
    <2>3. [l EXCEPT !.buf = Append(@, Char(c))] = [l EXCEPT !.buf = Append(l.buf, Char(c))]
        OBVIOUS
    <2>4. Goes([l EXCEPT !.buf = Append(l.buf, Char(c))], l, ats)
        BY <1>1 DEF Lexer, Goes
    <2>5. Goes(To(l, "escape"), l, ats)
        BY ToGoes
    <2>6. Goes(Error(l), l, ats) /\ Error(l).answer = "error"
        BY ErrorGoes
    <2> QED BY <2>1, <2>2, <2>3, <2>4, <2>5, <2>6
<1>2. CASE l.at = "escape"
    <2> DEFINE ats == {"escaped", "hex"}
    <2>1. EscapeGoesTo(l.at) = ats
        BY <1>2 DEF EscapeGoesTo
    <2>2. \/ c = "u" /\ m = To(l, "hex")
          \/ c # EOF /\ \E x : m = [To(l, "escaped") EXCEPT !.buf = x]
          \/ m = Error(l)
        BY EndIsNone, <1>2 DEF Escape
    <2> HIDE DEF m
    <2>3. CASE c = "u" /\ m = To(l, "hex")
        <3>1. Goes(To(l, "hex"), l, ats)
            BY ToGoes
        <3> QED BY EndIsNone, <2>1, <2>3, <3>1 DEF m
    <2>4. ASSUME c # EOF, NEW x, m = [To(l, "escaped") EXCEPT !.buf = x]
          PROVE  c # EOF /\ Goes(m, l, ats)
        BY <2>4, BufGoes
    <2>5. CASE m = Error(l)
        BY <2>1, <2>5, ErrorGoes DEF m
    <2> QED BY <2>1, <2>2, <2>3, <2>4, <2>5 DEF m
<1>3. CASE l.at \in {"hex", "hex 2", "digit", "digit 2"}
    <2>1. EscapeGoesTo(l.at) = StringAts
        BY <1>3 DEF EscapeGoesTo
    <2>2. \/ c # EOF /\ m = To(l, "pair")
          \/ c # EOF /\ \E x : \E at \in {"digit", "digit 2", "escaped"} : m = [To(l, at) EXCEPT !.buf = x]
          \/ m = Error(l)
        <3>1. CASE l.at \in {"hex", "hex 2"}
            BY EndIsNone, <3>1 DEF Escape
        <3>2. CASE l.at = "digit"
            BY EndIsNone, <3>2 DEF Escape
        <3>3. CASE l.at = "digit 2"
            BY EndIsNone, <3>3 DEF Escape, Pair
        <3> QED BY <1>3, <3>1, <3>2, <3>3
    <2>3. {"digit", "digit 2", "escaped", "pair"} \subseteq StringAts
        BY DEF StringAts, EscapeAts
    <2> HIDE DEF m
    <2>4. CASE c # EOF /\ m = To(l, "pair")
        BY <2>1, <2>3, <2>4, ToGoes DEF m
    <2>5. ASSUME c # EOF, NEW x, NEW at \in {"digit", "digit 2", "escaped"}, m = [To(l, at) EXCEPT !.buf = x]
          PROVE  c # EOF /\ Goes(m, l, StringAts)
        <3>1. at \in StringAts
            BY <2>3
        <3> QED BY <2>5, <3>1, BufGoes
    <2>6. CASE m = Error(l)
        BY <2>1, <2>6, ErrorGoes DEF m
    <2> QED BY <2>1, <2>2, <2>4, <2>5, <2>6 DEF m
<1> QED BY <1>1, <1>2, <1>3 DEF EscapeAts

LEMMA NaNGoes ==
    ASSUME NEW l, Lexer(l), l.at \in NaNAts, NEW c
    PROVE  Goes(NaN(l, c), l, {"token", "word"} \cup NaNAts)
<1>1. \/ \E at \in NaNAts : NaN(l, c) = To(l, at)
      \/ \E t : NaN(l, c) = Emit(l, t)
      \/ \E w : NaN(l, c) = Expect(l, w)
      \/ NaN(l, c) = Error(l)
    BY DEF NaN, NaNAts
<1> QED BY <1>1, ToGoes, EmitGoes, ExpectGoes, ErrorGoes

LEMMA StreamDigitsGoes ==
    ASSUME NEW l, Lexer(l), l.at \in {"first"} \cup NumberAts, NEW d
    PROVE  Goes(StreamDigits(l, d), l, NumberAts)
<1>1. \/ \E x : \E at \in NumberAts : StreamDigits(l, d) = [To(l, at) EXCEPT !.ni = x]
      \/ StreamDigits(l, d) = Error(l)
    BY DEF StreamDigits, NumberAts
<1> QED BY <1>1, NiGoes, ErrorGoes

-----------------------------------------------------------------------------
(* The lexer and the reader.                                                 *)

\* What is protected is part of a number, up to a place in the source.
NumericTo(r, s, to) ==
    \A i \in Int : r.pos - r.tail + r.pro < i /\ i <= to => s[i] \in Numeric

\* What the reader protects, for the function that reads: a string, whose quote is
\* before it, a number, a word after its sign, or nothing.
Where(l, r, s) ==
    /\ l.at \in {"string"} \cup StringAts => 1 <= r.pro
    /\ l.at = "escape" => r.pro + 1 <= r.tail
    /\ l.at \in StringAts \ {"escaped", "escape"} => r.pro + 2 <= r.tail
    /\ l.at \in {"first"} \cup NumberAts => r.pro # Null /\ NumericTo(r, s, r.pos)
    /\ l.at = "word" /\ r.pro # Null => l.held = "nfinity" /\ NumericTo(r, s, r.pos - 1)
    /\ l.at \in {"token"} \cup CommentAts \cup NaNAts => r.pro = Null

Fine(l, r, lf, s) ==
    /\ Lexer(l) /\ l.at \in Ats /\ l.answer \in {"reading", "done", "error"}
    /\ Holds(r, lf, s)
    /\ l.answer = "reading" => Where(l, r, s)

\* The lexer l is reading, and g is what the reader r gave it.
Given(l, r, g, s) ==
    /\ Text(s) /\ ReaderAssumption
    /\ Lexer(l) /\ l.at \in Ats /\ l.answer = "reading" /\ Sound(r, s) /\ Where(l, r, s)
    /\ Took(g, r, s) \/ Ended(g, r, s)

LEMMA GivenFacts ==
    ASSUME NEW l, NEW r, NEW g, NEW s, Given(l, r, g, s)
    PROVE  /\ Text(s) /\ Base \in Nat \ {0} /\ Lexer(l) /\ l.at \in Ats /\ l.answer = "reading" /\ Where(l, r, s)
           /\ r.pro \in Int /\ r.tail \in Int /\ r.pos \in Int /\ g.rd.pro \in Int /\ g.rd.tail \in Int /\ g.rd.pos \in Int
           /\ g.rd.pro = Null \/ (0 <= g.rd.pro /\ g.rd.pro <= g.rd.tail)
           /\ r.pro = Null \/ (0 <= r.pro /\ r.pro <= r.tail)
           /\ Holds(g.rd, g.left, s)
           /\ g.rd.pro = Null <=> r.pro = Null
           /\ 1 <= r.pro => 1 <= g.rd.pro
<1>1. Holds(g.rd, g.left, s) /\ (Kin(g.rd, r, 1) \/ Kin(g.rd, r, 0))
    BY DEF Given, Took, Ended
<1>2. Sound(g.rd, s) /\ Sound(r, s)
    BY <1>1 DEF Given, Holds
<1>3. r.pro \in Int /\ r.tail \in Int /\ r.pos \in Int /\ g.rd.pro \in Int /\ g.rd.tail \in Int /\ g.rd.pos \in Int
    <2>1. r \in Readers /\ g.rd \in Readers
        BY <1>2 DEF Sound
    <2> QED BY <2>1, ReaderFields
<1>4. /\ g.rd.pro = Null \/ (0 <= g.rd.pro /\ g.rd.pro <= g.rd.tail)
      /\ r.pro = Null \/ (0 <= r.pro /\ r.pro <= r.tail)
    BY <1>2 DEF Sound
<1>5. (g.rd.pro = Null <=> r.pro = Null) /\ (1 <= r.pro => 1 <= g.rd.pro)
    BY <1>1 DEF Kin
<1> QED BY <1>1, <1>3, <1>4, <1>5 DEF Given, ReaderAssumption

\* What follows from a byte, and from the end.
LEMMA TookFacts ==
    ASSUME NEW l, NEW r, NEW g, NEW s, Given(l, r, g, s), g.c # EOF
    PROVE  /\ Roomy(g.rd) /\ Returnable(g.rd, s) /\ g.c = s[g.rd.pos] /\ g.rd.pos = r.pos + 1
           /\ r.pro # Null => g.rd.tail - g.rd.pro = r.tail - r.pro + 1
BY DEF Given, Took, Ended, Kin

LEMMA EndedFacts ==
    ASSUME NEW l, NEW r, NEW g, NEW s, Given(l, r, g, s), g.c = EOF
    PROVE  /\ Roomy(g.rd) \/ r.pro = 0
           /\ g.rd.pos = r.pos
           /\ r.pro # Null => g.rd.tail - g.rd.pro = r.tail - r.pro
<1>1. ~Took(g, r, s)
    <2>1. g.rd.pos \in DOMAIN s => s[g.rd.pos] # EOF
        BY TextBytes DEF Given
    <2> QED BY <2>1 DEF Took
<1>2. Ended(g, r, s)
    BY <1>1 DEF Given
<1>3. Kin(g.rd, r, 0) /\ (Roomy(g.rd) \/ r.pro = 0) /\ g.rd.pos = r.pos
    BY <1>2 DEF Ended
<1>4. r.pro # Null => g.rd.tail - g.rd.pro = r.tail - r.pro + 0
    BY <1>3 DEF Kin
<1>5. r.tail - r.pro + 0 = r.tail - r.pro
    BY GivenFacts
<1> QED BY <1>3, <1>4, <1>5

\* An error is fine wherever it is.
LEMMA ErrorFine ==
    ASSUME NEW l, NEW r, NEW g, NEW s, Given(l, r, g, s), NEW m, NEW q, NEW ats, Goes(m, l, ats), m.answer = "error",
           Holds(q, g.left, s)
    PROVE  Fine(m, q, g.left, s)
<1>1. l.answer = "reading" /\ l.at \in Ats /\ Lexer(m)
    BY DEF Given, Goes
<1>2. m.at = l.at
    BY <1>1 DEF Goes
<1> QED BY <1>1, <1>2 DEF Fine

\* And so is what goes on where nothing is protected.
LEMMA NothingFine ==
    ASSUME NEW l, NEW r, NEW g, NEW s, Given(l, r, g, s), NEW m, NEW q,
           Goes(m, l, {"token", "word"} \cup CommentAts \cup NaNAts),
           Holds(q, g.left, s), q.pro = Null
    PROVE  Fine(m, q, g.left, s)
<1>1. l.answer = "reading" /\ l.at \in Ats /\ Lexer(m)
    BY DEF Given, Goes
<1>2. CASE m.answer = "error"
    BY <1>2, ErrorFine
<1>3. CASE m.answer # "error"
    <2>1. m.answer = "reading" /\ m.at \in {"token", "word"} \cup CommentAts \cup NaNAts
        BY <1>1, <1>3 DEF Goes
    <2>2. m.at \in Ats
        BY <2>1 DEF Ats
    <2>3. m.at \notin {"string", "first"} \cup StringAts \cup NumberAts
        BY <2>1 DEF CommentAts, NaNAts, StringAts, EscapeAts, NumberAts
    <2>4. Where(m, q, s)
        <3>1. m.at # "escape"
            BY <2>3 DEF StringAts, EscapeAts
        <3> QED BY <2>3, <3>1, Zenon DEF Where
    <2> QED BY <1>1, <2>1, <2>2, <2>4 DEF Fine
<1> QED BY <1>2, <1>3

\* A new token: a string or a number is protected from here on.
LEMMA StreamTokenFine ==
    ASSUME NEW l, NEW r, NEW g, NEW s, Given(l, r, g, s), l.at = "token"
    PROVE  LET next == StreamToken(l, g.rd, g.c) IN Fine(next.lx, next.rd, g.left, s)
<1> DEFINE next == StreamToken(l, g.rd, g.c)
           q == g.rd
           c == g.c
<1>1. /\ Text(s) /\ Base \in Nat \ {0} /\ Lexer(l) /\ l.at \in Ats /\ l.answer = "reading" /\ Holds(q, g.left, s)
      /\ q.pro \in Int /\ q.tail \in Int /\ q.pos \in Int /\ Null = -1
    BY GivenFacts DEF Null
<1>2. q.pro = Null
    BY GivenFacts DEF Where
<1>3. CASE c = "\""
    <2>1. next.lx = To(l, "string") /\ next.rd = Protect(q)
        BY <1>3 DEF StreamToken, Both
    <2>2. Roomy(q) /\ Returnable(q, s)
        BY <1>3, EndIsNone, TookFacts
    <2>3. Holds(Protect(q), g.left, s) /\ Protect(q).pro = q.tail
        BY <1>1, ProtectHolds
    <2>4. 1 <= q.tail
        BY <1>2, <2>2 DEF Returnable
    <2>5. Lexer(To(l, "string")) /\ To(l, "string").at = "string" /\ To(l, "string").answer = "reading"
        BY <1>1 DEF To, Lexer
    <2>6. Where(To(l, "string"), Protect(q), s)
        BY <2>3, <2>4, <2>5 DEF Where, StringAts, EscapeAts, NumberAts, CommentAts, NaNAts
    <2> QED BY <2>1, <2>3, <2>5, <2>6 DEF Fine, Ats
\* Where a number begins.
<1>4. ASSUME NEW b, Holds(b, g.left, s)
      PROVE  Fine(To(l, "first"), Protect(b), g.left, s)
    <2>1. Holds(Protect(b), g.left, s) /\ Protect(b).pro = b.tail /\ Protect(b).tail = b.tail /\ Protect(b).pos = b.pos
        BY <1>1, <1>4, ProtectHolds
    <2>2. Lexer(To(l, "first")) /\ To(l, "first").at = "first" /\ To(l, "first").answer = "reading"
        BY <1>1 DEF To, Lexer
    <2>3. b.tail \in Int /\ b.pos \in Int /\ 0 <= b.tail
        BY <1>4, ReaderFields DEF Holds, Sound
    <2>4. NumericTo(Protect(b), s, Protect(b).pos)
        <3>1. \A i \in Int : ~(b.pos - b.tail + b.tail < i /\ i <= b.pos)
            BY <2>3
        <3> QED BY <2>1, <3>1 DEF NumericTo
    <2>5. Protect(b).pro # Null
        BY <1>1, <2>1, <2>3
    <2>6. Where(To(l, "first"), Protect(b), s)
        BY <2>2, <2>4, <2>5 DEF Where, StringAts, EscapeAts, CommentAts, NaNAts
    <2> QED BY <2>1, <2>2, <2>6 DEF Fine, Ats
<1>5. CASE c # "\"" /\ (c \in DOMAIN NumberOf \cup {"-"} \/ (c = "I" /\ config.allowNan))
    <2>1. next.lx = To(l, "first") /\ next.rd = Protect(Backup(q))
        BY <1>5 DEF StreamToken, Both
    <2>2. c # EOF
        BY <1>5, EndIsNone DEF Numeric
    <2>3. Roomy(q) /\ Returnable(q, s)
        BY <2>2, TookFacts
    <2>4. Holds(Backup(q), g.left, s)
        BY <1>1, <2>3, BackupHolds
    <2> QED BY <1>4, <2>1, <2>4
<1>6. CASE c = "+" /\ ~Compat
    <2>1. next.lx = To(l, "first") /\ next.rd = Protect(q)
        BY <1>6, DigitsOf DEF StreamToken, Both
    <2> QED BY <1>1, <1>4, <2>1
<1>7. CASE /\ c # "\"" /\ ~(c \in DOMAIN NumberOf \cup {"-"} \/ (c = "I" /\ config.allowNan))
           /\ ~(c = "+" /\ ~Compat)
    <2> DEFINE ats == {"token", "word"} \cup CommentAts \cup NaNAts
    <2>1. next.rd = q
        BY <1>7 DEF StreamToken, Both
    <2>2. \/ next.lx = l
          \/ next.lx = [l EXCEPT !.answer = "done"]
          \/ \E t : next.lx = Emit(l, t)
          \/ \E at \in {"nan", "n", "slash"} : next.lx = To(l, at)
          \/ \E w : next.lx = Expect(l, w)
          \/ next.lx = Error(l)
        <3>1. \/ next.lx \in {l, Error(l), Emit(l, <<"punctuation", c>>), To(l, "nan"), To(l, "n"), To(l, "slash"),
                             Expect(l, "rue"), Expect(l, "alse")}
              \/ next.lx = [l EXCEPT !.answer = "done"]
            <4> DEFINE m == CASE c \in White -> l
                               [] c = EOF -> [l EXCEPT !.answer = "done"]
                               [] c \in Punctuation -> Emit(l, <<"punctuation", c>>)
                               [] c = "N" /\ config.allowNan -> To(l, "nan")
                               [] c = "t" -> Expect(l, "rue")
                               [] c = "f" -> Expect(l, "alse")
                               [] c = "n" -> To(l, "n")
                               [] c = "/" -> To(l, "slash")
                               [] OTHER -> Error(l)
            <4>1. next = Both(m, q)
                BY <1>7 DEF StreamToken
            <4>2. m \in {l, Error(l), Emit(l, <<"punctuation", c>>), To(l, "nan"), To(l, "n"), To(l, "slash"),
                        Expect(l, "rue"), Expect(l, "alse"), [l EXCEPT !.answer = "done"]}
                OBVIOUS
            <4> HIDE DEF m
            <4>3. next.lx = m
                BY <4>1 DEF Both
            <4> QED BY <4>2, <4>3
        <3> HIDE DEF next
        <3> QED BY <3>1
    <2> HIDE DEF next
    <2>3. CASE next.lx = [l EXCEPT !.answer = "done"]
        <3>1. Lexer(next.lx) /\ next.lx.answer = "done" /\ next.lx.at = l.at
            BY <1>1, <2>3, AnswerGoes
        <3> QED BY <1>1, <2>1, <3>1 DEF Fine, next
    <2>4. CASE next.lx # [l EXCEPT !.answer = "done"]
        <3>1. {"nan", "n", "slash", "token", "word"} \subseteq ats
            BY DEF CommentAts, NaNAts
        <3> HIDE DEF ats
        <3>3. ASSUME NEW t, next.lx = Emit(l, t) PROVE Goes(next.lx, l, ats)
            BY <1>1, <3>1, <3>3, EmitGoes
        <3>4. ASSUME NEW at \in {"nan", "n", "slash"}, next.lx = To(l, at) PROVE Goes(next.lx, l, ats)
            BY <1>1, <3>1, <3>4, ToGoes
        <3>5. ASSUME NEW w, next.lx = Expect(l, w) PROVE Goes(next.lx, l, ats)
            BY <1>1, <3>1, <3>5, ExpectGoes
        <3>7. Goes(next.lx, l, ats)
            <4>1. next.lx = l => Goes(next.lx, l, ats)
                BY <1>1, <3>1 DEF Goes
            <4>2. next.lx = Error(l) => Goes(next.lx, l, ats)
                BY <1>1, ErrorGoes
            <4> QED BY <2>2, <2>4, <3>3, <3>4, <3>5, <4>1, <4>2
        <3> QED BY <1>1, <1>2, <2>1, <3>7, NothingFine DEF ats, next
    <2> QED BY <2>3, <2>4
<1> QED BY <1>3, <1>5, <1>6, <1>7

\* What a string, and a number, leave to be done when they go on.
LEMMA StringFine ==
    ASSUME NEW m, NEW q, NEW lf, NEW s, Lexer(m), m.answer = "reading", m.at \in {"string"} \cup StringAts,
           Holds(q, lf, s), 1 <= q.pro,
           m.at = "escape" => q.pro + 1 <= q.tail,
           m.at \in StringAts \ {"escaped", "escape"} => q.pro + 2 <= q.tail
    PROVE  Fine(m, q, lf, s)
<1>1. m.at \notin {"token", "first", "word"} \cup NumberAts \cup CommentAts \cup NaNAts
    BY DEF StringAts, EscapeAts, NumberAts, CommentAts, NaNAts
<1>2. m.at \in Ats
    BY DEF Ats
<1>3. Where(m, q, s)
    BY <1>1, Zenon DEF Where
<1> QED BY <1>2, <1>3 DEF Fine

LEMMA NumberFine ==
    ASSUME NEW m, NEW q, NEW lf, NEW s, Lexer(m), m.answer = "reading", m.at \in {"first"} \cup NumberAts,
           Holds(q, lf, s), q.pro # Null, NumericTo(q, s, q.pos)
    PROVE  Fine(m, q, lf, s)
<1>1. m.at \notin {"token", "string", "word", "escape"} \cup StringAts \cup CommentAts \cup NaNAts
    BY DEF StringAts, EscapeAts, NumberAts, CommentAts, NaNAts
<1>2. m.at \in Ats
    BY DEF Ats
<1>3. Where(m, q, s)
    BY <1>1, Zenon DEF Where
<1> QED BY <1>2, <1>3 DEF Fine

\* A string: its quote is before it, and of half a pair two bytes can be given back.
LEMMA StreamStringFine ==
    ASSUME NEW l, NEW r, NEW g, NEW s, Given(l, r, g, s), l.at \in {"string"} \cup StringAts
    PROVE  LET next == StreamString(l, g.rd, g.c) IN Fine(next.lx, next.rd, g.left, s)
<1> DEFINE next == StreamString(l, g.rd, g.c)
           q == g.rd
           c == g.c
           so == [l EXCEPT !.raw = Front(Slice(q))]
<1>1. /\ Text(s) /\ Base \in Nat \ {0} /\ Lexer(l) /\ l.at \in Ats /\ l.answer = "reading" /\ Holds(q, g.left, s)
      /\ q.pro \in Int /\ q.tail \in Int /\ r.pro \in Int /\ r.tail \in Int /\ Null = -1
      /\ 1 <= r.pro /\ 1 <= q.pro
      /\ q.pro = Null \/ (0 <= q.pro /\ q.pro <= q.tail)
    <2>1. 1 <= r.pro
        BY GivenFacts DEF Where
    <2> QED BY <2>1, GivenFacts DEF Null
<1>2. q.pro # Null /\ r.pro # Null /\ q.pro <= q.tail
    BY <1>1
<1>3. Roomy(q)
    <2>1. r.pro # 0
        BY <1>1
    <2> QED BY <2>1, TookFacts, EndedFacts
<1>4. c # EOF => q.tail - q.pro = r.tail - r.pro + 1
    BY <1>2, TookFacts
<1>5. c = EOF => q.tail - q.pro = r.tail - r.pro
    BY <1>2, EndedFacts
\* One byte is given back.
<1>6. ASSUME NEW b, Holds(b, g.left, s), Roomy(b), b.pro # Null, b.pro < b.tail
      PROVE  /\ Holds(Backup(b), g.left, s) /\ Roomy(Backup(b)) /\ Backup(b).pro = b.pro
             /\ Backup(b).tail = b.tail - 1
    <2>1. Returnable(b, s)
        BY <1>6 DEF Returnable
    <2> QED BY <1>1, <1>6, <2>1, BackupHolds
\* The string ends.
<1>7. ASSUME NEW m, Goes(m, l, {"token"})
      PROVE  Fine(m, Release(q), g.left, s)
    <2>1. Goes(m, l, {"token", "word"} \cup CommentAts \cup NaNAts)
        BY <1>7 DEF Goes
    <2>2. Holds(Release(q), g.left, s) /\ Release(q).pro = Null
        BY <1>1, ReleaseHolds
    <2> QED BY <2>1, <2>2, NothingFine
<1>8. CASE l.at = "string"
    <2>5. l.at \notin EscapeAts
        BY <1>8 DEF EscapeAts
    <2>1. CASE c = EOF
        <3>1. next.lx = Error(l) /\ next.rd = q
            BY <1>8, <2>1, <2>5 DEF StreamString, Both
        <3>2. Goes(Error(l), l, {}) /\ Error(l).answer = "error"
            BY <1>1, ErrorGoes
        <3> QED BY <1>1, <3>1, <3>2, ErrorFine
    <2>2. CASE c # EOF /\ c = "\""
        <3>1. next.rd = Release(q)
            BY <1>8, <2>2, <2>5 DEF StreamString, Both
        <3> DEFINE t == <<"string", so.raw, Chars(so.raw)>>
        <3>2. next.lx = Emit(l, t)
            BY <1>8, <2>2, <2>5 DEF StreamString, Both
        <3> HIDE DEF t, next
        <3>3. Goes(next.lx, l, {"token"})
            BY <1>1, <3>2, EmitGoes
        <3> QED BY <1>7, <3>1, <3>3 DEF next
    <2>3. CASE c # EOF /\ c = "\\"
        <3> DEFINE buf == Chars(so.raw)
                   m == [To(l, "escaped") EXCEPT !.buf = buf]
        <3>1. next.lx = m /\ next.rd = Backup(q)
            BY <1>8, <2>3, <2>5 DEF StreamString, Both
        <3> HIDE DEF buf, next
        <3>2. Lexer(m) /\ m.answer = "reading" /\ m.at = "escaped"
            BY <1>1 DEF To, Lexer
        <3> HIDE DEF m
        <3>3. q.pro < q.tail
            BY <1>1, <1>2, <1>4, <2>3, GivenFacts
        <3>4. Holds(Backup(q), g.left, s) /\ Backup(q).pro = q.pro
            BY <1>1, <1>2, <1>3, <1>6, <3>3
        <3>5. m.at \in {"string"} \cup StringAts /\ m.at # "escape" /\ m.at \notin StringAts \ {"escaped", "escape"}
            BY <3>2 DEF StringAts, EscapeAts
        <3> QED BY <1>1, <3>1, <3>2, <3>4, <3>5, StringFine DEF next
    <2>4. CASE c # EOF /\ c # "\"" /\ c # "\\"
        <3>1. next.lx = l /\ next.rd = q
            BY <1>8, <2>4, <2>5 DEF StreamString, Both
        <3>2. l.at # "escape" /\ l.at \notin StringAts
            BY <1>8 DEF StringAts, EscapeAts
        <3> QED BY <1>1, <1>8, <3>1, <3>2, StringFine
    <2> QED BY <2>1, <2>2, <2>3, <2>4
<1>9. CASE l.at \in EscapeAts
    <2>1. l.at \in StringAts /\ l.at # "string"
        BY <1>9 DEF StringAts, EscapeAts
    <2>2. CASE c = "\"" /\ l.at = "escaped"
        <3>1. next.lx = Escape(so, c) /\ next.rd = Release(q)
            <4>1. l.at # "string" /\ l.at # "pair" /\ l.at # "pair 2"
                BY <2>2
            <4>2. next = Both(Escape(so, c), Release(q))
                BY <1>9, <2>2, <4>1, Zenon DEF StreamString
            <4> QED BY <4>2 DEF Both
        <3>2. \E t : Escape(so, c) = Emit(so, t)
            <4>1. so.at = "escaped"
                BY <1>1, <2>2 DEF Lexer
            <4> HIDE DEF so
            <4>2. Escape(so, c) = Emit(so, <<"string", so.raw, so.buf>>)
                BY <2>2, <4>1 DEF Escape
            <4> QED BY <4>2
        <3>3. Goes(Escape(so, c), l, {"token"})
            BY <1>1, <3>2, RawEmitGoes
        <3> QED BY <1>7, <3>1, <3>3
    <2>3. CASE ~(c = "\"" /\ l.at = "escaped")
        <3> DEFINE m == Escape(l, c)
        <3>1. next.lx = m /\ next.rd = q
            <4>1. l.at # "string" /\ l.at # "pair" /\ l.at # "pair 2"
                BY <1>9 DEF EscapeAts
            <4>2. next = Both(m, q)
                BY <1>9, <2>3, <4>1, Zenon DEF StreamString
            <4> QED BY <4>2 DEF Both
        <3>2. Goes(m, l, EscapeGoesTo(l.at)) /\ (c = EOF => m.answer = "error")
            BY <1>1, <1>9, <2>3, EscapeGoes
        <3> HIDE DEF m, next
        <3>3. CASE m.answer = "error"
            BY <1>1, <3>1, <3>2, <3>3, ErrorFine DEF next
        <3>4. CASE m.answer # "error"
            <4>1. m.answer = "reading" /\ m.at \in EscapeGoesTo(l.at) /\ Lexer(m) /\ c # EOF
                BY <1>1, <3>2, <3>4 DEF Goes
            <4>2. m.at \in StringAts
                BY <4>1 DEF EscapeGoesTo, StringAts, EscapeAts
            <4>3. q.tail - q.pro = r.tail - r.pro + 1 /\ r.pro <= r.tail
                BY <1>2, <1>4, <4>1, GivenFacts
            <4>4. m.at = "escape" => q.pro + 1 <= q.tail
                BY <1>1, <4>3
            <4>5. m.at \in StringAts \ {"escaped", "escape"} => q.pro + 2 <= q.tail
                <5>1. CASE l.at = "escaped"
                    <6>1. m.at \in {"escaped", "escape"}
                        BY <4>1, <5>1 DEF EscapeGoesTo
                    <6> QED BY <6>1
                <5>2. CASE l.at = "escape"
                    <6>1. r.pro + 1 <= r.tail
                        BY <5>2, GivenFacts DEF Where
                    <6> QED BY <1>1, <4>3, <6>1
                <5>3. CASE l.at \in StringAts \ {"escaped", "escape"}
                    <6>1. r.pro + 2 <= r.tail
                        BY <5>3, GivenFacts DEF Where
                    <6> QED BY <1>1, <4>3, <6>1
                <5> QED BY <2>1, <5>1, <5>2, <5>3
            <4> QED BY <1>1, <3>1, <4>1, <4>2, <4>4, <4>5, StringFine DEF next
        <3> QED BY <3>3, <3>4
    <2> QED BY <2>2, <2>3
<1>10. CASE l.at \in {"pair", "pair 2"}
    <2>1. l.at \in StringAts \ {"escaped", "escape"} /\ l.at # "string" /\ l.at \notin EscapeAts
        BY <1>10 DEF StringAts, EscapeAts
    <2>2. r.pro + 2 <= r.tail
        BY <2>1, GivenFacts DEF Where
    <2>3. q.pro + 2 <= q.tail
        BY <1>1, <1>4, <1>5, <2>2
    <2>4. ASSUME NEW m, Lexer(m), m.answer = "reading", m.at \in {"pair 2", "hex 2"}
          PROVE  Fine(m, q, g.left, s)
        <3>1. m.at \in StringAts /\ m.at # "escape"
            BY <2>4 DEF StringAts, EscapeAts
        <3> QED BY <1>1, <2>3, <2>4, <3>1, StringFine
    <2>5. CASE l.at = "pair"
        <3> DEFINE m == [To(l, "pair 2") EXCEPT !.held = c]
        <3>1. next.lx = m /\ next.rd = q
            BY <2>1, <2>5 DEF StreamString, Both
        <3>2. Lexer(m) /\ m.answer = "reading" /\ m.at = "pair 2"
            BY <1>1 DEF To, Lexer
        <3> QED BY <2>4, <3>1, <3>2
    <2>6. CASE l.at = "pair 2" /\ l.held = "\\" /\ c = "u"
        <3> DEFINE m == To(l, "hex 2")
        <3>1. next.lx = m /\ next.rd = q
            BY <2>1, <2>6 DEF StreamString, Both
        <3>2. Lexer(m) /\ m.answer = "reading" /\ m.at = "hex 2"
            BY <1>1 DEF To, Lexer
        <3> QED BY <2>4, <3>1, <3>2
    <2>7. CASE l.at = "pair 2" /\ ~(l.held = "\\" /\ c = "u") /\ config.allowInvalid
        <3> DEFINE m == Alone(l)
                   b == Backup(q)
        <3>1. next.lx = m /\ next.rd = Backup(b)
            BY <2>1, <2>7 DEF StreamString, Both
        <3>2. Lexer(m) /\ m.answer = "reading" /\ m.at = "escaped"
            BY <1>1 DEF To, Lexer, Alone
        <3> HIDE DEF m, next
        <3>3. Holds(b, g.left, s) /\ Roomy(b) /\ b.pro = q.pro /\ b.tail = q.tail - 1
            BY <1>1, <1>2, <1>3, <1>6, <2>3
        <3> HIDE DEF b
        <3>4. b.pro # Null /\ b.pro < b.tail
            BY <1>1, <1>2, <2>3, <3>3
        <3>5. Holds(Backup(b), g.left, s) /\ Backup(b).pro = b.pro
            BY <1>6, <3>3, <3>4
        <3>6. m.at \in {"string"} \cup StringAts /\ m.at # "escape" /\ m.at \notin StringAts \ {"escaped", "escape"}
            BY <3>2 DEF StringAts, EscapeAts
        <3> QED BY <1>1, <3>1, <3>2, <3>3, <3>5, <3>6, StringFine DEF next
    <2>8. CASE l.at = "pair 2" /\ ~(l.held = "\\" /\ c = "u") /\ ~config.allowInvalid
        <3>1. next.lx = Error(l) /\ next.rd = q
            BY <2>1, <2>8 DEF StreamString, Both
        <3>2. Goes(Error(l), l, {}) /\ Error(l).answer = "error"
            BY <1>1, ErrorGoes
        <3> QED BY <1>1, <3>1, <3>2, ErrorFine
    <2> QED BY <1>10, <2>5, <2>6, <2>7, <2>8
<1> QED BY <1>8, <1>9, <1>10 DEF StringAts

LEMMA SignGoes ==
    ASSUME NEW l, Lexer(l), NEW b
    PROVE  /\ Goes([To(l, "sign") EXCEPT !.ni.neg = b], l, NumberAts)
           /\ Goes([To(l, "e") EXCEPT !.ni.hasExp = b], l, NumberAts)
           /\ Goes([To(l, "exp") EXCEPT !.ni.eneg = b], l, NumberAts)
           /\ Goes(To(l, "dot"), l, NumberAts)
BY DEF To, Lexer, Goes, NumberAts

\* One more byte of a number, or one that is none.
LEMMA NumericKept ==
    ASSUME NEW l, NEW r, NEW g, NEW s, Given(l, r, g, s), r.pro # Null, NumericTo(r, s, r.pos), g.c # EOF
    PROVE  NumericTo(g.rd, s, g.rd.pos - 1) /\ (g.c \in Numeric => NumericTo(g.rd, s, g.rd.pos))
<1> DEFINE q == g.rd
<1>1. q.pos = r.pos + 1 /\ q.tail - q.pro = r.tail - r.pro + 1 /\ g.c = s[q.pos]
    BY TookFacts
<1>2. r.pro \in Int /\ r.tail \in Int /\ r.pos \in Int /\ q.pro \in Int /\ q.tail \in Int /\ q.pos \in Int
    BY GivenFacts
<1> HIDE DEF q
<1>3. q.pos - q.tail + q.pro = r.pos - r.tail + r.pro /\ q.pos - 1 = r.pos
    BY <1>1, <1>2
<1>4. NumericTo(q, s, q.pos - 1)
    BY <1>3 DEF NumericTo
<1>5. ASSUME g.c \in Numeric PROVE NumericTo(q, s, q.pos)
    <2> SUFFICES ASSUME NEW i \in Int, q.pos - q.tail + q.pro < i, i <= q.pos PROVE s[i] \in Numeric
        BY DEF NumericTo
    <2>1. CASE i = q.pos
        BY <1>1, <1>5, <2>1
    <2>2. CASE i # q.pos
        <3>1. i <= q.pos - 1
            BY <1>2, <2>2
        <3> QED BY <1>4, <3>1 DEF NumericTo
    <2> QED BY <2>1, <2>2
<1> QED BY <1>4, <1>5 DEF q

LEMMA InfinityGoes ==
    ASSUME NEW l, Lexer(l)
    PROVE  Goes(Infinity(l), l, {"word"}) /\ (Infinity(l).answer # "error" => Infinity(l).held = "nfinity")
<1>1. Infinity(l) = Expect(l, "nfinity") \/ Infinity(l) = Error(l)
    BY DEF Infinity
<1>2. Goes(Expect(l, "nfinity"), l, {"word"}) /\ Expect(l, "nfinity").held = "nfinity"
    BY ExpectGoes
<1>3. Goes(Error(l), l, {"word"}) /\ Error(l).answer = "error"
    BY ErrorGoes
<1> QED BY <1>1, <1>2, <1>3

\* A number: all that is protected is of it, and the byte after it is given back.
LEMMA StreamEndsFine ==
    ASSUME NEW l, NEW r, NEW g, NEW s, Given(l, r, g, s), r.pro # Null
    PROVE  LET next == StreamEnds(l, g.rd, g.c) IN Fine(next.lx, next.rd, g.left, s)
<1> DEFINE q == g.rd
           back == IF g.c = EOF THEN q ELSE Backup(q)
           m == NumAsValue(l, l.ni, Slice(back))
           next == StreamEnds(l, g.rd, g.c)
<1>1. next.lx = m /\ next.rd = Release(back)
    BY DEF StreamEnds, Both
<1>2. Lexer(l) /\ Text(s) /\ Holds(q, g.left, s)
    BY GivenFacts
<1>3. Holds(back, g.left, s)
    <2>1. CASE g.c = EOF
        BY <1>2, <2>1
    <2>2. CASE g.c # EOF
        <3>1. Roomy(q) /\ Returnable(q, s)
            BY <2>2, TookFacts
        <3> QED BY <1>2, <2>2, <3>1, BackupHolds
    <2> QED BY <2>1, <2>2
<1> HIDE DEF back, next
<1>4. Holds(Release(back), g.left, s) /\ Release(back).pro = Null
    BY <1>2, <1>3, ReleaseHolds
<1>5. Goes(m, l, {"token"})
    BY <1>2, NumAsValueGoes
<1> HIDE DEF m
<1>6. Goes(m, l, {"token", "word"} \cup CommentAts \cup NaNAts)
    BY <1>5 DEF Goes
<1> QED BY <1>1, <1>4, <1>6, NothingFine DEF next

LEMMA StreamNumberFine ==
    ASSUME NEW l, NEW r, NEW g, NEW s, Given(l, r, g, s), l.at \in {"first"} \cup NumberAts
    PROVE  LET next == StreamNumber(l, g.rd, g.c) IN Fine(next.lx, next.rd, g.left, s)
<1> DEFINE q == g.rd
           c == g.c
           next == StreamNumber(l, q, c)
<1>1. Lexer(l) /\ l.at \in Ats /\ l.answer = "reading" /\ Holds(q, g.left, s)
    BY GivenFacts
<1>2. r.pro # Null /\ NumericTo(r, s, r.pos) /\ q.pro # Null
    <2>1. r.pro # Null /\ NumericTo(r, s, r.pos)
        BY DEF Given, Where
    <2> QED BY <2>1, GivenFacts
\* The number goes on.
<1>3. ASSUME NEW m, c \in Numeric, Goes(m, l, NumberAts), next = Both(m, q)
      PROVE  Fine(next.lx, next.rd, g.left, s)
    <2>1. next.lx = m /\ next.rd = q
        BY <1>3 DEF Both
    <2>2. c # EOF
        BY <1>3, EndIsNone
    <2>3. NumericTo(q, s, q.pos)
        BY <1>2, <1>3, <2>2, NumericKept
    <2>4. CASE m.answer = "error"
        BY <1>1, <1>3, <2>1, <2>4, ErrorFine
    <2>5. CASE m.answer # "error"
        <3>1. Lexer(m) /\ m.answer = "reading" /\ m.at \in NumberAts
            BY <1>1, <1>3, <2>5 DEF Goes
        <3> QED BY <1>1, <1>2, <2>1, <2>3, <3>1, NumberFine
    <2> QED BY <2>4, <2>5
<1>4. CASE c \in DOMAIN NumberOf
    <2>1. next = Both(StreamDigits(l, NumberOf[c]), q)
        BY <1>4 DEF StreamNumber
    <2>2. c \in Numeric
        BY <1>4 DEF Numeric
    <2>3. Goes(StreamDigits(l, NumberOf[c]), l, NumberAts)
        BY <1>1, StreamDigitsGoes
    <2> HIDE DEF next
    <2> QED BY <1>3, <2>1, <2>2, <2>3 DEF next
<1>5. CASE c \notin DOMAIN NumberOf
    <2>1. next = StreamOther(l, q, c)
        BY <1>5 DEF StreamNumber
    <2>2. \/ c \in {"-", "+"} /\ next = Both([To(l, "sign") EXCEPT !.ni.neg = (c = "-")], q)
          \/ c = "I" /\ next = Both(Infinity(l), q)
          \/ next = Both(Error(l), q)
          \/ c = "." /\ next = Both(To(l, "dot"), q)
          \/ c = "e" /\ next = Both([To(l, "e") EXCEPT !.ni.hasExp = TRUE], q)
          \/ c \in {"-", "+"} /\ next = Both([To(l, "exp") EXCEPT !.ni.eneg = (c = "-")], q)
          \/ next = StreamEnds(l, q, c)
        BY <2>1, Zenon DEF StreamOther
    <2>3. {"-", "+", ".", "e"} \subseteq Numeric
        BY DEF Numeric
    <2>4. CASE c = "I" /\ next = Both(Infinity(l), q)
        <3> DEFINE m == Infinity(l)
        <3>1. next.lx = m /\ next.rd = q
            BY <2>4 DEF Both
        <3>2. Goes(m, l, {"word"}) /\ (m.answer # "error" => m.held = "nfinity")
            BY <1>1, InfinityGoes
        <3>3. c # EOF
            BY <2>4, EndIsNone
        <3>4. NumericTo(q, s, q.pos - 1)
            BY <1>2, <3>3, NumericKept
        <3> HIDE DEF m, next
        <3>5. CASE m.answer = "error"
            BY <1>1, <3>1, <3>2, <3>5, ErrorFine DEF next
        <3>6. CASE m.answer # "error"
            <4>1. Lexer(m) /\ m.answer = "reading" /\ m.at = "word" /\ m.held = "nfinity"
                BY <1>1, <3>2, <3>6 DEF Goes
            <4>2. m.at \notin {"string", "first", "token", "escape"} \cup StringAts \cup NumberAts \cup CommentAts \cup NaNAts
                BY <4>1 DEF StringAts, EscapeAts, NumberAts, CommentAts, NaNAts
            <4>3. Where(m, q, s)
                BY <3>4, <4>1, <4>2, Zenon DEF Where
            <4>4. m.at \in Ats
                BY <4>1 DEF Ats
            <4> QED BY <1>1, <3>1, <4>1, <4>3, <4>4 DEF Fine, next
        <3> QED BY <3>5, <3>6
    <2>5. CASE next = Both(Error(l), q)
        <3>1. next.lx = Error(l) /\ next.rd = q
            BY <2>5 DEF Both
        <3>2. Goes(Error(l), l, {}) /\ Error(l).answer = "error"
            BY <1>1, ErrorGoes
        <3> HIDE DEF next
        <3> QED BY <1>1, <3>1, <3>2, ErrorFine DEF next
    <2>6. CASE next = StreamEnds(l, q, c)
        BY <1>2, <2>6, StreamEndsFine
    <2> HIDE DEF next
    <2>7. CASE c \in {"-", "+"} /\ next = Both([To(l, "sign") EXCEPT !.ni.neg = (c = "-")], q)
        BY <1>1, <1>3, <2>3, <2>7, SignGoes DEF next
    <2>8. CASE c = "." /\ next = Both(To(l, "dot"), q)
        BY <1>1, <1>3, <2>3, <2>8, SignGoes DEF next
    <2>9. CASE c = "e" /\ next = Both([To(l, "e") EXCEPT !.ni.hasExp = TRUE], q)
        BY <1>1, <1>3, <2>3, <2>9, SignGoes DEF next
    <2>10. CASE c \in {"-", "+"} /\ next = Both([To(l, "exp") EXCEPT !.ni.eneg = (c = "-")], q)
        BY <1>1, <1>3, <2>3, <2>10, SignGoes DEF next
    <2> QED BY <2>2, <2>4, <2>5, <2>6, <2>7, <2>8, <2>9, <2>10 DEF next
<1> QED BY <1>4, <1>5

\* Comments and words, where nothing is protected but the sign of Infinity.
LEMMA StreamCommentFine ==
    ASSUME NEW l, NEW r, NEW g, NEW s, Given(l, r, g, s), l.at \in CommentAts
    PROVE  LET next == StreamComment(l, g.rd, g.c) IN Fine(next.lx, next.rd, g.left, s)
<1> DEFINE next == StreamComment(l, g.rd, g.c)
           ats == {"token", "word"} \cup CommentAts \cup NaNAts
<1>1. Lexer(l) /\ l.at \in Ats /\ l.answer = "reading" /\ Holds(g.rd, g.left, s) /\ g.rd.pro = Null
    BY GivenFacts DEF Where
<1>2. next.rd = g.rd /\ next.lx \in {To(l, "block"), To(l, "line"), To(l, "block *"), l, Error(l), Emit(l, <<"comment">>)}
    BY DEF StreamComment, Both
<1>3. {"block", "line", "block *", "token"} \subseteq ats /\ l.at \in ats
    BY DEF CommentAts
<1> HIDE DEF next, ats
<1>4. Goes(l, l, ats)
    BY <1>1, <1>3 DEF Goes
<1>5. Goes(Emit(l, <<"comment">>), l, ats) /\ Goes(Error(l), l, ats)
    BY <1>1, <1>3, EmitGoes, ErrorGoes
<1>6. Goes(To(l, "block"), l, ats) /\ Goes(To(l, "line"), l, ats) /\ Goes(To(l, "block *"), l, ats)
    BY <1>1, <1>3, ToGoes
<1>7. Goes(next.lx, l, ats)
    BY <1>2, <1>4, <1>5, <1>6
<1> QED BY <1>1, <1>2, <1>7, NothingFine DEF ats, next

LEMMA StreamWordFine ==
    ASSUME NEW l, NEW r, NEW g, NEW s, Given(l, r, g, s), l.at \in {"word"} \cup NaNAts
    PROVE  LET next == StreamWord(l, g.rd, g.c) IN Fine(next.lx, next.rd, g.left, s)
<1> DEFINE next == StreamWord(l, g.rd, g.c)
           ats == {"token", "word"} \cup CommentAts \cup NaNAts
<1>1. Lexer(l) /\ l.at \in Ats /\ l.answer = "reading" /\ Holds(g.rd, g.left, s) /\ Where(l, r, s) /\ Text(s)
      /\ (g.rd.pro = Null <=> r.pro = Null)
    BY GivenFacts
<1>2. CASE l.at = "word"
    <2> DEFINE q == IF l.held = "nfinity" THEN Release(g.rd) ELSE g.rd
               m == Word(l, g.c)
    <2>1. next.lx = m /\ next.rd = q
        BY <1>2 DEF StreamWord, Both
    <2>2. m \in {Emit(l, <<"word", g.c, l.ni.neg>>), Error(l)}
        BY DEF Word
    <2> HIDE DEF m
    <2>3. Goes(m, l, ats)
        BY <1>1, <2>2, EmitGoes, ErrorGoes
    <2>4. Holds(q, g.left, s) /\ q.pro = Null
        <3>1. CASE l.held = "nfinity"
            BY <1>1, <3>1, ReleaseHolds
        <3>2. CASE l.held # "nfinity"
            BY <1>1, <1>2, <3>2 DEF Where
        <3> QED BY <3>1, <3>2
    <2> HIDE DEF q, next
    <2> QED BY <2>1, <2>3, <2>4, NothingFine DEF next
<1>3. CASE l.at \in NaNAts
    <2>1. l.at # "word"
        BY <1>3 DEF NaNAts
    <2>2. next.lx = NaN(l, g.c) /\ next.rd = g.rd
        BY <2>1 DEF StreamWord, Both
    <2>3. g.rd.pro = Null
        BY <1>1, <1>3 DEF Where
    <2>4. Goes(NaN(l, g.c), l, {"token", "word"} \cup NaNAts)
        BY <1>1, <1>3, NaNGoes
    <2>5. Goes(NaN(l, g.c), l, ats)
        BY <2>4 DEF Goes
    <2> HIDE DEF next
    <2> QED BY <1>1, <2>2, <2>3, <2>5, NothingFine DEF next
<1> QED BY <1>2, <1>3

-----------------------------------------------------------------------------
(* A source that is read in place stays so.                                  *)

LEMMA PlaceKept ==
    ASSUME NEW q, q \in Readers, NEW b,
           b \in {q, Backup(q), Backup(Backup(q)), Protect(q), Protect(Backup(q)), Release(q), Release(Backup(q))}
    PROVE  b.inPlace = q.inPlace
<1>1. ASSUME NEW a, a \in Readers
      PROVE  /\ Backup(a).inPlace = a.inPlace /\ Backup(a) \in Readers
             /\ Protect(a).inPlace = a.inPlace /\ Release(a).inPlace = a.inPlace
    <2>1. a.tail - 1 \in Int /\ a.pos - 1 \in Int /\ a.tail \in Int /\ Null \in Int
        BY <1>1, ReaderFields DEF Null
    <2>2. Backup(a).inPlace = a.inPlace /\ Backup(a) \in Readers
        <3> DEFINE q0 == Backup(a)
        <3>1. /\ q0.mem = a.mem /\ q0.end = a.end /\ q0.tail = a.tail - 1 /\ q0.readEnd = a.readEnd /\ q0.pro = a.pro
              /\ q0.str = a.str /\ q0.pos = a.pos - 1 /\ q0.inPlace = a.inPlace /\ q0 \in Readers
            BY <1>1, <2>1, SetTail DEF Backup
        <3> QED BY <3>1
    <2>3. Protect(a).inPlace = a.inPlace
        BY <1>1, <2>1, SetString DEF Protect
    <2>4. Release(a).inPlace = a.inPlace
        BY <1>1, <2>1, SetPro DEF Release
    <2> QED BY <2>2, <2>3, <2>4
<1> QED BY <1>1

ReadersOf(q) == {q, Backup(q), Backup(Backup(q)), Protect(q), Protect(Backup(q)), Release(q), Release(Backup(q))}

\* What each function does with the reader.
LEMMA TokenReader ==
    ASSUME NEW l, NEW q, NEW c
    PROVE  StreamToken(l, q, c).rd \in ReadersOf(q)
BY DEF StreamToken, ReadersOf, Both

LEMMA StringReader ==
    ASSUME NEW l, NEW q, NEW c, l.at \in {"string"} \cup StringAts
    PROVE  StreamString(l, q, c).rd \in ReadersOf(q)
<1>1. CASE l.at = "string"
    <2>1. l.at \notin EscapeAts
        BY <1>1 DEF EscapeAts
    <2> QED BY <1>1, <2>1 DEF StreamString, ReadersOf, Both
<1>2. CASE l.at \in EscapeAts
    <2>1. l.at # "string" /\ l.at # "pair" /\ l.at # "pair 2"
        BY <1>2 DEF EscapeAts
    <2>2. \E m : StreamString(l, q, c) = Both(m, q) \/ StreamString(l, q, c) = Both(m, Release(q))
        BY <1>2, <2>1, Zenon DEF StreamString
    <2> QED BY <2>2 DEF ReadersOf, Both
<1>3. CASE l.at \in {"pair", "pair 2"}
    <2>1. l.at \notin EscapeAts /\ l.at # "string"
        BY <1>3 DEF EscapeAts
    <2> QED BY <1>3, <2>1 DEF StreamString, ReadersOf, Both
<1> QED BY <1>1, <1>2, <1>3 DEF StringAts

LEMMA NumberReader ==
    ASSUME NEW l, NEW q, NEW c
    PROVE  StreamNumber(l, q, c).rd \in ReadersOf(q)
<1>1. StreamEnds(l, q, c).rd \in ReadersOf(q)
    BY DEF StreamEnds, ReadersOf, Both
<1>2. StreamOther(l, q, c) = StreamEnds(l, q, c) \/ \E m : StreamOther(l, q, c) = Both(m, q)
    BY Zenon DEF StreamOther
<1>3. StreamNumber(l, q, c) = StreamOther(l, q, c) \/ \E m : StreamNumber(l, q, c) = Both(m, q)
    BY Zenon DEF StreamNumber
<1> QED BY <1>1, <1>2, <1>3 DEF ReadersOf, Both

LEMMA CommentReader ==
    ASSUME NEW l, NEW q, NEW c
    PROVE  StreamComment(l, q, c).rd \in ReadersOf(q)
BY DEF StreamComment, ReadersOf, Both

LEMMA WordReader ==
    ASSUME NEW l, NEW q, NEW c
    PROVE  StreamWord(l, q, c).rd \in ReadersOf(q)
BY DEF StreamWord, ReadersOf, Both

-----------------------------------------------------------------------------
(* The invariant.  A byte beyond the buffer ends the reading.                *)

MirrorInvariant ==
    /\ Text(text)
    /\ Lexer(lx) /\ lx.at \in Ats
    /\ IF lx.answer = Beyond THEN Sound(rd, text) /\ FillsBuffer
       ELSE Fine(lx, rd, left, text) /\ rd.inPlace = config.inPlace

\* Only a number that fills the buffer is read beyond it.
LEMMA OverranFills ==
    ASSUME NEW g, Text(text), Fine(lx, rd, left, text), lx.answer = "reading", Overran(g, rd, text),
           rd.inPlace = config.inPlace, ReaderAssumption
    PROVE  FillsBuffer
<1> DEFINE i == rd.pos - rd.tail + 1
           run == SubSeq(text, i, i + Base - 2)
<1>1. Where(lx, rd, text) /\ Holds(rd, left, text) /\ lx.at \in Ats
    BY DEF Fine
<1>2. rd \in Readers /\ rd.pos \in Int /\ rd.tail \in Int /\ rd.pos <= Len(text) /\ Len(text) \in Nat
    BY <1>1, ReaderFields, TextBytes DEF Holds, Sound
<1>3. rd.pro = 0 /\ Base <= rd.tail /\ ~rd.inPlace /\ Base \in Nat \ {0} /\ Null = -1
    BY DEF Overran, ReaderAssumption, Null
<1>4. 0 <= rd.pos - rd.tail
    <2>1. 0 <= rd.pos - rd.tail + From(rd) /\ From(rd) = 0
        BY <1>1, <1>3 DEF Holds, From
    <2> QED BY <1>2, <2>1
<1>5. NumericTo(rd, text, rd.pos - 1)
    <2>1. lx.at \notin {"string", "token"} \cup StringAts \cup CommentAts \cup NaNAts
        BY <1>1, <1>3 DEF Where
    <2>2. CASE lx.at = "word"
        BY <1>1, <1>3, <2>2 DEF Where
    <2>3. CASE lx.at \in {"first"} \cup NumberAts
        <3>1. NumericTo(rd, text, rd.pos)
            BY <1>1, <2>3 DEF Where
        <3> QED BY <1>2, <3>1 DEF NumericTo
    <2> QED BY <1>1, <2>1, <2>2, <2>3 DEF Ats
<1>6. i \in Int /\ i \in 1..(Len(text) - Base + 2) /\ i + Base - 2 <= Len(text) /\ i + Base - 2 <= rd.pos - 1
    <2>1. /\ rd.pos \in Int /\ rd.tail \in Int /\ Base \in Int /\ Len(text) \in Int /\ i = rd.pos - rd.tail + 1
          /\ 0 <= rd.pos - rd.tail /\ rd.pos <= Len(text) /\ Base <= rd.tail
        BY <1>2, <1>3, <1>4
    <2> HIDE DEF i, run
    <2>2. i \in Int /\ 1 <= i /\ i + Base - 2 <= rd.pos - 1 /\ rd.pos - 1 <= Len(text)
        BY ONLY <2>1
    <2>3. i <= Len(text) - Base + 2 /\ i + Base - 2 <= Len(text)
        BY ONLY <2>1, <2>2
    <2> QED BY ONLY <2>1, <2>2, <2>3
<1>7. \A j \in Int : i <= j /\ j <= i + Base - 2 => text[j] \in Numeric
    <2> SUFFICES ASSUME NEW j \in Int, i <= j, j <= i + Base - 2 PROVE text[j] \in Numeric
        OBVIOUS
    <2>1. rd.pos - rd.tail + rd.pro < j /\ j <= rd.pos - 1
        BY <1>2, <1>3, <1>6
    <2> QED BY <1>5, <2>1 DEF NumericTo
<1> HIDE DEF i
<1>8. ToSet(run) \subseteq Numeric
    <2>1. \A j \in DOMAIN run : i <= i + j - 1 /\ i + j - 1 <= i + Base - 2 /\ run[j] = text[i + j - 1] /\ i + j - 1 \in Int
        <3>1. text \in Seq(Symbols)
            BY DEF Text
        <3>2. i \in Int /\ 1 <= i /\ i + Base - 2 \in Int /\ i + Base - 2 <= Len(text)
            BY <1>3, <1>6
        <3> DEFINE e == i + Base - 2
        <3> HIDE DEF e
        <3>3. DOMAIN SubSeq(text, i, e) = 1..Len(SubSeq(text, i, e))
              /\ \A j \in 1..Len(SubSeq(text, i, e)) : i <= i + j - 1 /\ i + j - 1 <= e /\ SubSeq(text, i, e)[j] = text[i + j - 1]
                                                       /\ i + j - 1 \in Int
            BY <3>1, <3>2 DEF e
        <3> QED BY <3>3 DEF e
    <2>2. \A j \in DOMAIN run : run[j] \in Numeric
        BY <1>7, <2>1
    <2> QED BY <2>2 DEF ToSet
<1> QED BY <1>3, <1>6, <1>8 DEF FillsBuffer

\* What becomes of the invariant when a function that keeps to it takes a byte.
LEMMA ByteTaken ==
    ASSUME MirrorInvariant, ReaderAssumption, lx.answer = "reading", NEW g \in Gets, NEW next,
           left' = g.left, lx' = next.lx, rd' = next.rd, UNCHANGED <<config, text>>,
           g.c = Beyond => next = Both([lx EXCEPT !.answer = Beyond], g.rd),
           g.c # Beyond /\ Given(lx, rd, g, text) => Fine(next.lx, next.rd, g.left, text) /\ next.rd \in ReadersOf(g.rd)
    PROVE  MirrorInvariant'
<1>1. /\ Text(text) /\ Lexer(lx) /\ lx.at \in Ats /\ Fine(lx, rd, left, text) /\ rd.inPlace = config.inPlace
      /\ Holds(rd, left, text) /\ Where(lx, rd, text) /\ Sound(rd, text)
    <2>1. lx.answer # Beyond
        BY DEF Beyond
    <2>2. Text(text) /\ Lexer(lx) /\ lx.at \in Ats /\ Fine(lx, rd, left, text) /\ rd.inPlace = config.inPlace
        BY <2>1 DEF MirrorInvariant
    <2> QED BY <2>2 DEF Fine, Holds
<1>2. Took(g, rd, text) \/ Ended(g, rd, text) \/ Overran(g, rd, text)
    BY <1>1, GetsOne
<1>3. text' = text /\ config' = config
    OBVIOUS
<1>4. CASE g.c = Beyond
    <2>1. Overran(g, rd, text)
        <3>1. ~Ended(g, rd, text)
            BY <1>4, EndIsNone DEF Ended
        <3>2. ~Took(g, rd, text)
            <4>1. g.rd.pos \in DOMAIN text => text[g.rd.pos] # Beyond
                BY <1>1, TextBytes
            <4> QED BY <1>4, <4>1 DEF Took
        <3> QED BY <1>2, <3>1, <3>2
    <2>2. FillsBuffer
        BY <1>1, <2>1, OverranFills
    <2>3. FillsBuffer'
        BY <2>2, <1>3 DEF FillsBuffer
    <2> DEFINE m == [lx EXCEPT !.answer = Beyond]
    <2>4. Lexer(m) /\ m.answer = Beyond /\ m.at = lx.at
        BY <1>1, AnswerGoes
    <2> HIDE DEF m
    <2>5. lx' = m /\ rd' = g.rd
        BY <1>4 DEF Both, m
    <2>6. Sound(rd', text') /\ Text(text') /\ Lexer(lx') /\ lx'.at \in Ats /\ lx'.answer = Beyond
        BY <1>1, <1>3, <2>1, <2>4, <2>5 DEF Overran
    <2> QED BY <2>3, <2>6 DEF MirrorInvariant
<1>5. CASE g.c # Beyond
    <2>1. ~Overran(g, rd, text)
        BY <1>5 DEF Overran
    <2>2. Given(lx, rd, g, text)
        BY <1>1, <1>2, <2>1 DEF Given
    <2>3. Fine(next.lx, next.rd, g.left, text) /\ next.rd \in ReadersOf(g.rd)
        BY <1>5, <2>2
    <2>4. Holds(g.rd, g.left, text) /\ g.rd.inPlace = rd.inPlace
        BY <1>2, <2>1 DEF Took, Ended, Kin
    <2>5. next.rd.inPlace = g.rd.inPlace
        <3>1. g.rd \in Readers
            BY <2>4 DEF Holds, Sound
        <3> QED BY <2>3, <3>1, PlaceKept DEF ReadersOf
    <2>6. Fine(lx', rd', left', text') /\ rd'.inPlace = config'.inPlace
        BY <1>1, <1>3, <2>3, <2>4, <2>5
    <2>7. lx'.answer # Beyond /\ Lexer(lx') /\ lx'.at \in Ats
        BY <2>6 DEF Fine, Beyond
    <2> QED BY <1>1, <1>3, <2>6, <2>7 DEF MirrorInvariant
<1> QED BY <1>4, <1>5

\* The five actions.
LEMMA TokenStep == ASSUME MirrorInvariant, ReaderAssumption, ReadToken PROVE MirrorInvariant'
<1>1. PICK g \in Gets :
          LET next == IF g.c = Beyond THEN Both([lx EXCEPT !.answer = Beyond], g.rd) ELSE StreamToken(lx, g.rd, g.c)
          IN  left' = g.left /\ lx' = next.lx /\ rd' = next.rd
    BY DEF ReadToken, Reads
<1>2. lx.answer = "reading" /\ lx.at = "token" /\ UNCHANGED <<config, text>>
    BY DEF ReadToken, Reads
<1> DEFINE next == IF g.c = Beyond THEN Both([lx EXCEPT !.answer = Beyond], g.rd) ELSE StreamToken(lx, g.rd, g.c)
<1>3. g.c # Beyond /\ Given(lx, rd, g, text) => Fine(next.lx, next.rd, g.left, text) /\ next.rd \in ReadersOf(g.rd)
    BY <1>2, StreamTokenFine, TokenReader
<1>4. g.c = Beyond => next = Both([lx EXCEPT !.answer = Beyond], g.rd)
    OBVIOUS
<1>5. left' = g.left /\ lx' = next.lx /\ rd' = next.rd
    BY <1>1
<1> HIDE DEF next
<1> QED BY <1>2, <1>3, <1>4, <1>5, ByteTaken

LEMMA StringStep == ASSUME MirrorInvariant, ReaderAssumption, ReadString PROVE MirrorInvariant'
<1>1. PICK g \in Gets :
          LET next == IF g.c = Beyond THEN Both([lx EXCEPT !.answer = Beyond], g.rd) ELSE StreamString(lx, g.rd, g.c)
          IN  left' = g.left /\ lx' = next.lx /\ rd' = next.rd
    BY DEF ReadString, Reads
<1>2. lx.answer = "reading" /\ lx.at \in {"string"} \cup StringAts /\ UNCHANGED <<config, text>>
    BY DEF ReadString, Reads
<1> DEFINE next == IF g.c = Beyond THEN Both([lx EXCEPT !.answer = Beyond], g.rd) ELSE StreamString(lx, g.rd, g.c)
<1>3. g.c # Beyond /\ Given(lx, rd, g, text) => Fine(next.lx, next.rd, g.left, text) /\ next.rd \in ReadersOf(g.rd)
    BY <1>2, StreamStringFine, StringReader
<1>4. g.c = Beyond => next = Both([lx EXCEPT !.answer = Beyond], g.rd)
    OBVIOUS
<1>5. left' = g.left /\ lx' = next.lx /\ rd' = next.rd
    BY <1>1
<1> HIDE DEF next
<1> QED BY <1>2, <1>3, <1>4, <1>5, ByteTaken

LEMMA NumberStep == ASSUME MirrorInvariant, ReaderAssumption, ReadNumber PROVE MirrorInvariant'
<1>1. PICK g \in Gets :
          LET next == IF g.c = Beyond THEN Both([lx EXCEPT !.answer = Beyond], g.rd) ELSE StreamNumber(lx, g.rd, g.c)
          IN  left' = g.left /\ lx' = next.lx /\ rd' = next.rd
    BY DEF ReadNumber, Reads
<1>2. lx.answer = "reading" /\ lx.at \in {"first"} \cup NumberAts /\ UNCHANGED <<config, text>>
    BY DEF ReadNumber, Reads
<1> DEFINE next == IF g.c = Beyond THEN Both([lx EXCEPT !.answer = Beyond], g.rd) ELSE StreamNumber(lx, g.rd, g.c)
<1>3. g.c # Beyond /\ Given(lx, rd, g, text) => Fine(next.lx, next.rd, g.left, text) /\ next.rd \in ReadersOf(g.rd)
    BY <1>2, StreamNumberFine, NumberReader
<1>4. g.c = Beyond => next = Both([lx EXCEPT !.answer = Beyond], g.rd)
    OBVIOUS
<1>5. left' = g.left /\ lx' = next.lx /\ rd' = next.rd
    BY <1>1
<1> HIDE DEF next
<1> QED BY <1>2, <1>3, <1>4, <1>5, ByteTaken

LEMMA CommentStep == ASSUME MirrorInvariant, ReaderAssumption, ReadComment PROVE MirrorInvariant'
<1>1. PICK g \in Gets :
          LET next == IF g.c = Beyond THEN Both([lx EXCEPT !.answer = Beyond], g.rd) ELSE StreamComment(lx, g.rd, g.c)
          IN  left' = g.left /\ lx' = next.lx /\ rd' = next.rd
    BY DEF ReadComment, Reads
<1>2. lx.answer = "reading" /\ lx.at \in CommentAts /\ UNCHANGED <<config, text>>
    BY DEF ReadComment, Reads
<1> DEFINE next == IF g.c = Beyond THEN Both([lx EXCEPT !.answer = Beyond], g.rd) ELSE StreamComment(lx, g.rd, g.c)
<1>3. g.c # Beyond /\ Given(lx, rd, g, text) => Fine(next.lx, next.rd, g.left, text) /\ next.rd \in ReadersOf(g.rd)
    BY <1>2, StreamCommentFine, CommentReader
<1>4. g.c = Beyond => next = Both([lx EXCEPT !.answer = Beyond], g.rd)
    OBVIOUS
<1>5. left' = g.left /\ lx' = next.lx /\ rd' = next.rd
    BY <1>1
<1> HIDE DEF next
<1> QED BY <1>2, <1>3, <1>4, <1>5, ByteTaken

LEMMA WordStep == ASSUME MirrorInvariant, ReaderAssumption, ReadWord PROVE MirrorInvariant'
<1>1. PICK g \in Gets :
          LET next == IF g.c = Beyond THEN Both([lx EXCEPT !.answer = Beyond], g.rd) ELSE StreamWord(lx, g.rd, g.c)
          IN  left' = g.left /\ lx' = next.lx /\ rd' = next.rd
    BY DEF ReadWord, Reads
<1>2. lx.answer = "reading" /\ lx.at \in {"word"} \cup NaNAts /\ UNCHANGED <<config, text>>
    BY DEF ReadWord, Reads
<1> DEFINE next == IF g.c = Beyond THEN Both([lx EXCEPT !.answer = Beyond], g.rd) ELSE StreamWord(lx, g.rd, g.c)
<1>3. g.c # Beyond /\ Given(lx, rd, g, text) => Fine(next.lx, next.rd, g.left, text) /\ next.rd \in ReadersOf(g.rd)
    BY <1>2, StreamWordFine, WordReader
<1>4. g.c = Beyond => next = Both([lx EXCEPT !.answer = Beyond], g.rd)
    OBVIOUS
<1>5. left' = g.left /\ lx' = next.lx /\ rd' = next.rd
    BY <1>1
<1> HIDE DEF next
<1> QED BY <1>2, <1>3, <1>4, <1>5, ByteTaken

-----------------------------------------------------------------------------
(* The theorem.                                                              *)

\* The reader has all of a string, and nothing of a stream.
LEMMA ReaderStarts ==
    ASSUME NEW s, Text(s), NEW inPlace \in BOOLEAN, ReaderAssumption
    PROVE  LET r == ReaderOf(inPlace, s) IN
              /\ Holds(r, IF inPlace THEN <<>> ELSE s, s) /\ r.pro = Null /\ r.inPlace = inPlace
<1> DEFINE r == ReaderOf(inPlace, s)
<1>1. s \in Seq(Bytes) /\ Len(s) \in Nat /\ DOMAIN s = 1..Len(s) /\ \A i \in 1..Len(s) : s[i] \in ToSet(s)
    BY TextBytes
<1>2. Base \in Nat \ {0} /\ Pad \in Nat \ {0, 1} /\ Null = -1 /\ EOF \in Bytes
    BY DEF ReaderAssumption, Null, Bytes
<1>3. /\ r.mem = (IF inPlace THEN Append(s, EOF) ELSE Blank(Base + Pad)) /\ r.end = Base /\ r.tail = 0
      /\ r.readEnd = (IF inPlace THEN Len(s) ELSE 0) /\ r.pro = Null /\ r.str = 0 /\ r.pos = 0 /\ r.inPlace = inPlace
    BY DEF ReaderOf
<1>4. r.mem \in Seq(Bytes) /\ \A i \in DOMAIN r.mem : r.mem[i] \in ToSet(s) \cup {EOF, Junk}
    <2>1. CASE inPlace
        <3>1. /\ Append(s, EOF) \in Seq(Bytes) /\ DOMAIN Append(s, EOF) = 1..(Len(s) + 1)
              /\ \A i \in 1..(Len(s) + 1) : Append(s, EOF)[i] = IF i = Len(s) + 1 THEN EOF ELSE s[i]
            BY <1>1, <1>2
        <3>2. \A i \in 1..(Len(s) + 1) : i = Len(s) + 1 \/ i \in 1..Len(s)
            BY <1>1
        <3> QED BY <1>1, <1>3, <2>1, <3>1, <3>2
    <2>2. CASE ~inPlace
        <3>1. Base + Pad \in Nat
            BY <1>2
        <3>2. DOMAIN Blank(Base + Pad) = 1..(Base + Pad)
            BY DEF Blank
        <3> QED BY <1>3, <2>2, <3>1, <3>2, BlankSeq
    <2> QED BY <2>1, <2>2
<1>5. r \in Readers
    BY <1>1, <1>2, <1>3, <1>4 DEF ReaderOf, Readers
<1> HIDE DEF r
<1>6. Sound(r, s)
    BY <1>1, <1>2, <1>3, <1>4, <1>5 DEF Sound
<1>7. From(r) = 0
    BY <1>3 DEF From
<1>8. Copied(r, s)
    <2>1. CASE inPlace
        <3> SUFFICES ASSUME NEW i \in Int, 0 < i, i <= Len(s)
                     PROVE  i \in DOMAIN r.mem /\ 0 - 0 + i \in DOMAIN s /\ r.mem[i] = s[0 - 0 + i]
            BY <1>3, <1>7, <2>1 DEF Copied
        <3> QED BY <1>1, <1>2, <1>3, <2>1
    <2>2. CASE ~inPlace
        BY <1>3, <1>7, <2>2 DEF Copied
    <2> QED BY <2>1, <2>2
<1>9. ASSUME inPlace PROVE Holds(r, <<>>, s)
    <2>1. InPlace(r, s)
        BY <1>3, <1>9 DEF InPlace
    <2> QED BY <1>1, <1>3, <1>6, <1>7, <1>8, <1>9, <2>1 DEF Holds
<1>10. ASSUME ~inPlace PROVE Holds(r, s, s)
    <2>1. Len(r.mem) = r.end + Pad
        BY <1>2, <1>3, <1>10, BlankSeq
    <2>2. Roomy(r)
        BY <1>2, <1>3, <1>10 DEF Roomy
    <2>3. 0 - 0 + 0 + Len(s) = Len(s) /\ \A j \in 1..Len(s) : 0 - 0 + 0 + j = j
        BY <1>1
    <2>4. Streamed(r, s, s)
        BY <1>1, <1>2, <1>3, <1>10, <2>1, <2>2, <2>3 DEF Streamed
    <2> QED BY <1>1, <1>3, <1>6, <1>7, <1>8, <1>10, <2>4 DEF Holds
<1> QED BY <1>3, <1>9, <1>10 DEF r

\* The invariant holds to begin with, at every step, and says what Mirror does.
LEMMA MirrorStarts == ASSUME LexemesAssumption, ReaderAssumption, Init PROVE MirrorInvariant
<1>1. PICK topic \in Topics : config = topic.config /\ text \in topic.texts
    BY DEF Init
<1>2. Text(text) /\ config.inPlace \in BOOLEAN
    <2>1. topic.config \in Configs /\ topic.texts \subseteq Seq(Symbols)
        BY DEF LexemesAssumption
    <2> QED BY <1>1, <2>1 DEF Text, Configs
<1>3. rd = ReaderOf(config.inPlace, text) /\ left = (IF config.inPlace THEN <<>> ELSE text) /\ lx = Idle
    BY DEF Init
<1>4. Holds(rd, left, text) /\ rd.pro = Null /\ rd.inPlace = config.inPlace
    BY <1>2, <1>3, ReaderStarts
<1>5. Lexer(lx) /\ lx.at = "token" /\ lx.answer = "reading"
    BY <1>3 DEF Idle, Lexer
<1>6. Where(lx, rd, text)
    BY <1>4, <1>5 DEF Where, StringAts, EscapeAts, NumberAts
<1>7. Fine(lx, rd, left, text) /\ lx.at \in Ats
    BY <1>4, <1>5, <1>6 DEF Fine, Ats
<1> QED BY <1>2, <1>4, <1>5, <1>7 DEF MirrorInvariant, Beyond

LEMMA MirrorStays == ASSUME ReaderAssumption, MirrorInvariant, [Next]_vars PROVE MirrorInvariant'
<1>1. CASE UNCHANGED vars
    BY <1>1 DEF MirrorInvariant, FillsBuffer, vars
<1>2. CASE ReadToken
    BY <1>2, TokenStep
<1>3. CASE ReadString
    BY <1>3, StringStep
<1>4. CASE ReadNumber
    BY <1>4, NumberStep
<1>5. CASE ReadComment
    BY <1>5, CommentStep
<1>6. CASE ReadWord
    BY <1>6, WordStep
<1>7. CASE Over
    BY <1>1, <1>7 DEF Over
<1> QED BY <1>1, <1>2, <1>3, <1>4, <1>5, <1>6, <1>7 DEF Next

LEMMA MirrorHolds == ASSUME ReaderAssumption, MirrorInvariant PROVE Mirror
<1>1. Text(text) /\ Lexer(lx) /\ lx.at \in Ats
    BY DEF MirrorInvariant
<1>2. Sound(rd, text) /\ lx.answer \in {"reading", "done", "error", Beyond}
    BY DEF MirrorInvariant, Fine, Holds
<1>3. /\ rd \in Readers /\ rd.tail \in Int /\ rd.pos \in Int /\ rd.pro \in Int /\ rd.readEnd \in Int /\ rd.end \in Int
      /\ rd.pro = Null \/ (0 <= rd.pro /\ rd.pro <= rd.tail /\ rd.str = rd.pro)
      /\ 0 <= rd.tail /\ 0 <= rd.pos /\ rd.pos <= Len(text) /\ Len(text) \in Nat
      /\ rd.mem \in Seq(Bytes) /\ Null = -1
    BY <1>1, <1>2, ReaderFields, TextBytes DEF Sound, Null
<1>4. lx.answer # Beyond => Fine(lx, rd, left, text)
    BY DEF MirrorInvariant
<1>5. lx.answer = "reading" => Holds(rd, left, text) /\ Where(lx, rd, text)
    BY <1>4 DEF Fine, Beyond
<1>6. TypeOK
    <2>1. ToSet(lx.raw) \cup ToSet(rd.mem) \subseteq ToSet(text) \cup {EOF, Junk}
        <3>1. ToSet(lx.raw) = {}
            BY <1>1 DEF Lexer, ToSet
        <3>2. ToSet(rd.mem) \subseteq ToSet(text) \cup {EOF, Junk}
            BY <1>2 DEF Sound, ToSet
        <3> QED BY <3>1, <3>2
    <2>2. rd.pro \in {Null} \cup 0..rd.tail /\ rd.pos \in 0..Len(text)
        BY <1>3
    <2>3. lx.answer = "reading" /\ lx.at \in NumberAts \cup StringAts \cup {"first", "string"} => rd.pro # Null
        BY <1>3, <1>5 DEF Where
    <2>4. lx.at \in {"token", "string", "first", "word"} \cup StringAts \cup NumberAts \cup CommentAts \cup NaNAts
        BY <1>1 DEF Ats
    <2> QED BY <1>2, <2>1, <2>2, <2>3, <2>4 DEF TypeOK
<1>7. Mirrored
    <2> SUFFICES ASSUME lx.answer = "reading" PROVE Mirrors(text)
        BY DEF Mirrored
    <2>1. Copied(rd, text)
        BY <1>5 DEF Holds
    <2>2. (IF rd.pro = Null THEN rd.tail ELSE rd.str) = From(rd) /\ From(rd) \in Int
        BY <1>3 DEF From
    <2>3. \A i \in (From(rd) + 1)..rd.readEnd : i \in Int /\ From(rd) < i /\ i <= rd.readEnd
        BY <1>3, <2>2
    <2>4. \A i \in (From(rd) + 1)..rd.readEnd :
              /\ i \in DOMAIN rd.mem /\ rd.pos - rd.tail + i \in DOMAIN text
              /\ rd.mem[i] = text[rd.pos - rd.tail + i]
        BY <2>1, <2>3 DEF Copied
    <2> QED BY <2>2, <2>4 DEF Mirrors
<1>8. InBounds
    <2>1. CASE lx.answer = Beyond
        BY <2>1 DEF InBounds, MirrorInvariant
    <2>2. CASE lx.answer # Beyond
        <3>1. Holds(rd, left, text)
            BY <1>4, <2>2 DEF Fine
        <3>2. rd.readEnd < Len(rd.mem)
            <4>1. CASE rd.inPlace
                <5>1. rd.mem = Append(text, EOF) /\ rd.readEnd = Len(text)
                    BY <3>1, <4>1 DEF Holds, InPlace
                <5>2. Len(Append(text, EOF)) = Len(text) + 1
                    BY <1>1, TextBytes
                <5> QED BY <1>3, <5>1, <5>2
            <4>2. CASE ~rd.inPlace
                <5>1. Len(rd.mem) = rd.end + Pad /\ (rd.readEnd <= rd.end \/ rd.readEnd = rd.end + 1)
                    BY <3>1, <4>2 DEF Holds, Streamed, Roomy, MovedUp
                <5>2. Pad \in Nat \ {0, 1}
                    BY DEF ReaderAssumption
                <5> QED BY <1>3, <5>1, <5>2
            <4> QED BY <4>1, <4>2
        <3>3. 0 <= rd.tail /\ rd.tail <= rd.readEnd
            BY <1>3, <3>1 DEF Holds
        <3> QED BY <2>2, <3>2, <3>3 DEF InBounds, InBuffer
    <2> QED BY <2>1, <2>2
<1> QED BY <1>6, <1>7, <1>8 DEF Mirror

\* Whatever a source gives oj_reader_read at a time, and wherever the buffer of reader.c
\* is grown or slides, a byte that is being read or that follows is the one of the
\* source, and tail and read_end stay within the buffer.  Only a number that fills the
\* buffer from its first byte on reads beyond it.  For every text, every size of the
\* buffer, and all options.
THEOREM MirrorAlways == Spec => []Mirror
<1>1. Init => MirrorInvariant
    BY LexemesAssumption, ReaderAssumption, MirrorStarts
<1>2. MirrorInvariant /\ [Next]_vars => MirrorInvariant'
    BY ReaderAssumption, MirrorStays
<1>3. MirrorInvariant => Mirror
    BY ReaderAssumption, MirrorHolds
<1> QED BY <1>1, <1>2, <1>3, PTL DEF Spec
=============================================================================
