------------------------------- MODULE Output -------------------------------
(* A text is dumped, and the document written to a file or to a descriptor    *)
(* that takes it in parts (oj_write_obj_to_file and oj_write_obj_to_stream).  *)
EXTENDS Escape

CONSTANTS
    Texts,       \* what is dumped
    Streamed,    \* the documents that are then written
    MaxAgain     \* bound: how often a descriptor is not ready

ASSUME OutputAssumption == Texts \subseteq Seq(Byte) /\ MaxAgain \in Nat

VARIABLES
    text,
    options,     \* the escape mode and whether null bytes are left out; object mode; a Symbol
    literal,     \* what DumpText made of it
    phase,
    total,       \* how much of the document the loop takes as written
    sent,        \* what was
    again,       \* how often write() had to be called again
    lost         \* fclose could not write what the library had taken

vars == <<text, options, literal, phase, total, sent, again, lost>>

OptionSets == {o \in [mode : Modes, omitNull : BOOLEAN, object : BOOLEAN, symbol : BOOLEAN] :
                  o.symbol => o.object}
NoOptions == [mode |-> "JSONEsc", omitNull |-> FALSE, object |-> FALSE, symbol |-> FALSE]
Doc  == literal.out
Size == Len(Doc)

-----------------------------------------------------------------------------

Dump ==
    /\ phase = "new"
    /\ \E o \in OptionSets:
        /\ options' = o
        /\ literal' = DumpText(o, text)
        /\ phase' = IF literal'.raised THEN "raised" ELSE "dumped"
    /\ UNCHANGED <<text, total, sent, again, lost>>

Open(sink) ==
    /\ phase = "dumped" /\ Doc \in Streamed
    /\ phase' = sink
    /\ UNCHANGED <<text, options, literal, total, sent, again, lost>>
CannotOpen ==
    /\ phase = "dumped" /\ Doc \in Streamed
    /\ phase' = "raised"
    /\ UNCHANGED <<text, options, literal, total, sent, again, lost>>

\* fwrite may take less, which raises; it may also keep what it took until fclose.
WriteFile ==
    /\ phase = "file"
    /\ \E taken \in 0..Size, failing \in BOOLEAN:
        /\ sent' = SubSeq(Doc, 1, IF failing THEN 0 ELSE taken)
        /\ lost' = (failing /\ taken = Size)
        /\ phase' = IF taken = Size THEN "done" ELSE "raised"
    /\ UNCHANGED <<text, options, literal, total, again>>

\* The bytes at out.buf + total: there are none of the document before its first.
FromBuffer(n) == [k \in 1..n |-> IF total + k \in DOMAIN Doc THEN Doc[total + k] ELSE -1]
\* Variant: written is what was asked for.
CountedAsked(n) == Size
Counted(n) == total + n
Write ==
    /\ phase = "stream"
    /\ \E n \in 1..Size - total:
        /\ sent' = sent \o FromBuffer(n)
        /\ total' = Counted(n)
    /\ phase' = IF Size <= total' THEN "done" ELSE "wait"
    /\ UNCHANGED <<text, options, literal, again, lost>>

\* EAGAIN: the -1 that write() returned is added as well.
WriteAgain ==
    /\ phase = "stream" /\ again < MaxAgain
    /\ again' = again + 1
    /\ total' = Counted(-1)
    /\ phase' = "wait"
    /\ UNCHANGED <<text, options, literal, sent, lost>>
WriteFails ==
    /\ phase = "stream"
    /\ phase' = "raised"
    /\ UNCHANGED <<text, options, literal, total, sent, again, lost>>

\* write_ready: poll() says that there is room, or times out.
WriteReady ==
    /\ phase = "wait"
    /\ phase' \in {"stream", "raised"}
    /\ UNCHANGED <<text, options, literal, total, sent, again, lost>>

Over == phase \in {"dumped", "done", "raised"} /\ UNCHANGED vars

Init ==
    /\ text \in Texts
    /\ options = NoOptions
    /\ literal = [out |-> <<>>, size |-> 0, raised |-> FALSE]
    /\ phase = "new"
    /\ total = 0
    /\ sent = <<>>
    /\ again = 0
    /\ lost = FALSE
Next == Dump \/ Open("file") \/ Open("stream") \/ CannotOpen \/ WriteFile
        \/ WriteAgain \/ Write \/ WriteFails \/ WriteReady \/ Over
Spec == Init /\ [][Next]_vars

-----------------------------------------------------------------------------

TypeOK ==
    /\ text \in Seq(Byte)
    /\ options \in OptionSets
    /\ literal.out \in Seq(Byte) /\ literal.size \in Nat /\ literal.raised \in BOOLEAN
    /\ phase \in {"new", "dumped", "file", "stream", "wait", "done", "raised"}
    /\ total \in -MaxAgain..Size
    /\ sent \in Seq(Byte \cup {-1})
    /\ again \in 0..MaxAgain
    /\ lost \in BOOLEAN

Dumped == phase # "new" /\ ~literal.raised

\* What oj_dump_cstr asks room for, before it looks at a single character, is
\* room enough for what it writes, but for the quotes, a colon or the five more
\* bytes of an escaped first one, which its fixed reserve holds.
Estimated ==
    TypeOK /\ (Dumped => Len(Doc) <= literal.size + 2 + (IF options.object THEN 5 ELSE 0))

\* What is written is a literal that any reader of JSON turns back into the
\* text, whatever the mode escapes and however it writes it.
Decodes ==
    Dumped /\ (IsUtf8(text) \/ options.mode \in {"NLEsc", "JSONEsc", "SlashEsc"}) =>
        StandsFor(Doc, (IF options.object /\ options.symbol THEN <<Colon>> ELSE <<>>) \o Kept(options.omitNull, text))

\* The modes that validate refuse a text with a byte that is not part of a
\* character, and no text in UTF-8; nothing is refused by the others.
Refuses ==
    phase # "new" =>
        /\ IsUtf8(text) => ~literal.raised
        /\ options.mode \in {"NLEsc", "JSONEsc", "SlashEsc"} => ~literal.raised
        /\ ~Shaped(text) /\ options.mode \notin {"NLEsc", "JSONEsc", "SlashEsc"} => literal.raised

\* Object mode tells a Symbol from a String by the first character as it is
\* written, and a reference to an object by the first two (object.c, str_to_value
\* and array_append_cstr): no String is taken for one of them, unless a null byte
\* was left out before or in them (options.omitNull).
ToldApart ==
    Dumped /\ options.object /\ ~(options.omitNull /\ 0 \in ToSet(text)) =>
        /\ options.symbol <=> Doc[2] = Colon
        /\ ~(Doc[2] = Hat /\ At(Doc, 3) \in {105, 114})

\* The literal stands for the text, and for what kind of text it is.
Stands == Decodes /\ Refuses /\ ToldApart

\* A call that returns has written the document, once and whole; and what was
\* written before is a part of it.  Two faults are not noticed: a descriptor
\* that was not ready (again), and a file that could not be closed (lost).
Delivered ==
    again = 0 /\ ~lost => /\ phase = "done" => sent = Doc
                          /\ IsPrefix(sent, Doc)
=============================================================================
