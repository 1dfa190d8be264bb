------------------------------- MODULE Writer -------------------------------
(* Oj::StringWriter (string_writer.c) and Oj::StreamWriter (stream_writer.c): *)
(* a document is written by calls in any order.  types[] says for each open  *)
(* container whether it has members yet; key_check, push_key and pop are all *)
(* that keeps the output JSON.                                               *)
(*                                                                           *)
(* The output is a sequence of tokens; what a key or a value looks like is   *)
(* left out.  doc is a history variable: a reader of JSON texts that has     *)
(* seen every token so far.  A stream writer moves the tokens in its buffer  *)
(* to the stream when there are more than flush_limit.                       *)
EXTENDS Integers, JsonTokens

CONSTANTS
    Streams,     \* whether stream writers, string writers or both are considered
    FlushLimit,  \* sw->flush_limit, in tokens
    InitTypes,   \* the 256 places types[] starts with
    MaxDepth, MaxTokens, MaxBelow  \* bounds: nesting, tokens, pops too many

ASSUME WriterAssumption ==
    /\ Streams \subseteq BOOLEAN /\ Streams # {} /\ FlushLimit \in Nat
    /\ InitTypes \in Nat \ {0}
    /\ MaxDepth \in Nat /\ MaxTokens \in Nat /\ MaxBelow \in Nat

VARIABLES
    stream,      \* this is a stream writer, and not a string writer
    types,       \* types[0..depth]
    below,       \* how far depth is under 0
    cap,         \* places in types[]
    keyWritten,  \* a key is waiting for its value
    held,        \* tokens in out.buf
    sent,        \* tokens given to stream.write
    answer,      \* what the last call did: "ok", or the reason it raised
    made,        \* history: tokens produced
    doc,         \* history: the reader of what was produced
    spoilt,      \* history: a mistake that is not refused, or a value that raised
    torn         \* history: stream.write took a text and raised (considered once)

writer  == <<types, below, cap, keyWritten>>
output  == <<held, sent, made, doc>>
flaws   == <<spoilt, torn>>
vars    == <<stream, types, below, cap, keyWritten, held, sent, answer, made, doc, spoilt, torn>>

-----------------------------------------------------------------------------
\* The tokens a call makes, and whether they spoil the document.
Emitted(tokens, spoils) ==
    /\ made + Len(tokens) <= MaxTokens
    /\ made' = made + Len(tokens)
    /\ spoilt' = (spoilt \/ spoils)
    /\ doc' = IF spoilt' THEN Bad ELSE ReadAll(doc, tokens)

-----------------------------------------------------------------------------
(* types[].  With depth below 0 the code reads the byte in front of types[]. *)

Kinds  == {"nul", "ObjectNew", "ObjectType", "ArrayNew", "ArrayType"}
IsObject(type) == type \in {"ObjectNew", "ObjectType"}
depth  == Len(types) - 1 - below
TopTypes == IF below = 0 THEN {Last(types)} ELSE Kinds

\* maybe_comma: the comma due at this type, and the type from now on.
\* Variant: an array does not become an ArrayType.
UsedForgetful(type) == IF type = "ObjectNew" THEN "ObjectType" ELSE type
Used(type) == CASE type = "ObjectNew" -> "ObjectType"
                [] type = "ArrayNew"  -> "ArrayType"
                [] OTHER              -> type
CommaDue(type) == IF type \in {"ObjectType", "ArrayType"} THEN <<",">> ELSE <<>>
WithTop(type)  == IF below = 0 THEN [types EXCEPT ![Len(types)] = type] ELSE types

\* push_type.  A push at depth -1 puts the container into types[0].
PushType(ts, type) ==
    /\ types' = IF below > 0 THEN IF below = 1 THEN <<type>> ELSE ts ELSE Append(ts, type)
    /\ below' = IF below > 0 THEN below - 1 ELSE 0
    /\ cap' = IF cap <= depth + 1 THEN 2 * cap ELSE cap

-----------------------------------------------------------------------------
(* Calls.  Each ends with the tokens it made in the buffer; a stream writer  *)
(* then writes the buffer when it holds more than the limit.                 *)

\* stream_writer_write.  stream.write may raise, having taken the text or not;
\* the buffer is emptied only when it returns.
\* Variant: the buffer is not emptied.
WriteKeeping(n) == sent' = sent + n /\ held' = n /\ answer' = "ok" /\ UNCHANGED torn
WriteTo(n) ==
    \/ sent' = sent + n /\ held' = 0 /\ answer' = "ok" /\ UNCHANGED torn
    \/ sent' = sent /\ held' = n /\ answer' = "write raised" /\ UNCHANGED torn
    \/ ~torn /\ sent' = sent + n /\ held' = n /\ answer' = "write raised" /\ torn' = TRUE
Keep(n) == held' = n /\ sent' = sent /\ answer' = "ok" /\ UNCHANGED torn

\* The end of a call that put tokens into the buffer.
OverLimit(n) == FlushLimit < n
Finish(tokens, spoils) ==
    /\ Emitted(tokens, spoils)
    /\ LET n == held + Len(tokens)
       IN  IF stream /\ OverLimit(n) THEN WriteTo(n) ELSE Keep(n)

\* A call that raises before it has written or changed anything.
Refuse(why) == answer' = why /\ UNCHANGED <<writer, output, flaws>>

\* What a push begins with: the comma that is due and the key if one is given.
Intro(type, key) == CommaDue(type) \o (IF key THEN <<"string", ":">> ELSE <<>>)
\* A key that is given outside of an object is written all the same.
Spoils(type, key) == key /\ ~IsObject(type)

\* key_check.  Variant: only an object that has members is looked at.
KeyMissingLate(type, key) == ~key /\ type = "ObjectType"
KeyMissing(type, key) == ~key /\ IsObject(type)

\* oj_str_writer_push_key
PushKey ==
    \E type \in TopTypes :
        \/ keyWritten /\ Refuse("two keys")
        \/ ~keyWritten /\ ~IsObject(type) /\ Refuse("not an object")
        \/ /\ ~keyWritten /\ IsObject(type)
           /\ types' = WithTop(Used(type)) /\ keyWritten' = TRUE
           /\ Finish(Intro(type, TRUE), FALSE)
           /\ UNCHANGED <<below, cap>>

\* oj_str_writer_push_object and oj_str_writer_push_array, with or without a key.
\* The block form of the string writer is a push, what the block does, and a Pop.
PushContainer(kind, key) ==
    LET token == IF kind = "ObjectNew" THEN "{" ELSE "[" IN
    \E type \in TopTypes :
        /\ Len(types) <= MaxDepth
        /\ IF keyWritten
           THEN PushType(types, kind) /\ Finish(<<token>>, FALSE) /\ keyWritten' = FALSE
           ELSE IF KeyMissing(type, key) THEN Refuse("no key")
           ELSE /\ PushType(WithTop(Used(type)), kind)
                /\ Finish(Append(Intro(type, key), token), Spoils(type, key))
                /\ UNCHANGED keyWritten

\* oj_str_writer_push_value and oj_str_writer_push_json
PushValue(key) ==
    \E type \in TopTypes :
        IF keyWritten
        THEN Finish(<<"value">>, FALSE) /\ keyWritten' = FALSE /\ UNCHANGED <<types, below, cap>>
        ELSE IF KeyMissing(type, key) THEN Refuse("no key")
        ELSE /\ types' = WithTop(Used(type))
             /\ Finish(Append(Intro(type, key), "value"), Spoils(type, key))
             /\ UNCHANGED <<below, cap, keyWritten>>

\* A push_value whose value raises while it is dumped (its to_json, to_hash, ...
\* do): the comma, the key and the note of them stay, the value is missing.
PushRaises(key) ==
    \E type \in TopTypes :
        LET tokens == IF keyWritten THEN <<>> ELSE Intro(type, key) IN
        /\ keyWritten \/ ~KeyMissing(type, key)
        /\ Emitted(tokens, TRUE)
        /\ held' = held + Len(tokens) /\ sent' = sent
        /\ types' = IF keyWritten THEN types ELSE WithTop(Used(type))
        /\ keyWritten' = FALSE
        /\ answer' = "value raised"
        /\ UNCHANGED <<below, cap, torn>>

\* The bracket of a pop.  The one type that has none is only ever at types[0].
Bracket(type) == IF IsObject(type) THEN "}" ELSE "]"

\* oj_str_writer_pop.  With a key waiting it raises, and forgets the key; with
\* nothing open it raises, and depth stays below 0.
Pop ==
    \/ /\ keyWritten
       /\ keyWritten' = FALSE
       /\ answer' = "key without value" /\ spoilt' = TRUE /\ doc' = Bad
       /\ UNCHANGED <<types, below, cap, held, sent, made, torn>>
    \/ /\ ~keyWritten /\ depth <= 0 /\ below < MaxBelow
       /\ below' = below + 1
       /\ answer' = "nothing open" /\ spoilt' = TRUE /\ doc' = Bad
       /\ UNCHANGED <<types, cap, keyWritten, held, sent, made, torn>>
    \/ /\ ~keyWritten /\ depth > 0
       /\ types' = Front(types)
       /\ Finish(<<Bracket(Last(types))>>, FALSE)
       /\ UNCHANGED <<below, cap, keyWritten>>

\* oj_str_writer_pop_all: a stream writer flushes at the end.
Brackets == [i \in 1..Len(types) - 1 |-> Bracket(types[Len(types) + 1 - i])]
PopAll ==
    \/ depth > 0 /\ keyWritten /\ Pop
    \/ /\ depth <= 0 /\ ~stream /\ answer' = "ok" /\ UNCHANGED <<writer, output, flaws>>
    \/ /\ depth > 0 => ~keyWritten
       /\ depth > 0 \/ stream
       /\ LET tokens == IF depth > 0 THEN Brackets ELSE <<>> IN
          /\ types' = IF depth > 0 THEN <<types[1]>> ELSE types
          /\ Emitted(tokens, FALSE)
          /\ IF stream THEN WriteTo(held + Len(tokens)) ELSE Keep(held + Len(tokens))
       /\ UNCHANGED <<below, cap, keyWritten>>

\* stream_writer_flush
Flush == stream /\ WriteTo(held) /\ UNCHANGED <<writer, made, doc, spoilt>>

\* str_writer_reset, of the string writer only.
Reset ==
    /\ ~stream
    /\ types' = <<"nul">> /\ below' = 0 /\ keyWritten' = FALSE
    /\ held' = 0 /\ made' = 0 /\ doc' = Fresh /\ spoilt' = FALSE /\ answer' = "ok"
    /\ UNCHANGED <<cap, sent, torn>>

\* oj_str_writer_init
Init ==
    /\ stream \in Streams
    /\ types = <<"nul">> /\ below = 0 /\ cap = InitTypes /\ keyWritten = FALSE
    /\ held = 0 /\ sent = 0 /\ answer = "ok"
    /\ made = 0 /\ doc = Fresh /\ spoilt = FALSE /\ torn = FALSE

Next ==
    /\ \/ PushKey
       \/ \E key \in BOOLEAN :
             \/ \E kind \in {"ObjectNew", "ArrayNew"} : PushContainer(kind, key)
             \/ PushValue(key)
             \/ PushRaises(key)
       \/ Pop
       \/ PopAll
       \/ Flush
       \/ Reset
    /\ UNCHANGED stream

Spec == Init /\ [][Next]_vars
-----------------------------------------------------------------------------
TypeOK ==
    /\ types \in Seq(Kinds) \ {<<>>} /\ (\A i \in 2..Len(types) : types[i] # "nul") /\ below \in 0..MaxBelow /\ cap \in Nat
    /\ keyWritten \in BOOLEAN
    /\ held \in Nat /\ sent \in Nat /\ made \in 0..MaxTokens
    /\ doc.open \in Seq({"array", "object"})
    /\ stream \in BOOLEAN /\ spoilt \in BOOLEAN /\ torn \in BOOLEAN

\* types[depth] is inside the allocated block.
InBounds == Len(types) <= cap

\* What types[] says of an open container is what the text says of it.
Agree(type, kind, at) ==
    CASE type = "ObjectNew"  -> kind = "object" /\ at = "name or }"
      [] type = "ObjectType" -> kind = "object" /\ at \in {"comma", "member"}
      [] type = "ArrayNew"   -> kind = "array" /\ at = "element or ]"
      [] type = "ArrayType"  -> kind = "array" /\ at = "comma"
      [] OTHER -> FALSE

\* Whatever calls are made and refused in whatever order, the text is the
\* beginning of JSON texts and types[] knows where in them it stands.  Excepted is
\* what the calls do not refuse: a key given for an element of an array or for a
\* document, a pop after the one that was refused for a waiting key, a pop too many,
\* and what follows a value that raised.
WritesJson ==
    ~spoilt =>
        /\ below = 0 /\ Len(types) = Len(doc.open) + 1 /\ Head(types) = "nul"
        /\ keyWritten <=> doc.at = "member"
        /\ doc.open = <<>> => doc.at = "start"
        /\ \A i \in DOMAIN doc.open :
              Agree(types[i + 1], doc.open[i],
                    IF i = Len(doc.open) THEN doc.at ELSE IF types[i + 1] = "ObjectType" THEN "member" ELSE "comma")

\* What pop_all writes when no key is waiting completes the document.
PopAllCompletes ==
    ~spoilt /\ ~keyWritten => ReadAll(doc, Brackets) = Fresh

\* Every token is in the buffer or has been given to the stream, once, unless
\* stream.write took a text and raised; and a call of a stream writer that returns
\* leaves no more than the limit behind.
Delivered == /\ TypeOK /\ InBounds
             /\ ~torn => sent + held = made
             /\ stream /\ answer = "ok" => held <= FlushLimit
=============================================================================
