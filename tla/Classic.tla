------------------------------- MODULE Classic ------------------------------
(* The classic parsers: oj_parse2 (parse.c) reads a text in memory, and      *)
(* oj_sparse2 (sparse.c) reads a stream, token by token; what makes a token  *)
(* of bytes is left to Lexemes.  Strict mode (strict.c) builds arrays and    *)
(* hashes, compat mode (compat.c) makes objects of hashes too, and a         *)
(* ScHandler (scp.c) is told of everything and keeps nothing by itself.      *)
EXTENDS ValStack, JsonTokens, FiniteSets

CONSTANTS
    Configs,     \* what a call is made with
    Strings,     \* strings, by name
    TextOf,      \* the characters of each
    Escaped,     \* those that are written with escapes
    CreateId,    \* the text of the key that names a class in compat mode
    MaxTokens,   \* bound: tokens of a text
    MaxOdd       \* bound: comments and NaNs of a text

Marks == {"{", "}", "[", "]", ",", ":", "nan", "comment", "bad", "scalar", "end"}

\* Only a handler makes values of keys (hash_key), and only compat mode objects of hashes.
ASSUME ClassicAssumption ==
    /\ TextOf \in [Strings -> Seq(STRING)] /\ Escaped \subseteq Strings /\ Strings \cap Marks = {}
    /\ \A c \in Configs :
          /\ c.maxDepth \in Nat
          /\ {c.proc, c.hashKey, c.emptyString, c.nilnil, c.quirks, c.create} \subseteq BOOLEAN
          /\ c.hashKey => c.mode = "callbacks"
          /\ c.create => c.mode = "compat"
    /\ {MaxTokens, MaxOdd} \subseteq Nat

VARIABLES
    config,      \* source, mode, proc, maxDepth, hashKey, emptyString, nilnil, quirks, create
    text,        \* the tokens read
    meant,       \* history: what a reader of JSON texts makes of them
    heap,        \* the arrays and hashes made
    first,       \* nothing but a document may come
    answer,      \* "reading", then "ok", "error" or "raised"
    result,      \* what the call returned
    yielded,     \* what the block was given
    collected    \* history: a container was used after the collector could take it

calls == <<answer, result, yielded, collected>>
vars  == <<stackVars, config, text, meant, heap, first, calls>>

\* A scalar stands for any number, null, true and false.
\* A value is a scalar or the number of a container in heap.
Scalar(t)    == <<"scalar", t>>
Container(n) == <<"container", n>>
Tokens  == (Marks \ {"end"}) \cup Strings

Sparse    == config.source = "sparse.c"
Callbacks == config.mode = "callbacks"
EmptyOk   == config.mode # "compat" /\ config.emptyString   \* empty_ok

-----------------------------------------------------------------------------
(* Values put where they belong.                                             *)

\* array_append_*, hash_set_* of any mode.
Into(h, container, key, v) ==
    [h EXCEPT ![container[2]].in = IF h[container[2]].kind = "array" THEN Append(@, v) ELSE key :> v @@ @]
New(kind) == [kind |-> kind, class |-> None, in |-> <<>>]

\* oj_calc_hash_key.  Variant: what hash_key made of it is forgotten.
CalcTextKey(key) == KeyText(key)
CalcHashKey(key) == IF key.made # Unmade THEN key.made[1] ELSE KeyText(key)

\* A key that is no longer needed: what was allocated is freed; parse.c leaves a
\* key that points into the text.
Spent(key) == IF ~Sparse /\ key.at = "text" THEN key ELSE NoKey

\* add_value, and what read_str and read_num do with theirs: v goes into the
\* container n of the stack s, or is the document.
Filled(s, n, v) ==
    IF n = 0 THEN [s EXCEPT ![1].val = IF Callbacks THEN @ ELSE v]
    ELSE [s EXCEPT ![n].next = IF @ = "HASH_VALUE" THEN "HASH_COMMA" ELSE "ARRAY_COMMA",
                   ![n].key  = IF s[n].next = "HASH_VALUE" THEN Spent(@) ELSE @]
TakenIn(n) == \A i \in {n} \ {0} : slots[i].next \in ExpectsValue

\* The end of one turn of the loop without an error.
Turn(n, s) ==
    IF n > 0 THEN UNCHANGED <<first, yielded>>
    ELSE IF config.proc
    THEN yielded' = Append(yielded, IF s[1].val = Undef THEN Scalar("nil") ELSE s[1].val) /\ UNCHANGED first
    ELSE first' = (first /\ Callbacks) /\ UNCHANGED yielded

\* The value v is complete inside the first n containers: the rest of the turn.
Add(n, v) ==
    /\ TakenIn(n)
    /\ heap' = IF n = 0 THEN heap ELSE Into(heap, slots[n].val, CalcHashKey(slots[n].key), v)
    /\ slots' = Filled(slots, n, v)
    /\ tail' = n
    /\ Turn(n, slots')
    /\ UNCHANGED <<room, block, answer, result>>

\* An error.  What it leaves on the stack is thrown away with the ParseInfo.
Fail == answer' = "error" /\ UNCHANGED <<stackVars, heap, first, result, yielded, collected>>

-----------------------------------------------------------------------------
(* The reference: the documents in the text, and the arrays and hashes they  *)
(* are made of, numbered in the order they begin.                            *)

NoText == [d |-> Fresh, heap |-> <<>>, open |-> <<>>, names |-> <<>>, docs |-> <<>>, deep |-> 0]

\* The value v is complete.
Place(r, v) ==
    IF r.open = <<>> THEN [r EXCEPT !.docs = Append(@, v)]
    ELSE [r EXCEPT !.heap = Into(@, Container(Last(r.open)), Last(r.names), v)]
Opened(r, kind) ==
    [r EXCEPT !.heap = Append(@, New(kind)), !.open = Append(@, Len(r.heap) + 1),
              !.names = Append(@, <<>>), !.deep = IF Len(r.open) < @ THEN @ ELSE Len(r.open) + 1]
Closed(r) == Place([r EXCEPT !.open = Front(@), !.names = Front(@)], Container(Last(r.open)))
Worth(t) == IF t \in Strings THEN "string" ELSE IF t \in {"scalar", "nan"} THEN "value" ELSE t

Told(r, t) ==
    LET d == Read(r.d, Worth(t))
        s == [r EXCEPT !.d = d] IN
    IF t = "comment" \/ r.d = Bad THEN r
    ELSE IF t = "end" THEN [r EXCEPT !.d = IF r.d = Fresh THEN r.d ELSE Bad]
    ELSE IF d = Bad THEN s
    ELSE IF t = "{" THEN Opened(s, "object")
    ELSE IF t = "[" THEN Opened(s, "array")
    ELSE IF t \in {"}", "]"} THEN Closed(s)
    ELSE IF t \in {",", ":"} THEN s
    ELSE IF t \in Strings /\ d.at = "colon" THEN [s EXCEPT !.names = Append(Front(@), TextOf[t])]
    ELSE IF t \in Strings /\ config.create /\ r.d.at = "member" /\ Last(r.names) = CreateId THEN
            [s EXCEPT !.heap[Last(r.open)].class = t]
    ELSE Place(s, Scalar(t))
-----------------------------------------------------------------------------
(* One action per token.  Reads holds what oj_parse2 does before its switch. *)

TooDeep == config.maxDepth > 0 /\ config.maxDepth <= tail - 1
Odd == {"nan", "comment"}
Count(kinds) == Cardinality({i \in DOMAIN text : text[i] \in kinds})
Reads(tokens) ==
    /\ answer = "reading" /\ ~TooDeep /\ Len(text) < MaxTokens
    /\ \E t \in tokens \ (IF MaxOdd <= Count(Odd) THEN Odd ELSE {}) : text' = Append(text, t) /\ meant' = Told(meant, t)
    /\ UNCHANGED config
token == Last(text')

\* Anything after the document is an error.
Extra == Reads(Tokens) /\ ~first /\ Fail

\* hash_start, array_start
Start ==
    /\ Reads({"{", "["}) /\ first
    /\ LET array == token = "["
       IN  /\ heap' = Append(heap, New(IF array THEN "array" ELSE "object"))
           /\ Push(Val(Container(Len(heap')), IF array THEN "ARRAY_NEW" ELSE "HASH_NEW"))
    /\ UNCHANGED <<first, calls>>

\* What the collector may take while end_array or end_hash runs Ruby code with the
\* first n containers on the stack: v, unless stack_mark finds it there.
Collect(n, v, runs) ==
    collected' \in {collected, collected \/ (runs /\ v \notin {slots[i].val : i \in 1..n})}

\* The last container is closed, and becomes a value of the one around it.
Close(class) ==
    LET made == [heap EXCEPT ![Top.val[2]].class = class] IN
    /\ heap' = IF tail = 1 THEN made
               ELSE Into(made, slots[tail - 1].val, CalcHashKey(slots[tail - 1].key), Top.val)
    /\ slots' = Filled(slots, tail - 1, Top.val)
    /\ tail' = tail - 1
    /\ Turn(tail - 1, slots')
    /\ UNCHANGED <<room, block, answer, result>>

\* array_end: the array is popped, and then end_array called.
ArrayEnd ==
    /\ Reads({"]"}) /\ first
    /\ IF NextIs({"ARRAY_COMMA", "ARRAY_NEW"}) /\ TakenIn(tail - 1)
       THEN Close(None) /\ Collect(tail - 1, Top.val, Callbacks)
       ELSE Fail

\* hash_end: end_hash is called, and then the hash popped.  In compat mode end_hash
\* gives the hash to the json_create of the class it names, and takes its answer.
\* Variant: the hash is popped first.
HashPopped  == tail - 1
HashOnStack == tail
HashEnd ==
    /\ Reads({"}"}) /\ first
    /\ IF NextIs({"HASH_COMMA", "HASH_NEW"}) /\ TakenIn(tail - 1)
       THEN Close(Top.classname) /\ Collect(HashOnStack, Top.val, Callbacks \/ Top.classname # None)
       ELSE Fail

Comma ==
    /\ Reads({","}) /\ first
    /\ IF NextIs({"ARRAY_COMMA", "HASH_COMMA"})
       THEN /\ slots' = [slots EXCEPT ![tail].next = IF @ = "ARRAY_COMMA" THEN "ARRAY_ELEMENT" ELSE "HASH_KEY"]
            /\ UNCHANGED <<tail, room, block, heap, first, calls>>
       ELSE Fail

Colon ==
    /\ Reads({":"}) /\ first
    /\ IF NextIs({"HASH_COLON"})
       THEN /\ slots' = [slots EXCEPT ![tail].next = "HASH_VALUE"]
            /\ UNCHANGED <<tail, room, block, heap, first, calls>>
       ELSE Fail

\* The key of a pair, as read_str and read_escaped_str leave it.
KeyOf(string) ==
    LET klen == Len(TextOf[string]) % KeyWidth
        where == IF string \in Escaped THEN "heap"
                 ELSE IF ~Sparse THEN "text"
                 ELSE IF KArray <= klen THEN "heap" ELSE "karray"
        seen == IF Sparse /\ string \notin Escaped THEN SubSeq(TextOf[string], 1, klen) ELSE TextOf[string]
    IN  IF ~config.hashKey THEN [at |-> where, block |-> block, text |-> TextOf[string], klen |-> klen, made |-> Unmade]
        ELSE IF Sparse /\ string \notin Escaped
        THEN [at |-> where, block |-> block, text |-> TextOf[string], klen |-> klen, made |-> <<seen>>]
        ELSE [NoKey EXCEPT !.made = <<seen>>]

\* hash_set_cstr of compat.c: the value of the create_id is a class.
NamesClass == IF config.create /\ NextIs({"HASH_VALUE"}) THEN Top.key.made = Unmade /\ KeyText(Top.key) = CreateId ELSE FALSE

\* read_str
String ==
    /\ Reads(Strings) /\ first
    /\ \/ /\ NextIs(ExpectsKey)
          /\ slots' = [slots EXCEPT ![tail].key = KeyOf(token), ![tail].next = "HASH_COLON"]
          /\ UNCHANGED <<tail, room, block, heap, first, calls>>
       \/ /\ ~NextIs(ExpectsKey) /\ NamesClass
          /\ slots' = [Filled(slots, tail, Undef) EXCEPT ![tail].classname = token]
          /\ UNCHANGED <<tail, room, block, heap, first, calls>>
       \/ /\ ~NextIs(ExpectsKey) /\ ~NamesClass /\ TakenIn(tail)
          /\ Add(tail, Scalar(token)) /\ UNCHANGED collected
       \/ ~NextIs(ExpectsKey) /\ ~TakenIn(tail) /\ Fail

\* read_num, read_null, read_true, read_false
NumberOrWord ==
    /\ Reads({"scalar"}) /\ first
    /\ IF TakenIn(tail) THEN Add(tail, Scalar(token)) /\ UNCHANGED collected ELSE Fail

\* NaN and Infinity: only strict mode has an objection.
NotANumber ==
    /\ Reads({"nan"}) /\ first
    /\ IF TakenIn(tail) /\ config.mode # "strict" THEN Add(tail, Scalar(token)) /\ UNCHANGED collected ELSE Fail

\* skip_comment.  parse.c goes on with its loop, sparse.c finishes the turn.
Comment ==
    /\ Reads({"comment"}) /\ first
    /\ IF Sparse THEN Turn(tail, slots) ELSE UNCHANGED <<first, yielded>>
    /\ UNCHANGED <<stackVars, heap, answer, result, collected>>

\* What is no token, or not one of JSON.
NoToken == Reads({"bad"}) /\ first /\ Fail

\* The check for max_depth, before the next token is looked for.
Nested == answer = "reading" /\ TooDeep /\ Fail /\ UNCHANGED <<config, text, meant>>

\* "Empty input": no document has been kept, whatever was read, and whatever was raised.
TakenForEmpty ==
    /\ slots[1].val = Undef /\ ~EmptyOk
    /\ Sparse \/ ~config.nilnil \/ (config.mode = "compat" /\ text # <<>>)

\* Ruby code that is called raises: a handler, a block, json_create, a hash class.
Raise ==
    /\ answer = "reading" /\ (Callbacks \/ config.proc \/ config.create)
    /\ answer' = IF TakenForEmpty THEN "error" ELSE "raised"
    /\ UNCHANGED <<stackVars, config, text, meant, heap, first, result, yielded, collected>>

\* The end of the input, and what oj_pi_parse and oj_pi_sparse then look at.
\* Variant: an open container is not looked for.
OpenForgotten(n) == FALSE
OpenLeft(n) == n > 0
Refused ==
    \/ ~Sparse /\ first /\ ~config.emptyString
    \/ TakenForEmpty
    \/ OpenLeft(tail)
    \/ ~Sparse /\ ~config.quirks /\ slots[1].val[1] # "container"
End ==
    /\ answer = "reading" /\ ~TooDeep
    /\ text' = Append(text, "end") /\ meant' = Told(meant, "end")
    /\ answer' = IF Refused THEN "error" ELSE "ok"
    /\ result' = IF Refused THEN Undef ELSE IF slots[1].val = Undef THEN Scalar("nil") ELSE slots[1].val
    /\ UNCHANGED <<stackVars, config, heap, first, yielded, collected>>

Init ==
    /\ config \in Configs
    /\ StackInit
    /\ text = <<>> /\ meant = NoText /\ heap = <<>> /\ first = TRUE
    /\ answer = "reading" /\ result = Undef /\ yielded = <<>> /\ collected = FALSE

\* The call is over; the next one has a ParseInfo of its own.
Over == answer # "reading" /\ UNCHANGED vars

Next ==
    \/ Extra \/ Start \/ ArrayEnd \/ HashEnd \/ Comma \/ Colon
    \/ String \/ NumberOrWord \/ NotANumber \/ Comment \/ NoToken
    \/ Nested \/ Raise \/ End \/ Over

Spec == Init /\ [][Next]_vars
-----------------------------------------------------------------------------
Has(kinds) == Count(kinds) > 0
Many == config.proc \/ Callbacks          \* documents in a row are read
\* Texts the two parsers read differently from the reference.
LongKeys  == \E i \in DOMAIN text : text[i] \in Strings /\ Len(TextOf[text[i]]) >= KeyWidth
KeysMoved == Sparse /\ block >= 2
-----------------------------------------------------------------------------
TypeOK ==
    /\ config \in Configs /\ text \in Seq(Tokens \cup {"end"})
    /\ tail \in 0..Len(slots) /\ block \in Nat
    /\ \A i \in 1..tail : slots[i].val \in {Container(n) : n \in DOMAIN heap}
    /\ answer \in {"reading", "ok", "error", "raised"}
    /\ first \in BOOLEAN /\ collected \in BOOLEAN

\* The stack stays in its block however deep the text nests.
InRoom == tail <= room

\* Whatever is accepted is one JSON document, or a row of them where a row is read,
\* or nothing where the options allow that; nested no deeper than max_depth; and
\* strict mode has taken no NaN.
AcceptsOnlyJson ==
    answer = "ok" =>
        /\ meant.d = Fresh
        /\ Len(meant.docs) = 1 \/ Many \/ (meant.docs = <<>> /\ (config.emptyString \/ config.nilnil))
        /\ config.maxDepth > 0 => meant.deep <= config.maxDepth
        /\ config.mode = "strict" => ~Has({"nan"})

\* Whatever is refused is no JSON text, or refused for a reason the options give.
\* Excepted are a stream with a comment in front of its document; a row of documents
\* without empty_string, refused for the end that comes after them; and a handler's
\* document without an array or hash, taken for an empty one.
RefusesOnlyOthers ==
    answer = "error" =>
        \/ meant.d = Bad \/ (Len(meant.docs) > 0 /\ ~Many)
        \/ config.maxDepth > 0 /\ meant.deep > config.maxDepth
        \/ meant.docs = <<>> /\ (~config.emptyString \/ config.mode = "compat")
        \/ Has({"nan"})
        \/ ~Sparse /\ ~config.quirks
        \/ Sparse /\ Has({"comment"})
        \/ ~config.emptyString /\ Many

\* Between them, what is taken for JSON.
Recognises == AcceptsOnlyJson /\ RefusesOnlyOthers

\* What is returned is the document that was read: every value in its array or under
\* its key, and a hash that names a class given to that class.  Excepted are keys of
\* 2^16 bytes and more, of which klen keeps the low 16 bits, and keys held in a block
\* of the stack that a stream nested deep enough has grown out of.
BuildsDocument ==
    answer = "ok" /\ ~LongKeys /\ ~KeysMoved =>
        /\ heap = meant.heap
        /\ ~Callbacks => result = IF meant.docs = <<>> THEN Scalar("nil") ELSE Last(meant.docs)

\* A block is given each document of the row once, in order.  Excepted are a handler,
\* and a stream that has a comment between documents.
YieldsDocuments ==
    config.proc /\ ~Callbacks /\ ~(Sparse /\ Has({"comment"})) =>
        IF answer = "error" THEN IsPrefix(yielded, meant.docs) ELSE yielded = meant.docs

\* Between them, what is made of it.
Delivers == BuildsDocument /\ YieldsDocuments

\* Nothing the parser still uses can be collected while Ruby code runs, but the array
\* whose end is announced to a handler.
StackProtects == TypeOK /\ InRoom /\ (collected => Has({"]"}) /\ Callbacks)
=============================================================================
