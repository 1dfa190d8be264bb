-------------------------------- MODULE Dump --------------------------------
(* Ruby objects written as JSON in each mode but rails (dump.c, dump.h,       *)
(* dump_strict.c, dump_compat.c, dump_object.c, custom.c, wab.c, cache8.c).   *)
(* A document is a sequence of tokens.  What it takes in bytes is counted     *)
(* against the buffer, which grows only where the code asks for room.         *)
EXTENDS Integers, Sequences, SequencesExt, FiniteSetsExt, TLC

CONSTANTS
    MaxDepth,      \* MAX_DEPTH, and max_nesting of compat mode
    StackSize,     \* the buffer before it has to grow
    BufferExtra,   \* BUFFER_EXTRA
    LenOf,         \* the length of each name and text
    Colons, Hats,  \* texts that start with a colon; with "^r" or "^i"
    Codes,         \* the odd classes that code.c has functions for
    MemberNames    \* the members of a Struct

ASSUME DumpAssumption == {MaxDepth, StackSize, BufferExtra} \subseteq Nat \ {0}

(* A value is nil, true, a number, a text, a Symbol, a Class, or a reference   *)
(* to a node: an Array, a Hash, a String of a class of its own, an Object, an  *)
(* exception, a Struct or one of the odd classes.                             *)
Nil      == <<"nil">>
Ref(n)   == <<"ref", n>>
IsRef(v) == v[1] = "ref"
Mark(c)  == <<c>>                             \* { } [ ] , :
Str(s)   == <<"str", s, "plain">>             \* as it is written: plain, esc or sym
Line(n)  == <<"line", n>>                     \* a line break and n steps of indentation

VARIABLES
    heap,     \* the nodes
    root,     \* the value that is dumped
    opts      \* mode, circular, omitNil, indent; with use the sizes of dump_opts;
              \* create_ok, and which conversion of objects custom mode uses

-----------------------------------------------------------------------------
(* struct _out: cur and bytes for what is written, end the size of the        *)
(* buffer, over how far behind its end it went.  mode is the one whose        *)
(* functions are at work: custom mode calls those of compat mode.            *)

Fresh == [cur |-> <<>>, bytes |-> 0, end |-> StackSize, over |-> 0, circ |-> <<>>,
          depth |-> 0, hashCnt |-> 0, mode |-> opts.mode, raised |-> "no"]

\* oj_grow_out.  Variant: once is taken to be enough.
GrownTwice(o, n) == 2 * o.end
Grown(o, n) == IF 2 * o.end <= 2 * n + o.bytes THEN 2 * o.end + n ELSE 2 * o.end
Assure(n, o) == IF o.end - o.bytes <= n THEN [o EXCEPT !.end = Grown(o, n)] ELSE o

Wrote(n, o)  == [o EXCEPT !.bytes = @ + n, !.over = Max({@, o.bytes + n - o.end})]
Raise(what, o)   == [o EXCEPT !.raised = what]
Raised(o)        == o.raised # "no"
\* Nothing is written after an exception.
Put(token, n, o) == IF Raised(o) THEN o ELSE [Wrote(n, o) EXCEPT !.cur = Append(@, token)]
PutMark(c, o)    == Put(Mark(c), 1, o)

\* fill_indent; and the line breaks of dump_opts.
Fill(n, o) == IF opts.indent = 0 THEN o ELSE Put(Line(n), 1 + n * opts.indent, o)
Break(n, size, o) == Put(Line(n), size + n * opts.indentSize, o)
Using == opts.use /\ opts.mode # "wab"
Layout(n, size, o) == IF Using THEN Break(n, size, o) ELSE Fill(n, o)
LineSize(n, size) == IF Using THEN n * opts.indentSize + size + 1 ELSE n * opts.indent + 2

\* A trailing comma is overwritten.  Variant: it is left.
NoCommaNot(o) == o
NoComma(o) == IF ~Raised(o) /\ Last(o.cur) = Mark(",") THEN [o EXCEPT !.cur = Front(@), !.bytes = @ - 1] ELSE o

\* oj_dump_cstr asks for what it writes and for BUFFER_EXTRA more (module Escape).
Text(s, how, o) ==
    Put(<<"str", s, how>>, LenOf[s] + (CASE how = "plain" -> 2 [] how = "esc" -> 7 [] how = "sym" -> 3),
        Assure(LenOf[s] + BufferExtra, o))
Raw(token, n, o) == Put(token, n, Assure(n, o))
Null(o) == Raw(<<"nil">>, 4, o)

\* oj_cache8_get: sixteen levels of sixteen places each, by four bits of the object.
\* oj_check_circular: 0 if objects are not counted, -1 if this one was seen.
Seen(n, o)     == \E i \in DOMAIN o.circ: o.circ[i] = n
IdOf(n, o)     == CHOOSE i \in DOMAIN o.circ: o.circ[i] = n
Counts         == opts.circular /\ opts.mode # "wab"
Circular(n, o) == IF ~Counts THEN 0 ELSE IF Seen(n, o) THEN -1 ELSE Len(o.circ) + 1
Counted(n, o)  ==
    IF ~Counts THEN o
    ELSE IF ~Seen(n, o) THEN [o EXCEPT !.circ = Append(@, n)]
    ELSE IF opts.mode = "object" THEN Put(<<"back", IdOf(n, o)>>, 5, Assure(18, o)) ELSE o

ASize == opts.arraySize
HSize == opts.hashSize

-----------------------------------------------------------------------------
RECURSIVE Val(_, _, _)

\* The elements of an Array from the i-th on, on lines of their own.
RECURSIVE Elements(_, _, _, _)
Elements(items, i, d, o) ==
    IF i > Len(items) \/ Raised(o) THEN o
    ELSE LET room == IF o.mode = "compat" /\ opts.use THEN Assure(LineSize(d, ASize), o) ELSE o
             item == Val(items[i], d, Layout(d, ASize, room))
         IN  Elements(items, i + 1, d, IF i < Len(items) THEN PutMark(",", item) ELSE item)

CloseArray(d, o) ==
    PutMark("]", Layout(d, ASize, Assure(IF o.mode = "compat" /\ opts.use THEN ASize + d * opts.indentSize + 1
                                         ELSE d * opts.indent + 1, o)))

\* dump_array of dump_strict.c and dump_compat.c, dump_array_class of dump_object.c.
Room(items, d, o) == IF o.mode = "compat" THEN o ELSE Assure(Len(items) * LineSize(d, ASize), o)
ArrayBody(items, id, d, o) ==
    LET open == PutMark("[", o)
        named == IF id > 0 THEN Put(<<"id", id>>, 5, Fill(d + 1, Assure((d + 1) * opts.indent + 16, open))) ELSE open
        full == Assure(2, named)
    IN  IF items = <<>> THEN PutMark("]", full)
        ELSE CloseArray(d, Elements(items, 1, d + 1, Room(items, d + 1, IF id > 0 THEN PutMark(",", full) ELSE full)))

-----------------------------------------------------------------------------
(* Hashes and the attributes of objects: the callback reads the depth from    *)
(* out and puts it back after the value.                                     *)

Restored(d, o) == [o EXCEPT !.depth = d]
Omitted(v) == opts.omitNil /\ opts.mode # "wab" /\ v = Nil
KeyText(k, o) ==
    IF k[1] = "str" /\ opts.mode = "object" THEN Text(k[2], IF k[2] \in Colons \cup Hats THEN "esc" ELSE "plain", o)
    ELSE IF k[1] = "sym" /\ opts.mode = "object" THEN Text(k[2], "sym", o)
    ELSE IF k[1] \in {"str", "sym"} THEN Text(k[2], "plain", o)
    ELSE Text("to_s", "plain", o)
Colon(o) ==
    IF ~Using \/ opts.mode = "object" THEN PutMark(":", o)
    ELSE Put(Mark(":"), 1 + opts.sepSize, Assure(opts.sepSize + 2, o))
KeyTypes == CASE opts.mode \in {"strict", "null"} -> {"str", "sym"} [] opts.mode = "wab" -> {"sym"}
              [] OTHER -> {"str", "sym", "num"}
Member(k, v, d, o) == PutMark(",", Restored(d, Val(v, d, Colon(KeyText(k, o)))))

\* {"^#1":[key, value]} for a key that is no String and no Symbol.
Pair(k, v, d, o) ==
    LET size == d * opts.indent + 1
        mark == Put(<<"str", "^#", "plain">>, 4, Assure(size + opts.indent + 16, [o EXCEPT !.hashCnt = @ + 1]))
        open == Fill(d + 1, PutMark("[", PutMark(":", mark)))
        key  == PutMark(",", Assure(size + opts.indent + 1, Val(k, d + 1, open)))
        value == Val(v, d + 1, Fill(d + 1, key))
    IN  PutMark(",", Restored(d, PutMark("]", Fill(d, Assure(size, value)))))

\* hash_cb of the three files.
HashCb(k, v, o) ==
    LET d == o.depth
        room == IF opts.mode = "object" THEN Fill(d, Assure(d * opts.indent + 1, o))
                ELSE Layout(d, HSize, Assure(IF Using THEN LineSize(d, HSize) ELSE d * opts.indent + 1, o))
    IN  IF Raised(o) THEN o
        ELSE IF k[1] \notin KeyTypes THEN Raise("TypeError", o)
        ELSE IF Omitted(v) THEN o
        ELSE IF opts.mode = "object" /\ k[1] \notin {"str", "sym"} THEN Pair(k, v, d, room)
        ELSE Member(k, v, d, room)
ForEach(pairs, d, o) == FoldLeft(LAMBDA p, m: HashCb(m[1], m[2], p), [o EXCEPT !.depth = d], pairs)
CloseHash(d, o) ==
    PutMark("}", Layout(d, HSize, Assure(LineSize(d, HSize), NoComma(o))))

HashBody(pairs, id, d, o) ==
    LET open  == PutMark("{", o)
        named == IF id = 0 THEN open
                 ELSE PutMark(",", Put(<<"num", id>>, 1, PutMark(":", Put(Str("^i"), 4,
                          Fill(d + 1, Assure(d * opts.indent + 18, open))))))
    IN  CloseHash(d, ForEach(pairs, d + 1, named))
EmptyHash(o) == PutMark("}", PutMark("{", Assure(2, o)))

-----------------------------------------------------------------------------
(* Object mode.                                                              *)

\* dump_attr_cb.  Attributes are names that started with @.
AttrCb(name, v, o) ==
    LET d == o.depth
    IN  IF Raised(o) \/ Omitted(v) THEN o
        ELSE PutMark(",", Restored(d, Val(v, d, PutMark(":",
                 Text(name, "plain", Fill(d, Assure(d * opts.indent + 1, o)))))))
Attributes(ivars, d, o) == FoldLeft(LAMBDA p, m: AttrCb(m[1], m[2], p), [o EXCEPT !.depth = d], ivars)

Named(mark, class, d, o) ==
    Text(class, "plain", PutMark(":", Put(Str(mark), 4, Fill(d, Assure(d * opts.indent + LenOf[class] + 10, PutMark("{", Assure(2, o)))))))
Self(d, o) == PutMark(":", Put(Str("self"), 6, Fill(d, PutMark(",", Assure(d * opts.indent + 14, o)))))

\* ~mesg and ~bt of an exception; object mode takes no room for what it writes itself,
\* custom mode before each.
Message(x, before, between, d, o) ==
    LET comma == IF Last(o.cur) = Mark(",") THEN o ELSE PutMark(",", o)
        mesg == PutMark(":", Text("~mesg", "plain", Fill(d, Assure(before, comma))))
        bt == PutMark(":", Text("~bt", "plain", Fill(d, PutMark(",", Assure(between, Val(x.text, d, mesg))))))
    IN  Assure(2, Val(Nil, d, bt))

\* The member that names the class, if create_ok says so (custom mode).
Sep == IF opts.use THEN opts.sepSize ELSE 0
CodeRoom(class, d)  == d * opts.indent + 12 + LenOf[class] + LenOf["json_class"] + Sep
ClassRoom(class, d) == IF opts.create THEN CodeRoom(class, d) ELSE 0
ClassMember(class, d, o) ==
    IF ~opts.create THEN o
    ELSE Put(Str(class), LenOf[class] + 2, Put(Mark(":"), 1 + Sep, Put(Str("json_class"), LenOf["json_class"] + 2, Fill(d, o))))
ClassFirst(class, d, o) ==
    IF ~opts.create THEN o ELSE PutMark(",", ClassMember(class, d, Assure(ClassRoom(class, d), o)))

\* dump_odd, of object and of custom mode: the members of an odd class, by calling its
\* methods.
OddMember(name, v, d, o) ==
    PutMark(",", Assure(2, Val(v, d, PutMark(":", Text(name, "plain", Fill(d, Assure(d * opts.indent + 1, o)))))))
Odd(x, d, o) ==
    LET named == IF opts.mode = "object" THEN PutMark(",", Named("^O", x.class, d + 1, o))
                 ELSE ClassFirst(x.class, d + 1, PutMark("{", Assure(2, o)))
        all == FoldLeft(LAMBDA p, m: OddMember(m[1], m[2], d + 1, p), named, x.ivars)
    IN  PutMark("}", NoComma(all))

RECURSIVE ObjectArray(_, _, _, _), ObjectHash(_, _, _, _)
\* dump_obj_attrs.
Numbered(id, d, o) ==
    IF id = 0 THEN o
    ELSE Put(<<"num", id>>, 1, PutMark(":", Put(Str("^i"), 4, Fill(d, PutMark(",", Assure(d * opts.indent + 16, o))))))
Itself(n, d, o) ==
    CASE heap[n].kind = "string" -> Text(heap[n].text[2], "plain", Self(d, o))
      [] heap[n].kind = "array" -> ObjectArray(n, TRUE, d, Self(d, o))
      [] heap[n].kind = "hash" -> ObjectHash(n, TRUE, d, Self(d, o))
      [] OTHER -> o
Separated(ivars, o) == IF ivars = <<>> THEN o ELSE PutMark(",", o)
Explained(x, before, between, d, o) == IF x.kind = "exception" THEN Message(x, before, between, d, o) ELSE o
ObjAttrs(n, id, d, o) ==
    LET x == heap[n]
    IN  IF x.kind = "odd" THEN Odd(x, d + 1, o)
        ELSE PutMark("}", Fill(d, Restored(d, Explained(x, 0, 2, d + 1, NoComma(Attributes(x.ivars, d + 1,
                 Separated(x.ivars, Itself(n, d + 1, Numbered(id, d + 1, Named("^o", x.class, d + 1, o))))))))))

\* dump_array_class and dump_hash_class; self is set inside of ObjAttrs (Qundef).
ObjectArray(n, self, d, o) ==
    LET id == Circular(n, o)   p == Counted(n, o)
    IN  IF id < 0 THEN p
        ELSE IF heap[n].class # "Array" /\ ~self THEN ObjAttrs(n, 0, d, p)
        ELSE ArrayBody(heap[n].items, id, d, p)
ObjectHash(n, self, d, o) ==
    LET id == Circular(n, o)   p == Counted(n, Assure(2, o))
    IN  IF heap[n].class # "Hash" /\ ~self THEN ObjAttrs(n, 0, d, o)
        ELSE IF heap[n].pairs = <<>> THEN EmptyHash(o)
        ELSE IF id < 0 THEN p
        ELSE HashBody(heap[n].pairs, id, d, p)

\* dump_struct.
Struct(x, d, o) ==
    LET size == (d + 1) * opts.indent + (d + 2) * opts.indent + 10 + LenOf[x.class]
        open == PutMark("[", PutMark(":", Put(Str("^u"), 4, Fill(d + 1, PutMark("{", Assure(size, o))))))
        name == PutMark(",", Put(Str(x.class), LenOf[x.class] + 2, Fill(d + 2, open)))
        values == FoldLeft(LAMBDA p, v: IF Raised(p) THEN p
                              ELSE PutMark(",", Val(v, d + 2, Fill(d + 2, Assure((d + 2) * opts.indent + 2, p)))), name, x.items)
    IN  PutMark("}", PutMark("]", NoComma(values)))

ObjectNode(n, d, o) ==
    LET x == heap[n]   id == Circular(n, o)   p == Counted(n, o)
    IN  CASE x.kind = "array" -> ObjectArray(n, FALSE, d, o)
          [] x.kind = "hash" -> ObjectHash(n, FALSE, d, o)
          [] x.kind \in {"object", "exception"} -> IF id < 0 THEN p ELSE ObjAttrs(n, id, d, p)
          [] x.kind = "struct" -> Struct(x, d, o)
          [] OTHER -> ObjAttrs(n, 0, d, o)

-----------------------------------------------------------------------------
(* Custom mode.                                                              *)

\* dump_obj_attrs.
CustomAttrs(x, d, o) ==
    PutMark("}", Fill(d, Restored(d, Explained(x, 2, ClassRoom(x.class, d + 1) + 2, d + 1, NoComma(Attributes(x.ivars, d + 1,
        ClassFirst(x.class, d + 1, PutMark("{", Assure(2, o)))))))))

\* oj_code_attrs: the values are left to compat mode.
CodeMember(name, v, d, o) ==
    LET room == Assure((d + 2) * opts.indent + LenOf[name] + Sep + 6, o)
        comma == IF Last(room.cur) = Mark("{") THEN room ELSE PutMark(",", room)
        value == Val(v, d + 2, [Put(Mark(":"), 1 + Sep, Put(Str(name), LenOf[name] + 2, Fill(d + 1, comma))) EXCEPT !.mode = "compat"])
    IN  [value EXCEPT !.mode = "custom"]
CodeAttrs(x, d, o) ==
    LET open == ClassMember(x.class, d + 1, PutMark("{", Assure(CodeRoom(x.class, d + 1), o)))
        all == FoldLeft(LAMBDA p, m: IF Raised(p) THEN p ELSE CodeMember(m[1], m[2], d, p), open, x.ivars)
    IN  PutMark("}", Fill(d, Assure(d * opts.indent + 2, all)))

\* dump_struct: the last byte is taken back whatever it is.
DropLast(o) == IF Raised(o) THEN o
               ELSE IF o.cur[Len(o.cur)][1] # "line" THEN [o EXCEPT !.cur = Front(@), !.bytes = @ - 1]
               ELSE [o EXCEPT !.bytes = @ - 1]
StructMember(name, v, d, o) ==
    PutMark(",", Val(v, d, PutMark(":", Put(Str(name), LenOf[name] + 2,
        Fill(d, Assure(d * opts.indent + LenOf[name] + 5, o))))))
StructMembers(x, d, o) ==
    LET open == Fill(d + 1, PutMark("{", Assure((d + 1) * opts.indent + (d + 2) * opts.indent + 3, o)))
        all == FoldLeft(LAMBDA p, i: IF Raised(p) THEN p ELSE StructMember(MemberNames[i], x.items[i], d + 2, p),
                        open, [i \in DOMAIN x.items |-> i])
    IN  PutMark("}", DropLast(all))

\* dump_hash, of the modes but object.
HashNode(pairs, d, o) == IF pairs = <<>> THEN EmptyHash(o) ELSE HashBody(pairs, 0, d, Assure(2, o))

\* dump_common: an object that converts itself says what is written.  It does so at
\* the depth it is at.
ToJson(o) == Put(<<"json">>, 4, Assure(5, o))
Converts(x) == x.class = "Shown" /\ opts.convert # "none"
Conversion(x) == x.ivars[1][2]
Converted(n, d, o) ==
    LET v == Conversion(heap[n])
    IN  CASE opts.convert = "to_json" -> ToJson(o)
          [] opts.convert = "as_json" /\ v = Ref(n) -> Text("to_s", "plain", o)
          [] opts.convert = "to_hash" /\ v = Ref(n) /\ ~opts.circular -> Raise("SystemStackError", o)
          [] OTHER -> Val(v, d, o)

CustomNode(n, d, o) ==
    LET x == heap[n]
    IN  IF Converts(x) THEN Converted(n, d, o)
        ELSE IF x.kind = "odd" THEN (IF x.class \in Codes THEN CodeAttrs(x, d, o) ELSE Odd(x, d + 1, o))
        ELSE IF x.kind = "struct" THEN StructMembers(x, d, o)
        ELSE CustomAttrs(x, d, o)

-----------------------------------------------------------------------------
(* What was seen is null in these modes, or an error in compat mode.          *)

Checked(kind, o) == kind \in {"array", "hash"} \/ (o.mode = "custom" /\ kind # "string")
SeenBefore(n, o) == Checked(heap[n].kind, o) /\ Circular(n, o) < 0
PlainNode(n, d, o) ==
    LET x == heap[n]   p == Counted(n, o)
    IN  IF SeenBefore(n, o) THEN (IF o.mode = "compat" THEN Raise("NestingError", p) ELSE Null(p))
        ELSE IF x.kind \in {"array", "hash"} /\ o.mode = "compat" /\ x.class \notin {"Array", "Hash"} THEN ToJson(p)
        ELSE IF x.kind = "array" THEN ArrayBody(x.items, 0, d, p)
        ELSE IF x.kind = "hash" THEN HashNode(x.pairs, d, p)
        ELSE IF x.kind = "string" THEN Text(x.text[2], "plain", o)
        ELSE IF o.mode = "compat" THEN Text("to_s", "plain", o)
        ELSE IF o.mode = "custom" THEN CustomNode(n, d, p)
        ELSE IF o.mode = "null" THEN Null(o)
        ELSE Raise("TypeError", o)

Scalar(v, d, o) ==
    IF v[1] = "nil" THEN Null(o)
    ELSE IF v[1] = "true" THEN Raw(v, 4, o)
    ELSE IF v[1] = "num" THEN Raw(v, 1, o)
    ELSE IF v[1] \in {"str", "sym"} THEN KeyText(v, o)
    ELSE IF v[1] = "class" /\ opts.mode = "object" THEN
            PutMark("}", Text(v[2], "plain", PutMark(":", Put(Str("^c"), 4, PutMark("{", Assure(6, o))))))
    ELSE IF v[1] = "class" /\ o.mode \in {"compat", "custom"} THEN Text(v[2], "plain", o)
    ELSE IF v[1] = "class" /\ opts.mode = "null" THEN Null(o)
    ELSE Raise("TypeError", o)

\* oj_dump_strict_val, and those of the other modes.
\* Variant: a container at the limit is still let in.
TooDeepLate(v, d, o) == IF o.mode = "compat" THEN d > MaxDepth /\ IsRef(v) ELSE d > MaxDepth + 1
TooDeep(v, d, o) ==
    IF o.mode = "compat" THEN d >= MaxDepth /\ IsRef(v) /\ heap[v[2]].kind \in {"array", "hash"} ELSE d > MaxDepth
Val(v, d, o) ==
    IF Raised(o) THEN o
    ELSE IF TooDeep(v, d, o) THEN Raise("TooDeep", o)
    ELSE IF ~IsRef(v) THEN Scalar(v, d, o)
    ELSE IF opts.mode = "object" THEN ObjectNode(v[2], d, o)
    ELSE PlainNode(v[2], d, o)

\* oj_dump_obj_to_json_using_params.
Dumped ==
    LET o == Val(root, 0, Fresh)
        end == Last(o.cur)
    IN  IF Raised(o) \/ opts.indent = 0 \/ end \notin {Mark("]"), Mark("}")} THEN o
        ELSE Put(Line(0), 1, Assure(1, o))
=============================================================================
