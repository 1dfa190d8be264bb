-------------------------------- MODULE Load --------------------------------
(* A document of object mode read back: the callbacks of object.c, and the    *)
(* array of objects by their ids (circarray.c).  The parser that calls them   *)
(* is the one of module Classic.                                             *)
EXTENDS Dump

CONSTANTS OddArity     \* the odd classes, and how many arguments make one

(* A frame is the container that is being read: its value, which is nil until  *)
(* the first member tells what it is; the name of the member that is due; and  *)
(* the arguments of an odd class.                                            *)
Frame(v) == [val |-> v, key |-> <<"none">>, odd |-> <<>>]
Empty    == [heap |-> <<>>, circ |-> <<>>, frames |-> <<>>, value |-> Nil, raised |-> FALSE]
Node(kind, class) == [kind |-> kind, class |-> class, items |-> <<>>, pairs |-> <<>>, ivars |-> <<>>, text |-> Nil]

Top(l)       == Last(l.frames)
SetTop(f, l) == [l EXCEPT !.frames = Append(Front(@), f)]
SetVal(v, l) == SetTop([Top(l) EXCEPT !.val = v], l)
Fail(l)      == [l EXCEPT !.raised = TRUE]

\* A new object as the value of the innermost container.
Begin(node, l) == SetVal(Ref(Len(l.heap) + 1), [l EXCEPT !.heap = Append(@, node)])
Here(l)        == l.heap[Top(l).val[2]]
Change(node, l) == [l EXCEPT !.heap[Top(l).val[2]] = node]
TypeOf(l)      == IF IsRef(Top(l).val) THEN Here(l).kind ELSE Top(l).val[1]

\* oj_circ_array_set and oj_circ_array_get: places that are skipped are nil.
CircSet(v, id, l) ==
    [l EXCEPT !.circ = IF id <= Len(@) THEN [@ EXCEPT ![id] = v]
                       ELSE @ \o [i \in 1..id - Len(@) - 1 |-> Nil] \o <<v>>]
CircGet(id, l) == IF id \in DOMAIN l.circ THEN l.circ[id] ELSE Nil

\* A literal: its text, and the mark that its first bytes are as they are written.
IsMark(k, s)   == k[1] = "str" /\ k[2] = s

\* calc_hash_key and str_to_value.
HashKey(k) == IF k[1] = "str" /\ k[3] = "sym" THEN <<"sym", k[2]>> ELSE <<"str", k[2]>>
StrValue(t, l) ==
    IF t[1] = "back" THEN (IF opts.circular THEN CircGet(t[2], l) ELSE <<"str", "^r">>)
    ELSE IF t[1] = "id" THEN <<"str", "^i">>
    ELSE IF t[3] = "sym" THEN <<"sym", t[2]>>
    ELSE <<"str", t[2]>>

\* Among pairs, a key that is there keeps its place.
Stored(pairs, k, v) ==
    IF \E i \in DOMAIN pairs: pairs[i][1] = k
    THEN [i \in DOMAIN pairs |-> IF pairs[i][1] = k THEN <<k, v>> ELSE pairs[i]]
    ELSE Append(pairs, <<k, v>>)
Aset(k, v, l) == Change([Here(l) EXCEPT !.pairs = Stored(@, k, v)], l)

\* oj_set_obj_ivar: the message of an exception makes a new one, like the old.
SetIvar(k, v, l) ==
    IF Here(l).kind = "exception" /\ IsMark(k, "~mesg") THEN Begin([Here(l) EXCEPT !.text = v], l)
    ELSE IF Here(l).kind = "exception" /\ IsMark(k, "~bt") THEN l
    ELSE Change([Here(l) EXCEPT !.ivars = Append(@, <<k[2], v>>)], l)

\* oj_odd_set_arg, and end_hash for the classes made of arguments.
OddArg(k, v, l) ==
    IF Top(l).odd = <<>> THEN Fail(l)
    ELSE SetTop([Top(l) EXCEPT !.odd = Append(@, <<k[2], v>>)], l)

\* replace of Array, Hash and String.
Replace(v, l) ==
    Change([Here(l) EXCEPT !.items = IF IsRef(v) THEN l.heap[v[2]].items ELSE @,
                           !.pairs = IF IsRef(v) THEN l.heap[v[2]].pairs ELSE @,
                           !.text  = IF IsRef(v) THEN @ ELSE v], l)
IsSelf(k) == IsMark(k, "self")

\* hat_cstr, hat_num and hat_value: what the first member says of the object.
KindOf(class) == CASE class = "MyArray" -> "array" [] class = "MyHash" -> "hash" [] class = "MyString" -> "string"
                   [] class = "Error" -> "exception" [] OTHER -> "object"
StructItems(a) == Tail(a.items)
HatValue(k, v, l) ==
    LET a == l.heap[v[2]]
    IN  IF k[2] = "^u" /\ a.items = <<>> THEN Fail(l)
        ELSE IF k[2] = "^u" THEN Begin([Node("struct", a.items[1][2]) EXCEPT !.items = StructItems(a)], l)
        ELSE IF Len(a.items) # 2 THEN Fail(l)
        ELSE Aset(a.items[1], a.items[2], Begin(Node("hash", "Hash"), l))
Hat(k, t, l) ==
    CASE k[2] = "^o" /\ t[1] = "str" -> Begin(Node(KindOf(t[2]), t[2]), l)
      [] k[2] = "^O" /\ t[1] = "str" -> SetTop([Top(l) EXCEPT !.val = <<"class", t[2]>>, !.odd = <<<<"class", Nil>>>>], l)
      [] k[2] = "^c" /\ t[1] = "str" -> SetVal(<<"class", t[2]>>, l)
      [] k[2] = "^i" /\ t[1] = "num" -> LET h == Begin(Node("hash", "Hash"), l) IN CircSet(Top(h).val, t[2], h)
      [] OTHER -> HatValue(k, t, l)
IsHat(k, t, l) ==
    /\ k[1] = "str"
    /\ \/ k[2] = "^o" /\ t[1] = "str"
       \/ k[2] = "^O" /\ t[1] = "str" /\ t[2] \in DOMAIN OddArity
       \/ k[2] = "^c" /\ t[1] = "str"
       \/ k[2] = "^i" /\ t[1] = "num" /\ opts.circular
       \/ k[2] \in {"^u", "^#"} /\ IsRef(t) /\ l.heap[t[2]].kind = "array"

\* The value of a literal, or of a container that is complete.
Meant(t, l) == IF t[1] \in {"str", "back", "id"} THEN StrValue(t, l) ELSE t
IsLiteral(t) == t[1] \in {"str", "back", "id"}

\* hash_set_cstr, hash_set_num and hash_set_value: by the type of what is being
\* read.  Variant: an id is an attribute.
ObjectIdNot(k, t) == FALSE
ObjectId(k, t) == IsMark(k, "^i") /\ t[1] = "num" /\ opts.circular
RECURSIVE HashSet(_, _)
HashSet(t, l) ==
    LET k == Top(l).key   type == TypeOf(l)   v == Meant(t, l)
    IN  CASE type = "nil" -> IF IsHat(k, t, l) THEN Hat(k, t, l) ELSE HashSet(t, Begin(Node("hash", "Hash"), l))
          [] type = "hash" ->
               IF IsLiteral(t) \/ t[1] = "num" THEN Aset(HashKey(k), v, l)
               ELSE IF Here(l).class # "Hash" THEN (IF IsSelf(k) THEN Replace(v, l) ELSE SetIvar(k, v, l))
               ELSE IF IsMark(k, "^#") /\ IsRef(t) /\ l.heap[t[2]].kind = "array" THEN
                        LET a == l.heap[t[2]].items IN IF Len(a) # 2 THEN Fail(l) ELSE Aset(a[1], a[2], l)
               ELSE Aset(HashKey(k), v, l)
          [] type = "string" ->
               IF IsLiteral(t) THEN (IF IsSelf(k) THEN Replace(v, l) ELSE SetIvar(k, v, l))
               ELSE IF t[1] = "num" THEN Fail(l)
               ELSE SetIvar(k, v, l)
          [] type = "array" ->
               IF IsLiteral(t) \/ t[1] = "num" THEN Fail(l)
               ELSE IF IsSelf(k) THEN Replace(v, l) ELSE SetIvar(k, v, l)
          [] type \in {"object", "exception"} ->
               IF ObjectId(k, t) THEN CircSet(Top(l).val, t[2], l) ELSE SetIvar(k, v, l)
          [] type = "class" -> OddArg(k, v, l)
          [] OTHER -> Fail(l)

\* array_append_cstr, array_append_num and array_append_value.
Push(v, l) == Change([Here(l) EXCEPT !.items = Append(@, v)], l)
ArrayAppend(t, l) ==
    LET first == opts.circular /\ Here(l).items = <<>>
    IN  IF t[1] = "id" /\ first THEN CircSet(Top(l).val, t[2], l) ELSE Push(Meant(t, l), l)

\* add_value of parse.c, by what the innermost container is due.
InArray(l) == IsRef(Top(l).val) /\ Here(l).kind = "array" /\ Top(l).key = <<"[">>
Add(t, l) ==
    IF l.frames = <<>> THEN [l EXCEPT !.value = Meant(t, l)]
    ELSE IF InArray(l) THEN ArrayAppend(t, l)
    ELSE IF Top(l).key = <<"none">> THEN SetTop([Top(l) EXCEPT !.key = t], l)
    ELSE LET m == HashSet(t, l) IN IF m.raised THEN m ELSE SetTop([Top(m) EXCEPT !.key = <<"none">>], m)

\* start_hash, start_array, end_hash and end_array.
EndHash(l) ==
    LET f == Top(l)
    IN  IF f.val = Nil THEN Begin(Node("hash", "Hash"), l)
        ELSE IF f.odd # <<>> THEN Begin([Node("odd", f.val[2]) EXCEPT !.ivars = Tail(f.odd)], l)
        ELSE l
Pop(l) == Add(Top(l).val, [l EXCEPT !.frames = Front(@)])
ReadToken(l, t) ==
    IF l.raised THEN l
    ELSE IF t = Mark("{") THEN [l EXCEPT !.frames = Append(@, Frame(Nil))]
    ELSE IF t = Mark("[") THEN LET m == [l EXCEPT !.frames = Append(@, Frame(Nil))]
                          IN  SetTop([Top(Begin(Node("array", "Array"), m)) EXCEPT !.key = <<"[">>], Begin(Node("array", "Array"), m))
    ELSE IF t = Mark("}") THEN Pop(EndHash(l))
    ELSE IF t = Mark("]") THEN Pop(l)
    ELSE IF t[1] \in {",", ":", "line"} THEN l
    ELSE Add(t, l)
Loaded(tokens) == FoldLeft(ReadToken, Empty, tokens)
=============================================================================
