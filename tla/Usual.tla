-------------------------------- MODULE Usual --------------------------------
(* The "usual" delegate of the push parser (usual.c): it builds Ruby values  *)
(* on three stacks it grows itself, for values, for open containers and for  *)
(* keys.  Nothing is checked when a container closes: where its values and   *)
(* its keys begin is what was written down when it was opened.               *)
(*                                                                           *)
(* The parser's side is the set of call sequences that Parser lets through   *)
(* (DelegateProtocol), with the text of keys and strings added: p->key and   *)
(* p->buf.  ref is a history variable: the documents, built as trees.        *)
EXTENDS Integers, Sequences, SequencesExt

CONSTANTS
    Keys, CreateId,      \* member names; the one create_id is set to
    Texts,               \* strings
    Classes, Creatable,  \* texts that name a class; those with json_create
    Settings,            \* combinations of the options considered
    Files,               \* file() is called: the input may end anywhere
    InitCap, InitCols,   \* 4096 values and keys, 256 containers
    MaxDepth, MaxValues  \* bounds: nesting, values in one call

\* What oj_init_usual sets.
Defaults == [array_class |-> FALSE, hash_class |-> FALSE, create |-> FALSE,
             missing_class |-> "ignore", ignore_json_create |-> FALSE,
             omit_null |-> FALSE, raise_on_empty |-> FALSE]
Options == [array_class : BOOLEAN, hash_class : BOOLEAN, create : BOOLEAN,
            missing_class : {"ignore", "auto", "raise"}, ignore_json_create : BOOLEAN,
            omit_null : BOOLEAN, raise_on_empty : BOOLEAN]

ASSUME UsualAssumption ==
    /\ Settings \subseteq Options /\ Defaults \in Settings
    /\ CreateId \in Keys /\ Creatable \subseteq Classes /\ Classes \subseteq Texts
    /\ Files \in BOOLEAN
    /\ InitCap \in Nat /\ InitCap >= 2 /\ InitCols \in Nat /\ InitCols >= 2
    /\ MaxDepth \in Nat /\ MaxValues \in Nat

VARIABLES
    open,    \* p->stack: the open containers
    member,  \* a member's key has been read and its value has not
    key,     \* p->key
    buf,     \* p->buf: the text of the last string
    vstack,  \* vhead[0..vtail)
    cstack,  \* chead[0..ctail): where each open container's values, keys begin
    kstack,  \* khead[0..ktail)
    caps,    \* allocated: values, containers, keys
    set,     \* the options
    closer,  \* funcs[*].close_object
    block,   \* the call was given a block
    phase,   \* "idle", "parsing", "returned" or "raised"
    yields,  \* what the block was given
    result,  \* what the call returned
    ref,     \* history: [frames, docs], the same documents as trees
    stale,   \* history: see Announce and Close
    values   \* counts the values of this call

stacks  == <<vstack, cstack, kstack, caps>>
options == <<set, closer>>
call    == <<block, phase, yields, result>>
vars    == <<open, member, key, buf, stacks, options, call, ref, stale, values>>

-----------------------------------------------------------------------------
(* Ruby values.                                                              *)
Undef     == <<"undef">>   \* Qundef: a slot to be filled when its container closes
Nil       == <<"nil">>
Num       == <<"num">>     \* true, false and every number
Str(s)    == <<"str", s>>
Class(s)  == <<"class", s>>
Array(vs) == <<"array", set.array_class, vs>>

\* rb_hash_bulk_insert, and []= one by one: the last value of a key stays.
HashOf(pairs, places) ==
    [k \in {pairs[i][1] : i \in places} |-> pairs[Max({i \in places : pairs[i][1] = k})][2]]
FromPairs(pairs) == HashOf(pairs, DOMAIN pairs)

-----------------------------------------------------------------------------
(* The reference: a tree per document.                                       *)

Resolves(s) == s \in Classes \/ set.missing_class = "auto"
NamesClass(m) == set.create /\ m[1] = CreateId /\ m[2][1] = "str" /\ Resolves(m[2][2])

Omitted(m) == set.omit_null /\ m[2] = Nil
Naming(items) == {i \in DOMAIN items : NamesClass(items[i])}
Kept(items)   == {i \in DOMAIN items : ~NamesClass(items[i]) /\ ~Omitted(items[i])}

Tree(kind, items) ==
    IF kind = "array" THEN Array(items)
    ELSE LET members == HashOf(items, Kept(items))
         IN IF Naming(items) = {} THEN <<"hash", set.hash_class, members>>
            ELSE LET class == items[Max(Naming(items))][2][2]
                 IN <<IF class \in Creatable /\ ~set.ignore_json_create THEN "created" ELSE "object",
                      class, members>>

\* Value v, read under name k, belongs to the innermost open container.
Grown(r, k, v) ==
    IF r.frames = <<>> THEN [r EXCEPT !.docs = Append(@, v)]
    ELSE LET n == Len(r.frames)
         IN [r EXCEPT !.frames[n].items =
                Append(@, IF r.frames[n].kind = "array" THEN v ELSE <<k, v>>)]

RefOpen(kind) == [ref EXCEPT !.frames = Append(@, [kind |-> kind, name |-> key, items |-> <<>>])]
RefClose == LET f == Last(ref.frames)
            IN Grown([ref EXCEPT !.frames = Front(@)], f.name, Tree(f.kind, f.items))

-----------------------------------------------------------------------------
(* The stacks.  Each function makes room before it writes.                   *)

InObject == open # <<>> /\ Last(open) = "object"

Push(v)  == /\ vstack' = Append(vstack, v)
            /\ caps' = [caps EXCEPT !.v = IF @ <= Len(vstack) THEN 2 * @ ELSE @]

\* push_key and push2: a place for the key, then the value.
\* Variant: push2 makes room for one slot only.
MemberRoomOne == [caps EXCEPT !.v = IF @ <= Len(vstack) THEN 2 * @ ELSE @,
                              !.k = IF @ <= Len(kstack) THEN 2 * @ ELSE @]
MemberRoom == [caps EXCEPT !.v = IF @ <= Len(vstack) + 1 THEN 2 * @ ELSE @,
                           !.k = IF @ <= Len(kstack) THEN 2 * @ ELSE @]
PushMember(v) == /\ kstack' = Append(kstack, key)
                 /\ vstack' = vstack \o <<Undef, v>>
                 /\ caps' = MemberRoom

\* add_true, add_int, ... and their _key forms.
Add(v) == IF InObject THEN PushMember(v) ELSE Push(v) /\ UNCHANGED kstack

\* add_null_key, or the no-op omit_null puts in its place.
AddNull == IF InObject /\ set.omit_null THEN UNCHANGED <<vstack, kstack, caps>> ELSE Add(Nil)

\* add_str, add_str_key and, with create_id, add_str_key_create, for text s.
IsClassName == InObject /\ set.create /\ key = CreateId
AddStr(s) ==
    IF IsClassName /\ Resolves(s)
    THEN /\ vstack' = [vstack EXCEPT ![Last(cstack).vi + 1] = Class(s)]
         /\ UNCHANGED <<kstack, caps>>
    ELSE Add(Str(s))
MissRaises(s) == IsClassName /\ ~Resolves(s) /\ set.missing_class = "raise"

\* open_array, open_object and their _key forms.
ValueIndex == Len(vstack) + (IF InObject THEN 1 ELSE 0)
OpenCol(kind) ==
    LET room == IF InObject THEN MemberRoom
                ELSE [caps EXCEPT !.v = IF @ <= Len(vstack) THEN 2 * @ ELSE @]
    IN  /\ kstack' = IF InObject THEN Append(kstack, key) ELSE kstack
        /\ vstack' = IF InObject THEN vstack \o <<Undef, Undef>> ELSE Append(vstack, Undef)
        /\ cstack' = Append(cstack, [vi |-> ValueIndex,
                                     ki |-> IF kind = "array" THEN -1 ELSE Len(kstack')])
        /\ caps' = [room EXCEPT !.c = IF @ <= Len(cstack) + 1 THEN 2 * @ ELSE @]

\* The slots of the innermost container, and its keys, put into their places.
col     == Last(cstack)
Slots   == SubSeq(vstack, col.vi + 2, Len(vstack))
ColKeys == SubSeq(kstack, col.ki + 1, Len(kstack))
Pairs   == [i \in 1..Len(ColKeys) |-> <<ColKeys[i], Slots[2 * i]>>]

\* close_object, close_object_class, close_object_create.
ObjectValue ==
    CASE closer = "plain" -> <<"hash", FALSE, FromPairs(Pairs)>>
      [] closer = "class" -> <<"hash", TRUE, FromPairs(Pairs)>>
      [] OTHER ->
           LET class == vstack[col.vi + 1]
           IN IF class = Undef THEN <<"hash", set.hash_class, FromPairs(Pairs)>>
              ELSE <<IF class[2] \in Creatable /\ ~set.ignore_json_create THEN "created" ELSE "object",
                     class[2], FromPairs(Pairs)>>

\* Every close drops the container's slots and leaves the value in its own slot.
Dropped(v) == Append(SubSeq(vstack, 1, col.vi), v)

\* Only close_object itself gives a finished document to the block.
Yields(v) == block /\ closer = "plain" /\ Len(Dropped(v)) = 1

KeysLeft == SubSeq(kstack, 1, col.ki)
CloseObjectCol ==
    LET v == ObjectValue
    IN  /\ cstack' = Front(cstack) /\ kstack' = KeysLeft
        /\ vstack' = IF Yields(v) THEN <<>> ELSE Dropped(v)
        /\ yields' = IF Yields(v) THEN Append(yields, v) ELSE yields
CloseArrayCol ==
    /\ cstack' = Front(cstack) /\ vstack' = Dropped(Array(Slots))
    /\ UNCHANGED <<kstack, yields>>
-----------------------------------------------------------------------------
(* What the parser does.                                                     *)

Parsing == phase = "parsing"
\* A value may come: everywhere but between the members of an object.
CanAdd  == Parsing /\ (InObject => member) /\ values < MaxValues
Placed(v) == /\ ref' = Grown(ref, key, v)
             /\ values' = values + 1 /\ member' = FALSE
             /\ UNCHANGED <<open, cstack, key, options, call, stale>>

\* A key read by the loop of KEY_QUOTE.
ReadKey(k) ==
    /\ Parsing /\ InObject /\ ~member
    /\ key' = k /\ member' = TRUE
    /\ UNCHANGED <<open, buf, stacks, options, call, ref, stale, values>>

\* A key that took string_map to read: add_str is called for it, with whatever
\* text p->buf still has.  The extra member is overwritten when the value comes,
\* unless the value is a null that is omitted, or the extra text was taken for a
\* class name; stale says that one of these is possible.
Announce(k) ==
    /\ Parsing /\ InObject /\ ~member /\ values < MaxValues
    /\ key' = k /\ member' = TRUE
    /\ IF set.create /\ k = CreateId /\ Resolves(buf)
       THEN /\ vstack' = [vstack EXCEPT ![col.vi + 1] = Class(buf)]
            /\ UNCHANGED <<kstack, caps>>
       ELSE /\ ~(set.create /\ k = CreateId /\ set.missing_class = "raise")
            /\ kstack' = Append(kstack, k)
            /\ vstack' = vstack \o <<Undef, Str(buf)>>
            /\ caps' = MemberRoom
    /\ stale' = (stale \/ set.omit_null \/ (set.create /\ k = CreateId))
    /\ values' = values + 1
    /\ UNCHANGED <<open, buf, cstack, options, call, ref>>

ReadNull   == CanAdd /\ AddNull /\ Placed(Nil) /\ UNCHANGED buf
ReadScalar == CanAdd /\ Add(Num) /\ Placed(Num) /\ UNCHANGED buf
ReadString(s) ==
    /\ CanAdd /\ ~MissRaises(s)
    /\ buf' = s
    /\ AddStr(s) /\ Placed(Str(s))

Open(kind) ==
    /\ CanAdd /\ Len(open) < MaxDepth
    /\ OpenCol(kind)
    /\ open' = Append(open, kind) /\ ref' = RefOpen(kind)
    /\ values' = values + 1 /\ member' = FALSE
    /\ UNCHANGED <<key, buf, options, call, stale>>

\* {"a":} is let through: a key may be left without a value, which ref has no
\* tree for.
Close(kind) ==
    /\ Parsing /\ open # <<>> /\ Last(open) = kind
    /\ IF kind = "array" THEN CloseArrayCol ELSE CloseObjectCol
    /\ open' = Front(open) /\ member' = FALSE /\ ref' = RefClose
    /\ stale' = (stale \/ member)
    /\ UNCHANGED <<key, buf, caps, options, block, phase, result, values>>

\* start(): nothing of the last call is left.
Start == vstack' = <<>> /\ cstack' = <<>> /\ kstack' = <<>>
Idle == phase # "parsing"
Begin(b) ==
    /\ Idle /\ Start
    /\ open' = <<>> /\ member' = FALSE
    /\ block' = b /\ phase' = "parsing" /\ yields' = <<>> /\ result' = Nil
    /\ ref' = [frames |-> <<>>, docs |-> <<>>] /\ stale' = FALSE /\ values' = 0
    /\ UNCHANGED <<key, buf, caps, options>>

\* result(): the value, the values of several documents, or nil for none.
Result == CASE vstack = <<>>    -> Nil
            [] Len(vstack) = 1 -> vstack[1]
            [] OTHER           -> <<"array", FALSE, vstack>>
Return ==
    /\ Parsing /\ (open = <<>> \/ Files)
    /\ phase' = IF vstack = <<>> /\ set.raise_on_empty THEN "raised" ELSE "returned"
    /\ result' = IF phase' = "raised" THEN Nil ELSE Result
    /\ UNCHANGED <<open, member, key, buf, stacks, options, block, yields, ref, stale, values>>

\* An error of the parser's, of a missing class, of a key that is too long, or of
\* code the delegate calls (BigDecimal, json_create, []=, the block): the call is
\* left with the stacks as they are, and with the key or the text just read.
\* BigDecimal is called between push_key and push2, and a function that closes a
\* container has taken it off its stack when it calls.
Raise ==
    /\ Parsing
    /\ phase' = "raised"
    /\ key' \in IF InObject /\ ~member THEN Keys ELSE {key}
    /\ buf' \in IF CanAdd THEN Texts \cup {buf} ELSE {buf}
    /\ \/ UNCHANGED stacks
       \/ /\ InObject /\ member
          /\ kstack' \in {kstack, Append(kstack, key)}
          /\ caps' = [MemberRoom EXCEPT !.v = caps.v]
          /\ UNCHANGED <<vstack, cstack>>
       \/ /\ open # <<>>
          /\ cstack' = Front(cstack)
          /\ UNCHANGED <<vstack, kstack, caps>>
    /\ UNCHANGED <<open, member, options, block, yields, result, ref, stale, values>>

(* Options, set between calls (bound: only after a call that read nothing).   *)
(* create_id= and hash_class= share close_object.                            *)
PlainOr(hash_class) == IF hash_class THEN "class" ELSE "plain"
Option(s) == /\ Idle /\ values = 0 /\ s \in Settings /\ set' = s
             /\ UNCHANGED <<open, member, key, buf, stacks, call, ref, stale, values>>
SetCreateId(on) ==
    /\ Option([set EXCEPT !.create = on])
    /\ closer' = IF on THEN "create" ELSE PlainOr(set.hash_class)
\* Variant: create_id is not looked at.
SetHashClassAlways(on) ==
    /\ Option([set EXCEPT !.hash_class = on])
    /\ closer' = PlainOr(on)
SetHashClass(on) ==
    /\ Option([set EXCEPT !.hash_class = on])
    /\ closer' = IF set.create THEN closer ELSE PlainOr(on)
SetOmitNull(on) == Option([set EXCEPT !.omit_null = on]) /\ UNCHANGED closer
SetArrayClass(on)       == Option([set EXCEPT !.array_class = on])
SetIgnoreJsonCreate(on) == Option([set EXCEPT !.ignore_json_create = on])
SetRaiseOnEmpty(on)     == Option([set EXCEPT !.raise_on_empty = on])
SetMissingClass(mode)   == Option([set EXCEPT !.missing_class = mode])
SetOther ==
    /\ \/ \E on \in BOOLEAN : SetArrayClass(on) \/ SetIgnoreJsonCreate(on) \/ SetRaiseOnEmpty(on)
       \/ \E mode \in {"auto", "ignore", "raise"} : SetMissingClass(mode)
    /\ UNCHANGED closer

\* capacity=: one more than there is, for values and keys alike.
SetCapacity ==
    /\ Idle /\ values = 0 /\ caps.v = InitCap
    /\ LET cap == caps.v + 1
       IN caps' = [caps EXCEPT !.v = cap, !.k = IF @ < cap THEN cap ELSE @]
    /\ UNCHANGED <<open, member, key, buf, vstack, cstack, kstack, options, call, ref, stale, values>>

Init ==
    /\ open = <<>> /\ member = FALSE /\ key = CreateId /\ buf = ""
    /\ vstack = <<>> /\ cstack = <<>> /\ kstack = <<>>
    /\ caps = [v |-> InitCap, c |-> InitCols, k |-> InitCap]
    /\ set = Defaults /\ closer = "plain"
    /\ block = FALSE /\ phase = "idle" /\ yields = <<>> /\ result = Nil
    /\ ref = [frames |-> <<>>, docs |-> <<>>] /\ stale = FALSE /\ values = 0

Next ==
    \/ \E b \in BOOLEAN : Begin(b)
    \/ \E k \in Keys : ReadKey(k) \/ Announce(k)
    \/ ReadNull \/ ReadScalar
    \/ \E s \in Texts : ReadString(s)
    \/ \E kind \in {"array", "object"} : Open(kind) \/ Close(kind)
    \/ Return
    \/ Raise
    \/ \E on \in BOOLEAN : SetCreateId(on) \/ SetHashClass(on) \/ SetOmitNull(on)
    \/ SetOther
    \/ SetCapacity

Spec == Init /\ [][Next]_vars
-----------------------------------------------------------------------------
TypeOK ==
    /\ open \in Seq({"array", "object"}) /\ member \in BOOLEAN
    /\ key \in Keys /\ buf \in Texts \cup {""}
    /\ \A i \in DOMAIN cstack : /\ cstack[i].vi \in 0..Len(vstack) - 1
                                 /\ cstack[i].ki \in -1..Len(kstack)
    /\ kstack \in Seq(Keys)
    /\ set \in Settings /\ closer \in {"plain", "class", "create"}
    /\ block \in BOOLEAN /\ phase \in {"idle", "parsing", "returned", "raised"}
    /\ values \in 0..MaxValues

\* No function writes past what is allocated, whatever the stacks held before
\* and however capacity= moved their ends.
InBounds ==
    /\ TypeOK
    /\ Len(vstack) <= caps.v /\ Len(cstack) <= caps.c /\ Len(kstack) <= caps.k

\* Where the keys and the slots of container i end: where those of the next
\* object, or of the container in i, begin.
KeysEnd(i)  == LET inner == {j \in i + 1..Len(cstack) : cstack[j].ki # -1}
               IN IF inner = {} THEN Len(kstack) ELSE cstack[Min(inner)].ki
SlotsEnd(i) == IF i = Len(cstack) THEN Len(vstack) ELSE cstack[i + 1].vi + 1

\* The three stacks stay in step: every open container has its entry, and every
\* open object has two slots for each of its keys, the key of the container being
\* read in it included; close_object walks keys and slots in parallel and looks
\* at neither's number.
Aligned ==
    Parsing =>
        /\ Len(cstack) = Len(open)
        /\ \A i \in DOMAIN open :
              LET c == cstack[i] IN
              IF open[i] = "array" THEN c.ki = -1
              ELSE SlotsEnd(i) - (c.vi + 1) = 2 * (KeysEnd(i) - c.ki)

\* Whatever was parsed before, with whatever options and outcome: the documents
\* read are, in order, those given to the block and those still to be returned,
\* each equal to its tree; and the call returns the rest, one by itself, several
\* as an Array, none as nil.
BuildsDocuments ==
    /\ Aligned
    /\ ~stale /\ open = <<>> =>
        /\ Parsing => yields \o vstack = ref.docs
        /\ phase = "returned" =>
              LET rest == SubSeq(ref.docs, Len(yields) + 1, Len(ref.docs))
              IN result = CASE rest = <<>>    -> Nil
                            [] Len(rest) = 1 -> rest[1]
                            [] OTHER         -> <<"array", FALSE, rest>>
=============================================================================
