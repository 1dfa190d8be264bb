------------------------------- MODULE SajKeys -------------------------------
(* The delegate of a handler (saj2.c): every array and object that is the     *)
(* value of a key is pushed with it when it starts, so that the handler can   *)
(* be told the key again when it ends.  Keys and strings come from a cache of *)
(* the delegate's own.  The parser calls as DelegateProtocol says, the        *)
(* handler's code may collect, set options, or raise.  Line and column, which *)
(* some functions pass on, and the other values are left out.                 *)
EXTENDS ParserCache, Sequences

CONSTANTS
  Handlers,  \* the sets of methods that handlers have
  KeyRoom,   \* 256 of the code: how many keys there is room for at first
  MaxNest    \* bound: how deep containers are nested

ASSUME SajAssumption ==
  /\ \A methods \in Handlers : methods \subseteq {"hash_start", "array_start", "hash_end", "array_end", "add_value"}
  /\ KeyRoom \in Nat \ {0, 1}

VARIABLES
  handler,     \* the methods of d->handler, {} without one
  keysCached,  \* d->cache_keys
  keys,        \* d->keys up to d->tail: the text asked for and the value given
  klen,        \* d->klen
  nest,        \* p->stack: the containers, each with its key
  asked,       \* what a string is being got for: "hash", "array", "value", "string"
  told,        \* history: the key of the container closed last, and the one told
  excused      \* history: what happened in this document that loses keys

sajVars == <<handler, keysCached, keys, klen, nest, asked, told, excused>>
sajOptions == <<handler, keysCached>>

Kinds == {"hash", "array"}
StartOf(kind) == IF kind = "hash" THEN "hash_start" ELSE "array_start"
EndOf(kind) == IF kind = "hash" THEN "hash_end" ELSE "array_end"
Methods == {StartOf(kind) : kind \in Kinds} \cup {EndOf(kind) : kind \in Kinds} \cup {"add_value"}

Untold == [want |-> None, got |-> None]

SajType ==
  /\ handler \subseteq Methods /\ keysCached \in BOOLEAN
  /\ keys \in Seq(Keys \X Objs) /\ klen \in Nat
  /\ nest \in Seq([kind : Kinds, key : Keys \cup {None, "unasked"}])
  /\ asked \in Kinds \cup {"none", "value", "string"}
  /\ excused \subseteq {"handler replaced", "not marked"}

\* oj_init_saj
SajOwn ==
  /\ handler = {} /\ keysCached = TRUE
  /\ keys = <<>> /\ klen = KeyRoom
  /\ nest = <<>> /\ asked = "none" /\ told = Untold /\ excused = {}
SajInit == Init /\ rate = 1 /\ SajOwn

-----------------------------------------------------------------------------
InHash == nest # <<>> /\ nest[Len(nest)].kind = "hash"

\* No function of the delegate runs.
Outside == Idle /\ stack = {} /\ asked = "none"

GetKey(k) == IF keysCached THEN Lookup(k) ELSE Form(k)

\* Room is made before the key is written.
Grown == IF klen <= Len(keys) THEN klen + klen \div 2 ELSE klen
PushKey(e) == keys' = Append(keys, e) /\ klen' = Grown

\* The function goes on when it has the string: a container's key is pushed, a string
\* in an object needs its key as well.
Proceed(what, k) ==
  /\ IF Idle' /\ what \in Kinds
       THEN /\ \E e \in stack' : PushKey(e)
            /\ nest' = Append(nest, [kind |-> what, key |-> k])
       ELSE UNCHANGED <<keys, klen, nest>>
  /\ asked' = IF ~Idle' THEN what ELSE IF what = "string" /\ InHash THEN "value" ELSE "none"
  /\ told' = Untold
  /\ UNCHANGED <<sajOptions, excused>>

\* open_object_key, open_array_key
OpenKeyed(kind, k) ==
  /\ Outside /\ InHash /\ Len(nest) < MaxNest /\ StartOf(kind) \in handler
  /\ GetKey(k) /\ Proceed(kind, k)

\* open_object, open_array and noop
OpenPlain(kind) ==
  /\ Outside /\ Len(nest) < MaxNest
  /\ InHash => StartOf(kind) \notin handler
  /\ nest' = Append(nest, [kind |-> kind, key |-> IF InHash THEN "unasked" ELSE None])
  /\ told' = Untold
  /\ UNCHANGED <<vars, sajOptions, keys, klen, asked, excused>>

\* add_str with and without a key; the other values of an object need their key only
AddString(k) ==
  /\ Outside /\ "add_value" \in handler
  /\ Lookup(k) \/ Form(k)
  /\ Proceed("string", k)
AddKeyed(k) ==
  /\ \/ Outside /\ InHash /\ "add_value" \in handler
     \/ Idle /\ asked = "value"
  /\ GetKey(k) /\ Proceed("value", k)

\* form() returned inside one of these.
Interned == Insert /\ Proceed(asked, req)

\* The handler's method, the last thing each of them calls, returns.
Return == DocDone /\ asked = "none" /\ UNCHANGED sajVars

-----------------------------------------------------------------------------
\* close_object, close_array.  The parser has popped the container.
Closing == nest[Len(nest)]
Outer == SubSeq(nest, 1, Len(nest) - 1)
EndsKeyed == EndOf(Closing.kind) \in handler /\ Outer # <<>> /\ Outer[Len(Outer)].kind = "hash"

Close ==
  /\ Outside /\ nest # <<>>
  /\ UNCHANGED <<vars, sajOptions, klen, asked, excused>>
CloseUntold ==
  /\ Close /\ ~EndsKeyed
  /\ nest' = Outer /\ told' = Untold
  /\ UNCHANGED keys

CloseTold ==
  /\ Close /\ EndsKeyed /\ keys # <<>>
  /\ nest' = Outer /\ keys' = SubSeq(keys, 1, Len(keys) - 1)
  /\ told' = [want |-> Closing.key, got |-> heap[keys[Len(keys)][2]]]

\* "accessing key stack" is raised, which ends the document.
CloseRaises ==
  /\ Close /\ EndsKeyed /\ keys = <<>>
  /\ nest' = <<>> /\ keys' = <<>>
  /\ told' = [want |-> Closing.key, got |-> "raised"]

\* start, for a document after one that ended or raised anywhere
StartDocument ==
  /\ Idle /\ asked = "none" /\ (nest # <<>> \/ keys # <<>>)
  /\ stack' = {}
  /\ keys' = <<>> /\ nest' = <<>> /\ excused' = {} /\ told' = Untold
  /\ UNCHANGED <<cacheVars, rate, callVars, leaked, countVars, sajOptions, klen, asked>>

-----------------------------------------------------------------------------
\* The options, which the handler's methods may set too.
SetHandler(methods) ==
  /\ Idle /\ asked = "none" /\ methods # handler
  /\ handler' = methods /\ keys' = <<>> /\ told' = Untold
  /\ excused' = excused \cup (IF nest = <<>> THEN {} ELSE {"handler replaced"})
  /\ Counted
  /\ UNCHANGED <<cacheVars, rate, callVars, stack, leaked, calls, keysCached, klen, nest, asked>>
SetKeysCached ==
  /\ Idle /\ asked = "none"
  /\ keysCached' = ~keysCached /\ told' = Untold
  /\ Counted
  /\ UNCHANGED <<cacheVars, rate, callVars, stack, leaked, calls, handler, keys, klen, nest, asked, excused>>

\* mark: with cache_keys the keys are left to the cache.  Variant: they always are.
KeyValues == {keys[i][2] : i \in DOMAIN keys}
LeftToCache == {}
MarkedKeys  == IF keysCached THEN {} ELSE KeyValues
SajGC ==
  /\ CollectWith(Held \cup MarkedKeys)
  /\ excused' = IF keysCached /\ ~ KeyValues \subseteq Marked
                THEN excused \cup {"not marked"} ELSE excused
  /\ told' = Untold
  /\ UNCHANGED <<sajOptions, keys, klen, nest, asked>>

SajTrim == TrimReuse /\ UNCHANGED sajVars

SajNext ==
  \/ \E k \in Keys : AddString(k) \/ AddKeyed(k) \/ \E kind \in Kinds : OpenKeyed(kind, k)
  \/ \E kind \in Kinds : OpenPlain(kind)
  \/ Interned \/ Return
  \/ CloseUntold \/ CloseTold \/ CloseRaises \/ StartDocument
  \/ \E methods \in Handlers : SetHandler(methods)
  \/ SetKeysCached \/ SajGC \/ SajTrim

SajSpec == SajInit /\ [][SajNext]_<<vars, sajVars>>

-----------------------------------------------------------------------------
Balanced == \A kind \in Kinds : StartOf(kind) \in handler <=> EndOf(kind) \in handler
SameText(a, b) == a = b \/ (a \in Keys /\ b \in Keys /\ Seen[a] = Seen[b])

\* The end of an array or object is told with the key of its start, and the key is
\* still alive.  Excepted are handlers with one of the two methods only, a handler
\* replaced in the middle of a document, and keys left to the cache when it has none
\* (they are too long for it) or has retired them (nobody asked for them during some
\* collections): these are freed while d->keys has them.
ClosesNamed ==
  /\ SajType /\ Len(keys) <= klen
  /\ SameText(told.want, told.got) \/ excused # {} \/ ~Balanced
=============================================================================
