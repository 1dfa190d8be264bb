--------------------------------- MODULE Safe ---------------------------------
(* Oj::Parser.safe (safe.c, safe.h): the usual delegate with a check in front *)
(* of the functions of the array and the object row.  The functions of the    *)
(* top row are the usual ones, and an option that puts another function into  *)
(* a row takes the check away with the one it replaces.                       *)
EXTENDS Usual

CONSTANTS
    LimitSets,  \* the limits considered: records of sets, {} for no limit
    Qnil        \* the number with nil's bits (4, in this Ruby); here scaled

ASSUME LimitsAssumption ==
    LimitSets \subseteq [{"object", "array", "depth", "total"} -> SUBSET Int]

VARIABLES
    limits,    \* max_hash_size, max_array_size, max_depth, max_total_elements
    elements,  \* current_elements_count
    hooked,    \* the functions of the object row that still have their check
    refused,   \* history: the check that ended this call
    seen,      \* history: keys and values read inside containers
    twice      \* history: a key was announced, and so counted twice

safe     == <<limits, elements, hooked, refused, seen, twice>>
safeVars == <<vars, safe>>

\* The fields hold a C long that NIL_P is asked of: the one limit with nil's
\* bits is no limit.
Limit(name) == IF limits[name] = {Qnil} THEN {} ELSE limits[name]
Over(limit, n) == \E max \in limit : n > max

\* The items the usual delegate holds for the innermost container, as
\* check_object_size and check_array_size work them out of its stacks.
Items == LET slots == Len(vstack) - col.vi - 1 IN IF InObject THEN slots \div 2 ELSE slots

\* What one more call of function fun is counted as, and the check that stops it.
Weight == IF InObject THEN 2 ELSE 1
\* Variant: the limit itself is refused.
RefusalAtLimit(fun) ==
    IF Over(Limit(Last(open)), Items + 2) THEN "size"
    ELSE IF fun = "open" /\ Over(Limit("depth"), Len(open) + 1) THEN "depth"
    ELSE IF Over(Limit("total"), elements + Weight + 1) THEN "total"
    ELSE "none"
\* Variant: the depth is not looked at.
RefusalFlat(fun) ==
    IF Over(Limit(Last(open)), Items + 1) THEN "size"
    ELSE IF Over(Limit("total"), elements + Weight + 1) THEN "total"
    ELSE "none"
Refusal(fun) ==
    IF Over(Limit(Last(open)), Items + 1) THEN "size"
    ELSE IF fun = "open" /\ Over(Limit("depth"), Len(open) + 1) THEN "depth"
    ELSE IF Over(Limit("total"), elements + Weight + 1) THEN "total"
    ELSE "none"

Checked(fun) == open # <<>> /\ (InObject => fun \in hooked)
Refuses(fun) == Checked(fun) /\ Refusal(fun) # "none"

\* A call that passes; read: what the document has grown by.
Passes(fun, read) ==
    /\ ~Refuses(fun)
    /\ elements' = IF Checked(fun) THEN elements + Weight ELSE elements
    /\ seen' = seen + read
    /\ UNCHANGED <<limits, hooked, refused>>

\* A call that is refused: the check raises, and the usual function is not reached.
Stopped(fun) ==
    /\ CanAdd /\ Refuses(fun)
    /\ refused' = Refusal(fun)
    /\ elements' = elements + Weight /\ phase' = "raised"
    /\ IF fun = "add_str" THEN buf' \in Texts ELSE UNCHANGED buf
    /\ UNCHANGED <<open, member, key, cstack, options, block, yields, result, ref, stale, values,
                   limits, hooked, seen, twice>>
Refuse(fun) == Stopped(fun) /\ UNCHANGED <<vstack, kstack, caps>>
RefuseAnnounced ==
    /\ Parsing /\ InObject /\ ~member /\ Refuses("add_str")
    /\ \E k \in Keys : key' = k
    /\ refused' = Refusal("add_str") /\ twice' = TRUE
    /\ elements' = elements + Weight /\ phase' = "raised"
    /\ UNCHANGED <<open, member, buf, stacks, options, block, yields, result, ref, stale, values,
                   limits, hooked, seen>>

\* A value of the innermost container.
Value == IF open = <<>> THEN 0 ELSE 1

\* safe_start.
NoElements == 0

SafeInit == /\ Init /\ limits \in LimitSets
            /\ elements = 0 /\ hooked = {"open", "add", "add_null", "add_str"}
            /\ refused = "none" /\ seen = 0 /\ twice = FALSE

SafeNext ==
    \/ /\ \E b \in BOOLEAN : Begin(b)
       /\ elements' = NoElements /\ refused' = "none" /\ seen' = 0 /\ twice' = FALSE
       /\ UNCHANGED <<limits, hooked>>
    \/ \E k \in Keys : ReadKey(k) /\ seen' = seen + 1
                       /\ UNCHANGED <<limits, elements, hooked, refused, twice>>
    \/ \E k \in Keys : Announce(k) /\ Passes("add_str", 1) /\ twice' = TRUE
    \/ ReadNull /\ Passes("add_null", Value) /\ UNCHANGED twice
    \/ ReadScalar /\ Passes("add", Value) /\ UNCHANGED twice
    \/ \E s \in Texts : ReadString(s) /\ Passes("add_str", Value) /\ UNCHANGED twice
    \/ \E kind \in {"array", "object"} : Open(kind) /\ Passes("open", Value) /\ UNCHANGED twice
    \/ \E fun \in {"open", "add", "add_null", "add_str"} : Refuse(fun)
    \/ RefuseAnnounced
    \/ /\ \E kind \in {"array", "object"} : Close(kind)
       /\ seen' = IF member THEN seen - 1 ELSE seen  \* a key without a value
       /\ UNCHANGED <<limits, elements, hooked, refused, twice>>
    \/ (Return \/ Raise \/ SetOther \/ SetCapacity) /\ UNCHANGED safe
    \/ (\E on \in BOOLEAN : SetHashClass(on)) /\ UNCHANGED safe
    \/ /\ \E on \in BOOLEAN : SetOmitNull(on)
       /\ hooked' = hooked \ {"add_null"}
       /\ UNCHANGED <<limits, elements, refused, seen, twice>>
    \/ /\ \E on \in BOOLEAN : SetCreateId(on)
       /\ hooked' = hooked \ {"add_str"}
       /\ UNCHANGED <<limits, elements, refused, seen, twice>>

SafeSpec == SafeInit /\ [][SafeNext]_safeVars
-----------------------------------------------------------------------------
SafeTypeOK ==
    /\ InBounds /\ limits \in LimitSets
    /\ elements \in 0..2 * (MaxValues + 1)
    /\ hooked \subseteq {"open", "add", "add_null", "add_str"}
    /\ refused \in {"none", "size", "depth", "total"}
    /\ seen \in 0..2 * MaxValues + 1 /\ twice \in BOOLEAN

\* No document grows past a limit: not the containers that are open, which every
\* closed one was; nor the nesting, but for max_depth 0, which no function of the
\* top row looks at; nor keys and values together with one for the document.
Within ==
    /\ \A i \in DOMAIN ref.frames :
          LET f == ref.frames[i] IN f.items = <<>> \/ ~Over(Limit(f.kind), Len(f.items))
    /\ Len(open) <= 1 \/ ~Over(Limit("depth"), Len(open))
    /\ seen = 0 \/ member \/ ~Over(Limit("total"), seen + 1)

\* The checks only ever end a call early: the safe parser is a usual one.
IsUsual == Spec

\* The limits the parser has taken hold as long as every function keeps its check:
\* omit_null= and create_id= replace functions that had one.
LimitsKept ==
    hooked = {"open", "add", "add_null", "add_str"} => Within

\* A check never stops a document that is within the limits, but for one with an
\* announced key, which is counted as two members.
RefusesOnlyOver ==
    refused # "none" /\ ~twice =>
        \/ refused = "size" /\ Over(Limit(Last(open)), Len(Last(ref.frames).items) + 1)
        \/ refused = "depth" /\ Over(Limit("depth"), Len(open) + 1)
        \/ refused = "total" /\ Over(Limit("total"), seen + 2)
=============================================================================
