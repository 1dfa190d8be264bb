----------------------------- MODULE RoundTrip -----------------------------
(* Objects dumped, and in object mode loaded again (Oj.dump and Oj.load).     *)
EXTENDS Load

J == INSTANCE JsonTokens

CONSTANTS
    Graphs,        \* what may be dumped: the nodes and the value to start from
    Settings       \* the options

VARIABLES
    out,           \* struct _out after the dump
    back           \* what object mode makes of it
vars == <<heap, root, opts, out, back>>

Init == /\ \E g \in Graphs: heap = g.heap /\ root = g.root
        /\ opts \in Settings
        /\ out = Fresh /\ back = Empty

OjDump == out = Fresh /\ out' = Dumped /\ UNCHANGED <<heap, root, opts, back>>
OjLoad == /\ out # Fresh /\ ~Raised(out) /\ opts.mode = "object" /\ back = Empty
          /\ back' = Loaded(out.cur)
          /\ UNCHANGED <<heap, root, opts, out>>
Next == OjDump \/ OjLoad
Spec == Init /\ [][Next]_vars

Written == out # Fresh /\ ~Raised(out)
Read    == back # Empty

-----------------------------------------------------------------------------
(* What is reached from a value along at most n references.                   *)
Plain == IF opts.mode = "compat" THEN {"Array", "Hash"} ELSE {"Array", "Hash", "MyArray", "MyHash"}
Children(n) ==
    LET x == heap[n]   attributes == {m[2] : m \in Range(x.ivars)} \cup {x.text}
        members == Range(x.items) \cup {p[2] : p \in Range(x.pairs)}
    IN  IF opts.mode = "object" THEN members \cup attributes \cup {p[1] : p \in Range(x.pairs)}
        ELSE IF opts.mode = "custom" THEN (IF x.kind \in {"object", "exception", "odd"} THEN attributes ELSE members)
        ELSE IF x.class \in Plain THEN members
        ELSE {}
RefsOf(S) == {v[2] : v \in {u \in S : IsRef(u)}}
ReachedFrom(values) ==
    LET RECURSIVE From(_)
        From(S) == LET more == S \cup UNION {RefsOf(Children(n)) : n \in S} IN IF more = S THEN S ELSE From(more)
    IN  From(RefsOf(values))
Reached == ReachedFrom({root})
\* The longest chain of containers, or one too many for a cycle.
Levels == LET RECURSIVE Below(_, _)
              Below(v, fuel) == IF ~IsRef(v) \/ fuel = 0 THEN 0
                                ELSE 1 + Max({0} \cup {Below(c, fuel - 1) : c \in Children(v[2])})
          IN  Below(root, Cardinality(DOMAIN heap) + 1)
Cyclic == Levels > Cardinality(DOMAIN heap)

-----------------------------------------------------------------------------
TypeOK ==
    /\ out.bytes \in Nat /\ out.over \in 0..MaxDepth * 100 /\ out.end \in Nat
    /\ out.raised \in {"no", "TooDeep", "TypeError", "NestingError", "SystemStackError"}
    /\ Len(out.circ) <= Cardinality(DOMAIN heap)

\* What is written stays inside the buffer: what the code writes without asking
\* for room fits in the bytes kept behind its end.
InBounds == TypeOK /\ out.over <= BufferExtra

\* A document that was written is JSON, in every mode: each comma that was one too
\* many is gone.  But for two: custom mode puts a comma before the message of an exception
\* that has no attributes to write, and takes back the brace of a Struct without members.
Token(t) == CASE t[1] \in J!Token -> t[1] [] t[1] \in {"str", "back", "id"} -> "string" [] OTHER -> "value"
Visible(cur) == SelectSeq(cur, LAMBDA t: t[1] # "line")
IsJson(cur) == FoldLeft(LAMBDA d, t: J!Read(d, Token(t)), J!Fresh, Visible(cur)) = J!Fresh
Commaless(x) == x.kind = "exception" /\ \A i \in DOMAIN x.ivars: Omitted(x.ivars[i][2])
Torn(x)      == x.kind = "struct" /\ x.items = <<>> /\ opts.indent = 0
Blemished    == opts.mode = "custom" /\ \E n \in Reached: Torn(heap[n]) \/ (Commaless(heap[n]) /\ ~opts.create)
WellFormed   == Written /\ ~Blemished => IsJson(out.cur)

\* Lines are indented by the containers that are open, a line that ends one by those
\* around it.
OpenBefore(i) == Cardinality({j \in 1..i - 1 : out.cur[j][1] \in {"[", "{"}})
                 - Cardinality({j \in 1..i - 1 : out.cur[j][1] \in {"]", "}"}})
Straight == opts.mode = "custom" => \A n \in Reached: heap[n].kind \notin {"struct", "odd"}
Indented == Written /\ opts.mode # "object" /\ Straight =>
    \A i \in DOMAIN out.cur: out.cur[i][1] = "line" =>
        out.cur[i][2] = OpenBefore(i) - IF i < Len(out.cur) /\ out.cur[i + 1][1] \in {"]", "}"} THEN 1 ELSE 0

\* The document that a value is in every mode but object.  Objects are hashes in custom
\* mode, those of Codes with values of compat mode.
Kept(pairs) == SelectSeq(pairs, LAMBDA p: ~Omitted(p[2]))
ClassPair(x) == IF opts.create THEN <<<<"json_class", <<"str", x.class>>>>>> ELSE <<>>
MembersOf(x) ==
    CASE x.kind = "hash" -> LET m == Kept(x.pairs) IN [i \in DOMAIN m |-> <<IF m[i][1][1] = "num" THEN "to_s" ELSE m[i][1][2], m[i][2]>>]
      [] x.kind = "struct" -> [i \in DOMAIN x.items |-> <<MemberNames[i], x.items[i]>>]
      [] x.kind = "odd" -> ClassPair(x) \o x.ivars
      [] x.kind = "object" -> ClassPair(x) \o Kept(x.ivars)
      [] x.kind = "exception" -> ClassPair(x) \o Kept(x.ivars) \o <<<<"~mesg", x.text>>, <<"~bt", Nil>>>>
Document ==
    LET RECURSIVE Json(_, _)
        Joined(parts) == FoldLeft(LAMBDA acc, p: IF acc = <<>> THEN p ELSE acc \o <<Mark(",")>> \o p, <<>>, parts)
        Array(mode, x) == <<Mark("[")>> \o Joined([i \in DOMAIN x.items |-> Json(mode, x.items[i])]) \o <<Mark("]")>>
        Hash(mode, x) ==
            LET m == MembersOf(x)   inner == IF x.kind = "odd" /\ x.class \in Codes THEN "compat" ELSE mode
            IN  <<Mark("{")>> \o Joined([i \in DOMAIN m |->
                    <<Str(m[i][1]), Mark(":")>> \o Json(IF m[i][1] = "json_class" THEN mode ELSE inner, m[i][2])]) \o <<Mark("}")>>
        JsonOf(mode, x, n) ==
            IF x.kind \in {"array", "hash"} /\ mode = "compat" /\ x.class \notin {"Array", "Hash"} THEN <<<<"json">>>>
            ELSE IF x.kind = "array" THEN Array(mode, x)
            ELSE IF x.kind = "hash" THEN Hash(mode, x)
            ELSE IF x.kind = "string" THEN <<Str(x.text[2])>>
            ELSE IF mode = "null" THEN <<Nil>>
            ELSE IF mode = "compat" THEN <<Str("to_s")>>
            ELSE IF Converts(x) THEN
                (IF opts.convert = "to_json" THEN <<<<"json">>>>
                 ELSE IF Conversion(x) = Ref(n) THEN <<Str("to_s")>>
                 ELSE Json(mode, Conversion(x)))
            ELSE Hash(mode, x)
        Json(mode, v) == CASE IsRef(v) -> JsonOf(mode, heap[v[2]], v[2])
                           [] v[1] \in {"str", "sym"} -> <<Str(v[2])>>
                           [] v[1] = "class" -> IF mode \in {"compat", "custom"} THEN <<Str(v[2])>> ELSE <<Nil>>
                           [] OTHER -> <<v>>
    IN  Json(opts.mode, root)
\* The document in these modes says what the objects are, element by element; and
\* when objects are counted, what is written at all is said once.
SaysValue == Written /\ opts.mode # "object" /\ ~Counts /\ ~Blemished => Visible(out.cur) = Document
Containers == {n \in Reached : opts.mode = "custom" \/ heap[n].kind \in {"array", "hash"}}
SaysOnce == Written /\ opts.mode # "object" /\ Counts =>
    Cardinality({i \in DOMAIN out.cur : out.cur[i][1] \in {"[", "{"}}) <= Cardinality(Containers)

\* The document as a whole.
WritesDocument == WellFormed /\ Indented /\ SaysValue /\ SaysOnce

\* A dump is refused as too deep where its document is, which a cycle makes sure of;
\* the members of an odd class, and in custom mode of a Struct, count twice.
Limit == IF opts.mode = "compat" THEN MaxDepth ELSE MaxDepth + 1
Twice == \E n \in Reached: heap[n].kind = "odd" \/ (opts.mode = "custom" /\ heap[n].kind = "struct")
Elsewhere == opts.mode = "custom" /\ \E n \in Reached: heap[n].class \in Codes \/ Converts(heap[n])
RefusesDeep ==
    /\ out.raised = "TooDeep" /\ ~Blemished =>
           LET open == OpenBefore(Len(out.cur) + 1)
           IN  IF Twice /\ opts.mode \in {"object", "custom"} THEN 2 * open >= MaxDepth
               ELSE IF opts.mode # "object" THEN open = Limit
               ELSE open \in Limit..Limit + 2
    /\ Written => \A i \in DOMAIN out.cur: OpenBefore(i) <= Limit + IF opts.mode = "object" THEN 2 ELSE 0
    /\ Written /\ ~Counts /\ ~Elsewhere => ~Cyclic

-----------------------------------------------------------------------------
(* Two graphs say the same if they are the same tree; where objects are       *)
(* counted, if the same places of it are the same object.                     *)

\* A walk: the tree so far, and the nodes in the order of their first visit.
Walk(h, v) ==
    LET RECURSIVE Value(_, _)
        Rank(seen, n) == CHOOSE i \in DOMAIN seen: seen[i] = n
        Values(vs, tag, seen) ==
            FoldLeft(LAMBDA acc, w: LET r == Value(w, acc.seen) IN [tree |-> Append(acc.tree, r.tree), seen |-> r.seen],
                     [tree |-> tag, seen |-> seen], vs)
        Flat(pairs) == FoldLeft(LAMBDA acc, p: IF Omitted(p[2]) THEN acc ELSE acc \o <<p[1], p[2]>>, <<>>, pairs)
        IvarsOf(ivars) == Flat([i \in DOMAIN ivars |-> <<<<"str", ivars[i][1]>>, ivars[i][2]>>])
        HasId(x) == opts.circular /\ (x.kind \in {"array", "object", "exception"} \/ Flat(x.pairs) # <<>>)
        Value(w, seen) ==
            IF ~IsRef(w) THEN [tree |-> w, seen |-> seen]
            ELSE LET x == h[w[2]]
                 IN  IF HasId(x) /\ Contains(seen, w[2]) THEN [tree |-> <<"again", Rank(seen, w[2])>>, seen |-> seen]
                     ELSE Values(x.items \o Flat(x.pairs) \o IvarsOf(x.ivars) \o <<x.text>>, <<x.kind, x.class>>, IF HasId(x) THEN Append(seen, w[2]) ELSE seen)
    IN  Value(v, <<>>).tree

\* What object mode does not bring back: an Array of another class when objects are
\* counted; a Hash of another class, and an exception, in a second place; a number, or
\* a text, as an attribute of what is a container or a String itself.
Literals(x) == {m[2][1] : m \in Range(x.ivars)} \cap {"num", "str"}
Again(n) == Seen(n, out) /\ Contains(out.cur, <<"back", IdOf(n, out)>>)
Restorable == \A n \in Reached: LET x == heap[n] IN
    /\ opts.circular => x.class # "MyArray"
    /\ Again(n) => x.class # "MyHash" /\ x.kind # "exception"
    /\ x.kind \in {"array", "hash"} => Literals(x) = {}
    /\ x.kind = "string" => "num" \notin Literals(x)
RoundTrip == Restorable /\ Read => ~back.raised /\ Walk(back.heap, back.value) = Walk(heap, root)
=============================================================================
