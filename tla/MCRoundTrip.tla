---------------------------- MODULE MCRoundTrip ----------------------------
(* Every graph of two nodes, the first of up to two members.                  *)
EXTENDS RoundTrip

N(kind, class) == Node(kind, class)
T(s) == <<"str", s>>
MCLenOf == [s \in {"a", ":a", "^ra", "x", "A", "to_s", "~mesg", "~bt", "MyArray", "MyHash", "MyString", "Error", "Thing", "Shown", "Point", "Range", "Pair", "json_class"} |->
              CASE s \in {"a", "x", "A"} -> 1 [] s = ":a" -> 2 [] s = "^ra" -> 3 [] OTHER -> 5]
Leaves == {Nil, <<"num", 1>>, T("a"), T(":a"), T("^ra"), <<"sym", "a">>, <<"class", "A">>}
Few == {Nil, T("a"), Ref(1), Ref(2)}
Keys == {T("a"), T(":a"), <<"sym", "a">>, <<"num", 1>>}
UpTo(n, S) == UNION {[1..k -> S] : k \in 0..n}

\* Nodes whose members are among V, up to k of them.
Arrays(V, k) == {[N("array", c) EXCEPT !.items = i] : i \in UpTo(k, V), c \in {"Array", "MyArray"}}
Distinct(p) == IsInjective([i \in DOMAIN p |-> p[i][1]])
Hashes(V, k) == {[N("hash", c) EXCEPT !.pairs = p] : p \in {q \in UpTo(k, Keys \X V) : Distinct(q)}, c \in {"Hash", "MyHash"}}
Objects(V, k) == {[N("object", "Thing") EXCEPT !.ivars = [i \in DOMAIN v |-> <<<<"a", "x">>[i], v[i]>>]] : v \in UpTo(k, V)}
Errors(V) == {[N("exception", "Error") EXCEPT !.text = T("a"), !.ivars = [i \in DOMAIN v |-> <<"x", v[i]>>]] : v \in UpTo(1, V)}
Structs(V, k) == {[N("struct", "Point") EXCEPT !.items = i] : i \in UpTo(k, V)}
Odds(V) == {[N("odd", c) EXCEPT !.ivars = <<<<"a", v>>, <<"x", w>>>>] : v, w \in V, c \in {"Range", "Pair"}}
\* Objects with a conversion: the value of their attribute.
Shown(V) == {[N("object", "Shown") EXCEPT !.ivars = <<<<"x", v>>>>] : v \in V}
\* Containers of a class of their own that have an attribute too.
Odder(V) == {[N(k, c) EXCEPT !.ivars = <<<<"x", v>>>>] : v \in V, <<k, c>> \in {<<"array", "MyArray">>, <<"hash", "MyHash">>}}
Strings(V) == {[N("string", "MyString") EXCEPT !.text = T("a"), !.ivars = [i \in DOMAIN v |-> <<"x", v[i]>>]] : v \in UpTo(1, V)}

Firsts == Arrays(Leaves \cup {Ref(1), Ref(2)}, 1) \cup Arrays(Few, 2) \cup Hashes(Leaves \cup {Ref(1), Ref(2)}, 1) \cup Hashes({Nil, Ref(2)}, 2)
          \cup Objects(Leaves, 1) \cup Objects(Few, 2) \cup Errors(Few) \cup Structs(Few, 2) \cup Odds(Few) \cup Strings(Few \cup {<<"num", 1>>}) \cup Odder(Few \cup {<<"num", 1>>})
          \cup Shown(Few)
Seconds == Arrays({Nil, T("a"), Ref(1)}, 1) \cup Hashes({Nil, Ref(1)}, 1) \cup Objects({T("a"), Ref(1)}, 1)
          \cup Errors({Ref(1)}) \cup Structs({Ref(1)}, 1) \cup Strings({Nil})
\* No second node where the first does not lead to it.
Uses(x) == Ref(2) \in Range(x.items) \cup UNION {Range(p) : p \in Range(x.pairs)} \cup {m[2] : m \in Range(x.ivars)}
MCGraphs == {[heap |-> <<x>>, root |-> Ref(1)] : x \in {y \in Firsts : ~Uses(y)}}
            \cup {[heap |-> <<x, y>>, root |-> Ref(1)] : x \in {z \in Firsts : Uses(z)}, y \in Seconds}
            \cup {[heap |-> <<N("array", "Array")>>, root |-> v] : v \in Leaves}

Layouts == {[indent |-> 0, use |-> FALSE], [indent |-> 2, use |-> FALSE], [indent |-> 0, use |-> TRUE]}
Setting(m, c, o, l, create, convert) ==
    [mode |-> m, circular |-> c, omitNil |-> o, indent |-> l.indent, use |-> l.use, create |-> create, convert |-> convert,
     indentSize |-> 2, arraySize |-> 1, hashSize |-> 1, sepSize |-> 1]
MCSettings ==
    {Setting(m, c, o, l, FALSE, "none") : m \in {"strict", "null", "compat", "object"}, c \in BOOLEAN, o \in BOOLEAN, l \in Layouts}
    \cup {Setting("wab", FALSE, TRUE, l, FALSE, "none") : l \in Layouts}
    \cup {Setting("custom", c, o, l, TRUE, "none") : c \in BOOLEAN, o \in BOOLEAN, l \in Layouts}
    \cup {Setting("custom", c, FALSE, l, FALSE, v) : c \in BOOLEAN, l \in Layouts, v \in {"none", "to_json", "as_json", "to_hash"}}
MCCodes == {"Range"}
MCMemberNames == <<"a", "x">>
MCOddArity == [Range |-> 2, Pair |-> 2]
=============================================================================
