------------------------------- MODULE Leaves -------------------------------
(* The tree an Oj::Doc is read into (fast.c).  Leaves lie in an arena, the    *)
(* children of a container in a ring of which it keeps the last, and the      *)
(* text of a number in the JSON itself, where it ends at the byte that was    *)
(* overwritten after it, or not at all.  Ruby values are made of leaves only  *)
(* when they are asked for, in the place of the text.                         *)
EXTENDS JsonTokens, Decimals, Integers, TLC

CONSTANTS
    Names,     \* the strings
    Numbers,   \* the numbers
    CharsOf    \* the characters of each

ASSUME LeavesAssumption == CharsOf \in [Names \cup Numbers -> Seq(STRING)]

Words   == {"true", "false", "null"}
Scalars == Names \cup Numbers \cup Words
Null    == 0
Char(c) == <<c>>

\* What a scalar means.
Meaning(t) == IF t \in Numbers THEN <<"number", TextValue(CharsOf[t])>> ELSE <<"scalar", t>>

\* struct _leaf.  label is the key of a member, or the index of an element.
Leaf(rtype) == [rtype |-> rtype, parentType |-> "none", label |-> <<>>, type |-> "STR_VAL",
                next |-> Null, elements |-> Null, str |-> <<>>, value |-> <<>>]
Container(l) == l.rtype \in {"array", "hash"}

\* leaf_append_element: before the first, which comes after the last.
AppendElement(leaves, n, e) ==
    IF leaves[n].elements = Null THEN [leaves EXCEPT ![n].elements = e, ![e].next = e]
    ELSE [leaves EXCEPT ![e].next = leaves[leaves[n].elements].next, ![leaves[n].elements].next = e,
                        ![n].elements = e]

\* Walks once around the ring.
RECURSIVE Ring(_, _, _)
Ring(leaves, e, last) == IF e = last THEN <<e>> ELSE <<e>> \o Ring(leaves, leaves[e].next, last)
Children(leaves, n) ==
    IF ~Container(leaves[n]) \/ leaves[n].elements = Null THEN <<>>
    ELSE Ring(leaves, leaves[leaves[n].elements].next, leaves[n].elements)

-----------------------------------------------------------------------------
(* read_next, read_obj and read_array: p.open holds the containers that are   *)
(* being read, p.end the value whose end is not yet marked in the text.       *)

Opened == [leaves |-> <<>>, open |-> <<>>, at |-> "value", key |-> "", end |-> Null, size |-> 0, answer |-> "reading"]
RaiseError(p) == [p EXCEPT !.answer = "error"]

\* Variant: every number is an integer.
NumberTypeFixnum(t) == "fixnum"
NumberType(t) == IF "." \in ToSet(CharsOf[t]) THEN "float" ELSE "fixnum"
TypeOf(t) == CASE t = "[" -> "array" [] t = "{" -> "hash" [] t \in Names -> "string" [] t \in Words -> t
               [] t \in Numbers -> NumberType(t)
IndexOf(leaves, n) == Len(Children(leaves, n)) + 1

\* *end = '\0'.
Terminated(p, t) == [p EXCEPT !.leaves[p.end].str = IF @ = <<>> THEN @ ELSE <<@[1]>>, !.end = Null]

\* A leaf for the value that begins with t; from is the text from there on.
NewLeaf(p, t, from) ==
    LET n      == Len(p.leaves) + 1
        leaf   == [Leaf(TypeOf(t)) EXCEPT !.type = IF t \in Words THEN "RUBY_VAL" ELSE IF Container(Leaf(TypeOf(t))) THEN "COL_VAL" ELSE @,
                                          !.str = IF t \in Numbers THEN from ELSE IF t \in Names THEN <<t>> ELSE <<>>,
                                          !.value = IF t \in Words THEN Meaning(t) ELSE <<>>]
    IN  IF p.open = <<>> THEN [p EXCEPT !.leaves = Append(@, leaf), !.size = @ + 1]
        ELSE LET parent == Last(p.open)
                 inHash == p.leaves[parent].rtype = "hash"
                 child  == [leaf EXCEPT !.parentType = p.leaves[parent].rtype,
                                        !.label = IF inHash THEN CharsOf[p.key] ELSE IndexOf(p.leaves, parent)]
             IN  [p EXCEPT !.leaves = AppendElement(Append(@, child), parent, n), !.size = @ + 1]
\* The value n is complete.
Completed(p, n) == IF p.open = <<>> THEN [p EXCEPT !.answer = "ok"] ELSE [p EXCEPT !.at = "comma", !.end = n]

ReadValue(p, t, from) ==
    LET n == Len(p.leaves) + 1
    IN  CASE t = "{" -> [NewLeaf(p, t, from) EXCEPT !.open = Append(@, n), !.at = "key or }"]
          [] t = "[" -> [NewLeaf(p, t, from) EXCEPT !.open = Append(@, n), !.at = "value or ]"]
          [] t \in Scalars -> Completed(NewLeaf(p, t, from), n)
CloseWith(p) == LET n == Last(p.open) IN Completed([p EXCEPT !.open = Front(@)], n)

AfterComma(closer)    == IF closer = "}" THEN "key" ELSE "value"
\* What does not begin a value is an error inside a container, and no document at all.
ReadToken(p, t, from) ==
    LET closer == IF p.open # <<>> /\ p.leaves[Last(p.open)].rtype = "hash" THEN "}" ELSE "]" IN
    IF p.answer # "reading" THEN p
    ELSE IF p.at = "comma" /\ t = closer THEN CloseWith(Terminated(p, t))
    ELSE IF p.at = "comma" /\ t = "," THEN [Terminated(p, t) EXCEPT !.at = AfterComma(closer)]
    ELSE IF p.at \in {"key or }", "value or ]"} /\ t = closer THEN CloseWith(p)
    ELSE IF p.at \in {"key", "key or }"} /\ t \in Names THEN [p EXCEPT !.at = "colon", !.key = t]
    ELSE IF p.at = "colon" /\ t = ":" THEN [p EXCEPT !.at = "value"]
    ELSE IF p.at \in {"value", "value or ]"} /\ t \in Scalars \cup {"[", "{"} THEN ReadValue(p, t, from)
    ELSE IF p.at = "value" /\ p.open = <<>> THEN [p EXCEPT !.answer = "ok", !.size = 1]
    ELSE RaiseError(p)
AtEnd(p) == IF p.answer # "reading" THEN p ELSE IF p.open = <<>> THEN [p EXCEPT !.answer = "ok", !.size = 1] ELSE RaiseError(p)
ReadText(text) ==
    AtEnd(FoldLeft(LAMBDA q, i : ReadToken(q, text[i], SubSeq(text, i, Len(text))), Opened, [i \in DOMAIN text |-> i]))

-----------------------------------------------------------------------------
(* Values and dumps.                                                          *)

\* leaf_fixnum_value reads digits, leaf_float_value the whole text, and raises if there
\* is more than a number.
DigitsOf(s) == SubSeq(s, 1, SelectInSeq(Append(Tail(s), "end"), LAMBDA c : c \notin DOMAIN NumberOf))
LeafNumber(l) ==
    IF l.rtype = "fixnum" THEN <<"number", TextValue(DigitsOf(CharsOf[l.str[1]]))>>
    ELSE IF Len(l.str) > 1 THEN <<"raised">> ELSE Meaning(l.str[1])
Made(l) == IF l.type = "RUBY_VAL" THEN l.value ELSE IF l.rtype = "string" THEN Meaning(l.str[1]) ELSE LeafNumber(l)

\* Hashes keep the last value of a key.
Object(members) ==
    <<"hash", [k \in {members[i][1] : i \in DOMAIN members} |->
                  members[CHOOSE i \in DOMAIN members : members[i][1] = k /\ \A j \in (i + 1)..Len(members) : members[j][1] # k][2]]>>

\* leaf_value, leaf_array_value, leaf_hash_value
RECURSIVE LeafValue(_, _)
LeafValue(leaves, n) ==
    LET kids == Children(leaves, n) IN
    CASE leaves[n].rtype = "array" -> <<"array", [i \in DOMAIN kids |-> LeafValue(leaves, kids[i])]>>
      [] leaves[n].rtype = "hash"  -> Object([i \in DOMAIN kids |-> <<leaves[kids[i]].label, LeafValue(leaves, kids[i])>>])
      [] OTHER -> Made(leaves[n])

RECURSIVE Below(_, _)
Below(leaves, n) == {n} \cup UNION {Below(leaves, e) : e \in ToSet(Children(leaves, n))}
\* What making the value of n leaves behind: containers are made anew each time.
Cached(leaves, n) ==
    [i \in DOMAIN leaves |->
        IF i \in Below(leaves, n) /\ leaves[i].type = "STR_VAL" /\ Made(leaves[i]) # <<"raised">>
        THEN [leaves[i] EXCEPT !.type = "RUBY_VAL", !.value = Made(leaves[i]), !.str = <<>>] ELSE leaves[i]]

\* dump_leaf
Written(value) == CHOOSE t \in Scalars : Meaning(t) = value
RECURSIVE DumpLeaf(_, _)
DumpLeaf(leaves, n) ==
    LET kids == Children(leaves, n)
        NameOf(e) == IF leaves[n].rtype = "hash" THEN <<CHOOSE t \in Names : CharsOf[t] = leaves[e].label, ":">> ELSE <<>>
        Member(i) == (IF i = 1 THEN <<>> ELSE <<",">>) \o NameOf(kids[i]) \o DumpLeaf(leaves, kids[i])
        inside    == FlattenSeq([i \in DOMAIN kids |-> Member(i)])
    IN  CASE leaves[n].rtype = "array" -> <<"[">> \o inside \o <<"]">>
          [] leaves[n].rtype = "hash"  -> <<"{">> \o inside \o <<"}">>
          [] leaves[n].type = "STR_VAL" -> leaves[n].str
          [] OTHER -> <<Written(leaves[n].value)>>
=============================================================================
