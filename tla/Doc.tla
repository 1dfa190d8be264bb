--------------------------------- MODULE Doc --------------------------------
(* Oj::Doc (fast.c): a document that was read into leaves, a location in it   *)
(* that moves along paths, and iterations that move it and yield to a block,  *)
(* which may use the document meanwhile.                                      *)
EXTENDS Leaves, FiniteSets

CONSTANTS
    Texts,       \* what is opened
    Documents,   \* those of them that are moved in
    Paths,       \* paths, as sequences of characters
    MaxStack,    \* MAX_STACK
    MaxFrames    \* bound: iterations one inside another

ASSUME DocAssumption == Documents \subseteq Texts /\ MaxStack \in Nat \ {0} /\ MaxFrames \in Nat

VARIABLES
    text,        \* the JSON
    state,       \* "new", "open", "error", "closed", or "lost": see Lost
    leaves,      \* the arena
    data,        \* the root of the document
    size,        \* the nodes read
    where,       \* the location: an index of path
    path,        \* where_path, and one place behind it
    frames       \* the iterations that are under way, innermost last

tree   == <<text, leaves, data, size>>
cursor == <<where, path>>
vars   == <<tree, state, cursor, frames>>

-----------------------------------------------------------------------------
(* Paths.                                                                     *)

Starts(p, s) == Len(s) <= Len(p) /\ SubSeq(p, 1, Len(s)) = s
Rest(p, n)   == SubSeq(p, n + 1, Len(p))
SkipSlash(p) == IF Starts(p, <<"/">>) THEN Tail(p) ELSE p
IsUp(p)      == Starts(p, <<".", ".">>)

\* next_slash: what is before the next slash that has no backslash before it.
RECURSIVE Step(_)
Step(p) == IF p = <<>> \/ p[1] = "/" THEN <<>>
           ELSE IF p[1] = "\\" THEN SubSeq(p, 1, 2) \o Step(Rest(p, 2)) ELSE <<p[1]>> \o Step(Tail(p))
\* key_match.
RECURSIVE KeyMatch(_, _)
KeyMatch(pat, key) ==
    IF pat = <<>> THEN key = <<>>
    ELSE IF pat[1] = "\\" THEN Len(pat) > 1 /\ key # <<>> /\ pat[2] = key[1] /\ KeyMatch(Rest(pat, 2), Tail(key))
    ELSE key # <<>> /\ pat[1] = key[1] /\ KeyMatch(Tail(pat), Tail(key))
\* append_key
RECURSIVE AppendKey(_)
AppendKey(key) == IF key = <<>> THEN <<>> ELSE (IF key[1] = "/" THEN <<"\\", "/">> ELSE <<key[1]>>) \o AppendKey(Tail(key))

Number(p) == SubSeq(p, 1, SelectInSeq(Append(p, "end"), LAMBDA c : c \notin DOMAIN NumberOf) - 1)
ThePlace(kids, p) == LET n == ValueOf(Number(p)) IN IF n <= 1 THEN 1 ELSE n
\* Where the path p leads from a container: a child or Null, and the rest of p.
Element(kids, p) ==
    [to |-> IF ThePlace(kids, p) \in DOMAIN kids THEN kids[ThePlace(kids, p)] ELSE Null,
     rest |-> SkipSlash(Rest(p, Len(Number(p))))]
Member(kids, p) ==
    LET i == SelectInSeq(kids, LAMBDA e : KeyMatch(Step(p), leaves[e].label))
    IN  [to |-> IF i = 0 THEN Null ELSE kids[i], rest |-> Rest(p, Len(Step(p)) + 1)]
Child(n, kids, p) == IF leaves[n].rtype = "array" THEN Element(kids, p) ELSE Member(kids, p)

\* get_leaf: the leaf, or Null, or TooDeep; the stack st is in use up to lp.
TooDeep == -1
RECURSIVE GetLeaf(_, _, _)
GetLeaf(st, lp, p) ==
    IF MaxStack <= lp THEN TooDeep
    ELSE IF p = <<>> THEN st[lp]
    ELSE IF IsUp(p) THEN IF 0 < lp THEN GetLeaf(st, lp - 1, SkipSlash(Rest(p, 2))) ELSE Null
    ELSE LET kids == Children(leaves, st[lp])
             c == Child(st[lp], kids, p)
         IN  IF kids = <<>> \/ c.to = Null THEN Null ELSE GetLeaf([st EXCEPT ![lp + 1] = c.to], lp + 1, c.rest)
\* get_doc_leaf: a copy of where_path is moved in.
\* Variant: a relative path starts at the root.
GetFromRoot(p) == IF data = Null THEN Null ELSE GetLeaf([path EXCEPT ![0] = data], 0, SkipSlash(p))
GetDocLeaf(p) ==
    IF data = Null THEN path[where]
    ELSE IF Starts(p, <<"/">>) THEN GetLeaf([path EXCEPT ![0] = data], 0, Tail(p))
    ELSE IF where = 0 THEN GetLeaf([path EXCEPT ![0] = data], 0, p)
    ELSE GetLeaf(path, where, p)

\* move_step: the location c it leaves, and the number of the step that failed, or 0.
Here(w, st) == [where |-> w, path |-> st]
Found(c) == [c |-> c, loc |-> 0]
\* A step down that led nowhere.  Variant: only half of it.
UndoneHalf(c) == Here(c.where, [c.path EXCEPT ![c.where] = Null])
Undone(c)     == Here(c.where - 1, [c.path EXCEPT ![c.where] = Null])
RECURSIVE MoveStep(_, _, _)
MoveStep(c, p, loc) ==
    LET n == c.path[c.where] IN
    IF MaxStack <= c.where THEN [c |-> c, loc |-> TooDeep]
    ELSE IF p = <<>> THEN Found(c)
    ELSE IF IsUp(p)
    THEN IF c.where = 0 THEN [c |-> c, loc |-> loc]
         ELSE LET r == MoveStep(Here(c.where - 1, [c.path EXCEPT ![c.where] = Null]), SkipSlash(Rest(p, 2)), loc + 1)
              IN  IF r.loc <= 0 THEN r
                  ELSE [r EXCEPT !.c = Here(r.c.where + 1, [r.c.path EXCEPT ![r.c.where] = n])]
    ELSE LET kids == Children(leaves, n)
             k == Child(n, kids, p)
             odd == leaves[n].rtype = "array" /\ Rest(p, Len(Number(p))) # <<>> /\ Rest(p, Len(Number(p)))[1] # "/"
         IN  IF kids = <<>> \/ odd \/ k.to = Null THEN [c |-> c, loc |-> loc]
             ELSE LET r == MoveStep(Here(c.where + 1, [c.path EXCEPT ![c.where + 1] = k.to]), k.rest, loc + 1)
                  IN  IF r.loc <= 0 THEN r
                      ELSE [r EXCEPT !.c = Undone(@)]
\* What doc_move, each_leaf and each_child begin with.
Moved(p) == IF Starts(p, <<"/">>) THEN MoveStep(Here(0, path), Tail(p), 1) ELSE MoveStep(Here(where, path), p, 1)

\* doc_where
Labels(c) == [i \in 1..c.where |-> leaves[c.path[i]].label]
DocWhere(c) ==
    IF c.where = 0 THEN <<"/">>
    ELSE FlattenSeq([i \in 1..c.where |-> <<"/">> \o (IF leaves[c.path[i]].parentType = "hash" THEN AppendKey(Labels(c)[i])
                                                     ELSE <<ToString(Labels(c)[i])>>)])

-----------------------------------------------------------------------------
(* The operations.                                                            *)

Usable == state = "open" /\ text \in Documents

\* What where_path holds behind the location is written before it is read.
To(c) == where' = c.where /\ path' = [i \in 0..MaxStack |-> IF i <= c.where THEN c.path[i] ELSE Null]
\* Whether the code has lost its place: what it does with it then is not followed.
Settles(lost) == state' = IF lost THEN "lost" ELSE "open"

\* A move that has gone up before it fails puts back the node it came from one place
\* too high, and a location behind where_path is no place, either.
GoesUp(p) == \E i \in 1..(Len(p) - 2) : SubSeq(p, i, i + 2) = <<".", ".", "/">>
Misplaced(p, r) == r.loc > 0 /\ GoesUp(p)
Outside(w) == MaxStack <= w
\* The part of where_path that counts.
Way(w, st) == [i \in 0..w |-> st[i]]

\* doc_open, doc_open_file, parse_json
Open ==
    /\ state = "new"
    /\ \E p \in {ReadText(text)} :
          /\ state' = IF p.answer = "ok" THEN "open" ELSE "error"
          /\ leaves' = p.leaves /\ size' = p.size
          /\ data' = IF p.leaves = <<>> THEN Null ELSE 1
          /\ path' = [path EXCEPT ![0] = data']
    /\ UNCHANGED <<text, where, frames>>

\* doc_move
Move ==
    /\ Usable
    /\ \E p \in Paths :
          \E r \in {Moved(p)} : To(r.c) /\ Settles(Misplaced(p, r) \/ Outside(r.c.where))
    /\ UNCHANGED <<tree, frames>>
\* doc_home
Home == Usable /\ To(Here(0, [path EXCEPT ![0] = data])) /\ UNCHANGED <<tree, state, frames>>

\* doc_fetch, and doc_each_value, which has the values of the leaves made.
Fetch ==
    /\ Usable
    /\ \E p \in Paths \cup {<<>>} :
          LET n == GetDocLeaf(p) IN n > 0 /\ leaves' = Cached(leaves, n)
    /\ UNCHANGED <<text, data, size, state, cursor, frames>>

\* An iteration: what it still has to visit, where it has called the block, and what it
\* saved.  An iteration without a path begins where the document is.
Frame(kind, level) == [kind |-> kind, todo |-> <<>>, level |-> level, at |-> <<>>, from |-> where, saved |-> Way(where, path)]
Begun(p) == IF p = <<>> THEN Found(Here(where, path)) ELSE Moved(p)
\* memcpy(where_path, save_path): nothing was saved at the root.
Saved(f, st) == IF f.from = 0 THEN st ELSE f.saved @@ st
\* A path that failed is forgotten, but at the root nothing was saved.
Refuses(p, r, c) == To(c) /\ Settles((Misplaced(p, r) /\ where = 0) \/ r.loc = TooDeep) /\ UNCHANGED frames

\* The block is called with the document at c.
Yields(below, f, c) ==
    /\ frames' = Append(below, [f EXCEPT !.at = Way(c.where, c.path)])
    /\ To(c) /\ Settles(Outside(c.where))
top == Last(frames)
\* The block has returned.  If it has moved the document, the iteration goes on there.
Returned == Usable /\ frames # <<>> /\ UNCHANGED tree
Stayed == Way(where, path) = top.at

\* doc_each_child, until the block is called for the first time.
EachChild ==
    /\ Usable /\ Len(frames) < MaxFrames /\ UNCHANGED tree
    /\ \E p \in Paths \cup {<<>>} :
          \E r \in {Begun(p)} :
          LET kids == Children(leaves, r.c.path[r.c.where])
              f == Frame("child", r.c.where)
          IN  IF r.loc # 0 THEN Refuses(p, r, IF r.loc = TooDeep THEN r.c ELSE Here(where, Saved(f, r.c.path)))
              ELSE IF kids = <<>> THEN Refuses(p, r, Here(where, Saved(f, r.c.path)))
              ELSE Yields(frames, [f EXCEPT !.todo = Tail(kids)],
                          Here(r.c.where + 1, [r.c.path EXCEPT ![r.c.where + 1] = kids[1]]))
\* The next child, or the end.  Variant: the document stays where the iteration was.
ChildStays(f) == Here(f.level, Saved(f, path))
ChildEnds(f)  == Here(f.from, Saved(f, path))
NextChild ==
    /\ Returned /\ top.kind = "child" /\ Stayed
    /\ IF top.todo = <<>> THEN To(ChildEnds(top)) /\ frames' = Front(frames) /\ UNCHANGED state
       ELSE Yields(Front(frames), [top EXCEPT !.todo = Tail(@)], Here(where, [path EXCEPT ![where] = top.todo[1]]))

\* each_leaf: the ways from c down to the leaves, in order.
RECURSIVE Ways(_)
Ways(c) ==
    LET n == c.path[c.where]
        kids == Children(leaves, n)
    IN  IF ~Container(leaves[n]) THEN <<Way(c.where, c.path)>>
        ELSE FlattenSeq([i \in DOMAIN kids |-> Ways(Here(c.where + 1, [c.path EXCEPT ![c.where + 1] = kids[i]]))])
Along(way) == Here(Cardinality(DOMAIN way) - 1, way @@ path)
\* doc_each_leaf puts back what it saved of the path, but not the location.
LeafEnds(f) == Here(f.level, Saved(f, path))
\* So the way there is half one and half another when it was below another node.
Mixed(f) == f.from < f.level /\ Saved(f, path) # path
EachLeaf ==
    /\ Usable /\ Len(frames) < MaxFrames /\ UNCHANGED tree
    /\ \E p \in Paths \cup {<<>>} :
          \E r \in {Begun(p)} :
          LET ways == Ways(r.c)
              f == Frame("leaf", r.c.where)
          IN  IF r.loc # 0 THEN Refuses(p, r, IF r.loc = TooDeep THEN r.c ELSE Here(r.c.where, Saved(f, r.c.path)))
              ELSE IF ways = <<>>
              THEN /\ To(Here(r.c.where, Saved(f, r.c.path))) /\ UNCHANGED frames
                   /\ Settles(where < r.c.where /\ Saved(f, r.c.path) # r.c.path)
              ELSE Yields(frames, [f EXCEPT !.todo = Tail(ways)], Here(Cardinality(DOMAIN ways[1]) - 1, ways[1] @@ r.c.path))
NextLeaf ==
    /\ Returned /\ top.kind = "leaf" /\ Stayed
    /\ IF top.todo = <<>> THEN To(LeafEnds(top)) /\ frames' = Front(frames) /\ Settles(Mixed(top))
       ELSE Yields(Front(frames), [top EXCEPT !.todo = Tail(@)], Along(top.todo[1]))

\* The block has left the document elsewhere: the iteration goes on from there.
Strays == Returned /\ ~Stayed /\ state' = "lost" /\ UNCHANGED <<cursor, frames>>

\* The block breaks out of the iteration, or raises.
Break == Usable /\ frames # <<>> /\ frames' = Front(frames) /\ UNCHANGED <<tree, state, cursor>>

\* doc_close, or the end of the block of Doc.open.
Close == state = "open" /\ frames = <<>> /\ state' = "closed" /\ UNCHANGED <<tree, cursor, frames>>
Over  == state \in {"error", "closed", "lost"} /\ UNCHANGED vars

Init ==
    /\ text \in Texts /\ state = "new"
    /\ leaves = <<>> /\ data = Null /\ size = 0 /\ where = 0 /\ frames = <<>>
    /\ path = [i \in 0..MaxStack |-> Null]
Next == Open \/ Move \/ Home \/ Fetch \/ EachChild \/ NextChild \/ EachLeaf \/ NextLeaf \/ Strays \/ Break \/ Close \/ Over
Spec == Init /\ [][Next]_vars

-----------------------------------------------------------------------------
(* The reference.                                                             *)

\* The first value of the text, while it is one: how far it goes.
Reads(n) == FoldLeft(Read, Fresh, [i \in 1..n |-> LET t == text[i] IN IF t \in Names THEN "string" ELSE IF t \in Scalars THEN "value" ELSE t])
Ends == {n \in DOMAIN text : Reads(n).at = "start"}
First == SubSeq(text, 1, CHOOSE n \in Ends : \A k \in Ends : n <= k)
BeginsValue == text # <<>> /\ text[1] \in Scalars \cup {"[", "{"}

\* What a JSON value means: the containers that are open, with what is in them.
Push(s, t) == Append(s, [kind |-> t, in |-> <<>>, key |-> <<>>])
Put(s, v) == LET f == Last(s) IN
    IF f.kind = "[" THEN [s EXCEPT ![Len(s)].in = Append(@, v)]
    ELSE [s EXCEPT ![Len(s)].in = Append(@, <<f.key, v>>), ![Len(s)].key = <<>>]
Meant(s, t) ==
    CASE t \in {"[", "{"} -> Push(s, t)
      [] t \in {",", ":"} -> s
      [] t = "]" -> Put(Front(s), <<"array", Last(s).in>>)
      [] t = "}" -> Put(Front(s), Object(Last(s).in))
      [] OTHER -> IF Last(s).kind = "{" /\ Last(s).key = <<>> THEN [s EXCEPT ![Len(s)].key = CharsOf[t]] ELSE Put(s, Meaning(t))
Document == FoldLeft(Meant, Push(<<>>, "["), First)[1].in[1]

-----------------------------------------------------------------------------
TypeOK ==
    /\ state \in {"new", "open", "error", "closed", "lost"} /\ data \in {Null, 1}
    /\ where \in 0..MaxStack /\ \A i \in 0..MaxStack : path[i] \in {Null} \cup DOMAIN leaves
    /\ \A n \in DOMAIN leaves : Container(leaves[n]) = (leaves[n].type = "COL_VAL") /\ leaves[n].elements \in {Null} \cup DOMAIN leaves
    /\ Len(frames) <= MaxFrames

\* A text opens as what its first value says, and as an empty document if it begins with
\* none; what comes after that is not looked at, and everything else is refused.
OpensValue == state # "new" =>
    /\ (state = "error") = (BeginsValue /\ Ends = {})
    /\ state # "error" => (leaves # <<>>) = BeginsValue /\ size = (IF BeginsValue THEN Len(leaves) ELSE 1)

\* However much of it has been made into Ruby values, the document means what its text
\* says.  Excepted are an integer with an exponent, which is not looked at, and a decimal
\* that is the document and followed by more.
HasExponent == \E t \in ToSet(text) \cap Numbers : "e" \in ToSet(CharsOf[t]) /\ "." \notin ToSet(CharsOf[t])
ValuesStay == state # "error" /\ leaves # <<>> /\ ~HasExponent /\ ~(text[1] \in Numbers /\ Len(text) > 1) =>
    LeafValue(leaves, 1) = Document

\* And it is dumped as it was read.  Excepted is, too, a number followed by more.
DumpStays == state # "error" /\ leaves # <<>> /\ ~HasExponent /\ ~(text[1] \in Numbers /\ Len(text) > 1) =>
    DumpLeaf(leaves, 1) = First

\* The document from its opening on.
KeepsValue == OpensValue /\ ValuesStay /\ DumpStays

\* The location is a node of the document, and the nodes above it lie one inside another:
\* after every path, iteration, and way out of one.  Excepted is what Settles names.
IsPath(c) == c.path[0] = data /\ \A i \in 1..c.where : c.path[i] \in ToSet(Children(leaves, c.path[i - 1]))
WhereIsPath == state \in {"open", "closed"} => IsPath(Here(where, path))

\* The path where? tells leads there.  Excepted are keys that hold a backslash, that
\* begin with "..", that are empty, or that an object has twice.
OddKey(n, e) ==
    \/ "\\" \in ToSet(leaves[e].label) \/ leaves[e].label = <<>> \/ IsUp(leaves[e].label)
    \/ \E d \in ToSet(Children(leaves, n)) \ {e} : leaves[d].label = leaves[e].label
OddWay == \E i \in 1..where : leaves[path[i]].parentType = "hash" /\ OddKey(path[i - 1], path[i])
WhereLeadsBack == Usable /\ ~OddWay =>
    LET r == Moved(DocWhere(Here(where, path)))
    IN  r.loc = 0 /\ Way(r.c.where, r.c.path) = Way(where, path)

\* Both of the location.
KeepsPlace == TypeOK /\ WhereIsPath /\ WhereLeadsBack

\* fetch finds the node move goes to, from every location.  Excepted are steps into an
\* array that are no number: fetch takes the first element for them, and stays at the step.
Lettered(p) == ToSet(p) \ (DOMAIN NumberOf \cup {"/", "."}) # {}
FetchLikeMove == Usable =>
    \A p \in Paths :
        LET r == Moved(p)
            n == GetDocLeaf(p)
        IN  IF r.loc = 0 THEN n = r.c.path[r.c.where]
            ELSE ((\E l \in DOMAIN leaves : leaves[l].rtype = "array") /\ Lettered(p)) \/ n = (IF r.loc = TooDeep THEN TooDeep ELSE Null)

\* each_child leaves the document where it was, whatever the path and the blocks inside.
ChildReturns == [][NextChild /\ Len(frames') < Len(frames) => Way(where', path') = top.saved]_vars
=============================================================================
