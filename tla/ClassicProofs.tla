---------------------------- MODULE ClassicProofs -----------------------------
(* Proofs about the two classic parsers: the stack of containers keeps what   *)
(* they build alive, what they accept is JSON and what they refuse is not,    *)
(* and what they build is what the text says, for texts of any length and     *)
(* nesting, in every mode, and with no bound on the stack.                    *)
(*                                                                            *)
(* A reader of JSON texts goes along with the parser (the variable meant).    *)
(* The first part says what the stack, the heap and the text are; the second  *)
(* when the parser and the reader agree: the containers on the stack are      *)
(* those the reader is inside of, each entry awaits what the grammar does,    *)
(* and what has been read so far is filled alike on both sides.  The third    *)
(* shows, step by step, that they still agree, or that the parser stops, and  *)
(* then as the properties say.                                                *)
EXTENDS Classic, SequenceTheorems, FiniteSetTheorems, TLAPS

-----------------------------------------------------------------------------
(* Sequences, whatever they are of.                                          *)

\* A sequence, whatever it is of.
Row(s) == Len(s) \in Nat /\ s = [i \in 1..Len(s) |-> s[i]]

\* A sequence over a set is a row of its members.
LEMMA RowSeq == ASSUME NEW S, NEW s \in Seq(S) PROVE Row(s) /\ \A i \in 1..Len(s) : s[i] \in S
BY DEF Row

\* A row of members of a set is a sequence over it.
LEMMA SeqRow == ASSUME NEW s, Row(s), NEW S, \A i \in 1..Len(s) : s[i] \in S PROVE s \in Seq(S)
<1>. DEFINE n == Len(s)
<1>1. n \in Nat /\ s \in [1..n -> S] BY DEF Row
<1>. HIDE DEF n
<1>. QED BY <1>1

\* A row with one more at its end.
LEMMA RowMore ==
    ASSUME NEW s, Row(s), NEW x
    PROVE  /\ Row(Append(s, x)) /\ Len(Append(s, x)) = Len(s) + 1 /\ Append(s, x)[Len(s) + 1] = x
           /\ \A i \in 1..Len(s) : Append(s, x)[i] = s[i]
<1>. DEFINE S == {s[i] : i \in 1..Len(s)} \cup {x}
<1>1. s \in Seq(S) BY SeqRow
<1>2. x \in S OBVIOUS
<1>. HIDE DEF S
<1>3. Append(s, x) \in Seq(S) BY <1>1, <1>2
<1>4. /\ Len(Append(s, x)) = Len(s) + 1 /\ Append(s, x)[Len(s) + 1] = x
      /\ \A i \in 1..Len(s) : Append(s, x)[i] = s[i]
  BY <1>1, <1>2, AppendProperties
<1>. QED BY <1>3, <1>4, RowSeq

\* A row without its last.
LEMMA RowFront ==
    ASSUME NEW s, Row(s), Len(s) # 0
    PROVE  /\ Row(Front(s)) /\ Len(Front(s)) = Len(s) - 1 /\ Last(s) = s[Len(s)]
           /\ \A i \in 1..Len(s) - 1 : Front(s)[i] = s[i]
<1>. DEFINE S == {s[i] : i \in 1..Len(s)}
            n == Len(s)
<1>1. s \in Seq(S) /\ n \in Nat BY SeqRow DEF Row
<1>. HIDE DEF S
<1>2. n - 1 \in 0..n BY <1>1
<1>3. /\ SubSeq(s, 1, n - 1) \in Seq(S) /\ Len(SubSeq(s, 1, n - 1)) = n - 1
      /\ \A i \in 1..n - 1 : SubSeq(s, 1, n - 1)[i] = s[i]
  <2>. HIDE DEF n
  <2>1. n = Len(s) BY DEF n
  <2>. QED BY <1>1, <1>2, <2>1, SubSeqProperties
<1>. QED BY <1>3, RowSeq DEF Front, Last

\* Two rows with the same entries are the same row.
LEMMA RowSame ==
    ASSUME NEW s, Row(s), NEW t, Row(t), Len(s) = Len(t), \A i \in 1..Len(s) : s[i] = t[i]
    PROVE  s = t
BY DEF Row

\* The row with nothing in it.
LEMMA RowEmpty == ASSUME NEW s, Row(s) PROVE s = <<>> <=> Len(s) = 0
<1>1. Len(<<>>) = 0 OBVIOUS
<1>2. ASSUME Len(s) = 0 PROVE s = <<>>
  <2>1. Row(<<>>) BY <1>1 DEF Row
  <2>. QED BY <1>1, <1>2, <2>1, RowSame
<1>. QED BY <1>1, <1>2

\* A function over 1..n is a sequence.
LEMMA MadeSeq == ASSUME NEW S, NEW n \in Nat, NEW t \in [1..n -> S] PROVE t \in Seq(S) /\ Len(t) = n
OBVIOUS

\* One element changed.
Changed(s, n, x) == [s EXCEPT ![n] = x]
\* A row one entry of which is replaced.
LEMMA RowPut ==
    ASSUME NEW s, Row(s), NEW n, n \in 1..Len(s), NEW x, NEW t, t = Changed(s, n, x)
    PROVE  Row(t) /\ Len(t) = Len(s) /\ t[n] = x /\ \A i \in 1..Len(s) : i # n => t[i] = s[i]
<1>. DEFINE l == Len(s)
            S == {s[i] : i \in 1..l} \cup {x}
<1>1. l \in Nat /\ s = [i \in 1..l |-> s[i]] BY DEF Row
<1>2. t = [i \in 1..l |-> IF i = n THEN x ELSE s[i]] BY <1>1 DEF Changed
<1>. HIDE DEF l
<1>3. t \in [1..l -> S] BY <1>1, <1>2
<1>. HIDE DEF S
<1>4. t \in Seq(S) /\ Len(t) = l BY <1>1, <1>3, MadeSeq
<1>5. Row(t) BY <1>4, RowSeq
<1>6. n \in 1..l BY DEF l
<1>. QED BY <1>2, <1>4, <1>5, <1>6 DEF l

-----------------------------------------------------------------------------
(* What there is on the stack and in the heap.                               *)

Seqs    == Seq(STRING)
Nexts   == {"NONE", "ARRAY_NEW", "ARRAY_ELEMENT", "ARRAY_COMMA", "HASH_NEW", "HASH_KEY",
            "HASH_COLON", "HASH_VALUE", "HASH_COMMA"}
Key(k)  == /\ k = [at |-> k.at, block |-> k.block, text |-> k.text, klen |-> k.klen, made |-> k.made]
           /\ k.block \in Nat
Slot(x) == /\ x = [val |-> x.val, next |-> x.next, key |-> x.key, classname |-> x.classname]
           /\ x.next \in Nexts /\ Key(x.key)
Slots(s) == Row(s) /\ Len(s) > 0 /\ \A i \in 1..Len(s) : Slot(s[i])
Node(x) == x.kind \in {"array", "object"} /\ x = [kind |-> x.kind, class |-> x.class, in |-> x.in]
Heap(h) == Row(h) /\ \A m \in 1..Len(h) : Node(h[m])

\* Only next, key, class name and, of the first Val, the value change.
LEMMA FilledIs ==
    ASSUME NEW s, Slots(s), NEW n \in 0..Len(s), NEW v
    PROVE  LET t == Filled(s, n, v)
           IN  /\ Slots(t) /\ Len(t) = Len(s)
               /\ \A i \in 1..Len(s) : i # n /\ n > 0 => t[i] = s[i]
               /\ n = 0 => t[1].val = IF Callbacks THEN s[1].val ELSE v
               /\ n > 0 => /\ t[n].next = IF s[n].next = "HASH_VALUE" THEN "HASH_COMMA" ELSE "ARRAY_COMMA"
                           /\ t[n].val = s[n].val /\ t[n].classname = s[n].classname
<1>. DEFINE t == Filled(s, n, v)
<1>1. Len(s) \in Nat /\ Row(s) /\ Len(s) > 0 /\ \A i \in 1..Len(s) : Slot(s[i]) BY DEF Slots, Row
<1>2. CASE n = 0
  <2>. DEFINE w == IF Callbacks THEN s[1].val ELSE v
              x == [s[1] EXCEPT !.val = w]
  <2>1. t = Changed(s, 1, x) BY <1>2 DEF Filled, Changed
  <2>2. Slot(s[1]) /\ 1 \in 1..Len(s) BY <1>1
  <2>3. Slot(x) /\ x.val = w
    <3>. DEFINE y == s[1]
    <3>1. y = [val |-> y.val, next |-> y.next, key |-> y.key, classname |-> y.classname] /\ y.next \in Nexts /\ Key(y.key)
      BY <2>2 DEF Slot
    <3>. HIDE DEF y, w
    <3>2. [y EXCEPT !.val = w] = [val |-> w, next |-> y.next, key |-> y.key, classname |-> y.classname] BY <3>1
    <3>3. Slot([y EXCEPT !.val = w]) /\ [y EXCEPT !.val = w].val = w BY <3>1, <3>2 DEF Slot
    <3>. QED BY <3>3 DEF y
  <2>. HIDE DEF x, t
  <2>4. Row(t) /\ Len(t) = Len(s) /\ t[1] = x /\ \A i \in 1..Len(s) : i # 1 => t[i] = s[i] BY <1>1, <2>1, <2>2, RowPut
  <2>5. Slots(t) BY <1>1, <2>3, <2>4 DEF Slots
  <2>. QED BY <1>2, <2>3, <2>4, <2>5 DEF t
<1>3. CASE n # 0
  <2>. DEFINE y == s[n]
              next == IF y.next = "HASH_VALUE" THEN "HASH_COMMA" ELSE "ARRAY_COMMA"
              key == IF y.next = "HASH_VALUE" THEN Spent(y.key) ELSE y.key
              x == [val |-> y.val, next |-> next, key |-> key, classname |-> y.classname]
  <2>1. n \in 1..Len(s) BY <1>1, <1>3
  <2>2. y = [val |-> y.val, next |-> y.next, key |-> y.key, classname |-> y.classname] /\ Key(y.key)
    BY <1>1, <2>1 DEF Slot
  <2>3. Key(key)
    <3>1. NoKey = [at |-> None, block |-> 0, text |-> <<>>, klen |-> 0, made |-> Unmade] BY DEF NoKey
    <3>2. Key(NoKey) BY <3>1 DEF Key
    <3>. QED BY <2>2, <3>2 DEF Spent
  <2>4. next \in Nexts BY DEF Nexts
  <2>5. t = Changed(s, n, x)
    <3>1. t = [s EXCEPT ![n].next = next, ![n].key = key] BY <1>3 DEF Filled
    <3>. HIDE DEF next, key
    <3>. DEFINE z == s[n]
    <3>2. ASSUME NEW a, NEW b
          PROVE  [[z EXCEPT !.next = a] EXCEPT !.key = b] = [val |-> z.val, next |-> a, key |-> b, classname |-> z.classname]
      <4>. DEFINE y1 == [z EXCEPT !.next = a]
      <4>1. z = [val |-> z.val, next |-> z.next, key |-> z.key, classname |-> z.classname] BY <2>2
      <4>. HIDE DEF z
      <4>2. y1 = [val |-> z.val, next |-> a, key |-> z.key, classname |-> z.classname] BY ONLY <4>1
      <4>. HIDE DEF y1
      <4>3. [y1 EXCEPT !.key = b] = [val |-> z.val, next |-> a, key |-> b, classname |-> z.classname] BY ONLY <4>2
      <4>. QED BY <4>3 DEF y1
    <3>3. s = [i \in 1..Len(s) |-> s[i]] BY <1>1 DEF Row
    <3>4. t = [s EXCEPT ![n] = x] BY <2>1, <3>1, <3>2, <3>3
    <3>. QED BY <3>4 DEF Changed
  <2>6. Slot(x) /\ x.next = next /\ x.val = y.val /\ x.classname = y.classname
    <3>. HIDE DEF next, key, y
    <3>. QED BY <2>3, <2>4 DEF Slot
  <2>. HIDE DEF x, t
  <2>7. Row(t) /\ Len(t) = Len(s) /\ t[n] = x /\ \A i \in 1..Len(s) : i # n => t[i] = s[i] BY <1>1, <2>1, <2>5, RowPut
  <2>8. Slots(t) BY <1>1, <2>6, <2>7 DEF Slots
  <2>. QED BY <1>3, <2>6, <2>7, <2>8 DEF t
<1>. QED BY <1>2, <1>3

\* What an entry of the stack holds when its container is opened.
LEMMA NewSlot ==
    ASSUME NEW val, NEW next \in Nexts
    PROVE  LET x == Val(val, next)
           IN  Slot(x) /\ x.val = val /\ x.next = next /\ x.classname = None /\ x.key = NoKey
<1>1. NoKey = [at |-> None, block |-> 0, text |-> <<>>, klen |-> 0, made |-> Unmade] BY DEF NoKey
<1>2. Key(NoKey) BY <1>1 DEF Key
<1>3. Val(val, next) = [val |-> val, next |-> next, key |-> NoKey, classname |-> None] BY DEF Val
<1>. HIDE DEF NoKey
<1>4. Slot(Val(val, next)) BY <1>2, <1>3 DEF Slot
<1>. QED BY <1>3, <1>4

\* stack_push writes the entry above the others and keeps those, whether or not the array grows.
LEMMA PushIs ==
    ASSUME Slots(slots), tail \in 0..Len(slots), room \in Nat, block \in Nat, tail <= room, NEW v, Slot(v), Push(v)
    PROVE  /\ Slots(slots') /\ tail' = tail + 1 /\ tail' \in 1..Len(slots')
           /\ slots'[tail + 1] = v /\ \A i \in 1..tail : slots'[i] = slots[i]
           /\ room' \in Nat /\ block' \in Nat /\ tail' <= room' /\ block <= block'
<1>. DEFINE l == Len(slots)
            m == IF tail < l THEN l ELSE tail + 1
            S == {v} \cup {slots[i] : i \in 1..l}
<1>1. l \in Nat /\ l > 0 /\ tail \in Nat /\ tail <= l /\ \A i \in 1..l : Slot(slots[i]) BY DEF Slots, Row
<1>2. slots' = [i \in 1..m |-> IF i = tail + 1 THEN v ELSE slots[i]] /\ tail' = tail + 1 BY DEF Push
<1>. HIDE DEF l
<1>3. m \in Nat /\ m >= tail + 1 /\ m >= l /\ (m = l \/ m = tail + 1) BY <1>1
<1>4. m = l \/ m = l + 1 BY <1>1
<1>. HIDE DEF m
<1>5. slots' \in [1..m -> S]
  <2>1. ASSUME NEW i \in 1..m PROVE i = tail + 1 \/ i \in 1..l BY <1>1, <1>3
  <2>. QED BY <1>2, <2>1
<1>. HIDE DEF S
<1>6. slots' \in Seq(S) /\ Len(slots') = m BY <1>3, <1>5, MadeSeq
<1>7. Row(slots') /\ \A i \in 1..m : slots'[i] \in S BY <1>6, RowSeq
<1>8. \A x \in S : Slot(x) BY <1>1 DEF S
<1>9. Slots(slots') BY <1>1, <1>3, <1>6, <1>7, <1>8 DEF Slots
<1>10. tail + 1 \in 1..m /\ \A i \in 1..tail : i \in 1..m /\ i # tail + 1 BY <1>1, <1>3
<1>11. slots'[tail + 1] = v /\ \A i \in 1..tail : slots'[i] = slots[i] BY <1>2, <1>10
<1>12. room' \in Nat /\ block' \in Nat /\ tail' <= room' /\ block <= block'
  BY <1>1, <1>2, ValStackAssumption DEF Push, ValStackAssumption
<1>. QED BY <1>2, <1>6, <1>9, <1>10, <1>11, <1>12

\* A value in a container.
Taken(x, key, v) == IF x.kind = "array" THEN Append(x.in, v) ELSE key :> v @@ x.in

\* A container given other contents is still one of its kind and class.
LEMMA NodeIn ==
    ASSUME NEW x, Node(x), NEW a
    PROVE  Node([x EXCEPT !.in = a]) /\ [x EXCEPT !.in = a].in = a /\ [x EXCEPT !.in = a].kind = x.kind
           /\ [x EXCEPT !.in = a].class = x.class
<1>1. x.kind \in {"array", "object"} /\ x = [kind |-> x.kind, class |-> x.class, in |-> x.in] BY DEF Node
<1>2. [x EXCEPT !.in = a] = [kind |-> x.kind, class |-> x.class, in |-> a] BY <1>1
<1>. QED BY <1>1, <1>2 DEF Node

\* A container given another class is still one of its kind and contents.
LEMMA NodeClass ==
    ASSUME NEW x, Node(x), NEW a
    PROVE  Node([x EXCEPT !.class = a]) /\ [x EXCEPT !.class = a].in = x.in /\ [x EXCEPT !.class = a].kind = x.kind
           /\ [x EXCEPT !.class = a].class = a
<1>1. x.kind \in {"array", "object"} /\ x = [kind |-> x.kind, class |-> x.class, in |-> x.in] BY DEF Node
<1>2. [x EXCEPT !.class = a] = [kind |-> x.kind, class |-> a, in |-> x.in] BY <1>1
<1>. QED BY <1>1, <1>2 DEF Node

\* The number of a container, and what is said of heaps that differ in one node.
ButFor(h, g, m) == Heap(g) /\ Len(g) = Len(h) /\ \A i \in 1..Len(h) : i # m => g[i] = h[i]

\* Putting a value into a container changes the contents of that container, and no other.
LEMMA IntoIs ==
    ASSUME NEW h, Heap(h), NEW m, m \in 1..Len(h), NEW key, NEW v
    PROVE  LET g == Into(h, Container(m), key, v)
           IN  /\ ButFor(h, g, m)
               /\ g[m].kind = h[m].kind /\ g[m].class = h[m].class /\ g[m].in = Taken(h[m], key, v)
<1>. DEFINE g == Into(h, Container(m), key, v)
            x == h[m]
            a == Taken(x, key, v)
            y == [x EXCEPT !.in = a]
<1>1. Row(h) /\ (\A i \in 1..Len(h) : Node(h[i])) /\ h = [i \in 1..Len(h) |-> h[i]] BY DEF Heap, Row
<1>2. Container(m)[2] = m BY DEF Container
<1>3. g = [h EXCEPT ![m].in = IF h[m].kind = "array" THEN Append(@, v) ELSE key :> v @@ @] BY <1>2 DEF Into
<1>4. g = Changed(h, m, y) BY <1>1, <1>3 DEF Taken, Changed
<1>5. Node(x) BY <1>1
<1>6. Node(y) /\ y.in = a /\ y.kind = x.kind /\ y.class = x.class BY <1>5, NodeIn
<1>. HIDE DEF g, y
<1>7. Row(g) /\ Len(g) = Len(h) /\ g[m] = y /\ \A i \in 1..Len(h) : i # m => g[i] = h[i] BY <1>1, <1>4, RowPut
<1>8. ButFor(h, g, m) BY <1>1, <1>6, <1>7 DEF Heap, ButFor
<1>. QED BY <1>6, <1>7, <1>8 DEF g

\* The class of a container.
Classed(h, m, class) == [h EXCEPT ![m].class = class]

\* Giving a container a class changes that class, and nothing else.
LEMMA ClassedIs ==
    ASSUME NEW h, Heap(h), NEW m, m \in 1..Len(h), NEW class
    PROVE  LET g == Classed(h, m, class)
           IN  ButFor(h, g, m) /\ g[m].kind = h[m].kind /\ g[m].class = class /\ g[m].in = h[m].in
<1>. DEFINE g == Classed(h, m, class)
            x == h[m]
            y == [x EXCEPT !.class = class]
<1>1. Row(h) /\ (\A i \in 1..Len(h) : Node(h[i])) /\ h = [i \in 1..Len(h) |-> h[i]] BY DEF Heap, Row
<1>2. g = Changed(h, m, y) BY <1>1 DEF Changed, Classed
<1>3. Node(x) BY <1>1
<1>4. Node(y) /\ y.in = x.in /\ y.kind = x.kind /\ y.class = class BY <1>3, NodeClass
<1>. HIDE DEF g, y
<1>5. Row(g) /\ Len(g) = Len(h) /\ g[m] = y /\ \A i \in 1..Len(h) : i # m => g[i] = h[i] BY <1>1, <1>2, RowPut
<1>6. ButFor(h, g, m) BY <1>1, <1>4, <1>5 DEF Heap, ButFor
<1>. QED BY <1>4, <1>5, <1>6 DEF g

\* A container more.
LEMMA HeapMore ==
    ASSUME NEW h, Heap(h), NEW kind \in {"array", "object"}
    PROVE  LET g == Append(h, New(kind))
           IN  /\ Heap(g) /\ Len(g) = Len(h) + 1 /\ \A i \in 1..Len(h) : g[i] = h[i]
               /\ g[Len(h) + 1] = New(kind)
<1>. DEFINE g == Append(h, New(kind))
<1>1. Row(h) /\ Len(h) \in Nat /\ \A i \in 1..Len(h) : Node(h[i]) BY DEF Heap, Row
<1>2. Row(g) /\ Len(g) = Len(h) + 1 /\ g[Len(h) + 1] = New(kind) /\ \A i \in 1..Len(h) : g[i] = h[i] BY <1>1, RowMore
<1>3. Node(New(kind)) BY DEF New, Node
<1>. HIDE DEF g
<1>4. \A i \in 1..Len(h) + 1 : i \in 1..Len(h) \/ i = Len(h) + 1 BY <1>1
<1>5. Heap(g) BY <1>1, <1>2, <1>3, <1>4 DEF Heap
<1>. QED BY <1>2, <1>5 DEF g

\* A token that has been read stays read.
Seen(kinds, tx) == \E i \in 1..Len(tx) : tx[i] \in kinds

\* What the properties call a text that has a token of some kind.
LEMMA HasIs == ASSUME Row(text), NEW kinds PROVE Has(kinds) <=> Seen(kinds, text)
<1>. DEFINE D == {i \in DOMAIN text : text[i] \in kinds}
<1>1. DOMAIN text = 1..Len(text) /\ Len(text) \in Nat BY DEF Row
<1>2. IsFiniteSet(1..Len(text)) BY <1>1, FS_Interval
<1>3. D \subseteq 1..Len(text) BY <1>1
<1>4. IsFiniteSet(D) BY <1>2, <1>3, FS_Subset
<1>5. Cardinality(D) \in Nat /\ (Cardinality(D) = 0 <=> D = {}) BY <1>4, FS_CardinalityType, FS_EmptySet
<1>6. Has(kinds) <=> Cardinality(D) > 0 BY DEF Has, Count
<1>7. D # {} <=> Seen(kinds, text) BY <1>1 DEF Seen
<1>. HIDE DEF D
<1>. QED BY <1>5, <1>6, <1>7

\* A text seen with one token more.
LEMMA SeenMore ==
    ASSUME NEW tx, Row(tx), NEW t, NEW kinds
    PROVE  Row(Append(tx, t)) /\ (Seen(kinds, Append(tx, t)) <=> Seen(kinds, tx) \/ t \in kinds)
<1>. DEFINE u == Append(tx, t)
<1>1. Len(tx) \in Nat /\ Row(u) /\ Len(u) = Len(tx) + 1 /\ u[Len(tx) + 1] = t /\ \A i \in 1..Len(tx) : u[i] = tx[i]
  BY RowMore DEF Row
<1>. HIDE DEF u
<1>2. \A i \in 1..Len(tx) + 1 : i \in 1..Len(tx) \/ i = Len(tx) + 1 BY <1>1
<1>3. Len(tx) + 1 \in 1..Len(tx) + 1 /\ \A i \in 1..Len(tx) : i \in 1..Len(tx) + 1 BY <1>1
<1>. QED BY <1>1, <1>2, <1>3 DEF Seen, u

\* The stack with one of its entries replaced.
LEMMA SlotPut ==
    ASSUME NEW s, Slots(s), NEW n, n \in 1..Len(s), NEW y, Slot(y), NEW t, t = Changed(s, n, y)
    PROVE  Slots(t) /\ Len(t) = Len(s) /\ t[n] = y /\ \A i \in 1..Len(s) : i # n => t[i] = s[i]
<1>1. Row(s) /\ Len(s) > 0 /\ \A i \in 1..Len(s) : Slot(s[i]) BY DEF Slots
<1>2. Row(t) /\ Len(t) = Len(s) /\ t[n] = y /\ \A i \in 1..Len(s) : i # n => t[i] = s[i] BY <1>1, RowPut
<1>. QED BY <1>1, <1>2 DEF Slots

\* The slot with another next, with a key, with the name of a class.
WithNext(s, n, next)     == [s EXCEPT ![n].next = next]
\* An entry of the stack given a key, and one given a class.
WithKey(s, n, key, next) == [s EXCEPT ![n].key = key, ![n].next = next]
WithClass(s, n, class)   == [s EXCEPT ![n].classname = class]

\* Setting what an entry awaits changes that, and nothing else.
LEMMA NextPut ==
    ASSUME NEW s, Slots(s), NEW n, n \in 1..Len(s), NEW next \in Nexts, NEW t, t = WithNext(s, n, next)
    PROVE  /\ Slots(t) /\ Len(t) = Len(s) /\ \A i \in 1..Len(s) : i # n => t[i] = s[i]
           /\ t[n].next = next /\ t[n].val = s[n].val /\ t[n].key = s[n].key /\ t[n].classname = s[n].classname
<1>. DEFINE x == s[n]
            y == [x EXCEPT !.next = next]
<1>1. Slot(x) BY DEF Slots
<1>2. x = [val |-> x.val, next |-> x.next, key |-> x.key, classname |-> x.classname] /\ Key(x.key) BY <1>1 DEF Slot
<1>3. t = Changed(s, n, y) BY DEF Changed, Slots, Row, WithNext
<1>. HIDE DEF x
<1>4. y = [val |-> x.val, next |-> next, key |-> x.key, classname |-> x.classname] BY <1>2
<1>. HIDE DEF y
<1>5. Slot(y) /\ y.next = next /\ y.val = x.val /\ y.key = x.key /\ y.classname = x.classname BY <1>2, <1>4 DEF Slot
<1>6. Slots(t) /\ Len(t) = Len(s) /\ t[n] = y /\ \A i \in 1..Len(s) : i # n => t[i] = s[i]
  BY ONLY <1>3, <1>5, Slots(s), n \in 1..Len(s), SlotPut
<1>. QED BY ONLY <1>5, <1>6 DEF x

\* Setting the key of an entry changes its key and what it awaits, and nothing else.
LEMMA KeyPut ==
    ASSUME NEW s, Slots(s), NEW n, n \in 1..Len(s), NEW key, Key(key), NEW next \in Nexts,
           NEW t, t = WithKey(s, n, key, next)
    PROVE  /\ Slots(t) /\ Len(t) = Len(s) /\ \A i \in 1..Len(s) : i # n => t[i] = s[i]
           /\ t[n].next = next /\ t[n].val = s[n].val /\ t[n].key = key /\ t[n].classname = s[n].classname
<1>. DEFINE x == s[n]
            w == [x EXCEPT !.key = key]
            y == [w EXCEPT !.next = next]
<1>1. Slot(x) BY DEF Slots
<1>2. x = [val |-> x.val, next |-> x.next, key |-> x.key, classname |-> x.classname] BY <1>1 DEF Slot
<1>3. t = Changed(s, n, y) BY DEF Changed, Slots, Row, WithKey
<1>. HIDE DEF x
<1>4. w = [val |-> x.val, next |-> x.next, key |-> key, classname |-> x.classname] BY <1>2
<1>. HIDE DEF w
<1>5. y = [val |-> x.val, next |-> next, key |-> key, classname |-> x.classname] BY <1>4
<1>. HIDE DEF y
<1>6. Slot(y) /\ y.next = next /\ y.val = x.val /\ y.key = key /\ y.classname = x.classname BY <1>5 DEF Slot
<1>7. Slots(t) /\ Len(t) = Len(s) /\ t[n] = y /\ \A i \in 1..Len(s) : i # n => t[i] = s[i]
  BY ONLY <1>3, <1>6, Slots(s), n \in 1..Len(s), SlotPut
<1>. QED BY ONLY <1>6, <1>7 DEF x

\* Setting the class of an entry changes that, and nothing else.
LEMMA ClassPut ==
    ASSUME NEW s, Slots(s), NEW n, n \in 1..Len(s), NEW class, NEW t, t = WithClass(s, n, class)
    PROVE  /\ Slots(t) /\ Len(t) = Len(s) /\ \A i \in 1..Len(s) : i # n => t[i] = s[i]
           /\ t[n].next = s[n].next /\ t[n].val = s[n].val /\ t[n].key = s[n].key /\ t[n].classname = class
<1>. DEFINE x == s[n]
            y == [x EXCEPT !.classname = class]
<1>1. Slot(x) BY DEF Slots
<1>2. x = [val |-> x.val, next |-> x.next, key |-> x.key, classname |-> x.classname] /\ Key(x.key) /\ x.next \in Nexts
  BY <1>1 DEF Slot
<1>3. t = Changed(s, n, y) BY DEF Changed, Slots, Row, WithClass
<1>. HIDE DEF x
<1>4. y = [val |-> x.val, next |-> x.next, key |-> x.key, classname |-> class] BY <1>2
<1>. HIDE DEF y
<1>5. Slot(y) /\ y.next = x.next /\ y.val = x.val /\ y.key = x.key /\ y.classname = class BY <1>2, <1>4 DEF Slot
<1>6. Slots(t) /\ Len(t) = Len(s) /\ t[n] = y /\ \A i \in 1..Len(s) : i # n => t[i] = s[i]
  BY ONLY <1>3, <1>5, Slots(s), n \in 1..Len(s), SlotPut
<1>. QED BY ONLY <1>5, <1>6 DEF x

-----------------------------------------------------------------------------
(* The types, and what the collector may take.                               *)

\* The invariant: every entry of the stack is a container of the heap,
\* the stack and the heap have their shapes,
Boxes(s, n, h) == \A i \in 1..n : \E m \in 1..Len(h) : s[i].val = Container(m)
Kept == /\ Slots(slots) /\ tail \in 0..Len(slots) /\ room \in Nat /\ block \in Nat /\ tail <= room
        /\ Heap(heap) /\ Boxes(slots, tail, heap) /\ first \in BOOLEAN
\* the text is of tokens,
Read1 == config \in Configs /\ text \in Seq(Tokens \cup {"end"})
\* a value is collected only in callback mode, when an array was closed,
Freeable == collected \in BOOLEAN /\ (collected => Callbacks /\ Seen({"]"}, text))
\* and the answer is one of four.
Answers == answer \in {"reading", "ok", "error", "raised"}

\* A handler that reads a token adds it to the text, and the reference reads it too.
LEMMA ReadsIs ==
    ASSUME Read1, NEW tokens, tokens \subseteq Tokens, Reads(tokens)
    PROVE  /\ token \in tokens /\ text' = Append(text, token) /\ meant' = Told(meant, token)
           /\ config' = config /\ answer = "reading" /\ ~TooDeep /\ Read1'
<1>1. PICK t \in tokens : text' = Append(text, t) /\ meant' = Told(meant, t) BY DEF Reads
<1>2. text \in Seq(Tokens \cup {"end"}) /\ t \in Tokens \cup {"end"} BY <1>1 DEF Read1
<1>3. text' \in Seq(Tokens \cup {"end"}) /\ text'[Len(text')] = t BY <1>1, <1>2, AppendProperties
<1>4. token = t BY <1>3 DEF token, Last
<1>. QED BY <1>1, <1>3, <1>4 DEF Reads, Read1

\* What the step after a token does to first.
LEMMA TurnIs ==
    ASSUME first \in BOOLEAN, NEW n, NEW s, Turn(n, s)
    PROVE  first' \in BOOLEAN
BY DEF Turn

\* A value is put into the n innermost but one, or becomes a document.
LEMMA PutKept ==
    ASSUME Slots(slots), NEW n, n \in 0..Len(slots), NEW h, Heap(h), Boxes(slots, n, h), NEW key, NEW v,
           heap' = IF n = 0 THEN h ELSE Into(h, slots[n].val, key, v),
           slots' = Filled(slots, n, v), tail' = n, Turn(n, slots'), first \in BOOLEAN,
           room \in Nat, block \in Nat, n <= room, UNCHANGED <<room, block>>
    PROVE  Kept'
<1>1. /\ Slots(slots') /\ Len(slots') = Len(slots) /\ Len(slots) \in Nat
      /\ \A i \in 1..Len(slots) : i # n /\ n > 0 => slots'[i] = slots[i]
      /\ n > 0 => slots'[n].val = slots[n].val
  BY FilledIs DEF Slots, Row
<1>2. Heap(heap') /\ Len(heap') = Len(h)
  <2>1. CASE n = 0 BY <2>1
  <2>2. CASE n # 0
    <3>1. n \in 1..n BY <1>1, <2>2
    <3>2. PICK m \in 1..Len(h) : slots[n].val = Container(m) BY <3>1 DEF Boxes
    <3>3. heap' = Into(h, Container(m), key, v) BY <2>2, <3>2
    <3>. QED BY <3>3, IntoIs DEF ButFor
  <2>. QED BY <2>1, <2>2
<1>3. Boxes(slots', n, heap')
  <2>1. ASSUME NEW i \in 1..n PROVE slots'[i].val = slots[i].val
    <3>1. i \in 1..Len(slots) /\ n > 0 BY <1>1
    <3>. QED BY <1>1, <3>1
  <2>. QED BY <1>2, <2>1 DEF Boxes
<1>4. first' \in BOOLEAN BY TurnIs
<1>. QED BY <1>1, <1>2, <1>3, <1>4 DEF Kept

\* Adding a value keeps the shapes.
LEMMA AddKept == ASSUME Kept, NEW v, Add(tail, v) PROVE Kept'
<1>1. /\ heap' = (IF tail = 0 THEN heap ELSE Into(heap, slots[tail].val, CalcHashKey(slots[tail].key), v))
      /\ slots' = Filled(slots, tail, v) /\ tail' = tail /\ Turn(tail, slots') /\ UNCHANGED <<room, block>>
  BY DEF Add
<1>2. /\ Slots(slots) /\ tail \in 0..Len(slots) /\ Heap(heap) /\ Boxes(slots, tail, heap) /\ first \in BOOLEAN
      /\ room \in Nat /\ block \in Nat /\ tail <= room
  BY DEF Kept
<1>. QED BY <1>1, <1>2, PutKept

\* The innermost container is there.
LEMMA NextTail == ASSUME Kept, NEW states, NextIs(states) PROVE tail \in 1..Len(slots) /\ slots[tail].next \in states
BY DEF NextIs, Kept

\* Closing a container keeps the shapes.
LEMMA CloseKept == ASSUME Kept, tail # 0, NEW class, Close(class) PROVE Kept'
<1>. DEFINE made == [heap EXCEPT ![Top.val[2]].class = class]
            n == tail - 1
            v == Top.val
            key == CalcHashKey(slots[n].key)
<1>1. /\ heap' = (IF tail = 1 THEN made ELSE Into(made, slots[n].val, key, v))
      /\ slots' = Filled(slots, n, v) /\ tail' = n /\ Turn(n, slots') /\ UNCHANGED <<room, block>>
  BY DEF Close
<1>2. /\ Slots(slots) /\ tail \in 0..Len(slots) /\ Heap(heap) /\ Boxes(slots, tail, heap) /\ first \in BOOLEAN
      /\ room \in Nat /\ block \in Nat /\ tail <= room /\ Len(slots) \in Nat
  BY DEF Kept, Slots, Row
<1>3. tail \in 1..tail /\ n \in 0..Len(slots) /\ n <= room /\ (tail = 1 <=> n = 0) /\ \A i \in 1..n : i \in 1..tail
  BY <1>2
<1>4. PICK m \in 1..Len(heap) : slots[tail].val = Container(m) BY <1>2, <1>3 DEF Boxes
<1>5. made = Classed(heap, m, class) BY <1>4 DEF Top, Container, Classed
<1>6. Heap(made) /\ Len(made) = Len(heap)
  <2>1. ButFor(heap, Classed(heap, m, class), m) BY <1>2, ClassedIs
  <2>. QED BY ONLY <1>5, <2>1 DEF ButFor
<1>. HIDE DEF made, n, v, key
<1>7. Boxes(slots, n, made) BY <1>2, <1>3, <1>6 DEF Boxes
<1>8. heap' = (IF n = 0 THEN made ELSE Into(made, slots[n].val, key, v)) BY <1>1, <1>3
<1>. QED BY <1>1, <1>2, <1>3, <1>6, <1>7, <1>8, PutKept

\* A step that touches neither the stack nor the heap keeps the shapes.
LEMMA SameKept == ASSUME Kept, UNCHANGED <<stackVars, heap>>, first' \in BOOLEAN PROVE Kept'
BY DEF Kept, stackVars, Boxes

\* A slot that keeps its value.
LEMMA TopKept ==
    ASSUME Kept, tail # 0, Slots(slots'), Len(slots') = Len(slots), slots'[tail].val = slots[tail].val,
           \A i \in 1..Len(slots) : i # tail => slots'[i] = slots[i], UNCHANGED <<tail, room, block, heap, first>>
    PROVE  Kept'
<1>1. tail \in 0..Len(slots) /\ Len(slots) \in Nat /\ Boxes(slots, tail, heap) BY DEF Kept, Slots, Row
<1>2. ASSUME NEW i \in 1..tail PROVE slots'[i].val = slots[i].val
  <2>1. i \in 1..Len(slots) BY <1>1
  <2>. QED BY <2>1
<1>3. Boxes(slots', tail', heap') BY <1>1, <1>2 DEF Boxes
<1>. QED BY <1>3 DEF Kept

\* The key a member name is stored as.
LEMMA KeyOfIs == ASSUME block \in Nat, NEW string PROVE Key(KeyOf(string))
<1>. DEFINE klen == Len(TextOf[string]) % KeyWidth
            where == IF string \in Escaped THEN "heap"
                     ELSE IF ~Sparse THEN "text"
                     ELSE IF KArray <= klen THEN "heap" ELSE "karray"
            seen == IF Sparse /\ string \notin Escaped THEN SubSeq(TextOf[string], 1, klen) ELSE TextOf[string]
            a == [at |-> where, block |-> block, text |-> TextOf[string], klen |-> klen, made |-> Unmade]
            b == [at |-> where, block |-> block, text |-> TextOf[string], klen |-> klen, made |-> <<seen>>]
            c == [NoKey EXCEPT !.made = <<seen>>]
<1>1. KeyOf(string) = a \/ KeyOf(string) = b \/ KeyOf(string) = c BY DEF KeyOf
<1>. HIDE DEF klen, where, seen
<1>2. Key(a) /\ Key(b) BY DEF Key
<1>3. NoKey = [at |-> None, block |-> 0, text |-> <<>>, klen |-> 0, made |-> Unmade] BY DEF NoKey
<1>4. c = [at |-> None, block |-> 0, text |-> <<>>, klen |-> 0, made |-> <<seen>>] BY <1>3
<1>. HIDE DEF c
<1>5. Key(c) BY <1>4 DEF Key
<1>. QED BY <1>1, <1>2, <1>5

-----------------------------------------------------------------------------
(* Every step keeps the types.                                               *)

\* Opening a container keeps the shapes.
LEMMA StartKept == ASSUME Kept, Start PROVE Kept' /\ answer' = answer /\ collected' = collected
<1>. DEFINE array == token = "["
            kind == IF array THEN "array" ELSE "object"
            next == IF array THEN "ARRAY_NEW" ELSE "HASH_NEW"
            x == Val(Container(Len(heap')), next)
<1>1. heap' = Append(heap, New(kind)) /\ Push(x) /\ UNCHANGED <<first, calls>> BY DEF Start
<1>2. /\ Slots(slots) /\ tail \in 0..Len(slots) /\ Heap(heap) /\ Boxes(slots, tail, heap) /\ first \in BOOLEAN
      /\ room \in Nat /\ block \in Nat /\ tail <= room /\ Len(slots) \in Nat /\ Len(heap) \in Nat
  BY DEF Kept, Slots, Row, Heap
<1>3. kind \in {"array", "object"} /\ next \in Nexts BY DEF Nexts
<1>. HIDE DEF kind, next
<1>4. Heap(heap') /\ Len(heap') = Len(heap) + 1 BY <1>1, <1>2, <1>3, HeapMore
<1>5. Slot(x) /\ x.val = Container(Len(heap')) BY <1>3, NewSlot
<1>. HIDE DEF x
<1>6. /\ Slots(slots') /\ tail' = tail + 1 /\ tail' \in 1..Len(slots')
      /\ slots'[tail + 1] = x /\ \A i \in 1..tail : slots'[i] = slots[i]
      /\ room' \in Nat /\ block' \in Nat /\ tail' <= room'
  BY <1>1, <1>2, <1>5, PushIs
<1>7. Len(heap') \in 1..Len(heap') /\ \A m \in 1..Len(heap) : m \in 1..Len(heap') BY <1>2, <1>4
<1>8. Boxes(slots', tail', heap')
  <2>1. ASSUME NEW i \in 1..tail' PROVE \E m \in 1..Len(heap') : slots'[i].val = Container(m)
    <3>1. CASE i = tail + 1 BY <1>5, <1>6, <1>7, <3>1
    <3>2. CASE i # tail + 1
      <4>1. i \in 1..tail BY <1>2, <1>6, <3>2
      <4>. QED BY <1>2, <1>6, <1>7, <4>1 DEF Boxes
    <3>. QED BY <3>1, <3>2
  <2>. QED BY <2>1 DEF Boxes
<1>9. tail' \in 0..Len(slots') BY <1>6
<1>. QED BY <1>1, <1>2, <1>4, <1>6, <1>8, <1>9 DEF Kept, calls

\* The tokens each handler reads.
LEMMA TokenSets ==
    /\ Strings \subseteq Tokens
    /\ {"{", "["} \subseteq Tokens /\ {"]"} \subseteq Tokens /\ {"}"} \subseteq Tokens /\ {","} \subseteq Tokens
    /\ {":"} \subseteq Tokens /\ {"scalar"} \subseteq Tokens /\ {"nan"} \subseteq Tokens /\ {"comment"} \subseteq Tokens
    /\ {"bad"} \subseteq Tokens
    /\ \A t \in Strings : t \notin Marks
BY ClassicAssumption DEF Tokens, Marks, ClassicAssumption

\* A comma keeps the shapes.
LEMMA CommaKept == ASSUME Kept, Comma PROVE Kept' /\ (collected' = collected) /\ answer' \in {answer, "error"}
<1>1. CASE NextIs({"ARRAY_COMMA", "HASH_COMMA"})
  <2>1. tail \in 1..Len(slots) /\ Slots(slots) /\ Len(slots) \in Nat BY <1>1, NextTail DEF Kept, Slots, Row
  <2>. DEFINE next == IF slots[tail].next = "ARRAY_COMMA" THEN "ARRAY_ELEMENT" ELSE "HASH_KEY"
  <2>2. slots' = WithNext(slots, tail, next) /\ UNCHANGED <<tail, room, block, heap, first, calls>>
    BY <1>1 DEF Comma, WithNext
  <2>3. next \in Nexts BY DEF Nexts
  <2>. HIDE DEF next
  <2>4. /\ Slots(slots') /\ Len(slots') = Len(slots) /\ slots'[tail].val = slots[tail].val
        /\ \A i \in 1..Len(slots) : i # tail => slots'[i] = slots[i]
    BY <2>1, <2>2, <2>3, NextPut
  <2>. QED BY <2>1, <2>2, <2>4, TopKept DEF calls
<1>2. CASE ~NextIs({"ARRAY_COMMA", "HASH_COMMA"})
  <2>1. Fail BY <1>2 DEF Comma
  <2>. QED BY <2>1, SameKept DEF Fail, Kept
<1>. QED BY <1>1, <1>2

\* A colon keeps the shapes.
LEMMA ColonKept == ASSUME Kept, Colon PROVE Kept' /\ (collected' = collected) /\ answer' \in {answer, "error"}
<1>1. CASE NextIs({"HASH_COLON"})
  <2>1. tail \in 1..Len(slots) /\ Slots(slots) /\ Len(slots) \in Nat BY <1>1, NextTail DEF Kept, Slots, Row
  <2>2. slots' = WithNext(slots, tail, "HASH_VALUE") /\ UNCHANGED <<tail, room, block, heap, first, calls>>
    BY <1>1 DEF Colon, WithNext
  <2>3. "HASH_VALUE" \in Nexts BY DEF Nexts
  <2>4. /\ Slots(slots') /\ Len(slots') = Len(slots) /\ slots'[tail].val = slots[tail].val
        /\ \A i \in 1..Len(slots) : i # tail => slots'[i] = slots[i]
    BY <2>1, <2>2, <2>3, NextPut
  <2>. QED BY <2>1, <2>2, <2>4, TopKept DEF calls
<1>2. CASE ~NextIs({"HASH_COLON"})
  <2>1. Fail BY <1>2 DEF Colon
  <2>. QED BY <2>1, SameKept DEF Fail, Kept
<1>. QED BY <1>1, <1>2

\* A string, as a name or as a value, keeps the shapes.
LEMMA StringKept == ASSUME Kept, String PROVE Kept' /\ (collected' = collected) /\ answer' \in {answer, "error"}
<1>1. CASE /\ NextIs(ExpectsKey)
           /\ slots' = [slots EXCEPT ![tail].key = KeyOf(token), ![tail].next = "HASH_COLON"]
           /\ UNCHANGED <<tail, room, block, heap, first, calls>>
  <2>1. tail \in 1..Len(slots) /\ Slots(slots) /\ Len(slots) \in Nat BY <1>1, NextTail DEF Kept, Slots, Row
  <2>. DEFINE key == KeyOf(token)
  <2>2. slots' = WithKey(slots, tail, key, "HASH_COLON") /\ UNCHANGED <<tail, room, block, heap, first, calls>>
    BY <1>1 DEF WithKey
  <2>3. "HASH_COLON" \in Nexts /\ Key(key) BY KeyOfIs DEF Nexts, Kept
  <2>. HIDE DEF key
  <2>4. /\ Slots(slots') /\ Len(slots') = Len(slots) /\ slots'[tail].val = slots[tail].val
        /\ \A i \in 1..Len(slots) : i # tail => slots'[i] = slots[i]
    BY <2>1, <2>2, <2>3, KeyPut
  <2>. QED BY <2>1, <2>2, <2>4, TopKept DEF calls
<1>2. CASE /\ NamesClass
           /\ slots' = [Filled(slots, tail, Undef) EXCEPT ![tail].classname = token]
           /\ UNCHANGED <<tail, room, block, heap, first, calls>>
  <2>. DEFINE s == Filled(slots, tail, Undef)
              class == token
  <2>1. tail \in 1..Len(slots) /\ Slots(slots) /\ Len(slots) \in Nat
    <3>1. NextIs({"HASH_VALUE"}) BY <1>2 DEF NamesClass
    <3>. QED BY <3>1, NextTail DEF Kept, Slots, Row
  <2>2. tail \in 0..Len(slots) /\ tail > 0 BY <2>1
  <2>3. /\ Slots(s) /\ Len(s) = Len(slots) /\ s[tail].val = slots[tail].val
        /\ \A i \in 1..Len(slots) : i # tail => s[i] = slots[i]
    BY <2>1, <2>2, FilledIs
  <2>4. slots' = WithClass(s, tail, class) BY <1>2 DEF WithClass
  <2>. HIDE DEF s, class
  <2>5. /\ Slots(slots') /\ Len(slots') = Len(s) /\ slots'[tail].val = s[tail].val
        /\ \A i \in 1..Len(s) : i # tail => slots'[i] = s[i]
    BY <2>1, <2>3, <2>4, ClassPut
  <2>. QED BY <1>2, <2>1, <2>3, <2>5, TopKept DEF calls
<1>3. CASE Add(tail, Scalar(token)) /\ UNCHANGED collected BY <1>3, AddKept DEF Add
<1>4. CASE Fail BY <1>4, SameKept DEF Fail, Kept
<1>. QED BY <1>1, <1>2, <1>3, <1>4 DEF String

\* A number or a word keeps the shapes.
LEMMA ScalarKept ==
    ASSUME Kept, NEW v, (Add(tail, v) /\ UNCHANGED collected) \/ Fail
    PROVE  Kept' /\ (collected' = collected) /\ answer' \in {answer, "error"}
<1>1. CASE Add(tail, v) /\ UNCHANGED collected BY <1>1, AddKept DEF Add
<1>2. CASE Fail BY <1>2, SameKept DEF Fail, Kept
<1>. QED BY <1>1, <1>2

\* Closing an array keeps the shapes, and is when a value may be collected.
LEMMA ArrayEndKept ==
    ASSUME Kept, Freeable, Read1, ArrayEnd PROVE Kept' /\ Freeable' /\ answer' \in {answer, "error"}
<1>1. /\ token = "]" /\ text' = Append(text, token) /\ config' = config
  <2>1. Reads({"]"}) BY DEF ArrayEnd
  <2>2. {"]"} \subseteq Tokens BY TokenSets
  <2>3. token \in {"]"} /\ text' = Append(text, token) /\ config' = config BY ONLY Read1, <2>1, <2>2, ReadsIs
  <2>. QED BY <2>3
<1>2. Row(text) BY RowSeq DEF Read1
<1>3. Seen({"]"}, text') BY <1>1, <1>2, SeenMore
<1>4. CASE Fail
  <2>1. Kept' /\ collected' = collected BY <1>4, SameKept DEF Fail, Kept
  <2>. QED BY <1>1, <1>3, <1>4, <2>1 DEF Freeable, Callbacks, Fail
<1>5. CASE NextIs({"ARRAY_COMMA", "ARRAY_NEW"}) /\ Close(None) /\ Collect(tail - 1, Top.val, Callbacks)
  <2>1. tail # 0 BY <1>5, NextTail
  <2>2. Kept' BY <1>5, <2>1, CloseKept
  <2>3. Freeable' BY <1>1, <1>3, <1>5 DEF Collect, Freeable, Callbacks
  <2>. QED BY <1>5, <2>2, <2>3 DEF Close
<1>. QED BY <1>4, <1>5 DEF ArrayEnd

\* A hash is on the stack while end_hash runs.
LEMMA HashEndKept ==
    ASSUME Kept, Freeable, Read1, HashEnd PROVE Kept' /\ collected' = collected /\ answer' \in {answer, "error"}
<1>4. CASE Fail BY <1>4, SameKept DEF Fail, Kept
<1>5. CASE NextIs({"HASH_COMMA", "HASH_NEW"}) /\ Close(Top.classname)
           /\ Collect(HashOnStack, Top.val, Callbacks \/ Top.classname # None)
  <2>1. tail \in 1..Len(slots) BY <1>5, NextTail
  <2>2. tail # 0 /\ tail \in 1..tail BY <2>1 DEF Kept
  <2>3. Kept' BY <1>5, <2>2, CloseKept
  <2>4. Top.val \in {slots[i].val : i \in 1..HashOnStack} BY <2>2 DEF Top, HashOnStack
  <2>5. collected' = collected BY <1>5, <2>4 DEF Collect, Freeable
  <2>. QED BY <1>5, <2>3, <2>5 DEF Close
<1>. QED BY <1>4, <1>5 DEF HashEnd

\* The invariant of the shapes.
KInv == Kept /\ Read1 /\ Freeable /\ Answers

\* A value that could be collected still can be after another token.
LEMMA FreeableStays ==
    ASSUME Read1, Freeable, config' = config, NEW t, text' = Append(text, t), collected' = collected
    PROVE  Freeable'
<1>1. Row(text) BY RowSeq DEF Read1
<1>2. Seen({"]"}, text) => Seen({"]"}, text') BY <1>1, SeenMore
<1>. QED BY <1>2 DEF Freeable, Callbacks

\* Every step keeps the invariant of the shapes.
LEMMA KNext == ASSUME KInv, Next PROVE KInv'
<1>1. Kept /\ Read1 /\ Freeable /\ Answers BY DEF KInv
<1>2. ASSUME Kept', NEW tokens, tokens \subseteq Tokens, Reads(tokens), collected' = collected, answer' \in {answer, "error"}
      PROVE  KInv'
  <2>1. Read1' /\ config' = config /\ text' = Append(text, token) BY <1>1, <1>2, ReadsIs
  <2>2. Freeable' BY <1>1, <1>2, <2>1, FreeableStays
  <2>3. Answers' BY <1>1, <1>2 DEF Answers
  <2>. QED BY <1>2, <2>1, <2>2, <2>3 DEF KInv
<1>3. CASE Extra BY <1>1, <1>2, <1>3, SameKept DEF Extra, Fail, Kept
<1>4. CASE Start BY <1>1, <1>2, <1>4, StartKept, TokenSets DEF Start
<1>5. CASE ArrayEnd
  <2>1. Kept' /\ Freeable' /\ answer' \in {answer, "error"} BY <1>1, <1>5, ArrayEndKept
  <2>2. Read1' BY <1>1, <1>5, ReadsIs, TokenSets DEF ArrayEnd
  <2>. QED BY <1>1, <2>1, <2>2 DEF KInv, Answers
<1>6. CASE HashEnd BY <1>1, <1>2, <1>6, HashEndKept, TokenSets DEF HashEnd
<1>7. CASE Comma BY <1>1, <1>2, <1>7, CommaKept, TokenSets DEF Comma
<1>8. CASE Colon BY <1>1, <1>2, <1>8, ColonKept, TokenSets DEF Colon
<1>9. CASE String BY <1>1, <1>2, <1>9, StringKept, TokenSets DEF String
<1>10. CASE NumberOrWord
  <2>1. (Add(tail, Scalar(token)) /\ UNCHANGED collected) \/ Fail BY <1>10 DEF NumberOrWord
  <2>. QED BY <1>1, <1>2, <1>10, <2>1, ScalarKept, TokenSets DEF NumberOrWord
<1>11. CASE NotANumber
  <2>1. (Add(tail, Scalar(token)) /\ UNCHANGED collected) \/ Fail BY <1>11 DEF NotANumber
  <2>. QED BY <1>1, <1>2, <1>11, <2>1, ScalarKept, TokenSets DEF NotANumber
<1>12. CASE Comment
  <2>1. first' \in BOOLEAN BY <1>1, <1>12, TurnIs DEF Comment, Kept
  <2>2. Kept' BY <1>1, <1>12, <2>1, SameKept DEF Comment
  <2>. QED BY <1>2, <1>12, <2>2, TokenSets DEF Comment
<1>13. CASE NoToken BY <1>1, <1>2, <1>13, SameKept, TokenSets DEF NoToken, Fail, Kept
<1>14. CASE Nested \/ Raise
  <2>1. /\ UNCHANGED <<stackVars, config, text, heap, first, collected>> /\ answer' \in {"error", "raised"}
    BY <1>14 DEF Nested, Raise, Fail
  <2>2. Kept' BY <1>1, <2>1, SameKept DEF Kept
  <2>. QED BY <1>1, <2>1, <2>2 DEF KInv, Read1, Freeable, Callbacks, Answers
<1>15. CASE End
  <2>1. /\ UNCHANGED <<stackVars, config, heap, first, collected>> /\ answer' \in {"error", "ok"} /\ text' = Append(text, "end")
    BY <1>15 DEF End
  <2>2. Kept' BY <1>1, <2>1, SameKept DEF Kept
  <2>3. Freeable' BY <1>1, <2>1, FreeableStays
  <2>4. text \in Seq(Tokens \cup {"end"}) /\ "end" \in Tokens \cup {"end"} BY <1>1 DEF Read1
  <2>5. text' \in Seq(Tokens \cup {"end"}) BY <2>1, <2>4, AppendProperties
  <2>. QED BY <1>1, <2>1, <2>2, <2>3, <2>5 DEF KInv, Read1, Answers
<1>16. CASE Over
  <2>1. UNCHANGED vars BY <1>16 DEF Over
  <2>2. Kept' BY <1>1, <2>1, SameKept DEF Kept, vars
  <2>. QED BY <1>1, <2>1, <2>2 DEF KInv, Read1, Freeable, Callbacks, Answers, vars, calls
<1>. QED BY <1>3, <1>4, <1>5, <1>6, <1>7, <1>8, <1>9, <1>10, <1>11, <1>12, <1>13, <1>14, <1>15, <1>16 DEF Next

\* It holds before the first token.
LEMMA KInit == ASSUME Init PROVE KInv
<1>1. "NONE" \in Nexts BY DEF Nexts
<1>. DEFINE x == Val(Undef, "NONE")
<1>2. Slot(x) BY <1>1, NewSlot
<1>. HIDE DEF x
<1>3. Len(<<x>>) = 1 /\ <<x>>[1] = x /\ <<x>> = [i \in 1..1 |-> <<x>>[i]] OBVIOUS
<1>4. Slots(<<x>>) BY <1>2, <1>3 DEF Slots, Row
<1>5. Len(<<>>) = 0 /\ <<>> \in Seq({}) OBVIOUS
<1>6. Heap(<<>>)
  <2>1. Row(<<>>) BY <1>5, RowSeq
  <2>. QED BY <1>5, <2>1 DEF Heap
<1>7. slots = <<x>> /\ tail = 0 /\ room = StackInc /\ block = 0 BY DEF Init, StackInit, x
<1>8. Kept
  <2>1. 0 \in 0..1 /\ StackInc \in Nat /\ 0 <= StackInc BY ValStackAssumption DEF ValStackAssumption
  <2>2. Boxes(slots, 0, heap) BY DEF Boxes
  <2>. QED BY <1>3, <1>4, <1>6, <1>7, <2>1, <2>2 DEF Init, Kept
<1>9. config \in Configs /\ text = <<>> /\ collected = FALSE /\ answer = "reading" BY DEF Init
<1>10. text \in Seq(Tokens \cup {"end"}) BY <1>9
<1>11. Read1 /\ Freeable /\ Answers BY <1>9, <1>10 DEF Read1, Freeable, Answers
<1>. QED BY <1>8, <1>11 DEF KInv

\* The invariant of the stack and the heap.
THEOREM ClassicTyped == Spec => []KInv
<1>1. ASSUME KInv, UNCHANGED vars PROVE KInv'
  <2>1. Kept' BY <1>1, SameKept DEF KInv, Kept, vars
  <2>. QED BY <1>1, <2>1 DEF KInv, Read1, Freeable, Callbacks, Answers, vars, calls
<1>2. KInv /\ [Next]_vars => KInv' BY <1>1, KNext
<1>3. Init => KInv BY KInit
<1>. QED BY <1>2, <1>3, PTL DEF Spec

\* Nothing the parser still uses is collected, but the array whose end is announced.
THEOREM StackKeeps == Spec => []StackProtects
<1>1. ASSUME KInv PROVE StackProtects
  <2>1. Kept /\ Read1 /\ Freeable /\ Answers BY <1>1 DEF KInv
  <2>2. Row(text) BY <2>1, RowSeq DEF Read1
  <2>3. Has({"]"}) <=> Seen({"]"}, text) BY <2>2, HasIs
  <2>4. DOMAIN heap = 1..Len(heap) BY <2>1 DEF Kept, Heap, Row
  <2>5. TypeOK BY <2>1, <2>4 DEF TypeOK, Kept, Read1, Freeable, Answers, Boxes
  <2>. QED BY <2>1, <2>3, <2>5 DEF StackProtects, InRoom, Kept, Freeable
<1>2. KInv => StackProtects BY <1>1
<1>. QED BY <1>2, ClassicTyped, PTL

-----------------------------------------------------------------------------
(* The parser and a reader of JSON texts, side by side.                      *)

\* What a slot waits for, and where the reader stands, in a container of this kind.
Spot(next, kind, at) ==
    \/ kind = "array" /\ \/ next = "ARRAY_NEW"     /\ at = "element or ]"
                         \/ next = "ARRAY_ELEMENT" /\ at = "element"
                         \/ next = "ARRAY_COMMA"   /\ at = "comma"
    \/ kind = "object" /\ \/ next = "HASH_NEW"   /\ at = "name or }"
                          \/ next = "HASH_KEY"   /\ at = "name"
                          \/ next = "HASH_COLON" /\ at = "colon"
                          \/ next = "HASH_VALUE" /\ at = "member"
                          \/ next = "HASH_COMMA" /\ at = "comma"
\* A container that waits for a value.
Waits(next, kind) ==
    \/ kind = "array" /\ next \in {"ARRAY_NEW", "ARRAY_ELEMENT"}
    \/ kind = "object" /\ next = "HASH_VALUE"
\* The entries of the stack, one beside the other, await what the containers of the reader do.
WaitAll(s, n, kinds) == \A i \in 1..n : Waits(s[i].next, kinds[i])

\* The n containers on the stack s are those the reader d is inside of.
Stands(s, n, d) ==
    /\ d = [at |-> d.at, open |-> d.open] /\ Row(d.open) /\ Len(d.open) = n
    /\ n > 0 => WaitAll(s, n - 1, d.open) /\ Spot(s[n].next, d.open[n], d.at)
    /\ n = 0 => d.at = "start"

\* A key that is held as it was read.
Named(c, key, name) ==
    /\ key.at = "karray" => c.source = "sparse.c"
    /\ key.made = Unmade \/ c.hashKey
    /\ IF key.made = Unmade THEN SubSeq(key.text, 1, key.klen) = name ELSE key.made[1] = name

\* The containers on the stack are those with the numbers op.
Holds(s, n, h, op, kinds) ==
    /\ Row(op) /\ Len(op) = n
    /\ \A i \in 1..n : /\ op[i] \in 1..Len(h) /\ s[i].val = Container(op[i])
                       /\ kinds[i] = h[op[i]].kind /\ (kinds[i] = "array" => s[i].classname = None)
    /\ \A i, j \in 1..n : i # j => op[i] # op[j]
\* Two heaps of the same arrays and hashes.
Alike(h, g) == Heap(h) /\ Heap(g) /\ Len(g) = Len(h) /\ \A m \in 1..Len(h) : g[m].kind = h[m].kind
\* With the same values in them, but for the class of those that are open.
Same(c, s, n, h, op, names, g) ==
    /\ \A m \in 1..Len(h) : g[m].in = h[m].in
    /\ \A m \in 1..Len(h) : g[m].class = h[m].class \/ \E i \in 1..n : m = op[i]
    /\ \A i \in 1..n : g[op[i]].class = s[i].classname
    /\ \A i \in 1..n : s[i].next \in {"HASH_COLON", "HASH_VALUE"} => Named(c, s[i].key, names[i])

\* Every key is where it was, and none is long.
Exact == ~LongKeys /\ ~KeysMoved

\* The documents that are complete: f, n, val and tx stand for first, tail, the first Val and text.
Rows(c) == c.proc \/ c.mode = "callbacks"
\* A text with a comment in it, as the stream parser reads it.
Commented(c, tx) == c.source = "sparse.c" /\ Seen({"comment"}, tx)
\* The value a parse without a block is left with, the documents read, and whether one is due.
Documents(c, f, n, val, docs, tx) ==
    /\ Row(docs) /\ \A i \in 1..Len(docs) : docs[i] # Undef
    /\ Rows(c) => f
    /\ ~Rows(c) /\ f => docs = <<>>
    /\ ~Rows(c) /\ ~f => n = 0 /\ (Len(docs) = 1 \/ (docs = <<>> /\ Commented(c, tx)))
    /\ c.mode # "callbacks" /\ n = 0 => val = IF docs = <<>> THEN Undef ELSE Last(docs)
\* Those the block was given.
Yields(c, ys, docs, tx) == c.proc /\ c.mode # "callbacks" /\ ~Commented(c, tx) => ys = docs

\* How deep the text has been nested.
Depth(c, n, deep) ==
    /\ deep \in Nat /\ n <= deep
    /\ c.maxDepth > 0 => deep <= c.maxDepth \/ (deep = c.maxDepth + 1 /\ n = deep)

\* The parser and the reader agree: the same containers open, filled alike, and the same documents.
Agrees(r) ==
    /\ Stands(slots, tail, r.d)
    /\ Row(r.names) /\ Len(r.names) = tail
    /\ Holds(slots, tail, heap, r.open, r.d.open) /\ Alike(heap, r.heap)
    /\ Exact => Same(config, slots, tail, heap, r.open, r.names, r.heap)
    /\ Documents(config, first, tail, slots[1].val, r.docs, text) /\ Depth(config, tail, r.deep)

\* A container was opened where there was no place for it; it cannot be closed.
Stuck == \E i \in 1..tail - 1 : slots[i].next \notin ExpectsValue

\* The fields of the reader.
Shape(r) == r = [d |-> r.d, heap |-> r.heap, open |-> r.open, names |-> r.names, docs |-> r.docs, deep |-> r.deep]
\* The invariant: as long as the parser reads, it and the reader agree, or it can only fail.
Agreement ==
    /\ Shape(meant) /\ Row(meant.docs)
    /\ answer = "reading" =>
          /\ (Stuck /\ meant.d = Bad) \/ Agrees(meant)
          /\ Yields(config, yielded, meant.docs, text)
          /\ config.mode = "strict" => ~Has({"nan"})

-----------------------------------------------------------------------------
(* What the reader makes of a token.                                         *)

\* The reader, field by field.
Rd(d, h, o, m, k, p) == [d |-> d, heap |-> h, open |-> o, names |-> m, docs |-> k, deep |-> p]

\* One field of the reader replaced.
LEMMA RdPut ==
    ASSUME NEW d, NEW h, NEW o, NEW m, NEW k, NEW p, NEW x
    PROVE  LET r == Rd(d, h, o, m, k, p)
           IN  /\ [r EXCEPT !.d = x] = Rd(x, h, o, m, k, p)
               /\ [r EXCEPT !.heap = x] = Rd(d, x, o, m, k, p)
               /\ [r EXCEPT !.open = x] = Rd(d, h, x, m, k, p)
               /\ [r EXCEPT !.names = x] = Rd(d, h, o, x, k, p)
               /\ [r EXCEPT !.docs = x] = Rd(d, h, o, m, x, p)
               /\ [r EXCEPT !.deep = x] = Rd(d, h, o, m, k, x)
               /\ r.d = d /\ r.heap = h /\ r.open = o /\ r.names = m /\ r.docs = k /\ r.deep = p
               /\ Shape(r)
BY DEF Rd, Shape

\* The reader takes a value: a document, or into the container that is open.
LEMMA PlaceIs ==
    ASSUME NEW d, NEW h, NEW o, NEW m, NEW k, NEW p, NEW v
    PROVE  Place(Rd(d, h, o, m, k, p), v) =
             IF o = <<>> THEN Rd(d, h, o, m, Append(k, v), p)
             ELSE Rd(d, Into(h, Container(Last(o)), Last(m), v), o, m, k, p)
<1>. DEFINE r == Rd(d, h, o, m, k, p)
            g == Into(h, Container(Last(o)), Last(m), v)
            l == Append(k, v)
<1>1. r.docs = k /\ r.heap = h /\ r.open = o /\ r.names = m BY RdPut
<1>2. [r EXCEPT !.docs = l] = Rd(d, h, o, m, l, p) /\ [r EXCEPT !.heap = g] = Rd(d, g, o, m, k, p)
  <2>. HIDE DEF l, g
  <2>. QED BY RdPut
<1>3. Place(r, v) = IF o = <<>> THEN [r EXCEPT !.docs = l] ELSE [r EXCEPT !.heap = g] BY <1>1 DEF Place
<1>. QED BY <1>2, <1>3

\* Several fields of the reader replaced.
WithFour(r, x, y, z, w) == [r EXCEPT !.heap = x, !.open = y, !.names = z, !.deep = w]
WithTwo(r, y, z) == [r EXCEPT !.open = y, !.names = z]

\* The reader with several fields replaced, field by field.
LEMMA RdPuts ==
    ASSUME NEW d, NEW h, NEW o, NEW m, NEW k, NEW p, NEW x, NEW y, NEW z, NEW w
    PROVE  LET r == Rd(d, h, o, m, k, p)
           IN  WithFour(r, x, y, z, w) = Rd(d, x, y, z, k, w) /\ WithTwo(r, y, z) = Rd(d, h, y, z, k, p)
<1>. DEFINE r == Rd(d, h, o, m, k, p)
            r1 == [r EXCEPT !.heap = x]
            r2 == [r1 EXCEPT !.open = y]
            r3 == [r2 EXCEPT !.names = z]
            r4 == [r3 EXCEPT !.deep = w]
            q1 == [r EXCEPT !.open = y]
            q2 == [q1 EXCEPT !.names = z]
<1>1. r1 = Rd(d, x, o, m, k, p) /\ q1 = Rd(d, h, y, m, k, p) BY RdPut
<1>. HIDE DEF r1, q1
<1>2. r2 = Rd(d, x, y, m, k, p) /\ q2 = Rd(d, h, y, z, k, p) BY <1>1, RdPut
<1>. HIDE DEF r2, q2
<1>3. r3 = Rd(d, x, y, z, k, p) BY <1>2, RdPut
<1>. HIDE DEF r3
<1>4. r4 = Rd(d, x, y, z, k, w) BY <1>3, RdPut
<1>. HIDE DEF r4
<1>5. r4 = [[[[r EXCEPT !.heap = x] EXCEPT !.open = y] EXCEPT !.names = z] EXCEPT !.deep = w]
  BY DEF r1, r2, r3, r4
<1>6. q2 = [[r EXCEPT !.open = y] EXCEPT !.names = z] BY DEF q1, q2
<1>. HIDE DEF r
<1>7. WithFour(r, x, y, z, w) = r4 BY <1>5 DEF WithFour
<1>8. WithTwo(r, y, z) = q2 BY <1>6 DEF WithTwo
<1>. QED BY <1>2, <1>4, <1>7, <1>8 DEF r

\* The reader opens a container.
LEMMA OpenedIs ==
    ASSUME NEW d, NEW h, NEW o, NEW m, NEW k, NEW p, NEW kind
    PROVE  Opened(Rd(d, h, o, m, k, p), kind) =
             Rd(d, Append(h, New(kind)), Append(o, Len(h) + 1), Append(m, <<>>), k, IF Len(o) < p THEN p ELSE Len(o) + 1)
<1>. DEFINE r == Rd(d, h, o, m, k, p)
            x == Append(h, New(kind))
            y == Append(o, Len(h) + 1)
            z == Append(m, <<>>)
            w == IF Len(o) < p THEN p ELSE Len(o) + 1
<1>1. r.heap = h /\ r.open = o /\ r.names = m /\ r.deep = p BY RdPut
<1>. HIDE DEF r
<1>2. Opened(r, kind) = WithFour(r, x, y, z, w) BY <1>1 DEF Opened, WithFour
<1>. HIDE DEF x, y, z, w
<1>3. WithFour(r, x, y, z, w) = Rd(d, x, y, z, k, w) BY RdPuts DEF r
<1>. QED BY <1>2, <1>3 DEF r, x, y, z, w

\* The reader closes a container, which becomes a value.
LEMMA ClosedIs ==
    ASSUME NEW d, NEW h, NEW o, NEW m, NEW k, NEW p
    PROVE  Closed(Rd(d, h, o, m, k, p)) = Place(Rd(d, h, Front(o), Front(m), k, p), Container(Last(o)))
<1>. DEFINE r == Rd(d, h, o, m, k, p)
            y == Front(o)
            z == Front(m)
<1>2. r.open = o /\ r.names = m BY RdPut
<1>1. [r EXCEPT !.open = Front(@), !.names = Front(@)] = Rd(d, h, Front(o), Front(m), k, p)
  <2>. HIDE DEF r
  <2>1. [r EXCEPT !.open = Front(@), !.names = Front(@)] = WithTwo(r, y, z) BY <1>2 DEF WithTwo
  <2>. HIDE DEF y, z
  <2>2. WithTwo(r, y, z) = Rd(d, h, y, z, k, p) BY RdPuts DEF r
  <2>. QED BY <2>1, <2>2 DEF y, z
<1>. QED BY <1>1, <1>2 DEF Closed

\* The reader takes a token: its cases.
LEMMA ToldBy ==
    ASSUME NEW r, NEW t
    PROVE  LET e == Read(r.d, Worth(t))
               s == [r EXCEPT !.d = e]
           IN  Told(r, t) =
                 IF t = "comment" \/ r.d = Bad THEN r
                 ELSE IF t = "end" THEN [r EXCEPT !.d = IF r.d = Fresh THEN r.d ELSE Bad]
                 ELSE IF e = Bad THEN s
                 ELSE IF t = "{" THEN Opened(s, "object")
                 ELSE IF t = "[" THEN Opened(s, "array")
                 ELSE IF t \in {"}", "]"} THEN Closed(s)
                 ELSE IF t \in {",", ":"} THEN s
                 ELSE IF t \in Strings /\ e.at = "colon" THEN [s EXCEPT !.names = Append(Front(@), TextOf[t])]
                 ELSE IF t \in Strings /\ config.create /\ r.d.at = "member" /\ Last(r.names) = CreateId THEN
                         [s EXCEPT !.heap[Last(r.open)].class = t]
                 ELSE Place(s, Scalar(t))
BY Zenon DEF Told

\* What the reader makes of t, case by case.
ToldAs(d, h, o, m, k, p, t) ==
    LET r == Rd(d, h, o, m, k, p)
        e == Read(d, Worth(t))
        s == Rd(e, h, o, m, k, p)
        odd == t = "comment" \/ d = Bad
        refused == ~odd /\ t # "end" /\ e = Bad
        taken == ~odd /\ t # "end" /\ e # Bad
        names == t \in Strings /\ config.create /\ d.at = "member" /\ Last(m) = CreateId
    IN  /\ odd => Told(r, t) = r
        /\ ~odd /\ t = "end" => Told(r, t) = Rd(IF d = Fresh THEN d ELSE Bad, h, o, m, k, p)
        /\ refused => Told(r, t) = Rd(Bad, h, o, m, k, p)
        /\ taken /\ t = "{" => Told(r, t) = Opened(s, "object")
        /\ taken /\ t = "[" => Told(r, t) = Opened(s, "array")
        /\ taken /\ t \in {"}", "]"} => Told(r, t) = Closed(s)
        /\ taken /\ t \in {",", ":"} => Told(r, t) = s
        /\ taken /\ t \in Strings /\ e.at = "colon" => Told(r, t) = Rd(e, h, o, Append(Front(m), TextOf[t]), k, p)
        /\ taken /\ t \in Strings /\ e.at # "colon" /\ names =>
              Told(r, t) = Rd(e, [h EXCEPT ![Last(o)].class = t], o, m, k, p)
        /\ taken /\ ((t \in Strings /\ e.at # "colon") \/ t \in {"scalar", "nan", "bad"}) /\ ~names =>
              Told(r, t) = Place(s, Scalar(t))

\* The reader takes a token: its cases, field by field.
LEMMA ToldIs ==
    ASSUME NEW d, NEW h, NEW o, NEW m, NEW k, NEW p, NEW t, t \in Tokens \cup {"end"}
    PROVE  ToldAs(d, h, o, m, k, p, t)
<1>. DEFINE r == Rd(d, h, o, m, k, p)
            e == Read(d, Worth(t))
            s == Rd(e, h, o, m, k, p)
            dead == Rd(IF d = Fresh THEN d ELSE Bad, h, o, m, k, p)
            named == Rd(e, h, o, Append(Front(m), TextOf[t]), k, p)
            classed == Rd(e, [h EXCEPT ![Last(o)].class = t], o, m, k, p)
            gone == [r EXCEPT !.d = IF r.d = Fresh THEN r.d ELSE Bad]
            there == [s EXCEPT !.names = Append(Front(@), TextOf[t])]
            given == [s EXCEPT !.heap[Last(r.open)].class = t]
<1>1. t \in Strings => t \notin Marks BY TokenSets
<1>2. r.d = d /\ r.names = m /\ r.open = o BY RdPut
<1>3. [r EXCEPT !.d = e] = s BY RdPut
<1>4. gone = dead BY <1>2 DEF Rd
<1>5. there = named BY DEF Rd
<1>6. given = classed BY <1>2 DEF Rd
<1>7. LET f == Read(r.d, Worth(t))
          q == [r EXCEPT !.d = f]
      IN  Told(r, t) =
        IF t = "comment" \/ r.d = Bad THEN r
        ELSE IF t = "end" THEN gone
        ELSE IF f = Bad THEN q
        ELSE IF t = "{" THEN Opened(q, "object")
        ELSE IF t = "[" THEN Opened(q, "array")
        ELSE IF t \in {"}", "]"} THEN Closed(q)
        ELSE IF t \in {",", ":"} THEN q
        ELSE IF t \in Strings /\ f.at = "colon" THEN [q EXCEPT !.names = Append(Front(@), TextOf[t])]
        ELSE IF t \in Strings /\ config.create /\ r.d.at = "member" /\ Last(r.names) = CreateId THEN
                [q EXCEPT !.heap[Last(r.open)].class = t]
        ELSE Place(q, Scalar(t))
  <2>. HIDE DEF r
  <2>. QED BY ToldBy
<1>17. Told(r, t) =
        IF t = "comment" \/ d = Bad THEN r
        ELSE IF t = "end" THEN gone
        ELSE IF e = Bad THEN s
        ELSE IF t = "{" THEN Opened(s, "object")
        ELSE IF t = "[" THEN Opened(s, "array")
        ELSE IF t \in {"}", "]"} THEN Closed(s)
        ELSE IF t \in {",", ":"} THEN s
        ELSE IF t \in Strings /\ e.at = "colon" THEN there
        ELSE IF t \in Strings /\ config.create /\ d.at = "member" /\ Last(m) = CreateId THEN given
        ELSE Place(s, Scalar(t))
  <2>1. r.d = d /\ Read(r.d, Worth(t)) = e /\ [r EXCEPT !.d = Read(r.d, Worth(t))] = s BY <1>2, <1>3, RdPut
  <2>2. there = [s EXCEPT !.names = Append(Front(@), TextOf[t])] /\ given = [s EXCEPT !.heap[Last(r.open)].class = t] OBVIOUS
  <2>. HIDE DEF r, e, s, gone, there, given
  <2>. QED BY ONLY <1>2, <1>7, <2>1, <2>2
<1>8. e = Bad => s = Rd(Bad, h, o, m, k, p) OBVIOUS
<1>. HIDE DEF r, e, s, dead, named, classed, gone, there, given
<1>9. \A x \in {"{", "[", "}", "]", ",", ":", "comment", "end", "scalar", "nan", "bad"} : x \in Marks BY DEF Marks
<1>. QED BY <1>1, <1>4, <1>5, <1>6, <1>17, <1>8, <1>9 DEF r, e, s, dead, named, classed, ToldAs

-----------------------------------------------------------------------------
(* What the grammar makes of a token, where the two stand.                   *)

\* What each token is worth to the grammar.
LEMMA WorthIs ==
    ASSUME NEW t
    PROVE  /\ t \in Strings => Worth(t) = "string"
           /\ t \in {"scalar", "nan"} => Worth(t) = "value"
           /\ t \in {"{", "[", "}", "]", ",", ":", "bad"} => Worth(t) = t
<1>1. t \in Strings => t \notin Marks BY TokenSets
<1>2. t \in {"scalar", "nan", "{", "[", "}", "]", ",", ":", "bad"} => t \in Marks BY DEF Marks
<1>. QED BY <1>1, <1>2 DEF Worth

\* In which state the innermost container is, if there is one.
NextOf(s, n) == IF n = 0 THEN "NONE" ELSE s[n].next

\* The reader takes what the innermost container waits for.
LEMMA SpotIs ==
    ASSUME NEW s, NEW n \in Nat, NEW d, Stands(s, n, d)
    PROVE  LET next == NextOf(s, n)
               value == n = 0 \/ next \in ExpectsValue
           IN  /\ d # Bad
               /\ TakesValue(d) <=> value
               /\ TakesName(d) <=> next \in ExpectsKey
               /\ d.at = "colon" <=> next = "HASH_COLON"
               /\ d.at = "member" <=> next = "HASH_VALUE"
               /\ d.at = "comma" <=> next \in {"ARRAY_COMMA", "HASH_COMMA"}
               /\ (Inside(d, "object") /\ d.at \in {"comma", "name or }"}) <=> next \in {"HASH_COMMA", "HASH_NEW"}
               /\ (Inside(d, "array") /\ d.at \in {"comma", "element or ]"}) <=> next \in {"ARRAY_COMMA", "ARRAY_NEW"}
               /\ Inside(d, "object") /\ d.at = "comma" <=> next = "HASH_COMMA"
               /\ n > 0 => /\ d.open[n] \in {"array", "object"} /\ Inside(d, d.open[n])
                           /\ (d.open[n] = "object" /\ value => next = "HASH_VALUE")
                           /\ WaitAll(s, n - 1, d.open) /\ (value => WaitAll(s, n, d.open))
               /\ n = 0 => d = Fresh /\ d.open = <<>> /\ WaitAll(s, n, d.open)
<1>. DEFINE next == NextOf(s, n)
<1>1. /\ d = [at |-> d.at, open |-> d.open] /\ Row(d.open) /\ Len(d.open) = n
      /\ n > 0 => WaitAll(s, n - 1, d.open) /\ Spot(s[n].next, d.open[n], d.at)
      /\ n = 0 => d.at = "start"
  BY DEF Stands
<1>2. CASE n = 0
  <2>1. next = "NONE" /\ d.at = "start" BY <1>1, <1>2 DEF NextOf
  <2>2. d.open = <<>> BY <1>1, <1>2, RowEmpty
  <2>3. d = Fresh /\ ~Inside(d, "object") /\ ~Inside(d, "array") BY <1>1, <2>1, <2>2 DEF Fresh, Inside
  <2>4. d # Bad BY <2>1 DEF Bad
  <2>5. WaitAll(s, n, d.open) BY <1>2 DEF WaitAll
  <2>. HIDE DEF next
  <2>. QED BY <1>2, <2>1, <2>2, <2>3, <2>4, <2>5 DEF next, TakesValue, TakesName, ExpectsKey
<1>3. CASE n > 0
  <2>1. next = s[n].next BY <1>3 DEF NextOf
  <2>. DEFINE kind == d.open[n]
              at == d.at
  <2>2. Spot(next, kind, at) BY <1>1, <1>3, <2>1
  <2>3. d.open # <<>> /\ Last(d.open) = kind BY <1>1, <1>3, RowEmpty DEF Last
  <2>4. \A k : Inside(d, k) <=> kind = k BY <2>3 DEF Inside
  <2>. HIDE DEF next, kind, at
  <2>5. /\ kind \in {"array", "object"}
        /\ at \in {"start", "element", "element or ]", "member"} <=> next \in ExpectsValue
        /\ at \in {"name", "name or }"} <=> next \in ExpectsKey
        /\ at = "colon" <=> next = "HASH_COLON"
        /\ at = "member" <=> next = "HASH_VALUE"
        /\ at = "comma" <=> next \in {"ARRAY_COMMA", "HASH_COMMA"}
        /\ (kind = "object" /\ at \in {"comma", "name or }"}) <=> next \in {"HASH_COMMA", "HASH_NEW"}
        /\ (kind = "array" /\ at \in {"comma", "element or ]"}) <=> next \in {"ARRAY_COMMA", "ARRAY_NEW"}
        /\ kind = "object" /\ at = "comma" <=> next = "HASH_COMMA"
        /\ (kind = "object" /\ next \in ExpectsValue => next = "HASH_VALUE")
        /\ at # "bad"
        /\ (next \in ExpectsValue => Waits(next, kind))
    BY ONLY <2>2 DEF Spot, ExpectsValue, ExpectsKey, Waits
  <2>6. TakesValue(d) <=> next \in ExpectsValue BY <2>5 DEF TakesValue, at
  <2>7. TakesName(d) <=> next \in ExpectsKey BY <2>5 DEF TakesName, at
  <2>8. d # Bad
    <3>1. Bad.at = "bad" BY DEF Bad
    <3>2. d.at # "bad" BY <2>5 DEF at
    <3>. QED BY <3>1, <3>2
  <2>9. next \in ExpectsValue => WaitAll(s, n, d.open)
    <3>1. \A i \in 1..n : i \in 1..n - 1 \/ i = n BY <1>3
    <3>. QED BY <1>1, <1>3, <2>1, <2>5, <3>1 DEF WaitAll, kind
  <2>10. Inside(d, "object") <=> kind = "object" BY <2>4
  <2>11. Inside(d, "array") <=> kind = "array" BY <2>4
  <2>12. Inside(d, kind) /\ WaitAll(s, n - 1, d.open) BY <1>1, <1>3, <2>4
  <2>13. at = d.at /\ kind = d.open[n] /\ next = NextOf(s, n) BY DEF at, kind, next
  <2>14. /\ TakesValue(d) <=> next \in ExpectsValue
         /\ TakesName(d) <=> next \in ExpectsKey
         /\ d.at = "colon" <=> next = "HASH_COLON"
         /\ d.at = "member" <=> next = "HASH_VALUE"
         /\ d.at = "comma" <=> next \in {"ARRAY_COMMA", "HASH_COMMA"}
    BY ONLY <2>5, <2>6, <2>7, <2>13
  <2>15. /\ (Inside(d, "object") /\ d.at \in {"comma", "name or }"}) <=> next \in {"HASH_COMMA", "HASH_NEW"}
         /\ (Inside(d, "array") /\ d.at \in {"comma", "element or ]"}) <=> next \in {"ARRAY_COMMA", "ARRAY_NEW"}
         /\ Inside(d, "object") /\ d.at = "comma" <=> next = "HASH_COMMA"
    BY ONLY <2>5, <2>10, <2>11, <2>13
  <2>16. d.open[n] \in {"array", "object"} /\ (d.open[n] = "object" /\ next \in ExpectsValue => next = "HASH_VALUE")
    BY ONLY <2>5, <2>13
  <2>17. Inside(d, d.open[n]) /\ WaitAll(s, n - 1, d.open) BY ONLY <2>12, <2>13
  <2>18. ~(n = 0) BY <1>3
  <2>. QED BY ONLY <2>8, <2>9, <2>13, <2>14, <2>15, <2>16, <2>17, <2>18
<1>4. n = 0 \/ n > 0 OBVIOUS
<1>. QED BY ONLY <1>2, <1>3, <1>4, Zenon

\* Where they stand alike, the grammar takes a token exactly when the top of the stack awaits it.
LEMMA ReadIs ==
    ASSUME NEW s, NEW n \in Nat, NEW d, Stands(s, n, d)
    PROVE  LET next == NextOf(s, n)
               value == n = 0 \/ next \in ExpectsValue
           IN  /\ Read(d, "value") = IF value THEN Past(d.open) ELSE Bad
               /\ Read(d, "string") = IF value THEN Past(d.open)
                                      ELSE IF next \in ExpectsKey THEN [at |-> "colon", open |-> d.open] ELSE Bad
               /\ Read(d, "{") = IF value THEN [at |-> "name or }", open |-> Append(d.open, "object")] ELSE Bad
               /\ Read(d, "[") = IF value THEN [at |-> "element or ]", open |-> Append(d.open, "array")] ELSE Bad
               /\ Read(d, ",") = IF next \in {"ARRAY_COMMA", "HASH_COMMA"}
                                 THEN [at |-> IF next = "HASH_COMMA" THEN "name" ELSE "element", open |-> d.open] ELSE Bad
               /\ Read(d, ":") = IF next = "HASH_COLON" THEN [at |-> "member", open |-> d.open] ELSE Bad
               /\ Read(d, "}") = IF next \in {"HASH_COMMA", "HASH_NEW"} THEN Past(Front(d.open)) ELSE Bad
               /\ Read(d, "]") = IF next \in {"ARRAY_COMMA", "ARRAY_NEW"} THEN Past(Front(d.open)) ELSE Bad
               /\ Read(d, "bad") = Bad
<1>. DEFINE next == NextOf(s, n)
            value == n = 0 \/ next \in ExpectsValue
<1>1. d = [at |-> d.at, open |-> d.open] BY DEF Stands
<1>2. \A x : [d EXCEPT !.at = x] = [at |-> x, open |-> d.open] BY <1>1
<1>3. /\ TakesValue(d) <=> value
      /\ TakesName(d) <=> next \in ExpectsKey
      /\ d.at = "colon" <=> next = "HASH_COLON"
      /\ d.at = "comma" <=> next \in {"ARRAY_COMMA", "HASH_COMMA"}
      /\ (Inside(d, "object") /\ d.at \in {"comma", "name or }"}) <=> next \in {"HASH_COMMA", "HASH_NEW"}
      /\ (Inside(d, "array") /\ d.at \in {"comma", "element or ]"}) <=> next \in {"ARRAY_COMMA", "ARRAY_NEW"}
      /\ Inside(d, "object") /\ d.at = "comma" <=> next = "HASH_COMMA"
  BY SpotIs
<1>4. value => next \notin ExpectsKey BY DEF NextOf, ExpectsValue, ExpectsKey
<1>. HIDE DEF next, value
<1>5. Read(d, "value") = IF value THEN Past(d.open) ELSE Bad BY ONLY <1>3 DEF Read
<1>6. Read(d, "string") = IF value THEN Past(d.open)
                          ELSE IF next \in ExpectsKey THEN [at |-> "colon", open |-> d.open] ELSE Bad
  BY ONLY <1>2, <1>3, <1>4 DEF Read
<1>7. /\ Read(d, "{") = IF value THEN [at |-> "name or }", open |-> Append(d.open, "object")] ELSE Bad
      /\ Read(d, "[") = IF value THEN [at |-> "element or ]", open |-> Append(d.open, "array")] ELSE Bad
  BY ONLY <1>3 DEF Read
<1>8. Read(d, ",") = IF next \in {"ARRAY_COMMA", "HASH_COMMA"}
                     THEN [at |-> IF next = "HASH_COMMA" THEN "name" ELSE "element", open |-> d.open] ELSE Bad
  <2>1. Read(d, ",") = IF d.at = "comma" THEN [d EXCEPT !.at = IF Inside(d, "object") THEN "name" ELSE "element"] ELSE Bad
    BY DEF Read
  <2>. QED BY ONLY <1>2, <1>3, <2>1
<1>9. Read(d, ":") = IF next = "HASH_COLON" THEN [at |-> "member", open |-> d.open] ELSE Bad
  BY ONLY <1>2, <1>3 DEF Read
<1>10. /\ Read(d, "}") = IF next \in {"HASH_COMMA", "HASH_NEW"} THEN Past(Front(d.open)) ELSE Bad
       /\ Read(d, "]") = IF next \in {"ARRAY_COMMA", "ARRAY_NEW"} THEN Past(Front(d.open)) ELSE Bad
       /\ Read(d, "bad") = Bad
  BY ONLY <1>3 DEF Read
<1>. QED BY <1>5, <1>6, <1>7, <1>8, <1>9, <1>10 DEF next, value

\* A place in the text, not after it has gone wrong.
LEMMA PastIs == ASSUME NEW open PROVE Past(open) # Bad /\ Past(open).at # "colon" /\ Past(open).open = open
BY DEF Past, Bad

-----------------------------------------------------------------------------
(* What a handler and the reader do to their containers.                     *)

\* The innermost of n containers takes a value.
LEMMA FilledStands ==
    ASSUME NEW s, Slots(s), NEW n \in 0..Len(s), NEW kinds, Row(kinds), Len(kinds) = n, WaitAll(s, n, kinds), NEW v
    PROVE  Stands(Filled(s, n, v), n, Past(kinds))
<1>. DEFINE t == Filled(s, n, v)
            d == Past(kinds)
<1>1. /\ \A i \in 1..Len(s) : i # n /\ n > 0 => t[i] = s[i]
      /\ n > 0 => t[n].next = IF s[n].next = "HASH_VALUE" THEN "HASH_COMMA" ELSE "ARRAY_COMMA"
  BY FilledIs
<1>2. n \in Nat /\ Len(s) \in Nat /\ n <= Len(s) BY DEF Slots, Row
<1>3. d = [at |-> d.at, open |-> d.open] /\ d.open = kinds /\ d.at = IF kinds = <<>> THEN "start" ELSE "comma" BY DEF Past
<1>. HIDE DEF t, d
<1>4. kinds = <<>> <=> n = 0 BY <1>2, RowEmpty
<1>5. n > 0 => WaitAll(t, n - 1, kinds)
  <2>1. ASSUME n > 0, NEW i \in 1..n - 1 PROVE i \in 1..n /\ t[i] = s[i] BY <1>1, <1>2, <2>1
  <2>. QED BY <2>1 DEF WaitAll
<1>6. n > 0 => Spot(t[n].next, kinds[n], "comma")
  <2>1. n > 0 => Waits(s[n].next, kinds[n]) BY <1>2 DEF WaitAll
  <2>. QED BY <1>1, <2>1 DEF Waits, Spot
<1>. QED BY <1>3, <1>4, <1>5, <1>6 DEF Stands, t, d

\* What changes in a slot that takes a value does not matter.
LEMMA FilledHolds ==
    ASSUME NEW s, Slots(s), NEW n \in 0..Len(s), NEW kinds, NEW op, NEW h, Holds(s, n, h, op, kinds), NEW v,
           NEW f, Len(f) = Len(h), \A i \in 1..Len(h) : f[i].kind = h[i].kind
    PROVE  Holds(Filled(s, n, v), n, f, op, kinds)
<1>. DEFINE t == Filled(s, n, v)
<1>1. /\ \A i \in 1..Len(s) : i # n /\ n > 0 => t[i] = s[i]
      /\ n > 0 => t[n].val = s[n].val /\ t[n].classname = s[n].classname
  BY FilledIs
<1>2. n \in Nat /\ Len(s) \in Nat /\ n <= Len(s) BY DEF Slots, Row
<1>. HIDE DEF t
<1>3. \A i \in 1..n : i \in 1..Len(s) /\ n > 0 BY <1>2
<1>4. ASSUME NEW i \in 1..n PROVE t[i].val = s[i].val /\ t[i].classname = s[i].classname BY <1>1, <1>3
<1>5. /\ Row(op) /\ Len(op) = n
      /\ \A i \in 1..n : /\ op[i] \in 1..Len(h) /\ s[i].val = Container(op[i])
                         /\ kinds[i] = h[op[i]].kind /\ (kinds[i] = "array" => s[i].classname = None)
      /\ \A i, j \in 1..n : i # j => op[i] # op[j]
  BY DEF Holds
<1>. QED BY <1>4, <1>5 DEF Holds, t

\* A heap one container of which is changed, of the same kind as it was.
LEMMA ButIs ==
    ASSUME NEW h, NEW f, NEW m, ButFor(h, f, m), f[m].kind = h[m].kind
    PROVE  Len(f) = Len(h) /\ Heap(f) /\ \A i \in 1..Len(h) : f[i].kind = h[i].kind
<1>1. Heap(f) /\ Len(f) = Len(h) /\ \A i \in 1..Len(h) : i # m => f[i] = h[i] BY DEF ButFor
<1>2. ASSUME NEW i \in 1..Len(h) PROVE f[i].kind = h[i].kind
  <2>1. CASE i = m BY <2>1
  <2>2. CASE i # m BY <1>1, <2>2
  <2>. QED BY <2>1, <2>2
<1>. QED BY <1>1, <1>2

\* The same value goes into the same container of both heaps.
LEMMA PutAgrees ==
    ASSUME NEW s, Slots(s), NEW n \in 1..Len(s), NEW kinds, Row(kinds), Len(kinds) = n, WaitAll(s, n, kinds), NEW v,
           NEW op, NEW h, NEW g, NEW m, Row(m), Len(m) = n, Holds(s, n, h, op, kinds), Alike(h, g), NEW key, NEW c,
           NEW f, f = Into(h, s[n].val, key, v), NEW e, e = Into(g, Container(Last(op)), Last(m), v)
    PROVE  /\ Holds(Filled(s, n, v), n, f, op, kinds) /\ Alike(f, e)
           /\ Same(c, s, n, h, op, m, g) /\ (s[n].next = "HASH_VALUE" => key = m[n]) =>
                Same(c, Filled(s, n, v), n, f, op, m, e)
<1>. DEFINE t == Filled(s, n, v)
            x == op[n]
<1>1. n \in 0..Len(s) /\ n \in 1..n /\ n > 0 BY DEF Slots, Row
<1>2. /\ Row(op) /\ Len(op) = n
      /\ \A i \in 1..n : /\ op[i] \in 1..Len(h) /\ s[i].val = Container(op[i])
                         /\ kinds[i] = h[op[i]].kind /\ (kinds[i] = "array" => s[i].classname = None)
      /\ \A i, j \in 1..n : i # j => op[i] # op[j]
  BY DEF Holds
<1>3. Heap(h) /\ Heap(g) /\ Len(g) = Len(h) /\ \A i \in 1..Len(h) : g[i].kind = h[i].kind BY DEF Alike
<1>4. x \in 1..Len(h) /\ s[n].val = Container(x) /\ kinds[n] = h[x].kind BY <1>1, <1>2
<1>5. Last(op) = x /\ Last(m) = m[n] BY <1>2 DEF Last
<1>. HIDE DEF x
<1>6. /\ ButFor(h, f, x) /\ f[x].kind = h[x].kind /\ f[x].class = h[x].class /\ f[x].in = Taken(h[x], key, v)
  BY <1>3, <1>4, IntoIs
<1>7. /\ ButFor(g, e, x) /\ e[x].kind = g[x].kind /\ e[x].class = g[x].class /\ e[x].in = Taken(g[x], m[n], v)
  BY <1>3, <1>4, <1>5, IntoIs
<1>8. Len(f) = Len(h) /\ Heap(f) /\ \A i \in 1..Len(h) : f[i].kind = h[i].kind BY <1>6, ButIs
<1>9. Len(e) = Len(g) /\ Heap(e) /\ \A i \in 1..Len(g) : e[i].kind = g[i].kind BY <1>7, ButIs
<1>10. Holds(t, n, f, op, kinds) BY <1>1, <1>8, FilledHolds
<1>11. Alike(f, e) BY <1>3, <1>8, <1>9 DEF Alike
<1>12. ASSUME Same(c, s, n, h, op, m, g), s[n].next = "HASH_VALUE" => key = m[n] PROVE Same(c, t, n, f, op, m, e)
  <2>1. /\ \A i \in 1..Len(h) : g[i].in = h[i].in
        /\ \A i \in 1..Len(h) : g[i].class = h[i].class \/ \E j \in 1..n : i = op[j]
        /\ \A i \in 1..n : g[op[i]].class = s[i].classname
        /\ \A i \in 1..n : s[i].next \in {"HASH_COLON", "HASH_VALUE"} => Named(c, s[i].key, m[i])
    BY <1>12 DEF Same
  <2>2. Waits(s[n].next, kinds[n]) BY <1>1 DEF WaitAll
  <2>3. h[x].kind # "array" => key = m[n] BY <1>4, <1>12, <2>2 DEF Waits
  <2>4. g[x].in = h[x].in /\ g[x].kind = h[x].kind BY <1>3, <1>4, <2>1
  <2>5. f[x].in = e[x].in BY <1>6, <1>7, <2>3, <2>4 DEF Taken
  <2>6. \A i \in 1..Len(h) : i # x => f[i] = h[i] /\ e[i] = g[i] BY <1>3, <1>6, <1>7 DEF ButFor
  <2>7. \A i \in 1..Len(h) : f[i].class = h[i].class /\ e[i].class = g[i].class
    BY ONLY <1>6, <1>7, <2>6
  <2>8. \A i \in 1..Len(f) : e[i].in = f[i].in BY ONLY <1>8, <2>1, <2>5, <2>6
  <2>9. \A i \in 1..Len(f) : e[i].class = f[i].class \/ \E j \in 1..n : i = op[j] BY ONLY <1>8, <2>1, <2>7
  <2>10. /\ \A i \in 1..Len(s) : i # n /\ n > 0 => t[i] = s[i]
         /\ t[n].next = IF s[n].next = "HASH_VALUE" THEN "HASH_COMMA" ELSE "ARRAY_COMMA"
         /\ t[n].classname = s[n].classname
    BY <1>1, FilledIs
  <2>. HIDE DEF t
  <2>11. Len(s) \in Nat BY DEF Slots, Row
  <2>12. \A i \in 1..n : i = n \/ t[i] = s[i] BY <1>1, <2>10, <2>11
  <2>13. \A i \in 1..n : t[i].classname = s[i].classname BY <2>10, <2>12
  <2>14. \A i \in 1..n : e[op[i]].class = t[i].classname BY <1>2, <2>1, <2>7, <2>13
  <2>15. \A i \in 1..n : t[i].next \in {"HASH_COLON", "HASH_VALUE"} => Named(c, t[i].key, m[i])
    <3>1. t[n].next \notin {"HASH_COLON", "HASH_VALUE"} BY <2>10
    <3>. QED BY <2>1, <2>12, <3>1
  <2>. QED BY <2>8, <2>9, <2>14, <2>15 DEF Same
<1>. QED BY <1>10, <1>11, <1>12

\* A class is named.
\* The innermost of n containers takes the name of a class: s becomes t, and g, where it is written, e.
Classing(s, n, kinds, class, op, h, g, t, e) ==
    /\ Slots(s) /\ n \in 1..Len(s) /\ kinds[n] = "object" /\ Holds(s, n, h, op, kinds) /\ Alike(h, g)
    /\ t = WithClass(Filled(s, n, Undef), n, class) /\ e = Classed(g, Last(op), class)

\* A string under the create id becomes the class of the open object on both sides.
LEMMA ClassAgrees ==
    ASSUME NEW s, NEW n, NEW kinds, NEW class, NEW op, NEW h, NEW g, NEW t, NEW e, Classing(s, n, kinds, class, op, h, g, t, e)
    PROVE  /\ Holds(t, n, h, op, kinds) /\ Alike(h, e)
           /\ \A c, m : Same(c, s, n, h, op, m, g) => Same(c, t, n, h, op, m, e)
           /\ \A i \in 1..n : t[i].next = Filled(s, n, Undef)[i].next
<1>. SUFFICES ASSUME Slots(s), n \in 1..Len(s), kinds[n] = "object", Holds(s, n, h, op, kinds), Alike(h, g),
                     t = WithClass(Filled(s, n, Undef), n, class), e = Classed(g, Last(op), class)
              PROVE  /\ Holds(t, n, h, op, kinds) /\ Alike(h, e)
                     /\ \A c, m : Same(c, s, n, h, op, m, g) => Same(c, t, n, h, op, m, e)
                     /\ \A i \in 1..n : t[i].next = Filled(s, n, Undef)[i].next
  BY DEF Classing
<1>. DEFINE u == Filled(s, n, Undef)
            x == op[n]
<1>1. n \in 0..Len(s) /\ n \in 1..n /\ n > 0 /\ Len(s) \in Nat BY DEF Slots, Row
<1>2. /\ Row(op) /\ Len(op) = n
      /\ \A i \in 1..n : /\ op[i] \in 1..Len(h) /\ s[i].val = Container(op[i])
                         /\ kinds[i] = h[op[i]].kind /\ (kinds[i] = "array" => s[i].classname = None)
      /\ \A i, j \in 1..n : i # j => op[i] # op[j]
  BY DEF Holds
<1>3. Heap(h) /\ Heap(g) /\ Len(g) = Len(h) /\ \A i \in 1..Len(h) : g[i].kind = h[i].kind BY DEF Alike
<1>4. x \in 1..Len(h) /\ kinds[n] = h[x].kind BY <1>1, <1>2
<1>5. Last(op) = x BY <1>2 DEF Last
<1>6. /\ Slots(u) /\ Len(u) = Len(s) /\ \A i \in 1..Len(s) : i # n /\ n > 0 => u[i] = s[i]
      /\ u[n].next = IF s[n].next = "HASH_VALUE" THEN "HASH_COMMA" ELSE "ARRAY_COMMA"
      /\ u[n].val = s[n].val
  BY <1>1, FilledIs
<1>. HIDE DEF u, x
<1>7. /\ \A i \in 1..Len(u) : i # n => t[i] = u[i]
      /\ t[n].next = u[n].next /\ t[n].val = u[n].val /\ t[n].classname = class
  <2>1. t = WithClass(u, n, class) BY DEF u
  <2>. QED BY <1>6, <2>1, ClassPut
<1>8. \A i \in 1..n : i = n \/ (t[i] = s[i] /\ u[i] = s[i]) BY <1>1, <1>6, <1>7
<1>10. e = Classed(g, x, class) BY <1>5
<1>11. ButFor(g, e, x) /\ e[x].kind = g[x].kind /\ e[x].class = class /\ e[x].in = g[x].in
  <2>1. LET y == Classed(g, x, class) IN ButFor(g, y, x) /\ y[x].kind = g[x].kind /\ y[x].class = class /\ y[x].in = g[x].in
    BY ONLY <1>3, <1>4, ClassedIs
  <2>. QED BY ONLY <1>10, <2>1
<1>12. Len(e) = Len(g) /\ Heap(e) /\ \A i \in 1..Len(g) : e[i].kind = g[i].kind BY ONLY <1>11, ButIs
<1>13. \A i \in 1..Len(h) : i # x => e[i] = g[i] BY <1>3, <1>11 DEF ButFor
<1>14. Holds(t, n, h, op, kinds)
  <2>1. \A i \in 1..n : t[i].val = s[i].val BY <1>6, <1>7, <1>8
  <2>2. \A i \in 1..n : kinds[i] = "array" => t[i].classname = s[i].classname BY <1>8
  <2>. QED BY <1>2, <2>1, <2>2 DEF Holds
<1>15. Alike(h, e) BY <1>3, <1>12 DEF Alike
<1>16. ASSUME NEW c, NEW m, Same(c, s, n, h, op, m, g) PROVE Same(c, t, n, h, op, m, e)
  <2>1. /\ \A i \in 1..Len(h) : g[i].in = h[i].in
        /\ \A i \in 1..Len(h) : g[i].class = h[i].class \/ \E j \in 1..n : i = op[j]
        /\ \A i \in 1..n : g[op[i]].class = s[i].classname
        /\ \A i \in 1..n : s[i].next \in {"HASH_COLON", "HASH_VALUE"} => Named(c, s[i].key, m[i])
    BY <1>16 DEF Same
  <2>2. \A i \in 1..Len(h) : e[i].in = h[i].in BY ONLY <1>11, <1>13, <2>1
  <2>3. \A i \in 1..Len(h) : e[i].class = h[i].class \/ \E j \in 1..n : i = op[j]
    <3>1. x = op[n] BY DEF x
    <3>. QED BY ONLY <1>1, <1>13, <2>1, <3>1
  <2>4. \A i \in 1..n : e[op[i]].class = t[i].classname
    <3>1. x = op[n] BY DEF x
    <3>2. \A i \in 1..n : i # n => op[i] # x BY <1>1, <1>2, <3>1
    <3>. QED BY ONLY <1>2, <1>7, <1>8, <1>11, <1>13, <2>1, <3>1, <3>2
  <2>5. t[n].next \notin {"HASH_COLON", "HASH_VALUE"} BY <1>6, <1>7
  <2>6. \A i \in 1..n : t[i].next \in {"HASH_COLON", "HASH_VALUE"} => Named(c, t[i].key, m[i]) BY ONLY <1>8, <2>1, <2>5
  <2>. QED BY <2>2, <2>3, <2>4, <2>6 DEF Same
<1>17. \A i \in 1..n : t[i].next = u[i].next BY <1>7, <1>8
<1>. QED BY <1>14, <1>15, <1>16, <1>17 DEF u

\* The innermost container is closed.
\* Of the z containers on s the last one is closed, with this class: n are left.
Closing(s, z, n, kinds, op, h, g, m, class, f, o, k, l) ==
    /\ z \in Nat /\ z > 0 /\ n = z - 1 /\ Row(kinds) /\ Len(kinds) = z /\ Row(m) /\ Len(m) = z
    /\ Holds(s, z, h, op, kinds) /\ Alike(h, g) /\ f = Classed(h, op[z], class)
    /\ o = Front(op) /\ k = Front(kinds) /\ l = Front(m)

\* Popping the container both sides have open leaves them agreeing on those below.
LEMMA CloseAgrees ==
    ASSUME NEW s, NEW z, NEW n, NEW kinds, NEW op, NEW h, NEW g, NEW m, NEW class, NEW f, NEW o, NEW k, NEW l,
           Closing(s, z, n, kinds, op, h, g, m, class, f, o, k, l)
    PROVE  /\ Last(op) = op[z] /\ s[z].val = Container(op[z])
           /\ Row(k) /\ Len(k) = n /\ Row(l) /\ Len(l) = n /\ (\A i \in 1..n : k[i] = kinds[i])
           /\ Holds(s, n, f, o, k) /\ Alike(f, g)
           /\ \A c : Same(c, s, z, h, op, m, g) /\ class = s[z].classname => Same(c, s, n, f, o, l, g)
<1>. SUFFICES ASSUME z \in Nat, z > 0, n = z - 1, Row(kinds), Len(kinds) = z, Row(m), Len(m) = z,
                     Holds(s, z, h, op, kinds), Alike(h, g), f = Classed(h, op[z], class),
                     o = Front(op), k = Front(kinds), l = Front(m)
              PROVE  /\ Last(op) = op[z] /\ s[z].val = Container(op[z])
                     /\ Row(k) /\ Len(k) = n /\ Row(l) /\ Len(l) = n /\ (\A i \in 1..n : k[i] = kinds[i])
                     /\ Holds(s, n, f, o, k) /\ Alike(f, g)
                     /\ \A c : Same(c, s, z, h, op, m, g) /\ class = s[z].classname => Same(c, s, n, f, o, l, g)
  BY DEF Closing
<1>. DEFINE x == op[z]
<1>1. n \in Nat /\ z \in 1..z /\ (\A i \in 1..n : i \in 1..z /\ i # z) /\ (\A i \in 1..z : i \in 1..n \/ i = z) /\ z # 0 OBVIOUS
<1>2. /\ Row(op) /\ Len(op) = z
      /\ \A i \in 1..z : /\ op[i] \in 1..Len(h) /\ s[i].val = Container(op[i])
                         /\ kinds[i] = h[op[i]].kind /\ (kinds[i] = "array" => s[i].classname = None)
      /\ \A i, j \in 1..z : i # j => op[i] # op[j]
  BY DEF Holds
<1>3. Heap(h) /\ Heap(g) /\ Len(g) = Len(h) /\ \A i \in 1..Len(h) : g[i].kind = h[i].kind BY DEF Alike
<1>4. Row(o) /\ Len(o) = n /\ Last(op) = x /\ \A i \in 1..n : o[i] = op[i] BY <1>1, <1>2, RowFront
<1>5. Row(k) /\ Len(k) = n /\ \A i \in 1..n : k[i] = kinds[i] BY <1>1, RowFront
<1>6. Row(l) /\ Len(l) = n /\ \A i \in 1..n : l[i] = m[i] BY <1>1, RowFront
<1>7. x \in 1..Len(h) /\ s[z].val = Container(x) BY <1>1, <1>2
<1>. HIDE DEF x
<1>8. f = Classed(h, x, class) BY DEF x
<1>9. ButFor(h, f, x) /\ f[x].kind = h[x].kind /\ f[x].class = class /\ f[x].in = h[x].in
  <2>1. LET y == Classed(h, x, class) IN ButFor(h, y, x) /\ y[x].kind = h[x].kind /\ y[x].class = class /\ y[x].in = h[x].in
    BY ONLY <1>3, <1>7, ClassedIs
  <2>. QED BY ONLY <1>8, <2>1
<1>10. Len(f) = Len(h) /\ Heap(f) /\ \A i \in 1..Len(h) : f[i].kind = h[i].kind BY ONLY <1>9, ButIs
<1>11. Alike(f, g) BY <1>3, <1>10 DEF Alike
<1>12. \A i \in 1..n : o[i] # x /\ o[i] \in 1..Len(h)
  <2>1. x = op[z] BY DEF x
  <2>. QED BY <1>1, <1>2, <1>4, <2>1
<1>13. Holds(s, n, f, o, k)
  <2>1. ASSUME NEW i \in 1..n
        PROVE  /\ o[i] \in 1..Len(f) /\ s[i].val = Container(o[i])
               /\ k[i] = f[o[i]].kind /\ (k[i] = "array" => s[i].classname = None)
    <3>1. i \in 1..z BY <1>1
    <3>2. /\ op[i] \in 1..Len(h) /\ s[i].val = Container(op[i])
          /\ kinds[i] = h[op[i]].kind /\ (kinds[i] = "array" => s[i].classname = None)
      BY ONLY <1>2, <3>1
    <3>3. o[i] = op[i] /\ k[i] = kinds[i] BY <1>4, <1>5
    <3>. QED BY ONLY <3>2, <3>3, <1>10
  <2>2. \A i, j \in 1..n : i # j => o[i] # o[j] BY <1>1, <1>2, <1>4
  <2>. QED BY ONLY <1>4, <2>1, <2>2 DEF Holds
<1>14. ASSUME NEW c, Same(c, s, z, h, op, m, g), class = s[z].classname PROVE Same(c, s, n, f, o, l, g)
  <2>1. /\ \A i \in 1..Len(h) : g[i].in = h[i].in
        /\ \A i \in 1..Len(h) : g[i].class = h[i].class \/ \E j \in 1..z : i = op[j]
        /\ \A i \in 1..z : g[op[i]].class = s[i].classname
        /\ \A i \in 1..z : s[i].next \in {"HASH_COLON", "HASH_VALUE"} => Named(c, s[i].key, m[i])
    BY <1>14 DEF Same
  <2>2. \A i \in 1..Len(h) : i # x => f[i] = h[i] BY <1>9 DEF ButFor
  <2>3. \A i \in 1..Len(f) : g[i].in = f[i].in BY ONLY <1>9, <1>10, <2>1, <2>2
  <2>4. g[x].class = f[x].class BY <1>1, <1>9, <1>14, <2>1 DEF x
  <2>5. ASSUME NEW i \in 1..Len(f), i # x PROVE g[i].class = f[i].class \/ \E j \in 1..n : i = o[j]
    <3>1. i \in 1..Len(h) /\ f[i] = h[i] BY <1>10, <2>2, <2>5
    <3>2. CASE g[i].class = h[i].class BY <3>1, <3>2
    <3>3. CASE \E j \in 1..z : i = op[j]
      <4>1. PICK j \in 1..z : i = op[j] BY <3>3
      <4>2. j # z BY <2>5, <4>1 DEF x
      <4>3. j \in 1..n BY ONLY <1>1, <4>2, j \in 1..z
      <4>. QED BY ONLY <4>1, <4>3, <1>4
    <3>. QED BY ONLY <2>1, <3>1, <3>2, <3>3
  <2>6. \A i \in 1..Len(f) : g[i].class = f[i].class \/ \E j \in 1..n : i = o[j] BY <2>4, <2>5
  <2>7. \A i \in 1..n : g[o[i]].class = s[i].classname BY ONLY <1>1, <1>4, <2>1
  <2>8. \A i \in 1..n : s[i].next \in {"HASH_COLON", "HASH_VALUE"} => Named(c, s[i].key, l[i]) BY ONLY <1>1, <1>6, <2>1
  <2>. QED BY ONLY <2>3, <2>6, <2>7, <2>8 DEF Same
<1>. QED BY <1>4, <1>5, <1>6, <1>7, <1>11, <1>13, <1>14 DEF x

-----------------------------------------------------------------------------
(* What becomes of a value that is complete.                                 *)

\* No value is the undefined one.
LEMMA Values == /\ \A t : Scalar(t) # Undef
                /\ \A m : Container(m) # Undef
<1>1. ASSUME NEW a, NEW b PROVE <<a, b>> # <<"undef">>
  <2>1. Len(<<a, b>>) = 2 /\ Len(<<"undef">>) = 1 OBVIOUS
  <2>. QED BY <2>1
<1>. QED BY <1>1 DEF Scalar, Container, Undef

\* A sequence cut at its own length.
LEMMA WholeSeq == ASSUME NEW S, NEW s \in Seq(S) PROVE SubSeq(s, 1, Len(s)) = s /\ Len(s) \in Nat
<1>1. Len(s) \in Nat /\ Row(s) BY RowSeq
<1>2. SubSeq(s, 1, Len(s)) \in Seq(S) /\ Len(SubSeq(s, 1, Len(s))) = Len(s)
      /\ \A i \in 1..Len(s) : SubSeq(s, 1, Len(s))[i] = s[i]
  <2>1. Len(s) \in 0..Len(s) BY <1>1
  <2>. QED BY <2>1, SubSeqProperties
<1>3. Row(SubSeq(s, 1, Len(s))) BY <1>2, RowSeq
<1>. QED BY ONLY <1>1, <1>2, <1>3, RowSame

\* A key shorter than 2^16 bytes is held as it was read.
LEMMA KeyNamed ==
    ASSUME config \in Configs, NEW t \in Strings, Len(TextOf[t]) < KeyWidth
    PROVE  Named(config, KeyOf(t), TextOf[t])
<1>. DEFINE name == TextOf[t]
            klen == Len(name) % KeyWidth
            where == IF t \in Escaped THEN "heap"
                     ELSE IF ~Sparse THEN "text"
                     ELSE IF KArray <= klen THEN "heap" ELSE "karray"
            seen == IF Sparse /\ t \notin Escaped THEN SubSeq(name, 1, klen) ELSE name
            a == [at |-> where, block |-> block, text |-> name, klen |-> klen, made |-> Unmade]
            b == [at |-> where, block |-> block, text |-> name, klen |-> klen, made |-> <<seen>>]
            c == [NoKey EXCEPT !.made = <<seen>>]
<1>1. name \in Seq(STRING) BY ClassicAssumption DEF ClassicAssumption
<1>2. Len(name) \in Nat /\ KeyWidth \in Nat /\ Len(name) < KeyWidth /\ KeyWidth # 0
  BY <1>1, ValStackAssumption DEF ValStackAssumption
<1>3. klen = Len(name)
  <2>. DEFINE l == Len(name)
  <2>1. l \in Nat /\ l < KeyWidth BY <1>2
  <2>. HIDE DEF l
  <2>2. l % KeyWidth = l BY <1>2, <2>1
  <2>. QED BY <2>2 DEF l
<1>4. SubSeq(name, 1, klen) = name /\ seen = name BY <1>1, <1>3, WholeSeq
<1>5. where = "karray" => Sparse OBVIOUS
<1>6. /\ ~config.hashKey => KeyOf(t) = a
      /\ config.hashKey => KeyOf(t) \in {b, c}
  BY DEF KeyOf
<1>. HIDE DEF name, klen, where, seen
<1>7. <<seen>> # Unmade /\ <<seen>>[1] = name
  <2>1. Len(<<seen>>) = 1 /\ Len(<<>>) = 0 OBVIOUS
  <2>. QED BY <1>4, <2>1 DEF Unmade
<1>8. CASE ~config.hashKey
  <2>1. KeyOf(t) = a BY <1>6, <1>8
  <2>. QED BY <1>4, <1>5, <2>1 DEF Named, Sparse, name
<1>9. CASE config.hashKey
  <2>1. NoKey = [at |-> None, block |-> 0, text |-> <<>>, klen |-> 0, made |-> Unmade] BY DEF NoKey
  <2>2. c.at = None /\ c.made = <<seen>> BY <2>1
  <2>3. Named(config, c, name) BY <1>7, <1>9, <2>2 DEF Named, None
  <2>4. Named(config, b, name) BY <1>5, <1>7, <1>9 DEF Named, Sparse
  <2>. QED BY <1>6, <1>9, <2>3, <2>4 DEF name
<1>. QED BY <1>8, <1>9

\* What such a key is taken for, as long as the block it is held in is there.
LEMMA NamedIs ==
    ASSUME block \in Nat, ~KeysMoved, NEW key, Key(key), NEW name, Named(config, key, name)
    PROVE  /\ CalcHashKey(key) = name
           /\ ~config.hashKey => key.made = Unmade /\ KeyText(key) = name
<1>1. key.block \in Nat BY DEF Key
<1>2. key.at = "karray" => ~Freed(key.block)
  <2>1. key.at = "karray" => block < 2 BY DEF Named, KeysMoved, Sparse
  <2>. QED BY <1>1, <2>1 DEF Freed
<1>3. KeyText(key) = SubSeq(key.text, 1, key.klen) BY <1>2 DEF KeyText
<1>. QED BY <1>3 DEF Named, CalcHashKey

\* Keys do not become shorter, and the stack's block does not move back.
LEMMA ExactBack ==
    ASSUME Row(text), NEW t, text' = Append(text, t), block \in Nat, block' \in Nat, block <= block', config' = config, Exact'
    PROVE  Exact /\ (t \in Strings => ~(Len(TextOf[t]) >= KeyWidth)) /\ ~KeysMoved /\ ~KeysMoved'
<1>1. /\ Row(text') /\ Len(text') = Len(text) + 1 /\ text'[Len(text) + 1] = t
      /\ \A i \in 1..Len(text) : text'[i] = text[i]
  BY RowMore
<1>2. Len(text) \in Nat /\ DOMAIN text = 1..Len(text) /\ DOMAIN text' = 1..Len(text) + 1 BY <1>1 DEF Row
<1>3. \A i \in 1..Len(text) + 1 : text'[i] \in Strings => ~(Len(TextOf[text'[i]]) >= KeyWidth) BY <1>2 DEF Exact, LongKeys
<1>4. Len(text) + 1 \in 1..Len(text) + 1 /\ \A i \in 1..Len(text) : i \in 1..Len(text) + 1 BY <1>2
<1>5. ~LongKeys BY <1>1, <1>2, <1>3, <1>4 DEF LongKeys
<1>6. t \in Strings => ~(Len(TextOf[t]) >= KeyWidth) BY ONLY <1>1, <1>3, <1>4
<1>7. ~KeysMoved' BY DEF Exact
<1>8. ~KeysMoved BY <1>7 DEF KeysMoved, Sparse
<1>. QED BY <1>5, <1>6, <1>7, <1>8 DEF Exact

\* The value v is complete inside n containers: the documents k become l, first becomes f,
\* the first Val val, and ys, what was yielded, zs.
Complete(c, n, v, k, l, f, val, ys, zs, tx, tx2) ==
    /\ n \in Nat /\ v # Undef /\ (Commented(c, tx) => Commented(c, tx2))
    /\ n = 0 /\ c.mode # "callbacks" => val = v
    /\ l = IF n = 0 THEN Append(k, v) ELSE k
    /\ f = IF n > 0 THEN TRUE ELSE IF c.proc THEN TRUE ELSE c.mode = "callbacks"
    /\ zs = IF n > 0 THEN ys ELSE IF c.proc THEN Append(ys, IF val = Undef THEN Scalar("nil") ELSE val) ELSE ys

\* The documents while another may come.
First(c, docs) == Row(docs) /\ (\A i \in 1..Len(docs) : docs[i] # Undef) /\ (~Rows(c) => docs = <<>>)

\* The value read becomes the document of the text when nothing is open.
LEMMA DocumentDone ==
    ASSUME NEW c, NEW n, NEW v, NEW k, NEW q, NEW f, NEW val, NEW ys, NEW zs, NEW tx, NEW tx2,
           Complete(c, n, v, k, q, f, val, ys, zs, tx, tx2), First(c, k)
    PROVE  Documents(c, f, n, val, q, tx2)
<1>0. /\ n \in Nat /\ v # Undef /\ (Commented(c, tx) => Commented(c, tx2))
      /\ n = 0 /\ c.mode # "callbacks" => val = v
      /\ q = IF n = 0 THEN Append(k, v) ELSE k
      /\ f = IF n > 0 THEN TRUE ELSE IF c.proc THEN TRUE ELSE c.mode = "callbacks"
  BY DEF Complete
<1>1. Row(k) /\ (\A i \in 1..Len(k) : k[i] # Undef) /\ (~Rows(c) => k = <<>>) BY DEF First
<1>2. CASE n = 0
  <2>. DEFINE l == Append(k, v)
  <2>1. Row(l) /\ Len(l) = Len(k) + 1 /\ l[Len(k) + 1] = v /\ \A i \in 1..Len(k) : l[i] = k[i] BY <1>1, RowMore
  <2>2. Len(k) \in Nat /\ Len(<<>>) = 0 BY <1>1 DEF Row
  <2>. HIDE DEF l
  <2>3. \A i \in 1..Len(l) : l[i] # Undef
    <3>1. \A i \in 1..Len(k) + 1 : i \in 1..Len(k) \/ i = Len(k) + 1 BY <2>2
    <3>. QED BY <1>0, <1>1, <2>1, <3>1
  <2>4. l # <<>> /\ Last(l) = v BY <2>1, <2>2 DEF Last
  <2>5. ~Rows(c) => Len(l) = 1 BY ONLY <1>1, <2>1, <2>2
  <2>6. f <=> Rows(c)
    <3>1. CASE c.proc
      <4>1. f = TRUE BY <1>0, <1>2, <3>1
      <4>. QED BY <3>1, <4>1 DEF Rows
    <3>2. CASE ~c.proc
      <4>1. f = (c.mode = "callbacks") BY <1>0, <1>2, <3>2
      <4>. QED BY <3>2, <4>1 DEF Rows
    <3>. QED BY <3>1, <3>2
  <2>7. Documents(c, f, n, val, l, tx2) BY <1>0, <1>2, <2>1, <2>3, <2>4, <2>5, <2>6 DEF Documents
  <2>. QED BY <1>0, <1>2, <2>7 DEF l
<1>3. CASE n # 0
  <2>1. f = TRUE /\ q = k BY <1>0, <1>3
  <2>2. Documents(c, f, n, val, k, tx2) BY <1>0, <1>1, <1>3, <2>1 DEF Documents
  <2>. QED BY <1>3, <2>1, <2>2
<1>. QED BY <1>2, <1>3

\* The block is given the documents as they are read.
LEMMA YieldDone ==
    ASSUME NEW c, NEW n, NEW v, NEW k, NEW q, NEW f, NEW val, NEW ys, NEW zs, NEW tx, NEW tx2,
           Complete(c, n, v, k, q, f, val, ys, zs, tx, tx2), Yields(c, ys, k, tx)
    PROVE  Yields(c, zs, q, tx2)
BY DEF Yields, Complete

\* The deepest nesting so far is within the limit as long as the parser did not raise.
LEMMA DepthDone ==
    ASSUME NEW n \in Nat, n <= tail, tail \in Nat, config \in Configs, NEW deep, Depth(config, tail, deep), ~TooDeep
    PROVE  Depth(config, n, deep) /\ Depth(config, tail + 1, IF tail < deep THEN deep ELSE tail + 1)
           /\ (config.maxDepth > 0 => deep <= config.maxDepth)
<1>1. config.maxDepth \in Nat BY ClassicAssumption DEF ClassicAssumption
<1>. DEFINE x == config.maxDepth
<1>2. deep \in Nat /\ tail <= deep /\ (x > 0 => deep <= x \/ (deep = x + 1 /\ tail = deep)) BY DEF Depth
<1>3. ~(x > 0 /\ x <= tail - 1) BY DEF TooDeep
<1>. HIDE DEF x
<1>4. x > 0 => deep <= x /\ tail <= x BY <1>1, <1>2, <1>3 DEF x
<1>5. Depth(config, n, deep) BY <1>2, <1>4 DEF Depth, x
<1>6. LET y == IF tail < deep THEN deep ELSE tail + 1
      IN  y \in Nat /\ tail + 1 <= y /\ (x > 0 => y <= x \/ (y = x + 1 /\ tail + 1 = y))
  BY ONLY <1>2, <1>4, tail \in Nat, x \in Nat, <1>1 DEF x
<1>. QED BY <1>4, <1>5, <1>6 DEF Depth, x

\* HasIs, after a step.
LEMMA HasNext == ASSUME NEW kinds PROVE (Row(text) => (Has(kinds) <=> Seen(kinds, text)))'
<1>1. Row(text) => (Has(kinds) <=> Seen(kinds, text)) BY HasIs
<1>. QED BY <1>1, PTL

\* What a text with one token more has.
LEMMA CommentMore ==
    ASSUME Row(text), NEW t, text' = Append(text, t), config' = config
    PROVE  /\ Commented(config, text) => Commented(config, text')
           /\ \A kinds : Has(kinds)' <=> Has(kinds) \/ t \in kinds
<1>1. Row(text') /\ \A kinds : Seen(kinds, text') <=> Seen(kinds, text) \/ t \in kinds BY SeenMore
<1>2. \A kinds : Has(kinds) <=> Seen(kinds, text) BY HasIs
<1>3. \A kinds : Has(kinds)' <=> Seen(kinds, text') BY <1>1, HasNext
<1>4. \A kinds : Has(kinds)' <=> Has(kinds) \/ t \in kinds BY <1>1, <1>2, <1>3
<1>. QED BY <1>1, <1>4 DEF Commented

\* The token t completes the value v inside n containers of these kinds, those with the numbers op and
\* the names m in h and g; k are the documents before, p is the depth reached.
Valued(t, n, kinds, op, m, h, g, k, one, z, p, v) ==
    /\ Kept /\ config \in Configs /\ first = TRUE /\ Row(text) /\ text' = Append(text, t) /\ config' = config
    /\ n \in Nat /\ n <= tail /\ Row(kinds) /\ Len(kinds) = n /\ WaitAll(slots, n, kinds)
    /\ Row(m) /\ Len(m) = n /\ Holds(slots, n, h, op, kinds) /\ Alike(h, g)
    /\ (Exact => Same(config, slots, n, h, op, m, g))
    /\ Documents(config, first, z, one, k, text) /\ Yields(config, yielded, k, text)
    /\ Depth(config, n, p) /\ v # Undef
    /\ heap' = (IF n = 0 THEN h ELSE Into(h, slots[n].val, CalcHashKey(slots[n].key), v))
    /\ slots' = Filled(slots, n, v) /\ tail' = n /\ Turn(n, slots') /\ UNCHANGED <<room, block>>
    /\ meant' = Place(Rd(Past(kinds), g, op, m, k, p), v)

\* A value, taken on both sides, leaves them agreeing.
LEMMA ValueDone ==
    ASSUME NEW t, NEW n, NEW kinds, NEW op, NEW m, NEW h, NEW g, NEW k, NEW one, NEW z, NEW p, NEW v,
           Valued(t, n, kinds, op, m, h, g, k, one, z, p, v)
    PROVE  Agrees(meant)' /\ Yields(config, yielded, meant.docs, text)' /\ Shape(meant') /\ Row(meant'.docs)
<1>. SUFFICES ASSUME
           Kept, config \in Configs, first = TRUE, Row(text), text' = Append(text, t), config' = config,
           n \in Nat, n <= tail, Row(kinds), Len(kinds) = n, WaitAll(slots, n, kinds),
           Row(m), Len(m) = n, Holds(slots, n, h, op, kinds), Alike(h, g),
           Exact => Same(config, slots, n, h, op, m, g),
           Documents(config, first, z, one, k, text), Yields(config, yielded, k, text),
           Depth(config, n, p), v # Undef,
           heap' = (IF n = 0 THEN h ELSE Into(h, slots[n].val, CalcHashKey(slots[n].key), v)),
           slots' = Filled(slots, n, v), tail' = n, Turn(n, slots'), UNCHANGED <<room, block>>,
           meant' = Place(Rd(Past(kinds), g, op, m, k, p), v)
    PROVE  Agrees(meant)' /\ Yields(config, yielded, meant.docs, text)' /\ Shape(meant') /\ Row(meant'.docs)
  BY DEF Valued
<1>. DEFINE s == Filled(slots, n, v)
            e == IF n = 0 THEN g ELSE Into(g, Container(Last(op)), Last(m), v)
            l == IF n = 0 THEN Append(k, v) ELSE k
            d == Past(kinds)
            key == CalcHashKey(slots[n].key)
<1>1. Slots(slots) /\ tail \in 0..Len(slots) /\ block \in Nat /\ Len(slots) \in Nat BY DEF Kept, Slots, Row
<1>2. n \in 0..Len(slots) /\ (n # 0 => n \in 1..Len(slots) /\ n > 0 /\ n \in 1..n) BY <1>1
<1>3. Row(op) /\ Len(op) = n /\ (op = <<>> <=> n = 0)
  <2>1. Row(op) /\ Len(op) = n BY DEF Holds
  <2>. QED BY <2>1, RowEmpty
<1>4. meant' = Rd(d, e, op, m, l, p)
  <2>1. meant' = IF op = <<>> THEN Rd(d, g, op, m, Append(k, v), p)
                 ELSE Rd(d, Into(g, Container(Last(op)), Last(m), v), op, m, k, p)
    BY PlaceIs
  <2>. QED BY <1>3, <2>1
<1>5. Stands(s, n, d) BY <1>1, <1>2, FilledStands
<1>6. d.open = kinds BY PastIs
<1>7. Slots(s) /\ (n = 0 => s[1].val = IF Callbacks THEN slots[1].val ELSE v) BY <1>1, <1>2, FilledIs
<1>8. Exact' => Exact /\ ~KeysMoved
  <2>1. block' \in Nat /\ block <= block' BY <1>1
  <2>. QED BY <1>1, <2>1, ExactBack
<1>. HIDE DEF d, s
<1>9. Holds(s, n, heap', op, kinds) /\ Alike(heap', e) /\ (Exact' => Same(config, s, n, heap', op, m, e))
  <2>1. CASE n = 0
    <3>1. heap' = h /\ e = g BY <2>1
    <3>2. Holds(Filled(slots, n, v), n, h, op, kinds) BY <1>1, <1>2, FilledHolds
    <3>3. Same(config, slots, n, h, op, m, g) => Same(config, s, n, h, op, m, g) BY <2>1 DEF Same
    <3>. QED BY ONLY <1>8, <3>1, <3>2, <3>3, Exact => Same(config, slots, n, h, op, m, g), Alike(h, g) DEF s
  <2>2. CASE n # 0
    <3>1. n \in 1..Len(slots) BY <1>2, <2>2
    <3>2. heap' = Into(h, slots[n].val, key, v) /\ e = Into(g, Container(Last(op)), Last(m), v) BY <2>2
    <3>3. ASSUME Exact' PROVE Same(config, slots, n, h, op, m, g) /\ (slots[n].next = "HASH_VALUE" => key = m[n])
      <4>1. Same(config, slots, n, h, op, m, g) BY <1>8, <3>3
      <4>2. slots[n].next = "HASH_VALUE" => Named(config, slots[n].key, m[n]) BY <1>2, <2>2, <4>1 DEF Same
      <4>3. Key(slots[n].key) BY <1>1, <3>1 DEF Slots, Slot
      <4>. QED BY <1>1, <1>8, <3>3, <4>1, <4>2, <4>3, NamedIs
    <3>. HIDE DEF key, e
    <3>4. /\ Holds(Filled(slots, n, v), n, heap', op, kinds) /\ Alike(heap', e)
          /\ Same(config, slots, n, h, op, m, g) /\ (slots[n].next = "HASH_VALUE" => key = m[n]) =>
               Same(config, Filled(slots, n, v), n, heap', op, m, e)
      BY <1>1, <3>1, <3>2, PutAgrees
    <3>. QED BY ONLY <3>3, <3>4 DEF s
  <2>. QED BY <2>1, <2>2
<1>10. (Commented(config, text) => Commented(config, text')) /\ (n = 0 /\ config.mode # "callbacks" => s[1].val = v)
  BY <1>7, CommentMore DEF Callbacks
<1>11. first' = (IF n > 0 THEN TRUE ELSE IF config.proc THEN TRUE ELSE config.mode = "callbacks")
  BY DEF Turn, Callbacks
<1>12. yielded' = (IF n > 0 THEN yielded
                   ELSE IF config.proc THEN Append(yielded, IF s[1].val = Undef THEN Scalar("nil") ELSE s[1].val) ELSE yielded)
  BY DEF Turn, s
<1>. HIDE DEF e
<1>20. Complete(config, n, v, k, l, first', s[1].val, yielded, yielded', text, text')
  BY ONLY <1>10, <1>11, <1>12, n \in Nat, v # Undef DEF Complete, l
<1>. HIDE DEF l
<1>13. Documents(config, first', n, s[1].val, l, text')
  <2>1. First(config, k) BY DEF Documents, First
  <2>. QED BY ONLY <1>20, <2>1, DocumentDone
<1>14. Yields(config, yielded', l, text') BY ONLY <1>20, Yields(config, yielded, k, text), YieldDone
<1>15. Row(l) BY <1>13 DEF Documents
<1>16. /\ meant'.d = d /\ meant'.heap = e /\ meant'.open = op /\ meant'.names = m /\ meant'.docs = l /\ meant'.deep = p
       /\ Shape(meant')
  BY <1>4, RdPut
<1>17. slots' = s BY DEF s
<1>18. Agrees(meant)' BY ONLY <1>5, <1>6, <1>9, <1>13, <1>16, <1>17, tail' = n, config' = config, Row(m), Len(m) = n, Depth(config, n, p) DEF Agrees
<1>. QED BY ONLY <1>14, <1>15, <1>16, <1>18, config' = config

-----------------------------------------------------------------------------
(* What a step leaves true, whether it stops or goes on.                     *)

\* A row is a prefix of itself, and of itself with one more.
LEMMA PrefixIs == ASSUME NEW s, Row(s), NEW v PROVE IsPrefix(s, s) /\ IsPrefix(s, Append(s, v))
<1>. DEFINE S == {s[i] : i \in 1..Len(s)} \cup {v}
            t == Append(s, v)
            n == Len(s)
<1>1. s \in Seq(S) /\ v \in S /\ n \in Nat BY SeqRow DEF Row
<1>. HIDE DEF S
<1>2. t \in Seq(S) /\ Len(t) = n + 1 /\ \A i \in 1..n : t[i] = s[i] BY <1>1, AppendProperties
<1>3. n <= n /\ n <= n + 1 /\ n \in 0..n /\ n \in 0..n + 1 BY <1>1
<1>. HIDE DEF t
<1>4. SubSeq(t, 1, n) \in Seq(S) /\ Len(SubSeq(t, 1, n)) = n /\ \A i \in 1..n : SubSeq(t, 1, n)[i] = t[i]
  BY ONLY <1>1, <1>2, <1>3, SubSeqProperties
<1>5. SubSeq(s, 1, n) = s BY <1>1, WholeSeq
<1>6. SubSeq(t, 1, n) = s
  <2>1. Row(SubSeq(t, 1, n)) BY <1>4, RowSeq
  <2>. QED BY <1>2, <1>4, <2>1, RowSame
<1>. QED BY <1>2, <1>3, <1>5, <1>6 DEF IsPrefix, t

\* Whatever the token, the reader keeps its documents and adds one at most.
LEMMA ToldKeeps ==
    ASSUME NEW r, Shape(r), Row(r.docs), NEW t, t \in Tokens \cup {"end"}
    PROVE  LET q == Told(r, t)
           IN  Shape(q) /\ Row(q.docs) /\ (q.docs = r.docs \/ \E v : q.docs = Append(r.docs, v))
<1>. DEFINE d == r.d
            h == r.heap
            o == r.open
            m == r.names
            k == r.docs
            p == r.deep
            q == Told(r, t)
            Fine(x) == Shape(x) /\ (x.docs = k \/ \E v : x.docs = Append(k, v))
<1>1. r = Rd(d, h, o, m, k, p) BY DEF Shape, Rd
<1>. HIDE DEF d, h, o, m, k, p
<1>2. ASSUME NEW a, NEW b, NEW c, NEW e, NEW f PROVE Fine(Rd(a, b, c, e, k, f))
  BY RdPut
<1>3. ASSUME NEW a, NEW b, NEW c, NEW e, NEW f, NEW v PROVE Fine(Rd(a, b, c, e, Append(k, v), f))
  <2>1. Shape(Rd(a, b, c, e, Append(k, v), f)) /\ Rd(a, b, c, e, Append(k, v), f).docs = Append(k, v)
    <3>. DEFINE x == Append(k, v)
    <3>. HIDE DEF x
    <3>1. Shape(Rd(a, b, c, e, x, f)) /\ Rd(a, b, c, e, x, f).docs = x BY RdPut
    <3>. QED BY ONLY <3>1 DEF x
  <2>. QED BY <2>1
<1>4. ASSUME NEW a, NEW b, NEW c, NEW e, NEW f, NEW v PROVE Fine(Place(Rd(a, b, c, e, k, f), v))
  <2>1. CASE c = <<>> BY <1>3, <2>1, PlaceIs
  <2>2. CASE c # <<>> BY <1>2, <2>2, PlaceIs
  <2>. QED BY <2>1, <2>2
<1>5. ASSUME NEW a, NEW kind PROVE Fine(Opened(Rd(a, h, o, m, k, p), kind))
  <2>. DEFINE x == Append(h, New(kind))
              y == Append(o, Len(h) + 1)
              z == Append(m, <<>>)
              w == IF Len(o) < p THEN p ELSE Len(o) + 1
  <2>1. Opened(Rd(a, h, o, m, k, p), kind) = Rd(a, x, y, z, k, w) BY OpenedIs
  <2>. HIDE DEF x, y, z, w, Fine
  <2>2. Fine(Rd(a, x, y, z, k, w)) BY <1>2
  <2>. QED BY <2>1, <2>2
<1>6. ASSUME NEW a PROVE Fine(Closed(Rd(a, h, o, m, k, p)))
  <2>. DEFINE x == Place(Rd(a, h, Front(o), Front(m), k, p), Container(Last(o)))
  <2>1. Closed(Rd(a, h, o, m, k, p)) = x BY ClosedIs
  <2>2. Fine(x) BY <1>4
  <2>. HIDE DEF x, Fine
  <2>. QED BY <2>1, <2>2
<1>. HIDE DEF Fine
<1>. DEFINE e == Read(d, Worth(t))
            s == Rd(e, h, o, m, k, p)
            names == t \in Strings /\ config.create /\ d.at = "member" /\ Last(m) = CreateId
<1>7. \/ q = r
      \/ q = Rd(IF d = Fresh THEN d ELSE Bad, h, o, m, k, p)
      \/ q = Rd(Bad, h, o, m, k, p)
      \/ q = Opened(s, "object") \/ q = Opened(s, "array") \/ q = Closed(s) \/ q = s
      \/ q = Rd(e, h, o, Append(Front(m), TextOf[t]), k, p)
      \/ q = Rd(e, [h EXCEPT ![Last(o)].class = t], o, m, k, p)
      \/ q = Place(s, Scalar(t))
  <2>. DEFINE w == Rd(d, h, o, m, k, p)
              odd == t = "comment" \/ d = Bad
              refused == ~odd /\ t # "end" /\ e = Bad
              taken == ~odd /\ t # "end" /\ e # Bad
  <2>1. /\ odd => Told(w, t) = w
        /\ ~odd /\ t = "end" => Told(w, t) = Rd(IF d = Fresh THEN d ELSE Bad, h, o, m, k, p)
        /\ refused => Told(w, t) = Rd(Bad, h, o, m, k, p)
        /\ taken /\ t = "{" => Told(w, t) = Opened(s, "object")
        /\ taken /\ t = "[" => Told(w, t) = Opened(s, "array")
        /\ taken /\ t \in {"}", "]"} => Told(w, t) = Closed(s)
        /\ taken /\ t \in {",", ":"} => Told(w, t) = s
        /\ taken /\ t \in Strings /\ e.at = "colon" => Told(w, t) = Rd(e, h, o, Append(Front(m), TextOf[t]), k, p)
        /\ taken /\ t \in Strings /\ e.at # "colon" /\ names =>
              Told(w, t) = Rd(e, [h EXCEPT ![Last(o)].class = t], o, m, k, p)
        /\ taken /\ ((t \in Strings /\ e.at # "colon") \/ t \in {"scalar", "nan", "bad"}) /\ ~names =>
              Told(w, t) = Place(s, Scalar(t))
    <3>1. ToldAs(d, h, o, m, k, p, t) BY ToldIs
    <3>. QED BY ONLY <3>1 DEF ToldAs
  <2>2. Told(w, t) = q /\ w = r BY <1>1
  <2>4. t \in Strings \/ t \in {"{", "[", "}", "]", ",", ":", "scalar", "nan", "bad", "comment", "end"}
    BY DEF Tokens, Marks
  <2>5. t \in {"scalar", "nan", "bad"} => ~names
    <3>1. t \in {"scalar", "nan", "bad"} => t \in Marks BY DEF Marks
    <3>. QED BY <3>1, TokenSets
  <2>. HIDE DEF q, e, s, names, w
  <2>. QED BY ONLY <2>1, <2>2, <2>4, <2>5
<1>. HIDE DEF q, e, s
<1>8. Fine(q)
  <2>1. Fine(r) BY <1>1, <1>2
  <2>2. Fine(s) BY <1>2 DEF s
  <2>. QED BY <1>2, <1>4, <1>5, <1>6, <1>7, <2>1, <2>2 DEF s
<1>9. Row(k) /\ \A v : Row(Append(k, v)) BY RowMore DEF k
<1>. QED BY <1>8, <1>9 DEF Fine, q, k

\* The invariant: agreement, and what follows from it when the parser stops.
Sound == Agreement /\ Recognises /\ Delivers

\* A token t was read.
Takes(t) ==
    /\ KInv /\ Agreement /\ answer = "reading" /\ ~TooDeep
    /\ t \in Tokens /\ text' = Append(text, t) /\ meant' = Told(meant, t) /\ config' = config

\* As long as the parser reads there is nothing else to show,
LEMMA ReadingSound == KInv /\ Agreement /\ answer = "reading" => Sound
<1>. SUFFICES ASSUME KInv, Agreement, answer = "reading" PROVE Sound OBVIOUS
<1>1. Row(text) BY RowSeq DEF KInv, Read1
<1>2. Seen({"comment"}, text) <=> Has({"comment"}) BY <1>1, HasIs
<1>3. Yields(config, yielded, meant.docs, text) BY DEF Agreement
<1>4. YieldsDocuments BY <1>2, <1>3 DEF YieldsDocuments, Yields, Commented, Sparse, Callbacks
<1>. QED BY <1>4 DEF Sound, Recognises, AcceptsOnlyJson, RefusesOnlyOthers, Delivers, BuildsDocument

\* nor after a step,
LEMMA ReadingNext == (KInv /\ Agreement /\ answer = "reading" => Sound)'
<1>1. KInv /\ Agreement /\ answer = "reading" => Sound BY ReadingSound
<1>. QED BY <1>1, PTL

\* so a step that goes on reading has only to keep the agreement.
LEMMA GoesOn == ASSUME KInv', Agreement', answer' = "reading" PROVE Sound'
BY ReadingNext

\* What taking a token changes for certain.
LEMMA TakesIs ==
    ASSUME NEW t, Takes(t)
    PROVE  /\ Row(text) /\ Shape(meant') /\ Row(meant'.docs)
           /\ (meant'.docs = meant.docs \/ \E v : meant'.docs = Append(meant.docs, v))
           /\ (config.mode = "strict" => ~Has({"nan"})) /\ (meant.d = Bad => meant' = meant)
           /\ Yields(config, yielded, meant.docs, text) /\ Row(meant.docs)
           /\ (Commented(config, text) => Commented(config, text')) /\ \A kinds : Has(kinds)' <=> Has(kinds) \/ t \in kinds
           /\ (Stuck /\ meant.d = Bad) \/ Agrees(meant)
<1>1. Row(text) BY RowSeq DEF Takes, KInv, Read1
<1>2. /\ Shape(meant) /\ Row(meant.docs) /\ Yields(config, yielded, meant.docs, text)
      /\ (config.mode = "strict" => ~Has({"nan"}))
      /\ (Stuck /\ meant.d = Bad) \/ Agrees(meant)
  BY DEF Takes, Agreement
<1>3. t \in Tokens \cup {"end"} /\ text' = Append(text, t) /\ meant' = Told(meant, t) /\ config' = config BY DEF Takes
<1>4. Shape(meant') /\ Row(meant'.docs) /\ (meant'.docs = meant.docs \/ \E v : meant'.docs = Append(meant.docs, v))
  BY ONLY <1>2, <1>3, ToldKeeps
<1>5. meant.d = Bad => meant' = meant BY <1>3 DEF Told
<1>6. (Commented(config, text) => Commented(config, text')) /\ \A kinds : Has(kinds)' <=> Has(kinds) \/ t \in kinds
  BY ONLY <1>1, <1>3, CommentMore
<1>. QED BY <1>1, <1>2, <1>4, <1>5, <1>6

\* An error, and what the block has been given.
LEMMA ErrorYields ==
    ASSUME Row(text'), Row(meant.docs), Yields(config, yielded, meant.docs, text), yielded' = yielded, config' = config,
           answer' = "error", Commented(config, text) => Commented(config, text'),
           meant'.docs = meant.docs \/ \E v : meant'.docs = Append(meant.docs, v)
    PROVE  YieldsDocuments'
<1>1. ASSUME config.proc, config.mode # "callbacks", ~Commented(config, text') PROVE IsPrefix(yielded', meant'.docs)
  <2>1. yielded' = meant.docs BY <1>1 DEF Yields
  <2>. QED BY <2>1, PrefixIs
<1>2. Has({"comment"})' <=> Seen({"comment"}, text') BY HasNext
<1>. QED BY <1>1, <1>2 DEF YieldsDocuments, Callbacks, Sparse, Commented

\* A token refused for a reason the properties name.
LEMMA FailSound == ASSUME NEW t, Takes(t), Fail, RefusesOnlyOthers' PROVE Sound'
<1>1. /\ Row(text) /\ Shape(meant') /\ Row(meant'.docs)
      /\ (meant'.docs = meant.docs \/ \E v : meant'.docs = Append(meant.docs, v))
      /\ Yields(config, yielded, meant.docs, text) /\ Row(meant.docs)
      /\ (Commented(config, text) => Commented(config, text'))
  BY TakesIs
<1>2. answer' = "error" /\ yielded' = yielded /\ config' = config /\ text' = Append(text, t) BY DEF Fail, Takes
<1>3. Row(text') BY <1>1, <1>2, RowMore
<1>4. YieldsDocuments' BY ONLY <1>1, <1>2, <1>3, ErrorYields
<1>5. Agreement' BY <1>1, <1>2 DEF Agreement
<1>. QED BY <1>2, <1>4, <1>5 DEF Sound, Recognises, AcceptsOnlyJson, Delivers, BuildsDocument

\* A token refused that the grammar refuses.
LEMMA BadSound == ASSUME NEW t, Takes(t), Fail, meant'.d = Bad PROVE Sound'
<1>1. RefusesOnlyOthers' BY DEF RefusesOnlyOthers
<1>. QED BY <1>1, FailSound

\* A token the grammar refuses, after which the parser can only fail.
LEMMA BeyondSound ==
    ASSUME NEW t, Takes(t), KInv', meant'.d = Bad, meant'.docs = meant.docs, Stuck', answer' = answer, yielded' = yielded,
           config.mode = "strict" => t # "nan"
    PROVE  Sound'
<1>1. /\ Shape(meant') /\ Row(meant'.docs) /\ Yields(config, yielded, meant.docs, text)
      /\ (config.mode = "strict" => ~Has({"nan"}))
      /\ (Commented(config, text) => Commented(config, text')) /\ \A kinds : Has(kinds)' <=> Has(kinds) \/ t \in kinds
  BY TakesIs
<1>2. config' = config /\ answer = "reading" BY DEF Takes
<1>3. Yields(config, yielded, meant.docs, text)' BY <1>1, <1>2 DEF Yields
<1>4. (config.mode = "strict" => ~Has({"nan"}))' BY <1>1, <1>2
<1>5. Agreement' BY <1>1, <1>2, <1>3, <1>4 DEF Agreement
<1>. QED BY <1>2, <1>5, GoesOn

\* A token after the text went wrong.
LEMMA StuckSound ==
    ASSUME NEW t, Takes(t), KInv', meant.d = Bad, Stuck', answer' = answer, yielded' = yielded,
           config.mode = "strict" => t # "nan"
    PROVE  Sound'
<1>1. meant' = meant BY TakesIs
<1>2. meant'.d = Bad /\ meant'.docs = meant.docs BY <1>1
<1>. QED BY <1>2, BeyondSound

\* A token after which both sides agree again.
LEMMA GoodSound ==
    ASSUME NEW t, Takes(t), KInv', Agrees(meant)', Yields(config, yielded, meant.docs, text)', answer' = answer,
           config.mode = "strict" => t # "nan"
    PROVE  Sound'
<1>1. /\ Shape(meant') /\ Row(meant'.docs)
      /\ (config.mode = "strict" => ~Has({"nan"}))
      /\ \A kinds : Has(kinds)' <=> Has(kinds) \/ t \in kinds
  BY TakesIs
<1>2. config' = config /\ answer = "reading" BY DEF Takes
<1>4. (config.mode = "strict" => ~Has({"nan"}))' BY <1>1, <1>2
<1>5. Agreement' BY <1>1, <1>2, <1>4 DEF Agreement
<1>. QED BY <1>2, <1>5, GoesOn

\* The containers below the top stay what they are.
LEMMA StuckStays ==
    ASSUME Stuck, tail \in Nat, tail' \in Nat, tail <= tail', \A i \in 1..tail - 1 : slots'[i] = slots[i]
    PROVE  Stuck'
<1>1. PICK i \in 1..tail - 1 : slots[i].next \notin ExpectsValue BY DEF Stuck
<1>2. \A m, n \in Nat : m <= n => \A k \in 1..m - 1 : k \in 1..n - 1 OBVIOUS
<1>3. i \in 1..tail' - 1
  <2>1. i \in 1..tail - 1 BY <1>1
  <2>. QED BY <1>2, <2>1
<1>. QED BY <1>1, <1>3 DEF Stuck

-----------------------------------------------------------------------------
(* What the reader does with each token.                                     *)

\* A handler that reads takes its token.
LEMMA ReadsTakes ==
    ASSUME KInv, Agreement, NEW tokens, tokens \subseteq Tokens, Reads(tokens)
    PROVE  Takes(token) /\ token \in tokens
<1>1. /\ token \in tokens /\ text' = Append(text, token) /\ meant' = Told(meant, token)
      /\ config' = config /\ answer = "reading" /\ ~TooDeep
  BY ReadsIs DEF KInv
<1>. QED BY <1>1 DEF Takes

\* The state of the innermost container.
LEMMA NextIsOf ==
    ASSUME tail \in Nat
    PROVE  /\ \A states : NextIs(states) <=> tail # 0 /\ NextOf(slots, tail) \in states
           /\ TakenIn(tail) <=> tail = 0 \/ NextOf(slots, tail) \in ExpectsValue
BY DEF NextIs, TakenIn, NextOf

\* The fields of meant, and the kinds of the containers the text is in.
LEMMA MeantIs ==
    ASSUME NEW t, Takes(t), Agrees(meant)
    PROVE  /\ meant = Rd(meant.d, meant.heap, meant.open, meant.names, meant.docs, meant.deep)
           /\ ToldAs(meant.d, meant.heap, meant.open, meant.names, meant.docs, meant.deep, t)
           /\ meant' = Told(meant, t)
           /\ tail \in Nat /\ Stands(slots, tail, meant.d) /\ meant.d # Bad
<1>1. Shape(meant) BY DEF Takes, Agreement
<1>2. tail \in Nat BY DEF Takes, KInv, Kept, Slots, Row
<1>3. t \in Tokens \cup {"end"} /\ meant' = Told(meant, t) BY DEF Takes
<1>4. ToldAs(meant.d, meant.heap, meant.open, meant.names, meant.docs, meant.deep, t) BY <1>3, ToldIs
<1>5. Stands(slots, tail, meant.d) BY DEF Agrees
<1>6. meant.d # Bad BY <1>2, <1>5, SpotIs
<1>7. meant = Rd(meant.d, meant.heap, meant.open, meant.names, meant.docs, meant.deep) BY <1>1 DEF Shape, Rd
<1>. QED BY <1>2, <1>3, <1>4, <1>5, <1>6, <1>7

\* Whether a value may come.
ValueDue == tail = 0 \/ NextOf(slots, tail) \in ExpectsValue

\* The reader opens a container where a value is due, and only there.
LEMMA MeantOpen ==
    ASSUME NEW t, Takes(t), Agrees(meant), NEW kind, (t = "{" /\ kind = "object") \/ (t = "[" /\ kind = "array")
    PROVE  LET at == IF kind = "object" THEN "name or }" ELSE "element or ]"
           IN  /\ ~ValueDue => meant'.d = Bad /\ meant'.docs = meant.docs
               /\ ValueDue => meant' = Rd([at |-> at, open |-> Append(meant.d.open, kind)], Append(meant.heap, New(kind)),
                                Append(meant.open, Len(meant.heap) + 1), Append(meant.names, <<>>), meant.docs,
                                IF Len(meant.open) < meant.deep THEN meant.deep ELSE Len(meant.open) + 1)
<1>. DEFINE at == IF kind = "object" THEN "name or }" ELSE "element or ]"
            d == meant.d
            h == meant.heap
            o == meant.open
            m == meant.names
            k == meant.docs
            p == meant.deep
            e == [at |-> at, open |-> Append(d.open, kind)]
<1>1. /\ meant = Rd(d, h, o, m, k, p) /\ ToldAs(d, h, o, m, k, p, t) /\ meant' = Told(meant, t)
      /\ tail \in Nat /\ Stands(slots, tail, d) /\ d # Bad
  BY MeantIs
<1>2. Worth(t) = t /\ t # "end" /\ t # "comment" BY WorthIs
<1>3. Read(d, t) = IF ValueDue THEN e ELSE Bad
  <2>1. /\ Read(d, "{") = IF ValueDue THEN [at |-> "name or }", open |-> Append(d.open, "object")] ELSE Bad
        /\ Read(d, "[") = IF ValueDue THEN [at |-> "element or ]", open |-> Append(d.open, "array")] ELSE Bad
    BY <1>1, ReadIs DEF ValueDue
  <2>2. CASE t = "{" /\ kind = "object" BY ONLY <2>1, <2>2
  <2>3. CASE t = "[" /\ kind = "array" BY ONLY <2>1, <2>3
  <2>. QED BY <2>2, <2>3
<1>4. e # Bad
  <2>1. e.at # Bad.at BY DEF Bad
  <2>. QED BY <2>1
<1>. HIDE DEF d, h, o, m, k, p, e
<1>5. ASSUME ~ValueDue PROVE meant'.d = Bad /\ meant'.docs = k
  <2>1. meant' = Rd(Bad, h, o, m, k, p) BY <1>1, <1>2, <1>3, <1>5 DEF ToldAs
  <2>. QED BY ONLY <2>1, RdPut
<1>6. ASSUME ValueDue
      PROVE  meant' = Rd(e, Append(h, New(kind)), Append(o, Len(h) + 1), Append(m, <<>>), k, IF Len(o) < p THEN p ELSE Len(o) + 1)
  <2>1. meant' = Opened(Rd(e, h, o, m, k, p), kind) BY <1>1, <1>2, <1>3, <1>4, <1>6 DEF ToldAs
  <2>. QED BY ONLY <2>1, OpenedIs
<1>. QED BY <1>5, <1>6 DEF d, h, o, m, k, p, e

\* The reader closes a container where it may be closed, and only there.
LEMMA MeantClose ==
    ASSUME NEW t, Takes(t), Agrees(meant), NEW states,
           (t = "}" /\ states = {"HASH_COMMA", "HASH_NEW"}) \/ (t = "]" /\ states = {"ARRAY_COMMA", "ARRAY_NEW"})
    PROVE  /\ ~NextIs(states) => meant'.d = Bad
           /\ NextIs(states) => meant' = Place(Rd(Past(Front(meant.d.open)), meant.heap, Front(meant.open), Front(meant.names),
                                meant.docs, meant.deep), Container(Last(meant.open)))
<1>. DEFINE d == meant.d
            h == meant.heap
            o == meant.open
            m == meant.names
            k == meant.docs
            p == meant.deep
            e == Past(Front(d.open))
<1>1. /\ meant = Rd(d, h, o, m, k, p) /\ ToldAs(d, h, o, m, k, p, t) /\ meant' = Told(meant, t)
      /\ tail \in Nat /\ Stands(slots, tail, d) /\ d # Bad
  BY MeantIs
<1>2. Worth(t) = t /\ t # "end" /\ t # "comment" BY WorthIs
<1>3. Read(d, t) = IF NextIs(states) THEN e ELSE Bad
  <2>0. /\ Read(d, "}") = IF NextOf(slots, tail) \in {"HASH_COMMA", "HASH_NEW"} THEN e ELSE Bad
        /\ Read(d, "]") = IF NextOf(slots, tail) \in {"ARRAY_COMMA", "ARRAY_NEW"} THEN e ELSE Bad
    BY <1>1, ReadIs
  <2>1. Read(d, t) = IF NextOf(slots, tail) \in states THEN e ELSE Bad
    <3>1. CASE t = "}" /\ states = {"HASH_COMMA", "HASH_NEW"} BY ONLY <2>0, <3>1
    <3>2. CASE t = "]" /\ states = {"ARRAY_COMMA", "ARRAY_NEW"} BY ONLY <2>0, <3>2
    <3>. QED BY <3>1, <3>2
  <2>2. NextOf(slots, tail) \in states => tail # 0 BY DEF NextOf
  <2>. QED BY <1>1, <2>1, <2>2, NextIsOf
<1>4. e # Bad BY PastIs
<1>. HIDE DEF d, h, o, m, k, p, e
<1>5. ASSUME ~NextIs(states) PROVE meant'.d = Bad
  <2>1. meant' = Rd(Bad, h, o, m, k, p) BY <1>1, <1>2, <1>3, <1>5 DEF ToldAs
  <2>. QED BY ONLY <2>1, RdPut
<1>6. ASSUME NextIs(states) PROVE meant' = Place(Rd(e, h, Front(o), Front(m), k, p), Container(Last(o)))
  <2>1. meant' = Closed(Rd(e, h, o, m, k, p)) BY <1>1, <1>2, <1>3, <1>4, <1>6 DEF ToldAs
  <2>. QED BY ONLY <2>1, ClosedIs
<1>. QED BY <1>5, <1>6 DEF d, h, o, m, k, p, e

\* The reader takes a comma or a colon where one is due, and only there.
LEMMA MeantMark ==
    ASSUME NEW t, Takes(t), Agrees(meant), NEW states,
           (t = "," /\ states = {"ARRAY_COMMA", "HASH_COMMA"}) \/ (t = ":" /\ states = {"HASH_COLON"})
    PROVE  LET at == IF t = ":" THEN "member" ELSE IF NextIs({"HASH_COMMA"}) THEN "name" ELSE "element"
           IN  /\ ~NextIs(states) => meant'.d = Bad
               /\ NextIs(states) => meant' = Rd([at |-> at, open |-> meant.d.open], meant.heap, meant.open, meant.names,
                                meant.docs, meant.deep)
<1>. DEFINE at == IF t = ":" THEN "member" ELSE IF NextIs({"HASH_COMMA"}) THEN "name" ELSE "element"
            d == meant.d
            h == meant.heap
            o == meant.open
            m == meant.names
            k == meant.docs
            p == meant.deep
            e == [at |-> at, open |-> d.open]
<1>1. /\ meant = Rd(d, h, o, m, k, p) /\ ToldAs(d, h, o, m, k, p, t) /\ meant' = Told(meant, t)
      /\ tail \in Nat /\ Stands(slots, tail, d) /\ d # Bad
  BY MeantIs
<1>2. Worth(t) = t /\ t # "end" /\ t # "comment" BY WorthIs
<1>3. Read(d, t) = IF NextIs(states) THEN e ELSE Bad
  <2>1. NextOf(slots, tail) # "NONE" => tail # 0 BY DEF NextOf
  <2>10. ASSUME NEW some PROVE NextIs(some) <=> tail # 0 /\ NextOf(slots, tail) \in some BY <1>1, NextIsOf
  <2>2. NextIs({"HASH_COMMA"}) <=> NextOf(slots, tail) = "HASH_COMMA"
    <3>1. NextIs({"HASH_COMMA"}) <=> tail # 0 /\ NextOf(slots, tail) \in {"HASH_COMMA"} BY ONLY <2>10
    <3>. QED BY ONLY <2>1, <3>1
  <2>3. NextIs({"HASH_COLON"}) <=> NextOf(slots, tail) = "HASH_COLON"
    <3>1. NextIs({"HASH_COLON"}) <=> tail # 0 /\ NextOf(slots, tail) \in {"HASH_COLON"} BY ONLY <2>10
    <3>. QED BY ONLY <2>1, <3>1
  <2>4. NextIs({"ARRAY_COMMA", "HASH_COMMA"}) <=> NextOf(slots, tail) \in {"ARRAY_COMMA", "HASH_COMMA"}
    <3>1. NextIs({"ARRAY_COMMA", "HASH_COMMA"}) <=> tail # 0 /\ NextOf(slots, tail) \in {"ARRAY_COMMA", "HASH_COMMA"}
      BY ONLY <2>10
    <3>. QED BY ONLY <2>1, <3>1
  <2>5. /\ Read(d, ",") = IF NextOf(slots, tail) \in {"ARRAY_COMMA", "HASH_COMMA"}
                                 THEN [at |-> IF NextOf(slots, tail) = "HASH_COMMA" THEN "name" ELSE "element", open |-> d.open] ELSE Bad
        /\ Read(d, ":") = IF NextOf(slots, tail) = "HASH_COLON" THEN [at |-> "member", open |-> d.open] ELSE Bad
    BY <1>1, ReadIs
  <2>6. CASE t = ","
    <3>1. Read(d, ",") = IF NextIs({"ARRAY_COMMA", "HASH_COMMA"})
            THEN [at |-> IF NextIs({"HASH_COMMA"}) THEN "name" ELSE "element", open |-> d.open] ELSE Bad
      BY ONLY <2>2, <2>4, <2>5
    <3>. QED BY <2>6, <3>1
  <2>7. CASE t = ":" BY <2>3, <2>5, <2>7
  <2>. QED BY <2>6, <2>7
<1>4. e # Bad
  <2>1. e.at # Bad.at BY DEF Bad
  <2>. QED BY <2>1
<1>. HIDE DEF d, h, o, m, k, p, e
<1>5. ASSUME ~NextIs(states) PROVE meant'.d = Bad
  <2>1. meant' = Rd(Bad, h, o, m, k, p) BY <1>1, <1>2, <1>3, <1>5 DEF ToldAs
  <2>. QED BY ONLY <2>1, RdPut
<1>6. ASSUME NextIs(states) PROVE meant' = Rd(e, h, o, m, k, p)
  BY <1>1, <1>2, <1>3, <1>4, <1>6 DEF ToldAs
<1>. QED BY <1>5, <1>6 DEF d, h, o, m, k, p, e

\* A string that names a class.
Naming == config.create /\ NextOf(slots, tail) = "HASH_VALUE" /\ tail # 0 /\ Last(meant.names) = CreateId

\* The reader takes a string, a number or a word: as a name, as a class, or as a value.
LEMMA MeantValue ==
    ASSUME NEW t, Takes(t), Agrees(meant), t \in Strings \cup {"scalar", "nan"}
    PROVE  /\ ~ValueDue /\ (t \in Strings => ~NextIs(ExpectsKey)) => meant'.d = Bad
           /\ t \in Strings /\ NextIs(ExpectsKey) =>
                meant' = Rd([at |-> "colon", open |-> meant.d.open], meant.heap, meant.open,
                            Append(Front(meant.names), TextOf[t]), meant.docs, meant.deep)
           /\ t \in Strings /\ ValueDue /\ Naming =>
                meant' = Rd(Past(meant.d.open), Classed(meant.heap, Last(meant.open), t), meant.open, meant.names,
                            meant.docs, meant.deep)
           /\ ValueDue /\ ~(t \in Strings /\ Naming) =>
                meant' = Place(Rd(Past(meant.d.open), meant.heap, meant.open, meant.names, meant.docs, meant.deep), Scalar(t))
<1>. DEFINE d == meant.d
            h == meant.heap
            o == meant.open
            m == meant.names
            k == meant.docs
            p == meant.deep
            e == Past(d.open)
            f == [at |-> "colon", open |-> d.open]
            next == NextOf(slots, tail)
<1>1. /\ meant = Rd(d, h, o, m, k, p) /\ ToldAs(d, h, o, m, k, p, t) /\ meant' = Told(meant, t)
      /\ tail \in Nat /\ Stands(slots, tail, d) /\ d # Bad
  BY MeantIs
<1>2. t \in Strings => t \notin Marks BY TokenSets
<1>3. /\ t # "end" /\ t # "comment" /\ (t \in Strings => Worth(t) = "string") /\ (t \notin Strings => Worth(t) = "value")
      /\ (t \notin Strings => t \in {"scalar", "nan"}) /\ t \notin {"{", "[", "}", "]", ",", ":"}
  BY <1>2, WorthIs DEF Marks
<1>4. /\ Read(d, "value") = IF ValueDue THEN e ELSE Bad
      /\ Read(d, "string") = IF ValueDue THEN e ELSE IF next \in ExpectsKey THEN f ELSE Bad
  BY <1>1, ReadIs DEF ValueDue
<1>5. e # Bad /\ f # Bad /\ e.at # "colon" /\ f.at = "colon"
  <2>1. f.at # Bad.at BY DEF Bad
  <2>. QED BY <2>1, PastIs
<1>6. /\ NextIs(ExpectsKey) <=> next \in ExpectsKey
      /\ next \in ExpectsKey => ~ValueDue
  BY <1>1, NextIsOf DEF NextOf, ExpectsKey, ExpectsValue, ValueDue
<1>7. Naming <=> config.create /\ d.at = "member" /\ Last(m) = CreateId
  <2>1. d.at = "member" <=> next = "HASH_VALUE" BY <1>1, SpotIs
  <2>2. next = "HASH_VALUE" => tail # 0 BY DEF NextOf
  <2>. QED BY <2>1, <2>2 DEF Naming
<1>. HIDE DEF d, h, o, m, k, p, e, f, next
<1>8. ASSUME ~ValueDue, t \in Strings => ~NextIs(ExpectsKey) PROVE meant'.d = Bad
  <2>1. Read(d, Worth(t)) = Bad BY <1>3, <1>4, <1>6, <1>8
  <2>2. meant' = Rd(Bad, h, o, m, k, p) BY <1>1, <1>3, <2>1 DEF ToldAs
  <2>. QED BY <2>2, RdPut
<1>9. ASSUME t \in Strings, NextIs(ExpectsKey) PROVE meant' = Rd(f, h, o, Append(Front(m), TextOf[t]), k, p)
  <2>1. Read(d, Worth(t)) = f BY <1>3, <1>4, <1>6, <1>9
  <2>. QED BY <1>1, <1>3, <1>5, <1>9, <2>1 DEF ToldAs
<1>10. ASSUME t \in Strings, ValueDue, Naming PROVE meant' = Rd(e, Classed(h, Last(o), t), o, m, k, p)
  <2>1. Read(d, Worth(t)) = e BY <1>3, <1>4, <1>10
  <2>. DEFINE g == [h EXCEPT ![Last(o)].class = t]
  <2>2. meant' = Rd(e, g, o, m, k, p) BY <1>1, <1>3, <1>5, <1>7, <1>10, <2>1 DEF ToldAs
  <2>3. g = Classed(h, Last(o), t) BY DEF Classed
  <2>. HIDE DEF g
  <2>. QED BY <2>2, <2>3
<1>11. ASSUME ValueDue, ~(t \in Strings /\ Naming) PROVE meant' = Place(Rd(e, h, o, m, k, p), Scalar(t))
  <2>1. Read(d, Worth(t)) = e BY <1>3, <1>4, <1>11
  <2>. QED BY <1>1, <1>3, <1>5, <1>7, <1>11, <2>1 DEF ToldAs
<1>. QED BY <1>8, <1>9, <1>10, <1>11 DEF d, h, o, m, k, p, e, f

\* The reader takes a comment, and what is no token.
LEMMA MeantOther ==
    ASSUME NEW t, Takes(t), Agrees(meant)
    PROVE  (t = "bad" => meant'.d = Bad) /\ (t = "comment" => meant' = meant)
<1>. DEFINE d == meant.d
            h == meant.heap
            o == meant.open
            m == meant.names
            k == meant.docs
            p == meant.deep
<1>1. /\ meant = Rd(d, h, o, m, k, p) /\ ToldAs(d, h, o, m, k, p, t) /\ meant' = Told(meant, t)
      /\ tail \in Nat /\ Stands(slots, tail, d) /\ d # Bad
  BY MeantIs
<1>2. Worth("bad") = "bad" BY WorthIs
<1>3. Read(d, "bad") = Bad BY <1>1, ReadIs
<1>. HIDE DEF d, h, o, m, k, p
<1>4. ASSUME t = "bad" PROVE meant'.d = Bad
  <2>1. meant' = Rd(Bad, h, o, m, k, p) BY <1>1, <1>2, <1>3, <1>4 DEF ToldAs
  <2>. QED BY <2>1, RdPut
<1>5. ASSUME t = "comment" PROVE meant' = meant BY <1>1, <1>5 DEF ToldAs
<1>. QED BY <1>4, <1>5

-----------------------------------------------------------------------------
(* Step by step: the two agree after each, or the parser stops as it may.    *)

\* The documents when no value is complete.
LEMMA DocumentsStay ==
    ASSUME NEW t, Takes(t), NEW n \in Nat, NEW val, Documents(config, first, tail, slots[1].val, meant.docs, text),
           (n = 0 => tail = 0 /\ val = slots[1].val), first \/ n = 0
    PROVE  Documents(config, first, n, val, meant.docs, text')
<1>1. Commented(config, text) => Commented(config, text') BY TakesIs
<1>. QED BY <1>1 DEF Documents

\* A step that completes no document gives the block nothing.
LEMMA YieldsStay ==
    ASSUME NEW t, Takes(t), meant'.docs = meant.docs, yielded' = yielded
    PROVE  Yields(config, yielded, meant.docs, text)'
<1>1. (Commented(config, text) => Commented(config, text')) /\ Yields(config, yielded, meant.docs, text) BY TakesIs
<1>2. config' = config BY DEF Takes
<1>. QED BY <1>1, <1>2 DEF Yields

\* The innermost container waits for something else.
LEMMA TopChanges ==
    ASSUME NEW t, Takes(t), Agrees(meant), tail # 0, Slots(slots'), Len(slots') = Len(slots),
           slots'[tail].val = slots[tail].val, slots'[tail].classname = slots[tail].classname,
           \A i \in 1..Len(slots) : i # tail => slots'[i] = slots[i],
           UNCHANGED <<tail, room, block, heap, first>>, yielded' = yielded,
           NEW a, NEW l, Row(l), Len(l) = tail, \A i \in 1..tail - 1 : l[i] = meant.names[i],
           meant' = Rd([at |-> a, open |-> meant.d.open], meant.heap, meant.open, l, meant.docs, meant.deep),
           Spot(slots'[tail].next, meant.d.open[tail], a),
           Exact' /\ slots'[tail].next \in {"HASH_COLON", "HASH_VALUE"} => Named(config, slots'[tail].key, l[tail]),
           first
    PROVE  Agrees(meant)' /\ Yields(config, yielded, meant.docs, text)'
<1>. DEFINE d == meant.d
            h == heap
            g == meant.heap
            o == meant.open
            m == meant.names
            e == [at |-> a, open |-> d.open]
<1>1. /\ Stands(slots, tail, d) /\ Row(m) /\ Len(m) = tail /\ Holds(slots, tail, h, o, d.open) /\ Alike(h, g)
      /\ (Exact => Same(config, slots, tail, h, o, m, g))
      /\ Documents(config, first, tail, slots[1].val, meant.docs, text) /\ Depth(config, tail, meant.deep)
  BY DEF Agrees
<1>2. tail \in Nat /\ tail > 0 /\ Len(slots) \in Nat /\ tail <= Len(slots) /\ block \in Nat /\ Row(text)
  <2>1. Slots(slots) /\ tail \in 0..Len(slots) /\ block \in Nat BY DEF Takes, KInv, Kept
  <2>2. Row(text) BY RowSeq DEF Takes, KInv, Read1
  <2>. QED BY <2>1, <2>2 DEF Slots, Row
<1>3. /\ meant'.d = e /\ meant'.heap = g /\ meant'.open = o /\ meant'.names = l /\ meant'.docs = meant.docs
      /\ meant'.deep = meant.deep
  BY RdPut
<1>4. text' = Append(text, t) /\ config' = config BY DEF Takes
<1>5. Exact' => Exact
  <2>1. block' \in Nat /\ block <= block' BY <1>2
  <2>. QED BY <1>2, <1>4, <2>1, ExactBack
<1>6. \A i \in 1..tail : i = tail \/ (i \in 1..tail - 1 /\ slots'[i] = slots[i] /\ l[i] = m[i])
  <2>1. \A i \in 1..tail : i \in 1..Len(slots) /\ (i = tail \/ i \in 1..tail - 1) BY <1>2
  <2>. QED BY <2>1
<1>7. e = [at |-> e.at, open |-> e.open] /\ e.open = d.open /\ e.at = a OBVIOUS
<1>. HIDE DEF e
<1>8. Stands(slots', tail, e)
  <2>1. Row(d.open) /\ Len(d.open) = tail /\ WaitAll(slots, tail - 1, d.open) BY <1>1, <1>2 DEF Stands
  <2>2. \A i \in 1..tail - 1 : i \in 1..tail /\ i # tail BY <1>2
  <2>3. WaitAll(slots', tail - 1, d.open) BY ONLY <1>6, <2>1, <2>2 DEF WaitAll
  <2>. QED BY <1>2, <1>7, <2>1, <2>3 DEF Stands
<1>9. Holds(slots', tail, h, o, e.open)
  <2>1. /\ Row(o) /\ Len(o) = tail
        /\ \A i \in 1..tail : /\ o[i] \in 1..Len(h) /\ slots[i].val = Container(o[i])
                              /\ d.open[i] = h[o[i]].kind /\ (d.open[i] = "array" => slots[i].classname = None)
        /\ \A i, j \in 1..tail : i # j => o[i] # o[j]
    BY <1>1 DEF Holds
  <2>2. \A i \in 1..tail : slots'[i].val = slots[i].val /\ slots'[i].classname = slots[i].classname BY <1>6
  <2>. HIDE DEF d, o, h
  <2>. QED BY ONLY <1>7, <2>1, <2>2 DEF Holds
<1>10. ASSUME Exact' PROVE Same(config, slots', tail, h, o, l, g)
  <2>1. Same(config, slots, tail, h, o, m, g) BY <1>1, <1>5, <1>10
  <2>. HIDE DEF h, o, m, g
  <2>2. /\ \A i \in 1..Len(h) : g[i].in = h[i].in
        /\ \A i \in 1..Len(h) : g[i].class = h[i].class \/ \E j \in 1..tail : i = o[j]
        /\ \A i \in 1..tail : g[o[i]].class = slots[i].classname
        /\ \A i \in 1..tail : slots[i].next \in {"HASH_COLON", "HASH_VALUE"} => Named(config, slots[i].key, m[i])
    BY <2>1 DEF Same
  <2>3. \A i \in 1..tail : slots'[i].classname = slots[i].classname BY <1>6
  <2>4. \A i \in 1..tail : slots'[i].next \in {"HASH_COLON", "HASH_VALUE"} => Named(config, slots'[i].key, l[i])
    BY <1>6, <1>10, <2>2
  <2>. QED BY ONLY <2>2, <2>3, <2>4 DEF Same
<1>11. Documents(config, first, tail, slots'[1].val, meant.docs, text') BY <1>1, <1>2, DocumentsStay
<1>12. Agrees(meant)'
  BY ONLY <1>1, <1>3, <1>4, <1>8, <1>9, <1>10, <1>11, Row(l), Len(l) = tail, UNCHANGED <<tail, room, block, heap, first>> DEF Agrees, h
<1>13. Yields(config, yielded, meant.docs, text)' BY <1>3, YieldsStay
<1>. QED BY <1>12, <1>13

\* A text that went wrong is refused.
LEMMA StuckFails == ASSUME NEW t, Takes(t), Fail, meant.d = Bad PROVE Sound'
<1>1. meant' = meant BY TakesIs
<1>2. meant'.d = Bad BY <1>1
<1>. QED BY <1>2, BadSound

\* Only the innermost container changes, in a text that has gone wrong.
LEMMA StuckTop ==
    ASSUME NEW t, Takes(t), KInv', Stuck, meant.d = Bad, answer' = answer, yielded' = yielded, tail' = tail,
           \A i \in 1..Len(slots) : i # tail => slots'[i] = slots[i], config.mode = "strict" => t # "nan"
    PROVE  Sound'
<1>1. tail \in Nat /\ tail <= Len(slots) /\ Len(slots) \in Nat BY DEF Takes, KInv, Kept, Slots, Row
<1>2. \A i \in 1..tail - 1 : slots'[i] = slots[i]
  <2>1. \A i \in 1..tail - 1 : i \in 1..Len(slots) /\ i # tail BY <1>1
  <2>. QED BY <2>1
<1>3. tail' \in Nat /\ tail <= tail' BY <1>1
<1>4. Stuck' BY ONLY <1>1, <1>2, <1>3, Stuck, StuckStays
<1>. QED BY <1>4, StuckSound

\* What a container on the stack waits for, of what kind it is.
LEMMA TopSpot ==
    ASSUME tail # 0, Agrees(meant)
    PROVE  /\ Spot(slots[tail].next, meant.d.open[tail], meant.d.at) /\ NextOf(slots, tail) = slots[tail].next
           /\ Row(meant.names) /\ Len(meant.names) = tail
BY DEF Agrees, Stands, NextOf

\* A comma.
LEMMA CommaSound == ASSUME KInv, KInv', Agreement, Comma PROVE Sound'
<1>1. Takes(token) /\ token = ","
  <2>1. Reads({","}) BY DEF Comma
  <2>2. Takes(token) /\ token \in {","} BY ONLY KInv, Agreement, <2>1, TokenSets, ReadsTakes
  <2>. QED BY <2>2
<1>. DEFINE states == {"ARRAY_COMMA", "HASH_COMMA"}
<1>2. CASE ~NextIs(states)
  <2>1. Fail BY <1>2 DEF Comma
  <2>2. CASE meant.d = Bad BY <1>1, <2>1, <2>2, StuckFails
  <2>3. CASE Agrees(meant)
    <3>1. meant'.d = Bad BY <1>1, <1>2, <2>3, MeantMark
    <3>. QED BY <1>1, <2>1, <3>1, BadSound
  <2>. QED BY <1>1, <2>2, <2>3, TakesIs
<1>3. CASE NextIs(states)
  <2>1. tail \in 1..Len(slots) /\ Slots(slots) /\ Len(slots) \in Nat /\ slots[tail].next \in states
    BY <1>3, NextTail DEF KInv, Kept, Slots, Row
  <2>. DEFINE next == IF slots[tail].next = "ARRAY_COMMA" THEN "ARRAY_ELEMENT" ELSE "HASH_KEY"
              a == IF NextIs({"HASH_COMMA"}) THEN "name" ELSE "element"
  <2>2. slots' = WithNext(slots, tail, next) /\ UNCHANGED <<tail, room, block, heap, first, calls>> /\ first
    BY <1>3 DEF Comma, WithNext
  <2>3. next \in Nexts BY DEF Nexts
  <2>4. NextIs({"HASH_COMMA"}) <=> slots[tail].next = "HASH_COMMA" BY <2>1 DEF NextIs
  <2>. HIDE DEF next
  <2>5. /\ Slots(slots') /\ Len(slots') = Len(slots) /\ slots'[tail].val = slots[tail].val
        /\ slots'[tail].classname = slots[tail].classname /\ slots'[tail].next = next
        /\ \A i \in 1..Len(slots) : i # tail => slots'[i] = slots[i]
    BY <2>1, <2>2, <2>3, NextPut
  <2>6. answer' = answer /\ yielded' = yielded /\ tail' = tail BY <2>2 DEF calls
  <2>7. CASE Stuck /\ meant.d = Bad BY <1>1, <2>5, <2>6, <2>7, StuckTop
  <2>8. CASE Agrees(meant)
    <3>1. meant' = Rd([at |-> a, open |-> meant.d.open], meant.heap, meant.open, meant.names, meant.docs, meant.deep)
      <4>. DEFINE b == IF token = ":" THEN "member" ELSE IF NextIs({"HASH_COMMA"}) THEN "name" ELSE "element"
      <4>1. (token = "," /\ states = {"ARRAY_COMMA", "HASH_COMMA"}) \/ (token = ":" /\ states = {"HASH_COLON"}) BY <1>1
      <4>2. meant' = Rd([at |-> b, open |-> meant.d.open], meant.heap, meant.open, meant.names, meant.docs, meant.deep)
        <5>. HIDE DEF states
        <5>. QED BY ONLY <1>1, <1>3, <2>8, <4>1, MeantMark
      <4>3. b = a BY <1>1
      <4>. HIDE DEF a, b
      <4>. QED BY ONLY <4>2, <4>3
    <3>2. Spot(slots[tail].next, meant.d.open[tail], meant.d.at) /\ Row(meant.names) /\ Len(meant.names) = tail
      BY <2>1, <2>8, TopSpot
    <3>3. Spot(next, meant.d.open[tail], a) BY ONLY <2>1, <2>4, <3>2 DEF Spot, next
    <3>. HIDE DEF a
    <3>4. next \notin {"HASH_COLON", "HASH_VALUE"} BY DEF next
    <3>5. tail # 0 BY <2>1
    <3>6. Agrees(meant)' /\ Yields(config, yielded, meant.docs, text)'
      BY ONLY <1>1, <2>2, <2>5, <2>6, <2>8, <3>1, <3>2, <3>3, <3>4, <3>5, TopChanges
    <3>. QED BY <1>1, <2>6, <3>6, GoodSound
  <2>. QED BY <1>1, <2>7, <2>8, TakesIs
<1>. QED BY <1>2, <1>3

\* A colon.
LEMMA ColonSound == ASSUME KInv, KInv', Agreement, Colon PROVE Sound'
<1>1. Takes(token) /\ token = ":"
  <2>1. Reads({":"}) BY DEF Colon
  <2>2. Takes(token) /\ token \in {":"} BY ONLY KInv, Agreement, <2>1, TokenSets, ReadsTakes
  <2>. QED BY <2>2
<1>. DEFINE states == {"HASH_COLON"}
<1>2. CASE ~NextIs(states)
  <2>1. Fail BY <1>2 DEF Colon
  <2>2. CASE meant.d = Bad BY <1>1, <2>1, <2>2, StuckFails
  <2>3. CASE Agrees(meant)
    <3>1. meant'.d = Bad BY <1>1, <1>2, <2>3, MeantMark
    <3>. QED BY <1>1, <2>1, <3>1, BadSound
  <2>. QED BY <1>1, <2>2, <2>3, TakesIs
<1>3. CASE NextIs(states)
  <2>1. tail \in 1..Len(slots) /\ Slots(slots) /\ Len(slots) \in Nat /\ slots[tail].next = "HASH_COLON"
    BY <1>3, NextTail DEF KInv, Kept, Slots, Row
  <2>2. slots' = WithNext(slots, tail, "HASH_VALUE") /\ UNCHANGED <<tail, room, block, heap, first, calls>> /\ first
    BY <1>3 DEF Colon, WithNext
  <2>3. "HASH_VALUE" \in Nexts BY DEF Nexts
  <2>5. /\ Slots(slots') /\ Len(slots') = Len(slots) /\ slots'[tail].val = slots[tail].val /\ slots'[tail].key = slots[tail].key
        /\ slots'[tail].classname = slots[tail].classname /\ slots'[tail].next = "HASH_VALUE"
        /\ \A i \in 1..Len(slots) : i # tail => slots'[i] = slots[i]
    BY <2>1, <2>2, <2>3, NextPut
  <2>6. answer' = answer /\ yielded' = yielded /\ tail' = tail BY <2>2 DEF calls
  <2>7. CASE Stuck /\ meant.d = Bad BY <1>1, <2>5, <2>6, <2>7, StuckTop
  <2>8. CASE Agrees(meant)
    <3>1. meant' = Rd([at |-> "member", open |-> meant.d.open], meant.heap, meant.open, meant.names, meant.docs, meant.deep)
      BY <1>1, <1>3, <2>8, MeantMark
    <3>2. Spot(slots[tail].next, meant.d.open[tail], meant.d.at) /\ Row(meant.names) /\ Len(meant.names) = tail
      BY <2>1, <2>8, TopSpot
    <3>3. Spot("HASH_VALUE", meant.d.open[tail], "member") BY ONLY <2>1, <3>2 DEF Spot
    <3>4. Exact' => Named(config, slots'[tail].key, meant.names[tail])
      <4>1. Row(text) /\ block \in Nat /\ block' \in Nat /\ block <= block' /\ text' = Append(text, token) /\ config' = config
        BY <1>1, <2>2, RowSeq DEF Takes, KInv, Kept, Read1
      <4>2. Exact' => Exact BY ONLY <4>1, ExactBack
      <4>3. Exact => Same(config, slots, tail, heap, meant.open, meant.names, meant.heap) BY <2>8 DEF Agrees
      <4>4. tail \in 1..tail BY <2>1
      <4>. QED BY ONLY <2>1, <2>5, <4>2, <4>3, <4>4 DEF Same
    <3>5. tail # 0 BY <2>1
    <3>6. Agrees(meant)' /\ Yields(config, yielded, meant.docs, text)'
      BY ONLY <1>1, <2>2, <2>5, <2>6, <2>8, <3>1, <3>2, <3>3, <3>4, <3>5, TopChanges
    <3>. QED BY <1>1, <2>6, <3>6, GoodSound
  <2>. QED BY <1>1, <2>7, <2>8, TakesIs
<1>. QED BY <1>2, <1>3

\* The slots s with n containers become t with z of them, a new one of this kind on top;
\* the containers op of kinds in h and g become o, k, f, e, and the names m l.
Opening(s, n, t, z, kind, kinds, op, h, g, m, k, o, f, e, l) ==
    /\ n \in Nat /\ z = n + 1 /\ kind \in {"array", "object"} /\ \A i \in 1..n : t[i] = s[i]
    /\ t[z].val = Container(Len(h) + 1) /\ t[z].classname = None /\ t[z].next \notin {"HASH_COLON", "HASH_VALUE"}
    /\ Row(kinds) /\ Len(kinds) = n /\ Row(m) /\ Len(m) = n
    /\ f = Append(h, New(kind)) /\ e = Append(g, New(kind)) /\ o = Append(op, Len(g) + 1)
    /\ l = Append(m, <<>>) /\ k = Append(kinds, kind)

\* Pushing the container both sides open leaves them agreeing.
LEMMA OpeningAgrees ==
    ASSUME NEW s, NEW n, NEW t, NEW z, NEW kind, NEW kinds, NEW op, NEW h, NEW g, NEW m, NEW k, NEW o, NEW f, NEW e, NEW l,
           Opening(s, n, t, z, kind, kinds, op, h, g, m, k, o, f, e, l), Holds(s, n, h, op, kinds), Alike(h, g)
    PROVE  /\ Row(l) /\ Len(l) = z /\ Row(k) /\ Len(k) = z /\ k[z] = kind /\ (\A i \in 1..n : k[i] = kinds[i])
           /\ Holds(t, z, f, o, k) /\ Alike(f, e)
           /\ \A c : Same(c, s, n, h, op, m, g) => Same(c, t, z, f, o, l, e)
<1>. SUFFICES ASSUME n \in Nat, z = n + 1, kind \in {"array", "object"}, \A i \in 1..n : t[i] = s[i],
                     t[z].val = Container(Len(h) + 1), t[z].classname = None, t[z].next \notin {"HASH_COLON", "HASH_VALUE"},
                     Row(kinds), Len(kinds) = n, Row(m), Len(m) = n,
                     f = Append(h, New(kind)), e = Append(g, New(kind)), o = Append(op, Len(g) + 1),
                     l = Append(m, <<>>), k = Append(kinds, kind)
              PROVE  /\ Row(l) /\ Len(l) = z /\ Row(k) /\ Len(k) = z /\ k[z] = kind /\ (\A i \in 1..n : k[i] = kinds[i])
                     /\ Holds(t, z, f, o, k) /\ Alike(f, e)
                     /\ \A c : Same(c, s, n, h, op, m, g) => Same(c, t, z, f, o, l, e)
  BY DEF Opening
<1>. DEFINE x == Len(h) + 1
            y == New(kind)
<1>0. t[n + 1].val = Container(Len(h) + 1) /\ t[n + 1].classname = None /\ t[n + 1].next \notin {"HASH_COLON", "HASH_VALUE"}
  OBVIOUS
<1>1. n \in Nat /\ (\A i \in 1..n : i \in 1..n + 1 /\ i # n + 1) /\ (\A i \in 1..n + 1 : i \in 1..n \/ i = n + 1) /\ n + 1 \in 1..n + 1
  OBVIOUS
<1>2. /\ Row(op) /\ Len(op) = n
      /\ \A i \in 1..n : /\ op[i] \in 1..Len(h) /\ s[i].val = Container(op[i])
                         /\ kinds[i] = h[op[i]].kind /\ (kinds[i] = "array" => s[i].classname = None)
      /\ \A i, j \in 1..n : i # j => op[i] # op[j]
  BY DEF Holds
<1>3. Heap(h) /\ Heap(g) /\ Len(g) = Len(h) /\ \A i \in 1..Len(h) : g[i].kind = h[i].kind BY DEF Alike
<1>4. Row(o) /\ Len(o) = n + 1 /\ o[n + 1] = x /\ \A i \in 1..n : o[i] = op[i] BY <1>2, <1>3, RowMore
<1>5. Row(k) /\ Len(k) = n + 1 /\ k[n + 1] = kind /\ \A i \in 1..n : k[i] = kinds[i] BY RowMore
<1>6. Row(l) /\ Len(l) = n + 1 /\ \A i \in 1..n : l[i] = m[i] BY RowMore
<1>7. Heap(f) /\ Len(f) = x /\ (\A i \in 1..Len(h) : f[i] = h[i]) /\ f[x] = y BY <1>3, HeapMore
<1>8. Heap(e) /\ Len(e) = x /\ (\A i \in 1..Len(h) : e[i] = g[i]) /\ e[x] = y BY <1>3, HeapMore
<1>9. Len(h) \in Nat /\ (\A i \in 1..Len(h) : i # x /\ i \in 1..x) /\ (\A i \in 1..x : i \in 1..Len(h) \/ i = x) /\ x \in 1..x
  BY <1>3 DEF Heap, Row
<1>10. y.kind = kind /\ y.class = None BY DEF New
<1>11. t[n + 1].val = Container(x) BY <1>0
<1>. HIDE DEF x, y
<1>12. Alike(f, e)
  <2>1. \A i \in 1..x : e[i].kind = f[i].kind BY ONLY <1>3, <1>7, <1>8, <1>9
  <2>. QED BY ONLY <1>7, <1>8, <2>1 DEF Alike
<1>13. Holds(t, n + 1, f, o, k)
  <2>1. ASSUME NEW i \in 1..n + 1
        PROVE  /\ o[i] \in 1..x /\ t[i].val = Container(o[i])
               /\ k[i] = f[o[i]].kind /\ (k[i] = "array" => t[i].classname = None)
    <3>1. CASE i = n + 1 BY <1>0, <1>4, <1>5, <1>7, <1>9, <1>10, <1>11, <3>1
    <3>2. CASE i \in 1..n
      <4>1. o[i] = op[i] /\ k[i] = kinds[i] /\ t[i] = s[i] BY <1>4, <1>5, <3>2
      <4>2. /\ op[i] \in 1..Len(h) /\ s[i].val = Container(op[i])
            /\ kinds[i] = h[op[i]].kind /\ (kinds[i] = "array" => s[i].classname = None)
        BY ONLY <1>2, <3>2
      <4>. QED BY ONLY <1>7, <1>9, <4>1, <4>2
    <3>. QED BY <1>1, <3>1, <3>2
  <2>2. \A i, j \in 1..n + 1 : i # j => o[i] # o[j]
    <3>1. \A i \in 1..n : o[i] # x BY ONLY <1>2, <1>4, <1>9
    <3>2. \A i, j \in 1..n : i # j => o[i] # o[j] BY ONLY <1>2, <1>4
    <3>. QED BY ONLY <1>1, <1>4, <3>1, <3>2
  <2>. QED BY ONLY <1>4, <1>7, <2>1, <2>2 DEF Holds
<1>14. ASSUME NEW c, Same(c, s, n, h, op, m, g) PROVE Same(c, t, n + 1, f, o, l, e)
  <2>1. /\ \A i \in 1..Len(h) : g[i].in = h[i].in
        /\ \A i \in 1..Len(h) : g[i].class = h[i].class \/ \E j \in 1..n : i = op[j]
        /\ \A i \in 1..n : g[op[i]].class = s[i].classname
        /\ \A i \in 1..n : s[i].next \in {"HASH_COLON", "HASH_VALUE"} => Named(c, s[i].key, m[i])
    BY <1>14 DEF Same
  <2>2. \A i \in 1..Len(f) : e[i].in = f[i].in BY ONLY <1>7, <1>8, <1>9, <2>1
  <2>3. ASSUME NEW i \in 1..x PROVE e[i].class = f[i].class \/ \E j \in 1..n + 1 : i = o[j]
    <3>1. CASE i = x BY ONLY <1>7, <1>8, <3>1
    <3>2. CASE i \in 1..Len(h)
      <4>1. e[i] = g[i] /\ f[i] = h[i] BY <1>7, <1>8, <3>2
      <4>2. CASE g[i].class = h[i].class BY <4>1, <4>2
      <4>3. CASE \E j \in 1..n : i = op[j] BY ONLY <1>1, <1>4, <4>3
      <4>. QED BY ONLY <2>1, <3>2, <4>2, <4>3
    <3>. QED BY ONLY <1>9, <3>1, <3>2, i \in 1..x
  <2>4. ASSUME NEW i \in 1..n + 1 PROVE e[o[i]].class = t[i].classname
    <3>1. CASE i = n + 1
      <4>1. o[i] = x /\ t[i].classname = None BY <1>0, <1>4, <3>1
      <4>. QED BY ONLY <1>8, <1>10, <4>1
    <3>2. CASE i \in 1..n
      <4>1. o[i] = op[i] /\ t[i] = s[i] /\ op[i] \in 1..Len(h) BY <1>2, <1>4, <3>2
      <4>. QED BY ONLY <1>8, <2>1, <3>2, <4>1
    <3>. QED BY <1>1, <3>1, <3>2
  <2>5. ASSUME NEW i \in 1..n + 1, t[i].next \in {"HASH_COLON", "HASH_VALUE"} PROVE Named(c, t[i].key, l[i])
    <3>1. i \in 1..n BY <1>0, <1>1, <2>5
    <3>2. t[i] = s[i] /\ l[i] = m[i] BY <1>6, <3>1
    <3>. QED BY ONLY <2>1, <2>5, <3>1, <3>2
  <2>. QED BY ONLY <1>7, <2>2, <2>3, <2>4, <2>5 DEF Same
<1>. QED BY ONLY <1>5, <1>6, <1>12, <1>13, <1>14, z = n + 1

\* Opening an object or an array.
LEMMA StartSound == ASSUME KInv, KInv', Agreement, Start PROVE Sound'
<1>. DEFINE kind == IF token = "[" THEN "array" ELSE "object"
            next == IF token = "[" THEN "ARRAY_NEW" ELSE "HASH_NEW"
            at == IF kind = "object" THEN "name or }" ELSE "element or ]"
            x == Val(Container(Len(heap')), next)
            d == meant.d
            n == tail
<1>1. Takes(token) /\ token \in {"{", "["}
  <2>1. Reads({"{", "["}) BY DEF Start
  <2>. QED BY ONLY KInv, Agreement, <2>1, TokenSets, ReadsTakes
<1>2. heap' = Append(heap, New(kind)) /\ Push(x) /\ UNCHANGED <<first, calls>> /\ first BY DEF Start
<1>3. /\ Slots(slots) /\ tail \in 0..Len(slots) /\ Heap(heap) /\ room \in Nat /\ block \in Nat /\ tail <= room
      /\ Len(slots) \in Nat /\ Len(heap) \in Nat
  BY DEF KInv, Kept, Slots, Row, Heap
<1>4. kind \in {"array", "object"} /\ next \in Nexts BY DEF Nexts
<1>5. Spot(next, kind, at) /\ next \notin {"HASH_COLON", "HASH_VALUE"} BY DEF Spot
<1>6. (token = "{" /\ kind = "object") \/ (token = "[" /\ kind = "array") BY <1>1
<1>7. token # "nan" BY <1>1
<1>. HIDE DEF kind, next
<1>8. Len(heap') = Len(heap) + 1 BY <1>2, <1>3, <1>4, HeapMore
<1>9. Slot(x) /\ x.val = Container(Len(heap')) /\ x.classname = None /\ x.next = next BY <1>4, NewSlot
<1>. HIDE DEF x
<1>10. /\ tail' = tail + 1 /\ slots'[tail + 1] = x /\ (\A i \in 1..tail : slots'[i] = slots[i])
       /\ block' \in Nat /\ block <= block'
  BY <1>2, <1>3, <1>9, PushIs
<1>11. answer' = answer /\ yielded' = yielded /\ first' = first BY <1>2 DEF calls
<1>12. n \in Nat /\ tail' \in Nat /\ n <= tail' /\ \A i \in 1..n - 1 : i \in 1..n BY <1>3, <1>10
<1>13. CASE Stuck /\ d = Bad
  <2>1. Stuck' BY <1>10, <1>12, <1>13, StuckStays
  <2>. QED BY <1>1, <1>7, <1>11, <1>13, <2>1, StuckSound
<1>14. CASE Agrees(meant) /\ ~ValueDue
  <2>1. meant'.d = Bad /\ meant'.docs = meant.docs BY <1>1, <1>6, <1>14, MeantOpen
  <2>2. n # 0 /\ slots[n].next \notin ExpectsValue BY <1>14 DEF ValueDue, NextOf
  <2>3. n \in 1..tail' - 1 /\ slots'[n] = slots[n] BY <1>10, <1>12, <2>2
  <2>4. Stuck' BY <2>2, <2>3 DEF Stuck
  <2>. QED BY <1>1, <1>7, <1>11, <2>1, <2>4, BeyondSound
<1>15. CASE Agrees(meant) /\ ValueDue
  <2>. DEFINE e == [at |-> at, open |-> Append(d.open, kind)]
              g == Append(meant.heap, New(kind))
              o == Append(meant.open, Len(meant.heap) + 1)
              l == Append(meant.names, <<>>)
              k == Append(d.open, kind)
              z == n + 1
              p == IF Len(meant.open) < meant.deep THEN meant.deep ELSE Len(meant.open) + 1
  <2>1. meant' = Rd(e, g, o, l, meant.docs, p) BY <1>1, <1>6, <1>15, MeantOpen
  <2>2. /\ Stands(slots, n, d) /\ Row(meant.names) /\ Len(meant.names) = n
        /\ Holds(slots, n, heap, meant.open, d.open) /\ Alike(heap, meant.heap)
        /\ (Exact => Same(config, slots, n, heap, meant.open, meant.names, meant.heap))
        /\ Documents(config, first, n, slots[1].val, meant.docs, text) /\ Depth(config, n, meant.deep)
    BY <1>15 DEF Agrees
  <2>3. Row(d.open) /\ Len(d.open) = n BY <2>2 DEF Stands
  <2>4. Len(meant.open) = n BY <2>2 DEF Holds
  <2>5. WaitAll(slots, n, d.open)
    <3>1. n = 0 => WaitAll(slots, n, d.open) BY DEF WaitAll
    <3>2. n > 0 /\ NextOf(slots, n) \in ExpectsValue => WaitAll(slots, n, d.open) BY <1>12, <2>2, SpotIs
    <3>. QED BY <1>12, <1>15, <3>1, <3>2 DEF ValueDue
  <2>6. slots'[z].val = Container(Len(heap) + 1) /\ slots'[z].classname = None /\ slots'[z].next = next
    BY <1>8, <1>9, <1>10
  <2>7. /\ Row(l) /\ Len(l) = z /\ Row(k) /\ Len(k) = z /\ k[z] = kind /\ (\A i \in 1..n : k[i] = d.open[i])
        /\ Holds(slots', z, heap', o, k) /\ Alike(heap', g)
        /\ Same(config, slots, n, heap, meant.open, meant.names, meant.heap) => Same(config, slots', z, heap', o, l, g)
    <3>1. \A i \in 1..n : slots'[i] = slots[i] BY <1>10
    <3>2. heap' = Append(heap, New(kind)) BY <1>2
    <3>3. slots'[z].next \notin {"HASH_COLON", "HASH_VALUE"} BY <1>5, <2>6
    <3>4. g = Append(meant.heap, New(kind)) /\ o = Append(meant.open, Len(meant.heap) + 1) /\ l = Append(meant.names, <<>>)
          /\ k = Append(d.open, kind) /\ n \in Nat /\ z = n + 1
      BY <1>12
    <3>. HIDE DEF n, d, z, g, o, l, k
    <3>5. Opening(slots, n, slots', z, kind, d.open, meant.open, heap, meant.heap, meant.names, k, o, heap', g, l)
      BY ONLY <1>4, <2>2, <2>3, <2>6, <3>1, <3>2, <3>3, <3>4 DEF Opening
    <3>. QED BY ONLY <2>2, <3>5, OpeningAgrees
  <2>8. e.open = k /\ e = [at |-> e.at, open |-> e.open] /\ e.at = at OBVIOUS
  <2>9. n \in Nat /\ z = n + 1 BY <1>12
  <2>. HIDE DEF e, n, d, at, k, z
  <2>10. Stands(slots', z, e)
    <3>1. \A i \in 1..n : Waits(slots'[i].next, e.open[i])
      <4>1. \A i \in 1..n : slots'[i] = slots[i] BY <1>10 DEF n
      <4>. QED BY ONLY <2>5, <2>7, <2>8, <4>1 DEF WaitAll
    <3>2. z > 0 /\ z # 0 /\ z - 1 = n BY ONLY <2>9
    <3>3. WaitAll(slots', z - 1, e.open) BY ONLY <3>1, <3>2 DEF WaitAll
    <3>4. Spot(slots'[z].next, e.open[z], e.at) BY ONLY <1>5, <2>6, <2>7, <2>8
    <3>. QED BY ONLY <2>7, <2>8, <3>2, <3>3, <3>4 DEF Stands
  <2>11. Depth(config, z, p)
    <3>1. config \in Configs /\ ~TooDeep BY <1>1 DEF Takes, KInv, Read1
    <3>2. p = IF tail < meant.deep THEN meant.deep ELSE tail + 1 BY <2>4 DEF n
    <3>3. tail \in Nat /\ tail <= tail /\ Depth(config, tail, meant.deep) BY <1>3, <2>2 DEF n
    <3>4. Depth(config, tail + 1, IF tail < meant.deep THEN meant.deep ELSE tail + 1)
      BY ONLY <3>1, <3>3, DepthDone
    <3>. QED BY ONLY <2>9, <3>2, <3>4 DEF n
  <2>12. Documents(config, first, z, slots'[1].val, meant.docs, text')
    <3>1. z \in Nat /\ z # 0 BY ONLY <2>9
    <3>. QED BY ONLY <1>1, <1>2, <2>2, <3>1, DocumentsStay DEF n
  <2>13. Exact' => Exact
    <3>1. Row(text) /\ text' = Append(text, token) /\ config' = config BY <1>1, RowSeq DEF Takes, KInv, Read1
    <3>. QED BY ONLY <1>3, <1>10, <3>1, ExactBack
  <2>. HIDE DEF e, g, o, l, p
  <2>14. /\ meant'.d = e /\ meant'.heap = g /\ meant'.open = o /\ meant'.names = l /\ meant'.docs = meant.docs
         /\ meant'.deep = p
    BY <2>1, RdPut
  <2>15. config' = config BY <1>1 DEF Takes
  <2>0. tail' = z BY <1>10 DEF z, n
  <2>16. Agrees(meant)'
    BY ONLY <1>11, <2>0, <2>2, <2>7, <2>8, <2>10, <2>11, <2>12, <2>13, <2>14, <2>15 DEF Agrees
  <2>17. Yields(config, yielded, meant.docs, text)' BY <1>1, <1>11, <2>14, YieldsStay
  <2>. QED BY <1>1, <1>7, <1>11, <2>16, <2>17, GoodSound
<1>. QED BY <1>1, <1>13, <1>14, <1>15, TakesIs

\* What a value that is complete leaves is sound.
LEMMA ValuedSound ==
    ASSUME NEW t, NEW n, NEW kinds, NEW op, NEW m, NEW h, NEW g, NEW k, NEW one, NEW z, NEW p, NEW v,
           Valued(t, n, kinds, op, m, h, g, k, one, z, p, v), Takes(t), KInv', answer' = answer,
           config.mode = "strict" => t # "nan"
    PROVE  Sound'
<1>1. Agrees(meant)' /\ Yields(config, yielded, meant.docs, text)' BY ValueDone
<1>. QED BY <1>1, GoodSound

\* Closing an object or an array, whichever token does it.
LEMMA CloseSound ==
    ASSUME KInv, KInv', NEW t, Takes(t), first, NEW states, NEW class,
           \/ t = "}" /\ states = {"HASH_COMMA", "HASH_NEW"} /\ class = Top.classname
           \/ t = "]" /\ states = {"ARRAY_COMMA", "ARRAY_NEW"} /\ class = None,
           \/ NextIs(states) /\ TakenIn(tail - 1) /\ Close(class)
           \/ ~(NextIs(states) /\ TakenIn(tail - 1)) /\ Fail
    PROVE  Sound'
<1>1. (t = "}" /\ states = {"HASH_COMMA", "HASH_NEW"}) \/ (t = "]" /\ states = {"ARRAY_COMMA", "ARRAY_NEW"}) OBVIOUS
<1>2. Kept /\ Slots(slots) /\ Len(slots) \in Nat /\ tail \in 0..Len(slots) /\ config \in Configs /\ first = TRUE
  BY DEF KInv, Kept, Slots, Row, Read1
<1>3. config.mode = "strict" => t # "nan" OBVIOUS
<1>7. tail \in Nat /\ Len(slots) \in Nat /\ tail <= Len(slots) /\ (NextIs(states) => tail > 0 /\ slots[tail].next \in states)
  <2>1. NextIs(states) => tail \in 1..Len(slots) /\ slots[tail].next \in states BY <1>2, NextTail
  <2>2. tail \in 0..Len(slots) /\ Len(slots) \in Nat BY <1>2
  <2>. QED BY ONLY <2>1, <2>2
<1>4. /\ Agrees(meant) /\ ~NextIs(states) => meant'.d = Bad
      /\ Agrees(meant) /\ NextIs(states) =>
           meant' = Place(Rd(Past(Front(meant.d.open)), meant.heap, Front(meant.open), Front(meant.names),
                             meant.docs, meant.deep), Container(Last(meant.open)))
  BY ONLY <1>1, Takes(t), MeantClose
<1>5. CASE ~(NextIs(states) /\ TakenIn(tail - 1)) /\ Fail
  <2>1. CASE meant.d = Bad BY <1>5, <2>1, StuckFails
  <2>2. CASE Agrees(meant)
    <3>1. ~NextIs(states)
      <4>. SUFFICES ASSUME NextIs(states) PROVE FALSE OBVIOUS
      <4>1. tail \in Nat /\ tail > 0 BY <1>7
      <4>2. Stands(slots, tail, meant.d) BY <2>2 DEF Agrees
      <4>3. WaitAll(slots, tail - 1, meant.d.open) BY <4>1, <4>2 DEF Stands
      <4>4. tail - 1 # 0 => slots[tail - 1].next \in ExpectsValue
        <5>1. tail - 1 # 0 => tail - 1 \in 1..tail - 1 BY ONLY <4>1
        <5>. QED BY <4>3, <5>1 DEF WaitAll, Waits, ExpectsValue
      <4>5. TakenIn(tail - 1) BY <4>4 DEF TakenIn
      <4>. QED BY <1>5, <4>5
    <3>2. meant'.d = Bad BY <1>4, <2>2, <3>1
    <3>. QED BY <1>5, <3>2, BadSound
  <2>. QED BY <2>1, <2>2, TakesIs
<1>6. CASE NextIs(states) /\ TakenIn(tail - 1) /\ Close(class)
  <2>. DEFINE n == tail - 1
  <2>1. slots[tail].next \in states BY <1>6, <1>7
  <2>2. n \in Nat /\ n \in 0..Len(slots) /\ tail \in Nat /\ tail > 0 /\ n <= tail /\ n < tail /\ n = tail - 1 /\ Len(slots) \in Nat
        /\ tail \in 1..tail
    <3>1. tail > 0 BY <1>6, <1>7
    <3>. QED BY ONLY <1>7, <3>1
  <2>. HIDE DEF n
  <2>3. slots' = Filled(slots, n, Top.val) /\ tail' = n /\ Turn(n, slots') /\ answer' = answer /\ UNCHANGED <<room, block>>
    BY <1>6, <2>2 DEF Close
  <2>4. CASE Stuck /\ meant.d = Bad
    <3>1. PICK i \in 1..tail - 1 : slots[i].next \notin ExpectsValue BY <2>4 DEF Stuck
    <3>2. i \in 1..n /\ n # 0 /\ n > 0 BY ONLY <2>2, <3>1
    <3>3. slots[n].next \in ExpectsValue BY <1>6, <2>2, <3>2 DEF TakenIn
    <3>4. i # n BY <3>1, <3>3
    <3>9. i \in 1..Len(slots) /\ i \in 1..n - 1 BY ONLY <2>2, <3>2, <3>4
    <3>5. slots'[i] = slots[i]
      <4>1. LET s == Filled(slots, n, Top.val) IN \A j \in 1..Len(slots) : j # n /\ n > 0 => s[j] = slots[j]
        <5>. DEFINE v == Top.val
        <5>. HIDE DEF v
        <5>. QED BY ONLY <1>2, <2>2, FilledIs
      <4>. QED BY ONLY <2>3, <3>2, <3>4, <3>9, <4>1
    <3>6. i \in 1..tail' - 1 BY ONLY <2>3, <3>9
    <3>7. Stuck' BY <3>1, <3>5, <3>6 DEF Stuck
    <3>8. yielded' = yielded BY <2>3, <3>2 DEF Turn
    <3>. QED BY <1>3, <2>3, <2>4, <3>7, <3>8, StuckSound
  <2>5. CASE Agrees(meant)
    <3>. DEFINE d == meant.d
                op == meant.open
                o == Front(meant.open)
                k == Front(d.open)
                l == Front(meant.names)
                h == Classed(heap, op[tail], class)
                v == Container(Last(op))
    <3>1. /\ Stands(slots, tail, d) /\ Row(meant.names) /\ Len(meant.names) = tail
          /\ Holds(slots, tail, heap, op, d.open) /\ Alike(heap, meant.heap)
          /\ (Exact => Same(config, slots, tail, heap, op, meant.names, meant.heap))
          /\ Documents(config, first, tail, slots[1].val, meant.docs, text) /\ Depth(config, tail, meant.deep)
      BY <2>5 DEF Agrees
    <3>2. Row(d.open) /\ Len(d.open) = tail /\ WaitAll(slots, n, d.open) /\ Spot(slots[tail].next, d.open[tail], d.at)
      BY <2>2, <3>1 DEF Stands
    <3>3. /\ h = Classed(heap, op[tail], class) /\ o = Front(op) /\ k = Front(d.open) /\ l = Front(meant.names)
      OBVIOUS
    <3>4. meant' = Place(Rd(Past(k), meant.heap, o, l, meant.docs, meant.deep), v) BY <1>4, <1>6, <2>5
    <3>5. Last(op) = op[tail] => v = Container(op[tail]) OBVIOUS
    <3>6. v # Undef BY Values
    <3>. HIDE DEF d, op, o, k, l, h, v
    <3>7. Closing(slots, tail, n, d.open, op, heap, meant.heap, meant.names, class, h, o, k, l)
      BY ONLY <2>2, <3>1, <3>2, <3>3 DEF Closing
    <3>8. /\ Last(op) = op[tail] /\ slots[tail].val = Container(op[tail])
          /\ Row(k) /\ Len(k) = n /\ Row(l) /\ Len(l) = n /\ (\A i \in 1..n : k[i] = d.open[i])
          /\ Holds(slots, n, h, o, k) /\ Alike(h, meant.heap)
          /\ (Same(config, slots, tail, heap, op, meant.names, meant.heap) /\ class = slots[tail].classname =>
                Same(config, slots, n, h, o, l, meant.heap))
      BY ONLY <3>7, CloseAgrees
    <3>9. class = slots[tail].classname
      <4>1. CASE t = "}" BY <4>1 DEF Top
      <4>2. CASE t = "]"
        <5>1. class = None /\ slots[tail].next \in {"ARRAY_COMMA", "ARRAY_NEW"} BY <2>1, <4>2
        <5>2. d.open[tail] = "array" BY ONLY <3>2, <5>1 DEF Spot
        <5>3. tail \in 1..tail BY ONLY <2>2
        <5>4. slots[tail].classname = None BY ONLY <3>1, <5>2, <5>3 DEF Holds
        <5>. QED BY <5>1, <5>4
      <4>. QED BY <4>1, <4>2
    <3>10. WaitAll(slots, n, k) BY ONLY <3>2, <3>8 DEF WaitAll
    <3>11. Top.val = v BY <3>5, <3>8 DEF Top
    <3>12. heap' = (IF n = 0 THEN h ELSE Into(h, slots[n].val, CalcHashKey(slots[n].key), v))
      <4>1. Top.val[2] = op[tail]
        <5>1. Top.val = Container(op[tail]) BY ONLY <3>8 DEF Top
        <5>2. ASSUME NEW y PROVE Container(y)[2] = y BY ONLY DEF Container
        <5>. QED BY ONLY <5>1, <5>2
      <4>2. h = [heap EXCEPT ![Top.val[2]].class = class] BY <3>3, <4>1 DEF Classed
      <4>3. heap' = IF tail = 1 THEN h ELSE Into(h, slots[tail - 1].val, CalcHashKey(slots[tail - 1].key), Top.val)
        BY <1>6, <4>2 DEF Close
      <4>4. heap' = IF n = 0 THEN h ELSE Into(h, slots[n].val, CalcHashKey(slots[n].key), Top.val)
        <5>1. tail = 1 <=> n = 0 BY ONLY <2>2
        <5>. QED BY ONLY <2>2, <4>3, <5>1
      <4>. QED BY ONLY <3>11, <4>4
    <3>13. Depth(config, n, meant.deep)
      <4>1. ~TooDeep BY DEF Takes
      <4>. QED BY <1>2, <2>2, <3>1, <4>1, DepthDone
    <3>14. Row(text) /\ Yields(config, yielded, meant.docs, text) BY TakesIs
    <3>15. text' = Append(text, t) /\ config' = config BY DEF Takes
    <3>16. slots' = Filled(slots, n, v) BY <2>3, <3>11
    <3>17. Valued(t, n, k, o, l, h, meant.heap, meant.docs, slots[1].val, tail, meant.deep, v)
      BY ONLY <1>2, <2>2, <2>3, <3>1, <3>4, <3>6, <3>8, <3>9, <3>10, <3>12, <3>13, <3>14, <3>15, <3>16 DEF Valued
    <3>. QED BY <1>3, <2>3, <3>17, ValuedSound
  <2>. QED BY <2>4, <2>5, TakesIs
<1>. QED BY <1>5, <1>6

\* Closing an array.
LEMMA ArrayEndSound == ASSUME KInv, KInv', Agreement, ArrayEnd PROVE Sound'
<1>1. Takes(token) /\ token = "]" /\ first
  <2>1. Reads({"]"}) /\ first BY DEF ArrayEnd
  <2>2. Takes(token) /\ token \in {"]"} BY ONLY KInv, Agreement, <2>1, TokenSets, ReadsTakes
  <2>. QED BY <2>1, <2>2
<1>. DEFINE states == {"ARRAY_COMMA", "ARRAY_NEW"}
<1>2. \/ NextIs(states) /\ TakenIn(tail - 1) /\ Close(None)
      \/ ~(NextIs(states) /\ TakenIn(tail - 1)) /\ Fail
  BY Zenon DEF ArrayEnd
<1>3. states = {"ARRAY_COMMA", "ARRAY_NEW"} OBVIOUS
<1>. HIDE DEF states
<1>. QED BY <1>1, <1>2, <1>3, CloseSound

\* Closing an object.
LEMMA HashEndSound == ASSUME KInv, KInv', Agreement, HashEnd PROVE Sound'
<1>1. Takes(token) /\ token = "}" /\ first
  <2>1. Reads({"}"}) /\ first BY DEF HashEnd
  <2>2. Takes(token) /\ token \in {"}"} BY ONLY KInv, Agreement, <2>1, TokenSets, ReadsTakes
  <2>. QED BY <2>1, <2>2
<1>. DEFINE states == {"HASH_COMMA", "HASH_NEW"}
            class == Top.classname
<1>2. \/ NextIs(states) /\ TakenIn(tail - 1) /\ Close(class)
      \/ ~(NextIs(states) /\ TakenIn(tail - 1)) /\ Fail
  BY Zenon DEF HashEnd
<1>3. states = {"HASH_COMMA", "HASH_NEW"} /\ class = Top.classname OBVIOUS
<1>. HIDE DEF states, class
<1>. QED BY <1>1, <1>2, <1>3, CloseSound

\* Whether a string names a class, for the parser and for the reader.
LEMMA NamesAlike ==
    ASSUME NEW t, Takes(t), Agrees(meant), block' = block, Exact'
    PROVE  NamesClass <=> Naming
<1>1. Row(text) /\ block \in Nat /\ text' = Append(text, t) /\ config' = config /\ config \in Configs /\ tail \in Nat
  BY TakesIs DEF Takes, KInv, Kept, Read1, Slots, Row
<1>2. Exact /\ ~KeysMoved
  <2>1. block' \in Nat /\ block <= block' BY <1>1
  <2>. QED BY <1>1, <2>1, ExactBack
<1>3. config.create => ~config.hashKey BY <1>1, ClassicAssumption DEF ClassicAssumption
<1>4. NextIs({"HASH_VALUE"}) <=> tail # 0 /\ NextOf(slots, tail) = "HASH_VALUE"
  <2>1. ASSUME NEW some PROVE NextIs(some) <=> tail # 0 /\ NextOf(slots, tail) \in some BY <1>1, NextIsOf
  <2>2. NextIs({"HASH_VALUE"}) <=> tail # 0 /\ NextOf(slots, tail) \in {"HASH_VALUE"} BY ONLY <2>1
  <2>. QED BY ONLY <2>2
<1>5. ASSUME config.create, tail # 0, NextOf(slots, tail) = "HASH_VALUE"
      PROVE  (Top.key.made = Unmade /\ KeyText(Top.key) = CreateId) <=> Last(meant.names) = CreateId
  <2>1. tail \in 1..tail /\ tail \in 1..Len(slots) /\ Slots(slots)
    <3>1. tail \in 0..Len(slots) /\ Slots(slots) BY DEF Takes, KInv, Kept
    <3>2. Len(slots) \in Nat BY <3>1 DEF Slots, Row
    <3>. QED BY ONLY <1>1, <1>5, <3>1, <3>2
  <2>2. slots[tail].next = "HASH_VALUE" BY <1>5 DEF NextOf
  <2>3. Same(config, slots, tail, heap, meant.open, meant.names, meant.heap) /\ Len(meant.names) = tail BY <1>2 DEF Agrees
  <2>4. Named(config, slots[tail].key, meant.names[tail]) BY <2>1, <2>2, <2>3 DEF Same
  <2>5. Key(slots[tail].key) BY <2>1 DEF Slots, Slot
  <2>6. slots[tail].key.made = Unmade /\ KeyText(slots[tail].key) = meant.names[tail]
    BY <1>1, <1>2, <1>3, <1>5, <2>4, <2>5, NamedIs
  <2>7. Last(meant.names) = meant.names[tail] BY <2>3 DEF Last
  <2>. QED BY <2>6, <2>7 DEF Top
<1>. QED BY <1>4, <1>5 DEF NamesClass, Naming

\* Where the parser stands depends on what its entries await.
LEMMA StandsSame ==
    ASSUME NEW s, NEW u, NEW n, n \in Nat, NEW d, Stands(u, n, d), \A i \in 1..n : s[i].next = u[i].next
    PROVE  Stands(s, n, d)
<1>1. \A i \in 1..n - 1 : i \in 1..n OBVIOUS
<1>2. n > 0 => n \in 1..n OBVIOUS
<1>. QED BY <1>1, <1>2 DEF Stands, WaitAll

\* A heap in which one node has changed what is in it, or its class.
LEMMA AlikeBut ==
    ASSUME NEW h, NEW g, Alike(h, g), NEW f, NEW m, ButFor(h, f, m), f[m].kind = h[m].kind
    PROVE  Alike(f, g) /\ Alike(g, h)
<1>1. Len(f) = Len(h) /\ Heap(f) /\ \A i \in 1..Len(h) : f[i].kind = h[i].kind BY ONLY ButFor(h, f, m), f[m].kind = h[m].kind, ButIs
<1>. QED BY <1>1 DEF Alike

\* A member of the innermost container is complete.
LEMMA MemberDone ==
    ASSUME NEW t, Takes(t), Agrees(meant), tail # 0, first, UNCHANGED <<tail, room, block, first>>, yielded' = yielded,
           NEW e, meant' = Rd(Past(meant.d.open), e, meant.open, meant.names, meant.docs, meant.deep),
           Stands(slots', tail, Past(meant.d.open)), Holds(slots', tail, heap', meant.open, meant.d.open), Alike(heap', e),
           Exact' => Same(config, slots', tail, heap', meant.open, meant.names, e)
    PROVE  Agrees(meant)' /\ Yields(config, yielded, meant.docs, text)'
<1>1. /\ meant'.d = Past(meant.d.open) /\ meant'.heap = e /\ meant'.open = meant.open /\ meant'.names = meant.names
      /\ meant'.docs = meant.docs /\ meant'.deep = meant.deep
  BY RdPut
<1>2. Past(meant.d.open).open = meant.d.open BY PastIs
<1>3. /\ Row(meant.names) /\ Len(meant.names) = tail /\ Depth(config, tail, meant.deep)
      /\ Documents(config, first, tail, slots[1].val, meant.docs, text)
  BY DEF Agrees
<1>4. config' = config /\ tail \in Nat BY DEF Takes, KInv, Kept, Slots, Row
<1>5. Documents(config, first, tail, slots'[1].val, meant.docs, text') BY <1>3, <1>4, DocumentsStay
<1>6. Agrees(meant)'
  BY ONLY <1>1, <1>2, <1>3, <1>4, <1>5, UNCHANGED <<tail, room, block, first>>, Stands(slots', tail, Past(meant.d.open)),
     Holds(slots', tail, heap', meant.open, meant.d.open), Alike(heap', e),
     Exact' => Same(config, slots', tail, heap', meant.open, meant.names, e) DEF Agrees
<1>7. Yields(config, yielded, meant.docs, text)' BY <1>1, YieldsStay
<1>. QED BY <1>6, <1>7

\* What of a value within a container agrees in any case.
LEMMA WithinIs ==
    ASSUME NEW t, Takes(t), Agrees(meant), tail # 0, NextOf(slots, tail) = "HASH_VALUE"
    PROVE  /\ tail \in Nat /\ tail \in 1..Len(slots) /\ tail \in 0..Len(slots) /\ Slots(slots) /\ ValueDue
           /\ meant.d.open[tail] = "object" /\ WaitAll(slots, tail, meant.d.open)
           /\ Row(meant.d.open) /\ Len(meant.d.open) = tail /\ Last(meant.open) = meant.open[tail]
           /\ meant.open[tail] \in 1..Len(heap) /\ meant.open[tail] \in 1..Len(meant.heap)
           /\ slots[tail].val = Container(meant.open[tail]) /\ meant.open # <<>>
           /\ Holds(slots, tail, heap, meant.open, meant.d.open) /\ Alike(heap, meant.heap) /\ Heap(heap) /\ Heap(meant.heap)
<1>1. /\ Stands(slots, tail, meant.d) /\ Holds(slots, tail, heap, meant.open, meant.d.open) /\ Alike(heap, meant.heap)
  BY DEF Agrees
<1>2. tail \in Nat /\ tail \in 1..Len(slots) /\ tail \in 0..Len(slots) /\ Slots(slots) /\ tail \in 1..tail /\ tail > 0
  <2>1. tail \in 0..Len(slots) /\ Slots(slots) BY DEF Takes, KInv, Kept
  <2>2. Len(slots) \in Nat BY <2>1 DEF Slots, Row
  <2>. QED BY ONLY <2>1, <2>2, tail # 0
<1>3. ValueDue BY DEF ValueDue, ExpectsValue
<1>4. meant.d.open[tail] = "object" /\ Row(meant.d.open) /\ Len(meant.d.open) = tail
  <2>1. slots[tail].next = "HASH_VALUE" BY DEF NextOf
  <2>2. Spot(slots[tail].next, meant.d.open[tail], meant.d.at) /\ Row(meant.d.open) /\ Len(meant.d.open) = tail BY <1>1, <1>2 DEF Stands
  <2>. QED BY ONLY <2>1, <2>2 DEF Spot
<1>5. WaitAll(slots, tail, meant.d.open) BY <1>1, <1>2, <1>3, SpotIs DEF ValueDue
<1>6. Row(meant.open) /\ Len(meant.open) = tail /\ meant.open[tail] \in 1..Len(heap) /\ slots[tail].val = Container(meant.open[tail])
  BY <1>1, <1>2 DEF Holds
<1>7. Last(meant.open) = meant.open[tail] /\ meant.open # <<>>
  <2>1. Last(meant.open) = meant.open[tail] BY <1>6 DEF Last
  <2>. QED BY <1>6, <2>1, RowEmpty
<1>. QED BY <1>1, <1>2, <1>3, <1>4, <1>5, <1>6, <1>7 DEF Alike

\* A string becomes the key of a pair.
LEMMA KeySound ==
    ASSUME KInv', NEW t \in Strings, Takes(t), first, NextIs(ExpectsKey), slots' = WithKey(slots, tail, KeyOf(t), "HASH_COLON"),
           UNCHANGED <<tail, room, block, heap, first, calls>>
    PROVE  Sound'
<1>. DEFINE key == KeyOf(t)
            name == TextOf[t]
            l == Append(Front(meant.names), name)
<1>1. /\ Kept /\ Slots(slots) /\ Len(slots) \in Nat /\ block \in Nat /\ config \in Configs /\ Row(text)
      /\ text' = Append(text, t) /\ config' = config
  BY TakesIs DEF Takes, KInv, Kept, Slots, Row, Read1
<1>2. tail \in 1..Len(slots) /\ slots[tail].next \in ExpectsKey BY <1>1, NextTail
<1>3. tail \in Nat /\ tail # 0 /\ tail > 0 BY ONLY <1>1, <1>2
<1>4. t # "nan" BY TokenSets DEF Marks
<1>5. "HASH_COLON" \in Nexts /\ Key(key) BY <1>1, KeyOfIs DEF Nexts
<1>. HIDE DEF key, name
<1>6. slots' = WithKey(slots, tail, key, "HASH_COLON") BY DEF key
<1>7. /\ Slots(slots') /\ Len(slots') = Len(slots) /\ slots'[tail].val = slots[tail].val /\ slots'[tail].key = key
      /\ slots'[tail].classname = slots[tail].classname /\ slots'[tail].next = "HASH_COLON"
      /\ \A i \in 1..Len(slots) : i # tail => slots'[i] = slots[i]
  BY ONLY <1>1, <1>2, <1>5, <1>6, KeyPut
<1>8. answer' = answer /\ yielded' = yielded /\ tail' = tail BY DEF calls
<1>9. CASE Stuck /\ meant.d = Bad BY <1>4, <1>7, <1>8, <1>9, StuckTop
<1>10. CASE Agrees(meant)
  <2>1. meant' = Rd([at |-> "colon", open |-> meant.d.open], meant.heap, meant.open, l, meant.docs, meant.deep)
    BY <1>10, MeantValue DEF name
  <2>2. Spot(slots[tail].next, meant.d.open[tail], meant.d.at) /\ Row(meant.names) /\ Len(meant.names) = tail
    BY <1>3, <1>10, TopSpot
  <2>3. Spot("HASH_COLON", meant.d.open[tail], "colon") BY ONLY <1>2, <2>2 DEF Spot, ExpectsKey
  <2>. DEFINE f == Front(meant.names)
  <2>4. Row(f) /\ Len(f) = tail - 1 /\ \A i \in 1..tail - 1 : f[i] = meant.names[i]
    <3>1. Len(meant.names) # 0 BY <1>3, <2>2
    <3>2. Row(f) /\ Len(f) = Len(meant.names) - 1 /\ \A i \in 1..Len(meant.names) - 1 : f[i] = meant.names[i]
      BY ONLY <2>2, <3>1, RowFront
    <3>. QED BY ONLY <2>2, <3>2
  <2>5. l = Append(f, name) OBVIOUS
  <2>. HIDE DEF f, l
  <2>6. Row(l) /\ Len(l) = tail /\ l[tail] = name /\ \A i \in 1..tail - 1 : l[i] = meant.names[i]
    <3>1. Row(l) /\ Len(l) = Len(f) + 1 /\ l[Len(f) + 1] = name /\ \A i \in 1..Len(f) : l[i] = f[i] BY ONLY <2>4, <2>5, RowMore
    <3>2. Len(f) + 1 = tail BY ONLY <1>3, <2>4
    <3>. QED BY ONLY <2>4, <3>1, <3>2
  <2>7. Exact' => Named(config, slots'[tail].key, l[tail])
    <3>1. block' \in Nat /\ block <= block' BY <1>1
    <3>2. ASSUME Exact' PROVE Named(config, key, name)
      <4>1. ~(Len(name) >= KeyWidth) BY ONLY <1>1, <3>1, <3>2, t \in Strings, ExactBack DEF name
      <4>2. Len(name) \in Nat /\ KeyWidth \in Nat BY ClassicAssumption, ValStackAssumption DEF ClassicAssumption, ValStackAssumption, name
      <4>3. Len(name) < KeyWidth BY ONLY <4>1, <4>2
      <4>. QED BY ONLY <1>1, <4>3, t \in Strings, KeyNamed DEF key, name
    <3>. QED BY <1>7, <2>6, <3>2
  <2>8. Agrees(meant)' /\ Yields(config, yielded, meant.docs, text)'
    BY ONLY Takes(t), first, UNCHANGED <<tail, room, block, heap, first, calls>>, <1>3, <1>7, <1>8, <1>10,
       <2>1, <2>2, <2>3, <2>6, <2>7, TopChanges
  <2>. QED BY <1>4, <1>8, <2>8, GoodSound
<1>. QED BY <1>9, <1>10, TakesIs

\* A string names the class of the hash it is in.
LEMMA ClassSound ==
    ASSUME KInv', NEW t \in Strings, Takes(t), first, NamesClass, slots' = WithClass(Filled(slots, tail, Undef), tail, t),
           UNCHANGED <<tail, room, block, heap, first, calls>>
    PROVE  Sound'
<1>1. Kept /\ Slots(slots) /\ Len(slots) \in Nat BY DEF Takes, KInv, Kept, Slots, Row
<1>2. tail \in 1..Len(slots) /\ slots[tail].next \in {"HASH_VALUE"} BY <1>1, NextTail DEF NamesClass
<1>3. tail \in Nat /\ tail # 0 /\ tail > 0 /\ tail \in 0..Len(slots) BY ONLY <1>1, <1>2
<1>4. t # "nan" BY TokenSets DEF Marks
<1>5. NextOf(slots, tail) = "HASH_VALUE" BY <1>2, <1>3 DEF NextOf
<1>6. answer' = answer /\ yielded' = yielded /\ tail' = tail BY DEF calls
<1>. DEFINE u == Filled(slots, tail, Undef)
            v == Undef
<1>7. Slots(u) /\ Len(u) = Len(slots) /\ \A i \in 1..Len(slots) : i # tail => u[i] = slots[i]
  <2>. HIDE DEF v
  <2>1. LET w == Filled(slots, tail, v)
        IN  Slots(w) /\ Len(w) = Len(slots) /\ \A i \in 1..Len(slots) : i # tail /\ tail > 0 => w[i] = slots[i]
    BY ONLY <1>1, <1>3, FilledIs
  <2>. QED BY ONLY <1>3, <2>1 DEF v
<1>8. slots' = WithClass(u, tail, t) OBVIOUS
<1>. HIDE DEF u
<1>9. \A i \in 1..Len(slots) : i # tail => slots'[i] = slots[i]
  <2>1. \A i \in 1..Len(u) : i # tail => slots'[i] = u[i] BY ONLY <1>2, <1>7, <1>8, ClassPut
  <2>. QED BY ONLY <1>7, <2>1
<1>10. CASE Stuck /\ meant.d = Bad BY <1>4, <1>6, <1>9, <1>10, StuckTop
<1>11. CASE Agrees(meant)
  <2>. DEFINE d == meant.d
              op == meant.open
              g == meant.heap
              x == op[tail]
              into == Into(g, Container(Last(op)), Last(meant.names), Scalar(t))
              given == Classed(g, Last(op), t)
  <2>1. /\ ValueDue /\ d.open[tail] = "object" /\ WaitAll(slots, tail, d.open)
        /\ Row(d.open) /\ Len(d.open) = tail /\ Last(op) = x
        /\ x \in 1..Len(heap) /\ x \in 1..Len(g) /\ op # <<>>
        /\ Holds(slots, tail, heap, op, d.open) /\ Alike(heap, g) /\ Heap(heap) /\ Heap(g)
    BY <1>3, <1>5, <1>11, WithinIs
  <2>2. /\ Naming => meant' = Rd(Past(d.open), given, op, meant.names, meant.docs, meant.deep)
        /\ ~Naming => meant' = Place(Rd(Past(d.open), g, op, meant.names, meant.docs, meant.deep), Scalar(t))
    BY <1>11, <2>1, MeantValue
  <2>3. ~Naming => meant' = Rd(Past(d.open), into, op, meant.names, meant.docs, meant.deep) BY <2>1, <2>2, PlaceIs
  <2>. HIDE DEF d, op, g, x, into, given
  <2>4. Classing(slots, tail, d.open, t, op, heap, g, slots', given)
    BY ONLY <1>1, <1>2, <1>8, <2>1 DEF Classing, u, given
  <2>5. /\ Holds(slots', tail, heap, op, d.open) /\ Alike(heap, given)
        /\ (\A c, m : Same(c, slots, tail, heap, op, m, g) => Same(c, slots', tail, heap, op, m, given))
        /\ \A i \in 1..tail : slots'[i].next = Filled(slots, tail, Undef)[i].next
    BY ONLY <2>4, ClassAgrees
  <2>6. Stands(slots', tail, Past(d.open))
    <3>1. Stands(u, tail, Past(d.open))
      <4>1. u = Filled(slots, tail, v) BY DEF u, v
      <4>. HIDE DEF v
      <4>2. Stands(Filled(slots, tail, v), tail, Past(d.open)) BY ONLY <1>1, <1>3, <2>1, FilledStands
      <4>. QED BY ONLY <4>1, <4>2
    <3>2. \A i \in 1..tail : slots'[i].next = u[i].next BY ONLY <2>5 DEF u
    <3>. QED BY ONLY <1>3, <3>1, <3>2, StandsSame
  <2>7. CASE Naming
    <3>1. Exact' => Same(config, slots', tail, heap, op, meant.names, given)
      <4>1. Exact' => Exact
        <5>1. /\ Row(text) /\ block \in Nat /\ block' \in Nat /\ block <= block' /\ text' = Append(text, t) /\ config' = config
          BY <1>1, TakesIs DEF Takes, Kept
        <5>. QED BY ONLY <5>1, ExactBack
      <4>2. Exact => Same(config, slots, tail, heap, op, meant.names, g) BY <1>11 DEF Agrees, op, g
      <4>. QED BY <2>5, <4>1, <4>2
    <3>2. meant' = Rd(Past(d.open), given, op, meant.names, meant.docs, meant.deep) BY <2>2, <2>7
    <3>3. heap' = heap OBVIOUS
    <3>4. Agrees(meant)' /\ Yields(config, yielded, meant.docs, text)'
      BY <1>3, <1>6, <1>11, <2>5, <2>6, <3>1, <3>2, <3>3, MemberDone DEF d, op
    <3>. QED BY <1>4, <1>6, <3>4, GoodSound
  <2>8. CASE ~Naming
    <3>1. ~Exact' BY <1>11, <2>8, NamesAlike
    <3>2. Alike(heap, into)
      <4>1. LET y == Into(g, Container(x), Last(meant.names), Scalar(t)) IN ButFor(g, y, x) /\ y[x].kind = g[x].kind
        <5>. DEFINE a == Last(meant.names)
                    b == Scalar(t)
        <5>. HIDE DEF a, b
        <5>. QED BY ONLY <2>1, IntoIs
      <4>2. ButFor(g, into, x) /\ into[x].kind = g[x].kind BY ONLY <2>1, <4>1 DEF into
      <4>3. Alike(g, heap) BY ONLY <2>1, Alike(heap, g) DEF Alike
      <4>4. Alike(into, heap) BY ONLY <4>2, <4>3, AlikeBut
      <4>. QED BY <4>4 DEF Alike
    <3>3. meant' = Rd(Past(d.open), into, op, meant.names, meant.docs, meant.deep) BY <2>3, <2>8
    <3>4. heap' = heap OBVIOUS
    <3>5. Agrees(meant)' /\ Yields(config, yielded, meant.docs, text)'
      BY <1>3, <1>6, <1>11, <2>5, <2>6, <3>1, <3>2, <3>3, <3>4, MemberDone DEF d, op
    <3>. QED BY <1>4, <1>6, <3>5, GoodSound
  <2>. QED BY <2>7, <2>8
<1>. QED BY <1>10, <1>11, TakesIs

\* A string that names a class for the reader alone becomes a member.
LEMMA MixedSound ==
    ASSUME KInv', NEW t \in Strings, Takes(t), first, Agrees(meant), Naming, ~NamesClass, Add(tail, Scalar(t))
    PROVE  Sound'
<1>. DEFINE d == meant.d
            op == meant.open
            g == meant.heap
            x == op[tail]
            v == Scalar(t)
            key == CalcHashKey(slots[tail].key)
            given == Classed(g, Last(op), t)
<1>1. tail # 0 /\ NextOf(slots, tail) = "HASH_VALUE" BY DEF Naming
<1>2. /\ tail \in Nat /\ tail \in 1..Len(slots) /\ tail \in 0..Len(slots) /\ Slots(slots) /\ ValueDue
      /\ d.open[tail] = "object" /\ WaitAll(slots, tail, d.open) /\ Row(d.open) /\ Len(d.open) = tail /\ Last(op) = x
      /\ x \in 1..Len(heap) /\ x \in 1..Len(g) /\ slots[tail].val = Container(x)
      /\ Holds(slots, tail, heap, op, d.open) /\ Alike(heap, g) /\ Heap(heap) /\ Heap(g)
  BY <1>1, WithinIs
<1>3. meant' = Rd(Past(d.open), given, op, meant.names, meant.docs, meant.deep) BY <1>2, MeantValue
<1>4. tail > 0 BY ONLY <1>1, <1>2
<1>5. /\ slots' = Filled(slots, tail, v) /\ heap' = Into(heap, Container(x), key, v)
      /\ UNCHANGED <<tail, room, block, first, yielded, answer>>
  BY <1>1, <1>2, <1>4 DEF Add, Turn
<1>6. ~Exact' BY <1>5, NamesAlike
<1>. HIDE DEF d, op, g, x, v, key, given
<1>7. ButFor(heap, heap', x) /\ heap'[x].kind = heap[x].kind
  <2>1. LET y == Into(heap, Container(x), key, v) IN ButFor(heap, y, x) /\ y[x].kind = heap[x].kind BY ONLY <1>2, IntoIs
  <2>. QED BY ONLY <1>5, <2>1
<1>8. ButFor(g, given, x) /\ given[x].kind = g[x].kind
  <2>1. LET y == Classed(g, x, t) IN ButFor(g, y, x) /\ y[x].kind = g[x].kind BY ONLY <1>2, ClassedIs
  <2>. QED BY ONLY <1>2, <2>1 DEF given
<1>9. Alike(heap', given)
  <2>1. Alike(g, heap) BY ONLY <1>2 DEF Alike
  <2>2. Alike(given, heap) BY ONLY <1>8, <2>1, AlikeBut
  <2>3. Alike(heap, given) BY ONLY <2>2 DEF Alike
  <2>. QED BY ONLY <1>7, <2>3, AlikeBut
<1>10. Len(heap') = Len(heap) /\ \A i \in 1..Len(heap) : heap'[i].kind = heap[i].kind BY ONLY <1>7, ButIs
<1>11. Holds(slots', tail, heap', op, d.open)
  <2>1. Holds(Filled(slots, tail, v), tail, heap', op, d.open) BY ONLY <1>2, <1>10, FilledHolds
  <2>. QED BY ONLY <1>5, <2>1
<1>12. Stands(slots', tail, Past(d.open))
  <2>1. Stands(Filled(slots, tail, v), tail, Past(d.open)) BY ONLY <1>2, FilledStands
  <2>. QED BY ONLY <1>5, <2>1
<1>13. Agrees(meant)' /\ Yields(config, yielded, meant.docs, text)'
  BY <1>1, <1>3, <1>5, <1>6, <1>9, <1>11, <1>12, MemberDone DEF d, op
<1>14. t # "nan" BY TokenSets DEF Marks
<1>. QED BY <1>5, <1>13, <1>14, GoodSound

\* A value is complete as soon as it is read.
LEMMA AddSound ==
    ASSUME KInv', NEW t, Takes(t), t \in Strings \cup {"scalar", "nan"}, first, Add(tail, Scalar(t)),
           t \in Strings => ~NextIs(ExpectsKey) /\ ~NamesClass, config.mode = "strict" => t # "nan"
    PROVE  Sound'
<1>. DEFINE v == Scalar(t)
            d == meant.d
<1>1. /\ Kept /\ Slots(slots) /\ Len(slots) \in Nat /\ tail \in Nat /\ tail <= Len(slots) /\ config \in Configs /\ first = TRUE
      /\ Row(text) /\ text' = Append(text, t) /\ config' = config /\ ~TooDeep
  BY TakesIs DEF Takes, KInv, Kept, Slots, Row, Read1
<1>2. /\ TakenIn(tail) /\ slots' = Filled(slots, tail, v) /\ tail' = tail /\ Turn(tail, slots') /\ UNCHANGED <<room, block>>
      /\ heap' = (IF tail = 0 THEN heap ELSE Into(heap, slots[tail].val, CalcHashKey(slots[tail].key), v)) /\ answer' = answer
  BY DEF Add
<1>3. ValueDue BY <1>1, <1>2, NextIsOf DEF ValueDue
<1>4. CASE Stuck /\ meant.d = Bad
  <2>1. PICK i \in 1..tail - 1 : slots[i].next \notin ExpectsValue BY <1>4 DEF Stuck
  <2>2. tail > 0 /\ tail \in 0..Len(slots) BY ONLY <1>1, <2>1
  <2>3. yielded' = yielded BY <1>2, <2>2 DEF Turn
  <2>4. \A j \in 1..Len(slots) : j # tail => slots'[j] = slots[j]
    <3>. HIDE DEF v
    <3>1. LET s == Filled(slots, tail, v) IN \A j \in 1..Len(slots) : j # tail /\ tail > 0 => s[j] = slots[j]
      BY ONLY <1>1, <2>2, FilledIs
    <3>. QED BY ONLY <1>2, <2>2, <3>1
  <2>. QED BY <1>2, <1>4, <2>3, <2>4, StuckTop
<1>5. CASE Agrees(meant) /\ t \in Strings /\ Naming BY <1>5, MixedSound
<1>6. CASE Agrees(meant) /\ ~(t \in Strings /\ Naming)
  <2>1. meant' = Place(Rd(Past(d.open), meant.heap, meant.open, meant.names, meant.docs, meant.deep), v)
    BY <1>3, <1>6, MeantValue
  <2>2. /\ Stands(slots, tail, d) /\ Row(meant.names) /\ Len(meant.names) = tail
        /\ Holds(slots, tail, heap, meant.open, d.open) /\ Alike(heap, meant.heap)
        /\ (Exact => Same(config, slots, tail, heap, meant.open, meant.names, meant.heap))
        /\ Documents(config, first, tail, slots[1].val, meant.docs, text) /\ Depth(config, tail, meant.deep)
    BY <1>6 DEF Agrees
  <2>3. Row(d.open) /\ Len(d.open) = tail BY <2>2 DEF Stands
  <2>4. WaitAll(slots, tail, d.open)
    <3>1. tail = 0 => WaitAll(slots, tail, d.open) BY DEF WaitAll
    <3>2. tail > 0 /\ NextOf(slots, tail) \in ExpectsValue => WaitAll(slots, tail, d.open) BY <1>1, <2>2, SpotIs
    <3>. QED BY <1>1, <1>3, <3>1, <3>2 DEF ValueDue
  <2>5. Yields(config, yielded, meant.docs, text) BY TakesIs
  <2>6. v # Undef /\ tail <= tail BY <1>1, Values
  <2>. HIDE DEF v, d
  <2>7. Valued(t, tail, d.open, meant.open, meant.names, heap, meant.heap, meant.docs, slots[1].val, tail, meant.deep, v)
    BY ONLY <1>1, <1>2, <2>1, <2>2, <2>3, <2>4, <2>5, <2>6 DEF Valued
  <2>. QED BY <1>2, <2>7, ValuedSound
<1>. QED BY <1>4, <1>5, <1>6, TakesIs

\* A value where none may come.
LEMMA NoValueSound ==
    ASSUME NEW t, Takes(t), t \in Strings \cup {"scalar", "nan"}, Fail, ~TakenIn(tail), t \in Strings => ~NextIs(ExpectsKey)
    PROVE  Sound'
<1>1. tail \in Nat BY DEF Takes, KInv, Kept, Slots, Row
<1>2. ~ValueDue BY <1>1, NextIsOf DEF ValueDue
<1>3. CASE meant.d = Bad BY <1>3, StuckFails
<1>4. CASE Agrees(meant)
  <2>1. meant'.d = Bad BY <1>2, <1>4, MeantValue
  <2>. QED BY <2>1, BadSound
<1>. QED BY <1>3, <1>4, TakesIs

\* A string, as a name, as a class or as a value.
LEMMA StringSound == ASSUME KInv, KInv', Agreement, String PROVE Sound'
<1>1. Takes(token) /\ token \in Strings /\ first
  <2>1. Reads(Strings) /\ first BY DEF String
  <2>2. Takes(token) /\ token \in Strings BY ONLY KInv, Agreement, <2>1, TokenSets, ReadsTakes
  <2>. QED BY <2>1, <2>2
<1>2. token # "nan" BY <1>1, TokenSets DEF Marks
<1>. DEFINE t == token
<1>3. CASE /\ NextIs(ExpectsKey)
           /\ slots' = [slots EXCEPT ![tail].key = KeyOf(token), ![tail].next = "HASH_COLON"]
           /\ UNCHANGED <<tail, room, block, heap, first, calls>>
  <2>1. slots' = WithKey(slots, tail, KeyOf(t), "HASH_COLON") BY <1>3 DEF WithKey
  <2>. HIDE DEF t
  <2>. QED BY <1>1, <1>3, <2>1, KeySound DEF t
<1>4. CASE /\ NamesClass
           /\ slots' = [Filled(slots, tail, Undef) EXCEPT ![tail].classname = token]
           /\ UNCHANGED <<tail, room, block, heap, first, calls>>
  <2>1. slots' = WithClass(Filled(slots, tail, Undef), tail, t) BY <1>4 DEF WithClass
  <2>. QED BY <1>1, <1>4, <2>1, ClassSound
<1>5. CASE ~NextIs(ExpectsKey) /\ ~NamesClass /\ Add(tail, Scalar(token)) BY <1>1, <1>2, <1>5, AddSound
<1>6. CASE ~NextIs(ExpectsKey) /\ ~TakenIn(tail) /\ Fail BY <1>1, <1>6, NoValueSound
<1>. QED BY <1>3, <1>4, <1>5, <1>6 DEF String

\* A number or a word.
LEMMA NumberSound == ASSUME KInv, KInv', Agreement, NumberOrWord PROVE Sound'
<1>1. Takes(token) /\ token = "scalar" /\ first
  <2>1. Reads({"scalar"}) /\ first BY DEF NumberOrWord
  <2>2. Takes(token) /\ token \in {"scalar"} BY ONLY KInv, Agreement, <2>1, TokenSets, ReadsTakes
  <2>. QED BY <2>1, <2>2
<1>2. token \notin Strings BY <1>1, TokenSets DEF Marks
<1>3. CASE Add(tail, Scalar(token)) BY <1>1, <1>2, <1>3, AddSound
<1>4. CASE ~TakenIn(tail) /\ Fail BY <1>1, <1>2, <1>4, NoValueSound
<1>. QED BY <1>3, <1>4 DEF NumberOrWord

\* A number that is none.
LEMMA NaNSound == ASSUME KInv, KInv', Agreement, NotANumber PROVE Sound'
<1>1. Takes(token) /\ token = "nan" /\ first
  <2>1. Reads({"nan"}) /\ first BY DEF NotANumber
  <2>2. Takes(token) /\ token \in {"nan"} BY ONLY KInv, Agreement, <2>1, TokenSets, ReadsTakes
  <2>. QED BY <2>1, <2>2
<1>2. token \notin Strings BY <1>1, TokenSets DEF Marks
<1>3. CASE config.mode # "strict" /\ Add(tail, Scalar(token)) BY <1>1, <1>2, <1>3, AddSound
<1>4. CASE Fail
  <2>1. \A kinds : Has(kinds)' <=> Has(kinds) \/ token \in kinds BY <1>1, TakesIs
  <2>2. Has({"nan"})' BY <1>1, <2>1
  <2>3. RefusesOnlyOthers' BY <2>2 DEF RefusesOnlyOthers
  <2>. QED BY <1>1, <1>4, <2>3, FailSound
<1>. QED BY <1>3, <1>4 DEF NotANumber

\* A comment, after which the stream parser may take the document for complete.
LEMMA CommentSound == ASSUME KInv, KInv', Agreement, Comment PROVE Sound'
<1>1. Takes(token) /\ token = "comment" /\ first = TRUE
  <2>1. Reads({"comment"}) /\ first BY DEF Comment
  <2>2. Takes(token) /\ token \in {"comment"} BY ONLY KInv, Agreement, <2>1, TokenSets, ReadsTakes
  <2>3. first = TRUE BY <2>1 DEF KInv, Kept
  <2>. QED BY <2>2, <2>3
<1>2. UNCHANGED <<slots, tail, room, block, heap, answer>> BY DEF Comment, stackVars
<1>3. IF Sparse THEN Turn(tail, slots) ELSE UNCHANGED <<first, yielded>> BY DEF Comment
<1>4. tail \in Nat /\ block \in Nat /\ Row(text) /\ text' = Append(text, token) /\ config' = config
  <2>1. Row(text) BY <1>1, TakesIs
  <2>2. tail \in 0..Len(slots) /\ Row(slots) /\ block \in Nat BY DEF KInv, Kept, Slots
  <2>3. tail \in Nat BY <2>2 DEF Row
  <2>. QED BY <1>1, <2>1, <2>2, <2>3 DEF Takes
<1>5. CASE Stuck /\ meant.d = Bad
  <2>1. PICK i \in 1..tail - 1 : slots[i].next \notin ExpectsValue BY <1>5 DEF Stuck
  <2>2. tail > 0 BY ONLY <1>4, <2>1
  <2>3. yielded' = yielded BY <1>3, <2>2 DEF Turn
  <2>. QED BY <1>1, <1>2, <1>5, <2>3, StuckTop
<1>6. CASE Agrees(meant)
  <2>1. meant' = meant BY <1>1, <1>6, MeantOther
  <2>2. /\ Stands(slots, tail, meant.d) /\ Row(meant.names) /\ Len(meant.names) = tail
        /\ Holds(slots, tail, heap, meant.open, meant.d.open) /\ Alike(heap, meant.heap)
        /\ (Exact => Same(config, slots, tail, heap, meant.open, meant.names, meant.heap))
        /\ Documents(config, first, tail, slots[1].val, meant.docs, text) /\ Depth(config, tail, meant.deep)
    BY <1>6 DEF Agrees
  <2>3. Exact' => Exact
    <3>1. block' \in Nat /\ block <= block' BY <1>2, <1>4
    <3>. QED BY ONLY <1>4, <3>1, ExactBack
  <2>4. (Commented(config, text) => Commented(config, text')) /\ Yields(config, yielded, meant.docs, text) BY <1>1, TakesIs
  <2>5. Sparse => Commented(config, text')
    <3>1. Seen({"comment"}, text') BY <1>1, <1>4, SeenMore
    <3>. QED BY <3>1 DEF Commented, Sparse
  <2>6. Documents(config, first', tail, slots[1].val, meant.docs, text')
    <3>1. CASE first' = first BY <2>2, <2>4, <3>1 DEF Documents
    <3>2. CASE first' # first
      <4>1. Sparse /\ tail = 0 /\ ~config.proc /\ first' = (first /\ Callbacks) BY <1>3, <1>4, <3>2 DEF Turn
      <4>2. ~Callbacks BY <1>1, <3>2, <4>1
      <4>3. first' = FALSE /\ ~Rows(config) BY <4>1, <4>2 DEF Rows, Callbacks
      <4>4. meant.docs = <<>> BY <1>1, <2>2, <4>3 DEF Documents
      <4>. QED BY <2>2, <2>5, <4>1, <4>3, <4>4 DEF Documents
    <3>. QED BY <3>1, <3>2
  <2>7. Yields(config, yielded', meant.docs, text')
    <3>1. CASE Sparse BY <2>5, <3>1 DEF Yields
    <3>2. CASE ~Sparse
      <4>1. yielded' = yielded BY <1>3, <3>2
      <4>. QED BY <2>4, <4>1 DEF Yields
    <3>. QED BY <3>1, <3>2
  <2>8. Agrees(meant)' BY ONLY <1>2, <1>4, <2>1, <2>2, <2>3, <2>6 DEF Agrees
  <2>9. Yields(config, yielded, meant.docs, text)' BY <1>4, <2>1, <2>7
  <2>. QED BY <1>1, <1>2, <2>8, <2>9, GoodSound
<1>. QED BY <1>1, <1>5, <1>6, TakesIs

\* What is no token.
LEMMA NoTokenSound == ASSUME KInv, KInv', Agreement, NoToken PROVE Sound'
<1>1. Takes(token) /\ token = "bad" /\ Fail
  <2>1. Reads({"bad"}) /\ Fail BY DEF NoToken
  <2>2. Takes(token) /\ token \in {"bad"} BY ONLY KInv, Agreement, <2>1, TokenSets, ReadsTakes
  <2>. QED BY <2>1, <2>2
<1>2. CASE meant.d = Bad BY <1>1, <1>2, StuckFails
<1>3. CASE Agrees(meant)
  <2>1. meant'.d = Bad BY <1>1, <1>3, MeantOther
  <2>. QED BY <1>1, <2>1, BadSound
<1>. QED BY <1>1, <1>2, <1>3, TakesIs

\* More after the document is complete.
LEMMA ExtraSound == ASSUME KInv, KInv', Agreement, Extra PROVE Sound'
<1>1. Takes(token) /\ ~first /\ Fail
  <2>1. Reads(Tokens) /\ ~first /\ Fail BY DEF Extra
  <2>. QED BY ONLY KInv, Agreement, <2>1, ReadsTakes
<1>2. CASE meant.d = Bad BY <1>1, <1>2, StuckFails
<1>3. CASE Agrees(meant)
  <2>1. Documents(config, first, tail, slots[1].val, meant.docs, text) BY <1>3 DEF Agrees
  <2>2. ~Rows(config) /\ Row(meant.docs) /\ (Len(meant.docs) = 1 \/ (meant.docs = <<>> /\ Commented(config, text)))
    BY <1>1, <2>1 DEF Documents
  <2>3. /\ meant'.docs = meant.docs \/ \E v : meant'.docs = Append(meant.docs, v)
        /\ \A kinds : Has(kinds)' <=> Has(kinds) \/ token \in kinds
        /\ Row(text)
    BY <1>1, TakesIs
  <2>4. config' = config BY <1>1 DEF Takes
  <2>5. ~Many' BY <2>2, <2>4 DEF Many, Rows, Callbacks
  <2>6. CASE Len(meant.docs) = 1
    <3>1. \A v : Len(Append(meant.docs, v)) = Len(meant.docs) + 1 BY <2>2, RowMore
    <3>2. Len(meant'.docs) > 0 BY <2>3, <2>6, <3>1
    <3>3. RefusesOnlyOthers' BY <2>5, <3>2 DEF RefusesOnlyOthers
    <3>. QED BY <1>1, <3>3, FailSound
  <2>7. CASE Commented(config, text)
    <3>1. Has({"comment"}) /\ Sparse BY <2>3, <2>7, HasIs DEF Commented, Sparse
    <3>2. Has({"comment"})' BY <2>3, <3>1
    <3>3. Sparse' BY <2>4, <3>1 DEF Sparse
    <3>4. RefusesOnlyOthers' BY <3>2, <3>3 DEF RefusesOnlyOthers
    <3>. QED BY <1>1, <3>4, FailSound
  <2>. QED BY <2>2, <2>6, <2>7
<1>. QED BY <1>1, <1>2, <1>3, TakesIs

\* The text is refused.
LEMMA ErrorSound ==
    ASSUME Agreement, answer = "reading", answer' = "error", Row(text'), Shape(meant'), Row(meant'.docs), UNCHANGED <<config, yielded>>,
           meant'.docs = meant.docs, Commented(config, text) => Commented(config, text'), RefusesOnlyOthers'
    PROVE  Sound'
<1>1. Row(meant.docs) /\ Yields(config, yielded, meant.docs, text) BY DEF Agreement
<1>2. YieldsDocuments' BY <1>1, ErrorYields
<1>3. Agreement' BY DEF Agreement
<1>. QED BY <1>2, <1>3 DEF Sound, Recognises, AcceptsOnlyJson, Delivers, BuildsDocument

\* A text for which nothing has been kept.
LEMMA EmptyIs ==
    ASSUME KInv, Agrees(meant), TakenForEmpty
    PROVE  \/ meant.docs = <<>> /\ (~config.emptyString \/ config.mode = "compat")
           \/ ~config.emptyString /\ Many
<1>1. slots[1].val = Undef /\ (config.mode = "compat" \/ ~config.emptyString) BY DEF TakenForEmpty, EmptyOk
<1>2. tail \in Nat BY DEF KInv, Kept, Slots, Row
<1>3. tail = 0
  <2>. SUFFICES ASSUME tail # 0 PROVE FALSE OBVIOUS
  <2>1. 1 \in 1..tail BY ONLY <1>2, tail # 0
  <2>2. Holds(slots, tail, heap, meant.open, meant.d.open) BY DEF Agrees
  <2>3. slots[1].val = Container(meant.open[1]) BY <2>1, <2>2 DEF Holds
  <2>. QED BY <1>1, <2>3, Values
<1>4. CASE config.mode = "callbacks" BY <1>1, <1>4 DEF Many, Callbacks
<1>5. CASE config.mode # "callbacks"
  <2>1. Documents(config, first, tail, slots[1].val, meant.docs, text) BY DEF Agrees
  <2>2. Undef = IF meant.docs = <<>> THEN Undef ELSE Last(meant.docs) BY <1>1, <1>3, <1>5, <2>1 DEF Documents
  <2>3. meant.docs = <<>>
    <3>. SUFFICES ASSUME meant.docs # <<>> PROVE FALSE OBVIOUS
    <3>1. Row(meant.docs) /\ \A i \in 1..Len(meant.docs) : meant.docs[i] # Undef BY <2>1 DEF Documents
    <3>2. Len(meant.docs) \in Nat /\ Len(meant.docs) # 0 BY <3>1, RowEmpty DEF Row
    <3>3. Len(meant.docs) \in 1..Len(meant.docs) BY ONLY <3>2
    <3>. QED BY <2>2, <3>1, <3>3 DEF Last
  <2>. QED BY <1>1, <2>3
<1>. QED BY <1>4, <1>5

\* The reader's limit of nesting.
LEMMA NestedSound == ASSUME KInv, KInv', Agreement, Nested PROVE Sound'
<1>1. /\ answer = "reading" /\ answer' = "error" /\ TooDeep
      /\ UNCHANGED <<config, text, meant, yielded>>
  BY DEF Nested, Fail
<1>2. Row(text) /\ config \in Configs /\ tail \in Nat BY RowSeq DEF KInv, Read1, Kept, Slots, Row
<1>3. Shape(meant) /\ Row(meant.docs) /\ ((Stuck /\ meant.d = Bad) \/ Agrees(meant)) BY <1>1 DEF Agreement
<1>4. meant.d = Bad \/ (config.maxDepth > 0 /\ meant.deep > config.maxDepth)
  <2>1. config.maxDepth \in Nat BY <1>2, ClassicAssumption DEF ClassicAssumption
  <2>2. CASE Agrees(meant)
    <3>1. meant.deep \in Nat /\ tail <= meant.deep BY <2>2 DEF Agrees, Depth
    <3>2. config.maxDepth > 0 /\ config.maxDepth <= tail - 1 BY <1>1 DEF TooDeep
    <3>. QED BY ONLY <1>2, <2>1, <3>1, <3>2
  <2>. QED BY <1>3, <2>2
<1>5. RefusesOnlyOthers' BY <1>1, <1>4 DEF RefusesOnlyOthers
<1>. QED BY <1>1, <1>2, <1>3, <1>5, ErrorSound

\* An error the caller's own code raises.
LEMMA RaiseSound == ASSUME KInv, KInv', Agreement, Raise PROVE Sound'
<1>1. /\ answer = "reading" /\ answer' = (IF TakenForEmpty THEN "error" ELSE "raised")
      /\ UNCHANGED <<config, text, meant, yielded>>
  BY DEF Raise
<1>2. Row(text) BY RowSeq DEF KInv, Read1
<1>3. /\ Shape(meant) /\ Row(meant.docs) /\ ((Stuck /\ meant.d = Bad) \/ Agrees(meant))
      /\ Yields(config, yielded, meant.docs, text)
  BY <1>1 DEF Agreement
<1>4. CASE TakenForEmpty
  <2>1. meant.d = Bad \/ (meant.docs = <<>> /\ (~config.emptyString \/ config.mode = "compat")) \/ (~config.emptyString /\ Many)
    BY <1>3, <1>4, EmptyIs
  <2>2. Many' <=> Many BY <1>1 DEF Many, Callbacks
  <2>3. RefusesOnlyOthers' BY <1>1, <2>1, <2>2 DEF RefusesOnlyOthers
  <2>. QED BY <1>1, <1>2, <1>3, <1>4, <2>3, ErrorSound
<1>5. CASE ~TakenForEmpty
  <2>1. answer' = "raised" BY <1>1, <1>5
  <2>2. Agreement' BY <1>1, <1>3, <2>1 DEF Agreement
  <2>3. Has({"comment"})' <=> Seen({"comment"}, text) BY <1>1, <1>2, HasNext
  <2>4. YieldsDocuments' BY <1>1, <1>3, <2>1, <2>3 DEF YieldsDocuments, Yields, Commented, Sparse, Callbacks
  <2>. QED BY <2>1, <2>2, <2>4 DEF Sound, Recognises, AcceptsOnlyJson, RefusesOnlyOthers, Delivers, BuildsDocument
<1>. QED BY <1>4, <1>5

-----------------------------------------------------------------------------
(* The end of the text.                                                      *)

\* What the reader makes of the end.
LEMMA MeantEnd ==
    ASSUME KInv, Agreement, answer = "reading", meant' = Told(meant, "end")
    PROVE  /\ Shape(meant') /\ Row(meant'.docs) /\ Shape(meant) /\ Row(meant.docs)
           /\ meant'.docs = meant.docs /\ meant'.heap = meant.heap /\ meant'.deep = meant.deep
           /\ meant.d = Bad => meant'.d = Bad
           /\ meant.d = Fresh => meant'.d = Fresh
           /\ meant.d # Fresh => meant'.d = Bad
<1>. DEFINE d == meant.d
            h == meant.heap
            o == meant.open
            m == meant.names
            k == meant.docs
            p == meant.deep
<1>1. Shape(meant) /\ Row(meant.docs) BY DEF Agreement
<1>2. meant = Rd(d, h, o, m, k, p) BY <1>1 DEF Shape, Rd
<1>3. "end" \in Tokens \cup {"end"} OBVIOUS
<1>4. ToldAs(d, h, o, m, k, p, "end") BY <1>3, ToldIs
<1>5. Shape(meant') /\ Row(meant'.docs) BY <1>1, <1>3, ToldKeeps
<1>6. Fresh # Bad
  <2>1. Fresh.at # Bad.at BY DEF Fresh, Bad
  <2>. QED BY <2>1
<1>. HIDE DEF d, h, o, m, k, p
<1>7. CASE d = Bad
  <2>1. meant' = meant BY <1>2, <1>4, <1>7 DEF ToldAs
  <2>. QED BY <1>1, <1>5, <1>6, <1>7, <2>1 DEF d
<1>8. CASE d # Bad
  <2>1. meant' = Rd(IF d = Fresh THEN d ELSE Bad, h, o, m, k, p) BY <1>2, <1>4, <1>8 DEF ToldAs
  <2>. DEFINE e == IF d = Fresh THEN d ELSE Bad
  <2>2. (d = Fresh => e = Fresh) /\ (d # Fresh => e = Bad) OBVIOUS
  <2>. HIDE DEF e
  <2>3. meant' = Rd(e, h, o, m, k, p) BY <2>1 DEF e
  <2>4. meant'.d = e /\ meant'.heap = h /\ meant'.docs = k /\ meant'.deep = p BY <2>3, RdPut
  <2>. QED BY <1>1, <1>5, <1>8, <2>2, <2>4 DEF d, h, k, p
<1>. QED BY <1>7, <1>8

\* The end of the text changes nothing but the text.
LEMMA EndRead ==
    ASSUME KInv, End
    PROVE  /\ Row(text) /\ Row(text') /\ text' = Append(text, "end") /\ config' = config /\ config \in Configs
           /\ (Commented(config, text) => Commented(config, text')) /\ (\A kinds : Has(kinds)' <=> Has(kinds) \/ "end" \in kinds)
           /\ tail \in Nat /\ block \in Nat /\ answer = "reading" /\ meant' = Told(meant, "end")
           /\ UNCHANGED <<slots, tail, room, block, heap, first, yielded>>
<1>1. Row(text) /\ config \in Configs /\ tail \in Nat /\ block \in Nat BY RowSeq DEF KInv, Read1, Kept, Slots, Row
<1>2. /\ text' = Append(text, "end") /\ config' = config /\ answer = "reading" /\ meant' = Told(meant, "end")
      /\ UNCHANGED <<slots, tail, room, block, heap, first, yielded>>
  BY DEF End, stackVars
<1>3. Row(text') BY <1>1, <1>2, RowMore
<1>4. (Commented(config, text) => Commented(config, text')) /\ \A kinds : Has(kinds)' <=> Has(kinds) \/ "end" \in kinds
  BY ONLY <1>1, <1>2, CommentMore
<1>. QED BY <1>1, <1>2, <1>3, <1>4

\* The end, and the text is refused.
LEMMA RefusedSound == ASSUME KInv, KInv', Agreement, End, Refused PROVE Sound'
<1>1. /\ Row(text') /\ config' = config /\ tail \in Nat /\ answer = "reading" /\ meant' = Told(meant, "end")
      /\ (Commented(config, text) => Commented(config, text')) /\ yielded' = yielded
  BY EndRead
<1>2. answer' = "error" BY DEF End
<1>3. /\ Shape(meant') /\ Row(meant'.docs) /\ meant'.docs = meant.docs
      /\ (meant.d = Bad => meant'.d = Bad) /\ (meant.d # Fresh => meant'.d = Bad)
  BY <1>1, MeantEnd
<1>4. RefusesOnlyOthers'
  <2>1. (Many' <=> Many) /\ (Sparse' <=> Sparse) BY <1>1 DEF Many, Callbacks, Sparse
  <2>2. CASE meant.d = Bad BY <1>3, <2>2 DEF RefusesOnlyOthers
  <2>3. CASE Agrees(meant)
    <3>1. Documents(config, first, tail, slots[1].val, meant.docs, text) BY <2>3 DEF Agrees
    <3>2. CASE ~Sparse /\ first /\ ~config.emptyString
      <4>1. Many \/ meant.docs = <<>> BY <3>1, <3>2 DEF Documents, Rows, Many, Callbacks
      <4>. QED BY <1>1, <1>3, <2>1, <3>2, <4>1 DEF RefusesOnlyOthers
    <3>3. CASE TakenForEmpty
      <4>1. (meant.docs = <<>> /\ (~config.emptyString \/ config.mode = "compat")) \/ (~config.emptyString /\ Many)
        BY <2>3, <3>3, EmptyIs
      <4>. QED BY <1>1, <1>3, <2>1, <4>1 DEF RefusesOnlyOthers
    <3>4. CASE OpenLeft(tail)
      <4>1. Row(meant.d.open) /\ Len(meant.d.open) = tail /\ tail > 0 BY <2>3, <3>4 DEF Agrees, Stands, OpenLeft
      <4>2. meant.d.open # <<>> BY <1>1, <4>1, RowEmpty
      <4>3. meant.d # Fresh BY <4>2 DEF Fresh
      <4>. QED BY <1>3, <4>3 DEF RefusesOnlyOthers
    <3>5. CASE ~Sparse /\ ~config.quirks BY <1>1, <2>1, <3>5 DEF RefusesOnlyOthers
    <3>. QED BY <3>2, <3>3, <3>4, <3>5 DEF Refused
  <2>4. (Stuck /\ meant.d = Bad) \/ Agrees(meant) BY <1>1 DEF Agreement
  <2>. QED BY <2>2, <2>3, <2>4
<1>. QED BY ONLY <1>1, <1>2, <1>3, <1>4, Agreement, ErrorSound

\* The end, and the text is accepted: it is a text of JSON, and what was made of it is returned.
LEMMA AcceptedSound == ASSUME KInv, KInv', Agreement, End, ~Refused PROVE Sound'
<1>1. /\ Row(text) /\ Row(text') /\ text' = Append(text, "end") /\ config' = config /\ config \in Configs
      /\ tail \in Nat /\ block \in Nat /\ answer = "reading" /\ meant' = Told(meant, "end")
      /\ (Commented(config, text) => Commented(config, text')) /\ (\A kinds : Has(kinds)' <=> Has(kinds) \/ "end" \in kinds)
      /\ UNCHANGED <<slots, tail, room, block, heap, first, yielded>>
  BY EndRead
<1>2. answer' = "ok" /\ result' = (IF slots[1].val = Undef THEN Scalar("nil") ELSE slots[1].val) BY DEF End
<1>3. /\ Shape(meant') /\ Row(meant'.docs) /\ meant'.docs = meant.docs /\ meant'.heap = meant.heap /\ meant'.deep = meant.deep
      /\ (meant.d = Fresh => meant'.d = Fresh)
  BY <1>1, MeantEnd
<1>4. tail = 0
  <2>1. ~(tail > 0) BY DEF Refused, OpenLeft
  <2>. QED BY ONLY <1>1, <2>1
<1>5. Agrees(meant)
  <2>1. ~Stuck BY <1>4 DEF Stuck
  <2>. QED BY <1>1, <2>1 DEF Agreement
<1>6. /\ Stands(slots, tail, meant.d) /\ Holds(slots, tail, heap, meant.open, meant.d.open) /\ Alike(heap, meant.heap)
      /\ (Exact => Same(config, slots, tail, heap, meant.open, meant.names, meant.heap))
      /\ Documents(config, first, tail, slots[1].val, meant.docs, text) /\ Depth(config, tail, meant.deep)
  BY <1>5 DEF Agrees
<1>7. meant'.d = Fresh
  <2>1. /\ meant.d = [at |-> meant.d.at, open |-> meant.d.open] /\ Row(meant.d.open) /\ Len(meant.d.open) = 0
        /\ meant.d.at = "start"
    BY <1>4, <1>6 DEF Stands
  <2>2. meant.d.open = <<>> BY <2>1, RowEmpty
  <2>3. meant.d = Fresh BY ONLY <2>1, <2>2 DEF Fresh
  <2>. QED BY <1>3, <2>3
<1>8. config.mode # "callbacks" => slots[1].val = IF meant.docs = <<>> THEN Undef ELSE Last(meant.docs)
  BY <1>4, <1>6 DEF Documents
<1>9. meant.docs # <<>> => Last(meant.docs) # Undef
  <2>. SUFFICES ASSUME meant.docs # <<>> PROVE Last(meant.docs) # Undef OBVIOUS
  <2>1. Row(meant.docs) /\ \A i \in 1..Len(meant.docs) : meant.docs[i] # Undef BY <1>6 DEF Documents
  <2>2. Len(meant.docs) \in Nat /\ Len(meant.docs) # 0 BY <2>1, RowEmpty DEF Row
  <2>3. Len(meant.docs) \in 1..Len(meant.docs) BY ONLY <2>2
  <2>. QED BY <2>1, <2>3 DEF Last
<1>10. AcceptsOnlyJson'
  <2>1. Len(meant'.docs) = 1 \/ Many' \/ (meant'.docs = <<>> /\ (config.emptyString \/ config.nilnil)')
    <3>. SUFFICES ASSUME ~Many PROVE Len(meant.docs) = 1 \/ (meant.docs = <<>> /\ (config.emptyString \/ config.nilnil))
      BY <1>1, <1>3 DEF Many, Callbacks
    <3>1. ~Rows(config) /\ config.mode # "callbacks" BY DEF Many, Rows, Callbacks
    <3>2. Len(meant.docs) = 1 \/ (meant.docs = <<>> /\ (first \/ Sparse)) BY <1>6, <3>1 DEF Documents, Commented, Sparse
    <3>3. CASE meant.docs = <<>>
      <4>1. slots[1].val = Undef BY <1>8, <3>1, <3>3
      <4>2. Sparse => EmptyOk BY <4>1 DEF Refused, TakenForEmpty
      <4>3. ~Sparse /\ first => config.emptyString BY DEF Refused
      <4>. QED BY <3>2, <3>3, <4>2, <4>3 DEF EmptyOk
    <3>. QED BY <3>2, <3>3
  <2>2. (config.maxDepth > 0 => meant.deep <= config.maxDepth)'
    <3>1. config.maxDepth \in Nat BY <1>1, ClassicAssumption DEF ClassicAssumption
    <3>2. meant.deep \in Nat /\ (config.maxDepth > 0 => meant.deep <= config.maxDepth \/ (meant.deep = config.maxDepth + 1 /\ 0 = meant.deep))
      BY <1>4, <1>6 DEF Depth
    <3>3. config.maxDepth > 0 => meant.deep <= config.maxDepth BY ONLY <3>1, <3>2
    <3>. QED BY <1>1, <1>3, <3>3
  <2>3. (config.mode = "strict" => ~Has({"nan"}))'
    <3>1. config.mode = "strict" => ~Has({"nan"}) BY <1>1 DEF Agreement
    <3>. QED BY <1>1, <3>1
  <2>. QED BY <1>7, <2>1, <2>2, <2>3 DEF AcceptsOnlyJson
<1>11. BuildsDocument'
  <2>. SUFFICES ASSUME ~LongKeys', ~KeysMoved'
                PROVE  /\ heap' = meant'.heap
                       /\ ~Callbacks' => result' = IF meant'.docs = <<>> THEN Scalar("nil") ELSE Last(meant'.docs)
    BY DEF BuildsDocument
  <2>1. Exact
    <3>1. block' \in Nat /\ block <= block' /\ Exact' BY <1>1 DEF Exact
    <3>. QED BY ONLY <1>1, <3>1, ExactBack
  <2>2. heap = meant.heap
    <3>. DEFINE g == meant.heap
    <3>1. Heap(heap) /\ Heap(g) /\ Len(g) = Len(heap) /\ \A m \in 1..Len(heap) : g[m].kind = heap[m].kind BY <1>6 DEF Alike
    <3>2. Same(config, slots, 0, heap, meant.open, meant.names, g) BY <1>4, <1>6, <2>1
    <3>. HIDE DEF g
    <3>3. /\ \A m \in 1..Len(heap) : g[m].in = heap[m].in
          /\ \A m \in 1..Len(heap) : g[m].class = heap[m].class
      BY <3>2 DEF Same
    <3>4. ASSUME NEW m \in 1..Len(heap) PROVE heap[m] = g[m]
      <4>1. Node(heap[m]) /\ Node(g[m]) BY <3>1 DEF Heap
      <4>2. g[m].kind = heap[m].kind /\ g[m].in = heap[m].in /\ g[m].class = heap[m].class BY <3>1, <3>3
      <4>. QED BY ONLY <4>1, <4>2 DEF Node
    <3>5. Row(heap) /\ Row(g) BY <3>1 DEF Heap
    <3>6. heap = g BY ONLY <3>1, <3>4, <3>5, RowSame
    <3>. QED BY <3>6 DEF g
  <2>3. ~Callbacks' => config.mode # "callbacks" BY <1>1 DEF Callbacks
  <2>. QED BY <1>1, <1>2, <1>3, <1>8, <1>9, <2>2, <2>3
<1>12. YieldsDocuments'
  <2>1. Yields(config, yielded, meant.docs, text) BY <1>1 DEF Agreement
  <2>2. Has({"comment"})' <=> Seen({"comment"}, text') BY <1>1, HasNext
  <2>. QED BY <1>1, <1>2, <1>3, <2>1, <2>2 DEF YieldsDocuments, Yields, Commented, Sparse, Callbacks
<1>13. Agreement' BY <1>2, <1>3 DEF Agreement
<1>. QED BY <1>2, <1>10, <1>11, <1>12, <1>13 DEF Sound, Recognises, RefusesOnlyOthers, Delivers

-----------------------------------------------------------------------------
(* The theorems.                                                             *)

\* A step that changes nothing keeps the shapes,
LEMMA KStays == ASSUME KInv, UNCHANGED vars PROVE KInv'
<1>1. Kept' BY SameKept DEF KInv, Kept, vars
<1>. QED BY <1>1 DEF KInv, Read1, Freeable, Callbacks, Answers, vars, calls

\* and keeps the agreement.
LEMMA SoundStays == ASSUME KInv, Sound, UNCHANGED vars PROVE Sound'
<1>1. UNCHANGED <<slots, tail, room, block, heap, config, text, meant, first, answer, result, yielded>>
  BY DEF vars, calls, stackVars
<1>2. \A kinds : Has(kinds)' <=> Has(kinds) BY <1>1 DEF Has, Count
<1>3. (LongKeys' <=> LongKeys) /\ (KeysMoved' <=> KeysMoved) /\ (Sparse' <=> Sparse) /\ (Callbacks' <=> Callbacks) /\ (Many' <=> Many)
  BY <1>1 DEF LongKeys, KeysMoved, Sparse, Callbacks, Many
<1>4. Agrees(meant)' <=> Agrees(meant) BY <1>1, <1>3 DEF Agrees, Exact
<1>5. Stuck' <=> Stuck BY <1>1 DEF Stuck
<1>6. Agreement' BY <1>1, <1>2, <1>4, <1>5 DEF Sound, Agreement
<1>7. Recognises' BY <1>1, <1>2, <1>3 DEF Sound, Recognises, AcceptsOnlyJson, RefusesOnlyOthers
<1>8. Delivers' BY <1>1, <1>2, <1>3 DEF Sound, Delivers, BuildsDocument, YieldsDocuments
<1>. QED BY <1>6, <1>7, <1>8 DEF Sound

\* Before the first token both sides agree.
LEMMA SoundInit == ASSUME Init PROVE Sound
<1>1. KInv BY KInit
<1>2. slots = <<Val(Undef, "NONE")>> /\ tail = 0 /\ config \in Configs /\ text = <<>> /\ meant = NoText /\ heap = <<>>
      /\ first = TRUE /\ answer = "reading" /\ yielded = <<>>
  BY DEF Init, StackInit
<1>3. Row(<<>>) /\ Len(<<>>) = 0
  <2>1. <<>> \in Seq({}) /\ Len(<<>>) = 0 OBVIOUS
  <2>. QED BY <2>1, RowSeq
<1>4. /\ meant.d = Fresh /\ meant.heap = <<>> /\ meant.open = <<>> /\ meant.names = <<>> /\ meant.docs = <<>> /\ meant.deep = 0
      /\ Shape(meant)
  BY <1>2 DEF NoText, Shape
<1>5. meant.d.open = <<>> /\ meant.d.at = "start" /\ meant.d = [at |-> meant.d.at, open |-> meant.d.open] BY <1>4 DEF Fresh
<1>6. Stands(slots, tail, meant.d) BY <1>2, <1>3, <1>5 DEF Stands
<1>7. Holds(slots, tail, heap, meant.open, meant.d.open) BY <1>2, <1>3, <1>4 DEF Holds
<1>8. Alike(heap, meant.heap) BY <1>2, <1>3, <1>4 DEF Alike, Heap
<1>9. Same(config, slots, tail, heap, meant.open, meant.names, meant.heap) BY <1>2, <1>3, <1>4 DEF Same
<1>10. slots[1].val = Undef BY <1>2 DEF Val
<1>11. Documents(config, first, tail, slots[1].val, meant.docs, text) BY <1>2, <1>3, <1>4, <1>10 DEF Documents
<1>12. Depth(config, tail, meant.deep)
  <2>1. config.maxDepth \in Nat BY <1>2, ClassicAssumption DEF ClassicAssumption
  <2>. QED BY <1>2, <1>4, <2>1 DEF Depth
<1>13. Agrees(meant) BY <1>2, <1>3, <1>4, <1>6, <1>7, <1>8, <1>9, <1>11, <1>12 DEF Agrees
<1>14. Yields(config, yielded, meant.docs, text) BY <1>2, <1>4 DEF Yields
<1>15. ~Has({"nan"})
  <2>1. Has({"nan"}) <=> Seen({"nan"}, text) BY <1>2, <1>3, HasIs
  <2>. QED BY <1>2, <1>3, <2>1 DEF Seen
<1>16. Agreement BY <1>3, <1>4, <1>13, <1>14, <1>15 DEF Agreement
<1>. QED BY <1>1, <1>2, <1>16, ReadingSound

\* Every step keeps them agreeing, or stops as the properties say.
LEMMA SoundNext == ASSUME KInv, KInv', Sound, Next PROVE Sound'
<1>1. Agreement BY DEF Sound
<1>2. CASE Extra BY <1>1, <1>2, ExtraSound
<1>3. CASE Start BY <1>1, <1>3, StartSound
<1>4. CASE ArrayEnd BY <1>1, <1>4, ArrayEndSound
<1>5. CASE HashEnd BY <1>1, <1>5, HashEndSound
<1>6. CASE Comma BY <1>1, <1>6, CommaSound
<1>7. CASE Colon BY <1>1, <1>7, ColonSound
<1>8. CASE String BY <1>1, <1>8, StringSound
<1>9. CASE NumberOrWord BY <1>1, <1>9, NumberSound
<1>10. CASE NotANumber BY <1>1, <1>10, NaNSound
<1>11. CASE Comment BY <1>1, <1>11, CommentSound
<1>12. CASE NoToken BY <1>1, <1>12, NoTokenSound
<1>13. CASE Nested BY <1>1, <1>13, NestedSound
<1>14. CASE Raise BY <1>1, <1>14, RaiseSound
<1>15. CASE End BY <1>1, <1>15, RefusedSound, AcceptedSound
<1>16. CASE Over
  <2>1. UNCHANGED vars BY <1>16 DEF Over
  <2>. QED BY <2>1, SoundStays
<1>. QED BY <1>2, <1>3, <1>4, <1>5, <1>6, <1>7, <1>8, <1>9, <1>10, <1>11, <1>12, <1>13, <1>14, <1>15, <1>16 DEF Next

\* The parser and a reader of JSON texts agree, at every step.
THEOREM ClassicSound == Spec => [](KInv /\ Sound)
<1>1. Init => KInv /\ Sound BY KInit, SoundInit
<1>2. KInv /\ Sound /\ [Next]_vars => (KInv /\ Sound)'
  <2>1. ASSUME KInv, Sound, Next PROVE KInv' /\ Sound' BY <2>1, KNext, SoundNext
  <2>2. ASSUME KInv, Sound, UNCHANGED vars PROVE KInv' /\ Sound' BY <2>2, KStays, SoundStays
  <2>. QED BY <2>1, <2>2
<1>. QED BY <1>1, <1>2, PTL DEF Spec

\* What parse.c and sparse.c accept is JSON, and what they refuse is not, but for the
\* exceptions the property lists: texts of any length and depth, in every configuration.
THEOREM RecognisesJson == Spec => []Recognises
<1>1. KInv /\ Sound => Recognises BY DEF Sound
<1>. QED BY <1>1, ClassicSound, PTL

\* What is accepted becomes the document it says, the values in their containers, under their
\* keys, and a block is given every document in turn.
THEOREM DeliversDocuments == Spec => []Delivers
<1>1. KInv /\ Sound => Delivers BY DEF Sound
<1>. QED BY <1>1, ClassicSound, PTL
===============================================================================
