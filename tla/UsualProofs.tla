----------------------------- MODULE UsualProofs -----------------------------
(* Proof that the usual delegate builds the documents it is told of, and that*)
(* its stacks stay in step and in bounds: for every set of keys, texts and   *)
(* classes, every depth and number of values, any options and any capacity.  *)
(* And that the checks of the safe parser in front of it stop a document     *)
(* where they should and nowhere else, and change nothing but where it ends. *)
EXTENDS Safe, SequenceTheorems, WellFoundedInduction, TLAPS

-----------------------------------------------------------------------------
(* Sequences of anything.                                                    *)

Sequence(s) == \E S : s \in Seq(S)

LEMMA Lengths ==
    ASSUME NEW s, Sequence(s)
    PROVE  Len(s) \in Nat /\ DOMAIN s = 1..Len(s)
BY DEF Sequence

LEMMA Empty ==
    Sequence(<<>>) /\ Len(<<>>) = 0
BY DEF Sequence

LEMMA Appended ==
    ASSUME NEW s, Sequence(s), NEW x
    PROVE  /\ Sequence(Append(s, x)) /\ Len(Append(s, x)) = Len(s) + 1
           /\ \A i \in 1..Len(s) : Append(s, x)[i] = s[i]
           /\ Append(s, x)[Len(s) + 1] = x
<1>1. PICK S : s \in Seq(S) BY DEF Sequence
<1>2. s \in Seq(S \cup {x}) /\ x \in S \cup {x} BY <1>1, SeqMonotonic
<1>3. Append(s, x) \in Seq(S \cup {x}) BY <1>2
<1>. QED BY <1>2, <1>3, AppendProperties, LenProperties DEF Sequence

LEMMA Joined ==
    ASSUME NEW s, Sequence(s), NEW x, NEW y
    PROVE  LET t == s \o <<x, y>>
           IN  /\ Sequence(t) /\ Len(t) = Len(s) + 2
               /\ \A i \in 1..Len(s) : t[i] = s[i]
               /\ t[Len(s) + 1] = x /\ t[Len(s) + 2] = y
<1>1. PICK S : s \in Seq(S) BY DEF Sequence
<1>2. s \in Seq(S \cup {x, y}) /\ <<x, y>> \in Seq(S \cup {x, y}) BY <1>1, SeqMonotonic
<1>3. s \o <<x, y>> \in Seq(S \cup {x, y}) BY <1>2
<1>4. Len(<<x, y>>) = 2 /\ <<x, y>>[1] = x /\ <<x, y>>[2] = y OBVIOUS
<1>. QED BY <1>2, <1>3, <1>4, ConcatProperties, LenProperties DEF Sequence

LEMMA Cut ==
    ASSUME NEW s, Sequence(s), NEW n \in 0..Len(s)
    PROVE  LET t == SubSeq(s, 1, n)
           IN  /\ Sequence(t) /\ Len(t) = n
               /\ \A i \in 1..n : t[i] = s[i]
<1>1. PICK S : s \in Seq(S) BY DEF Sequence
<1>2. Len(s) \in Nat BY <1>1
<1>3. SubSeq(s, 1, n) \in Seq(S) BY <1>1, <1>2
<1>. QED BY <1>1, <1>2, <1>3, SubSeqProperties DEF Sequence

LEMMA Rest ==
    ASSUME NEW s, Sequence(s), NEW n \in 0..Len(s)
    PROVE  LET t == SubSeq(s, n + 1, Len(s))
           IN  /\ Sequence(t) /\ Len(t) = Len(s) - n
               /\ \A i \in 1..Len(s) - n : t[i] = s[n + i]
<1>1. PICK S : s \in Seq(S) BY DEF Sequence
<1>2. Len(s) \in Nat BY <1>1
<1>3. SubSeq(s, n + 1, Len(s)) \in Seq(S) BY <1>1, <1>2
<1>. QED BY <1>1, <1>2, <1>3, SubSeqProperties DEF Sequence

LEMMA Replaced ==
    ASSUME NEW s, Sequence(s), NEW n \in 1..Len(s), NEW x
    PROVE  LET t == [s EXCEPT ![n] = x]
           IN  /\ Sequence(t) /\ Len(t) = Len(s)
               /\ \A i \in 1..Len(s) : t[i] = IF i = n THEN x ELSE s[i]
<1>1. PICK S : s \in Seq(S) BY DEF Sequence
<1>2. s \in Seq(S \cup {x}) BY <1>1, SeqMonotonic
<1>3. [s EXCEPT ![n] = x] \in Seq(S \cup {x}) BY <1>2
<1>. QED BY <1>2, <1>3 DEF Sequence

LEMMA FrontCut ==
    ASSUME NEW s, Sequence(s), s # <<>>
    PROVE  /\ Sequence(Front(s)) /\ Len(Front(s)) = Len(s) - 1 /\ Len(s) > 0
           /\ \A i \in 1..Len(s) - 1 : Front(s)[i] = s[i]
<1>1. PICK S : s \in Seq(S) BY DEF Sequence
<1>2. Len(s) \in Nat /\ Len(s) > 0 BY <1>1, EmptySeq
<1>3. Len(s) - 1 \in 0..Len(s) BY <1>2
<1>. QED BY <1>2, <1>3, Cut DEF Front

LEMMA Same ==
    ASSUME NEW s, Sequence(s), NEW t, Sequence(t), Len(s) = Len(t),
           \A i \in 1..Len(s) : s[i] = t[i]
    PROVE  s = t
<1>1. PICK S : s \in Seq(S) BY DEF Sequence
<1>2. PICK T : t \in Seq(T) BY DEF Sequence
<1>3. s \in Seq(S \cup T) /\ t \in Seq(S \cup T) BY <1>1, <1>2, SeqMonotonic
<1>. QED BY <1>3, SeqEqual

-----------------------------------------------------------------------------
(* How the stacks stand to one another, for n values and m keys on them: the *)
(* slots of container i end where that of the container in it is, two slots  *)
(* of an object are one key, and the keys of an object end where those of the*)
(* next object begin.                                                        *)

Half(x) == x \div 2
End(n, cs, i)   == IF i = Len(cs) THEN n ELSE cs[i + 1].vi + 1
Count(n, cs, i) == End(n, cs, i) - (cs[i].vi + 1)
KeyEnd(n, cs, i) == cs[i].ki + Half(Count(n, cs, i))

Level(n, cs, op, i) ==
    /\ op[i] \in {"array", "object"}
    /\ cs[i].vi \in Nat /\ Count(n, cs, i) \in Nat
    /\ i < Len(cs) => Count(n, cs, i) >= 1
    /\ op[i] = "array" => cs[i].ki = -1
    /\ op[i] = "object" => cs[i].ki \in Nat /\ Count(n, cs, i) = 2 * Half(Count(n, cs, i))
ArraysOnly(op, i, j) == \A k \in i..j : op[k] = "array"
KeysInOrder(n, cs, m, op) ==
    \A i \in 1..Len(op) : op[i] = "object" =>
        /\ KeyEnd(n, cs, i) <= m
        /\ ArraysOnly(op, i + 1, Len(op)) => KeyEnd(n, cs, i) = m
        /\ \A j \in i + 1..Len(op) : op[j] = "object" =>
              /\ KeyEnd(n, cs, i) <= cs[j].ki
              /\ ArraysOnly(op, i + 1, j - 1) => KeyEnd(n, cs, i) = cs[j].ki
Shape(n, cs, m, op) ==
    /\ n \in Nat /\ m \in Nat
    /\ Sequence(cs) /\ Sequence(op) /\ Len(cs) = Len(op)
    /\ \A i \in 1..Len(op) : Level(n, cs, op, i)
    /\ KeysInOrder(n, cs, m, op)

LEMMA Halves ==
    ASSUME NEW x \in Nat
    PROVE  Half(x) \in Nat /\ Half(x + 2) = Half(x) + 1 /\ Half(0) = 0 /\ Half(2 * x) = x
BY DEF Half

\* A value of an array.
LEMMA ShapeValue ==
    ASSUME NEW n, NEW cs, NEW m, NEW op, Shape(n, cs, m, op), op # <<>> => op[Len(op)] = "array"
    PROVE  /\ Shape(n + 1, cs, m, op)
           /\ Len(op) > 0 => Count(n + 1, cs, Len(op)) >= 1
<1>. DEFINE l == Len(op)
<1>1. n \in Nat /\ m \in Nat /\ l \in Nat /\ Len(cs) = l BY Lengths DEF Shape
<1>2. \A i \in 1..l : i < l => Count(n + 1, cs, i) = Count(n, cs, i) /\ KeyEnd(n + 1, cs, i) = KeyEnd(n, cs, i)
  BY <1>1 DEF Count, End, KeyEnd
<1>3. l > 0 => op[l] = "array" BY <1>1, Empty
<1>4. \A i \in 1..l : i = l => Count(n + 1, cs, i) = Count(n, cs, i) + 1
  BY <1>1 DEF Count, End, Shape, Level
<1>5. ASSUME NEW i \in 1..l PROVE Level(n + 1, cs, op, i)
  <2>1. CASE i < l BY <1>1, <1>2, <2>1 DEF Shape, Level
  <2>2. CASE i = l BY <1>1, <1>3, <1>4, <2>2 DEF Shape, Level
  <2>. QED BY <1>1, <2>1, <2>2
<1>6. ASSUME NEW i \in 1..l, op[i] = "object" PROVE KeyEnd(n + 1, cs, i) = KeyEnd(n, cs, i)
  <2>1. i < l BY <1>1, <1>3, <1>6
  <2>. QED BY <1>2, <2>1
<1>7. KeysInOrder(n + 1, cs, m, op) BY <1>6 DEF Shape, KeysInOrder
<1>8. l > 0 => Count(n + 1, cs, l) >= 1 BY <1>1, <1>4 DEF Shape, Level
<1>. QED BY <1>1, <1>5, <1>7, <1>8 DEF Shape

\* A key and a value of an object.
LEMMA ShapeMember ==
    ASSUME NEW n, NEW cs, NEW m, NEW op, Shape(n, cs, m, op), op # <<>>, op[Len(op)] = "object"
    PROVE  /\ Shape(n + 2, cs, m + 1, op)
           /\ Len(op) > 0 => Count(n + 2, cs, Len(op)) >= 1
           /\ KeyEnd(n + 2, cs, Len(op)) = KeyEnd(n, cs, Len(op)) + 1
<1>. DEFINE l == Len(op)
<1>1. n \in Nat /\ m \in Nat /\ l \in Nat /\ Len(cs) = l BY Lengths DEF Shape
<1>2. l \in 1..l
  <2>1. PICK S : op \in Seq(S) BY DEF Shape, Sequence
  <2>. QED BY <1>1, <2>1, EmptySeq
<1>3. \A i \in 1..l : i < l => Count(n + 2, cs, i) = Count(n, cs, i) /\ KeyEnd(n + 2, cs, i) = KeyEnd(n, cs, i)
  BY <1>1 DEF Count, End, KeyEnd
<1>4. Count(n + 2, cs, l) = Count(n, cs, l) + 2 /\ Count(n, cs, l) \in Nat /\ cs[l].ki \in Nat
      /\ Count(n, cs, l) = 2 * Half(Count(n, cs, l))
  BY <1>1, <1>2 DEF Count, End, Shape, Level
<1>5. Half(Count(n + 2, cs, l)) = Half(Count(n, cs, l)) + 1 /\ Half(Count(n, cs, l)) \in Nat BY <1>4, Halves
<1>6. KeyEnd(n + 2, cs, l) = KeyEnd(n, cs, l) + 1 BY <1>4, <1>5 DEF KeyEnd
<1>7. ASSUME NEW i \in 1..l PROVE Level(n + 2, cs, op, i)
  <2>1. CASE i < l BY <1>1, <1>3, <2>1 DEF Shape, Level
  <2>2. CASE i = l BY <1>1, <1>4, <1>5, <2>2 DEF Shape, Level
  <2>. QED BY <1>1, <2>1, <2>2
<1>8. KeysInOrder(n + 2, cs, m + 1, op)
  <2>1. SUFFICES ASSUME NEW i \in 1..l, op[i] = "object"
                 PROVE  /\ KeyEnd(n + 2, cs, i) <= m + 1
                        /\ ArraysOnly(op, i + 1, l) => KeyEnd(n + 2, cs, i) = m + 1
                        /\ \A j \in i + 1..l : op[j] = "object" =>
                              /\ KeyEnd(n + 2, cs, i) <= cs[j].ki
                              /\ ArraysOnly(op, i + 1, j - 1) => KeyEnd(n + 2, cs, i) = cs[j].ki
    BY DEF KeysInOrder
  <2>2. CASE i < l
    <3>1. ~ArraysOnly(op, i + 1, l) BY <1>1, <2>2 DEF ArraysOnly
    <3>2. KeyEnd(n, cs, i) <= m /\ KeyEnd(n, cs, i) \in Int
      <4>1. Level(n, cs, op, i) BY DEF Shape
      <4>2. cs[i].ki \in Nat /\ Half(Count(n, cs, i)) \in Nat BY <2>1, <4>1, Halves DEF Level
      <4>3. KeyEnd(n, cs, i) \in Int BY <4>2 DEF KeyEnd
      <4>4. KeyEnd(n, cs, i) <= m BY <2>1 DEF Shape, KeysInOrder
      <4>. QED BY <4>3, <4>4
    <3>. QED BY <1>1, <1>3, <2>1, <2>2, <3>1, <3>2 DEF Shape, KeysInOrder
  <2>3. CASE i = l
    <3>1. ArraysOnly(op, l + 1, l) BY <1>1 DEF ArraysOnly
    <3>2. KeyEnd(n, cs, l) = m BY <1>2, <2>1, <2>3, <3>1 DEF Shape, KeysInOrder
    <3>. QED BY <1>1, <1>6, <2>3, <3>2
  <2>. QED BY <1>1, <2>2, <2>3
<1>9. Count(n + 2, cs, l) >= 1 BY <1>4
<1>. QED BY <1>1, <1>6, <1>7, <1>8, <1>9 DEF Shape

\* The last value becomes a container.
LEMMA ShapeOpened ==
    ASSUME NEW n, NEW cs, NEW m, NEW op, Shape(n, cs, m, op), n > 0,
           Len(op) > 0 => Count(n, cs, Len(op)) >= 1, NEW kind \in {"array", "object"}
    PROVE  Shape(n, Append(cs, [vi |-> n - 1, ki |-> IF kind = "array" THEN -1 ELSE m]), m, Append(op, kind))
<1>. DEFINE l == Len(op)
            c == [vi |-> n - 1, ki |-> IF kind = "array" THEN -1 ELSE m]
            cn == Append(cs, c)
            on == Append(op, kind)
<1>1. n \in Nat /\ m \in Nat /\ l \in Nat /\ Len(cs) = l /\ Sequence(cs) /\ Sequence(op) BY Lengths DEF Shape
<1>2. /\ Sequence(cn) /\ Len(cn) = l + 1 /\ \A i \in 1..l : cn[i] = cs[i]
      /\ cn[l + 1] = c
  BY <1>1, Appended
<1>3. Sequence(on) /\ Len(on) = l + 1 /\ (\A i \in 1..l : on[i] = op[i]) /\ on[l + 1] = kind
  BY <1>1, Appended
<1>4. c.vi = n - 1 /\ c.ki = IF kind = "array" THEN -1 ELSE m OBVIOUS
<1>. HIDE DEF c, cn, on
<1>5. ASSUME NEW i \in 1..l PROVE Count(n, cn, i) = Count(n, cs, i) /\ KeyEnd(n, cn, i) = KeyEnd(n, cs, i)
  <2>1. End(n, cn, i) = End(n, cs, i)
    <3>1. CASE i < l BY <1>1, <1>2, <3>1 DEF End
    <3>2. CASE i = l BY <1>1, <1>2, <1>4, <3>2 DEF End
    <3>. QED BY <1>1, <3>1, <3>2
  <2>. QED BY <1>2, <2>1 DEF Count, KeyEnd
<1>6. Count(n, cn, l + 1) = 0 BY <1>1, <1>2, <1>4 DEF Count, End
<1>7. ASSUME NEW i \in 1..l + 1 PROVE Level(n, cn, on, i)
  <2>1. CASE i \in 1..l
    <3>1. Level(n, cs, op, i) BY <2>1 DEF Shape
    <3>2. i = l => Count(n, cs, i) >= 1 BY <1>1, <2>1
    <3>. QED BY <1>1, <1>2, <1>3, <1>5, <2>1, <3>1, <3>2 DEF Level
  <2>2. CASE i = l + 1
    <3>1. Half(0) = 0 BY Halves
    <3>2. Count(n, cn, i) = 2 * Half(Count(n, cn, i)) /\ Count(n, cn, i) \in Nat BY <1>6, <2>2, <3>1
    <3>3. cn[i].vi \in Nat /\ (kind = "array" => cn[i].ki = -1) /\ (kind = "object" => cn[i].ki \in Nat)
      BY <1>1, <1>2, <1>4, <2>2
    <3>. QED BY <1>1, <1>2, <1>3, <2>2, <3>2, <3>3 DEF Level
  <2>. QED BY <1>1, <2>1, <2>2
<1>9. KeysInOrder(n, cn, m, on)
  <2>1. SUFFICES ASSUME NEW i \in 1..l + 1, on[i] = "object"
                 PROVE  /\ KeyEnd(n, cn, i) <= m
                        /\ ArraysOnly(on, i + 1, l + 1) => KeyEnd(n, cn, i) = m
                        /\ \A j \in i + 1..l + 1 : on[j] = "object" =>
                              /\ KeyEnd(n, cn, i) <= cn[j].ki
                              /\ ArraysOnly(on, i + 1, j - 1) => KeyEnd(n, cn, i) = cn[j].ki
    BY <1>3 DEF KeysInOrder
  <2>2. CASE i = l + 1
    <3>0. Half(0) = 0 BY Halves
    <3>1. KeyEnd(n, cn, i) = m BY <1>1, <1>2, <1>3, <1>4, <1>6, <2>1, <2>2, <3>0 DEF KeyEnd
    <3>. QED BY <1>1, <2>2, <3>1
  <2>3. CASE i \in 1..l
    <3>1. /\ KeyEnd(n, cs, i) <= m
          /\ ArraysOnly(op, i + 1, l) => KeyEnd(n, cs, i) = m
          /\ \A j \in i + 1..l : op[j] = "object" =>
                /\ KeyEnd(n, cs, i) <= cs[j].ki
                /\ ArraysOnly(op, i + 1, j - 1) => KeyEnd(n, cs, i) = cs[j].ki
      BY <1>3, <2>1, <2>3 DEF Shape, KeysInOrder
    <3>2. ArraysOnly(on, i + 1, l + 1) => ArraysOnly(op, i + 1, l) BY <1>1, <1>3, <2>3 DEF ArraysOnly
    <3>3. ArraysOnly(on, i + 1, l) => ArraysOnly(op, i + 1, l) BY <1>1, <1>3, <2>3 DEF ArraysOnly
    <3>4. \A j \in i + 1..l : ArraysOnly(on, i + 1, j - 1) => ArraysOnly(op, i + 1, j - 1)
      BY <1>1, <1>3, <2>3 DEF ArraysOnly
    <3>5. ASSUME NEW j \in i + 1..l + 1, on[j] = "object"
          PROVE  /\ KeyEnd(n, cn, i) <= cn[j].ki
                 /\ ArraysOnly(on, i + 1, j - 1) => KeyEnd(n, cn, i) = cn[j].ki
      <4>1. CASE j \in 1..l BY <1>1, <1>2, <1>3, <1>5, <2>3, <3>1, <3>4, <3>5, <4>1
      <4>2. CASE j = l + 1
        <5>1. cn[j].ki = m BY <1>2, <1>3, <1>4, <3>5, <4>2
        <5>. QED BY <1>1, <1>5, <2>3, <3>1, <3>3, <4>2, <5>1
      <4>. QED BY <1>1, <2>3, <4>1, <4>2
    <3>. QED BY <1>5, <2>3, <3>1, <3>2, <3>5
  <2>. QED BY <1>1, <2>2, <2>3
<1>. QED BY <1>1, <1>2, <1>3, <1>7, <1>9 DEF Shape, cn, on, c

\* The innermost container becomes a value.
LEMMA ShapeClosed ==
    ASSUME NEW n, NEW cs, NEW m, NEW op, Shape(n, cs, m, op), op # <<>>,
           NEW k, k = IF op[Len(op)] = "array" THEN m ELSE cs[Len(cs)].ki
    PROVE  Shape(cs[Len(cs)].vi + 1, Front(cs), k, Front(op))
<1>. DEFINE l == Len(op)
            v == cs[l].vi + 1
            cn == Front(cs)
            on == Front(op)
<1>1. n \in Nat /\ m \in Nat /\ l \in Nat /\ Len(cs) = l /\ Sequence(cs) /\ Sequence(op) BY Lengths DEF Shape
<1>2. Sequence(on) /\ Len(on) = l - 1 /\ l > 0 /\ \A i \in 1..l - 1 : on[i] = op[i]
  BY <1>1, FrontCut
<1>3. Sequence(cn) /\ Len(cn) = l - 1 /\ \A i \in 1..l - 1 : cn[i] = cs[i]
  BY <1>1, <1>2, FrontCut, Empty
<1>4. Level(n, cs, op, l) BY <1>1, <1>2 DEF Shape
<1>5. v \in Nat /\ k \in Nat BY <1>1, <1>4 DEF Level
<1>. HIDE DEF cn, on
<1>6. ASSUME NEW i \in 1..l - 1 PROVE Count(v, cn, i) = Count(n, cs, i) /\ KeyEnd(v, cn, i) = KeyEnd(n, cs, i)
  <2>1. End(v, cn, i) = End(n, cs, i) BY <1>1, <1>2, <1>3 DEF End
  <2>. QED BY <1>3, <2>1 DEF Count, KeyEnd
<1>7. ASSUME NEW i \in 1..l - 1 PROVE Level(v, cn, on, i)
  <2>1. Level(n, cs, op, i) BY <1>1 DEF Shape
  <2>. QED BY <1>1, <1>2, <1>3, <1>6, <2>1 DEF Level
<1>8. KeysInOrder(v, cn, k, on)
  <2>1. SUFFICES ASSUME NEW i \in 1..l - 1, on[i] = "object"
                 PROVE  /\ KeyEnd(v, cn, i) <= k
                        /\ ArraysOnly(on, i + 1, l - 1) => KeyEnd(v, cn, i) = k
                        /\ \A j \in i + 1..l - 1 : on[j] = "object" =>
                              /\ KeyEnd(v, cn, i) <= cn[j].ki
                              /\ ArraysOnly(on, i + 1, j - 1) => KeyEnd(v, cn, i) = cn[j].ki
    BY <1>2 DEF KeysInOrder
  <2>2. /\ KeyEnd(n, cs, i) <= m
        /\ ArraysOnly(op, i + 1, l) => KeyEnd(n, cs, i) = m
        /\ \A j \in i + 1..l : op[j] = "object" =>
              /\ KeyEnd(n, cs, i) <= cs[j].ki
              /\ ArraysOnly(op, i + 1, j - 1) => KeyEnd(n, cs, i) = cs[j].ki
    BY <1>1, <1>2, <2>1, SMTT(30) DEF Shape, KeysInOrder
  <2>3. ASSUME NEW j \in i + 1..l PROVE ArraysOnly(on, i + 1, j - 1) <=> ArraysOnly(op, i + 1, j - 1)
    <3>1. \A p \in i + 1..j - 1 : on[p] = op[p] BY <1>1, <1>2
    <3>. QED BY <3>1 DEF ArraysOnly
  <2>4. KeyEnd(v, cn, i) <= k /\ (ArraysOnly(on, i + 1, l - 1) => KeyEnd(v, cn, i) = k)
    <3>1. CASE op[l] = "array"
      <4>1. ArraysOnly(on, i + 1, l - 1) => ArraysOnly(op, i + 1, l) BY <1>1, <1>2, <3>1 DEF ArraysOnly
      <4>. QED BY <1>6, <2>2, <3>1, <4>1
    <3>2. CASE op[l] = "object"
      <4>1. l \in i + 1..l BY <1>1, <1>2
      <4>2. KeyEnd(n, cs, i) <= cs[l].ki /\ (ArraysOnly(op, i + 1, l - 1) => KeyEnd(n, cs, i) = cs[l].ki)
        BY <2>2, <3>2, <4>1
      <4>3. k = cs[l].ki BY <1>1, <3>2
      <4>. QED BY <1>6, <2>3, <4>1, <4>2, <4>3
    <3>. QED BY <1>4, <3>1, <3>2 DEF Level
  <2>5. ASSUME NEW j \in i + 1..l - 1, on[j] = "object"
        PROVE  /\ KeyEnd(v, cn, i) <= cn[j].ki
               /\ ArraysOnly(on, i + 1, j - 1) => KeyEnd(v, cn, i) = cn[j].ki
    <3>1. j \in i + 1..l /\ op[j] = "object" /\ cn[j] = cs[j] BY <1>1, <1>2, <1>3, <2>5
    <3>. QED BY <1>6, <2>2, <2>3, <3>1
  <2>. QED BY <2>4, <2>5
<1>. QED BY <1>1, <1>2, <1>3, <1>5, <1>7, <1>8 DEF Shape, cn, on

-----------------------------------------------------------------------------
\* The least-number principle, for Min and Max.
LEMMA Least ==
    ASSUME NEW S, S \subseteq Nat, S # {}
    PROVE  Min(S) \in S /\ \A y \in S : Min(S) <= y
<1>. DEFINE R == OpToRel(<, Nat)
<1>1. IsWellFoundedOn(R, Nat) BY NatLessThanWellFounded
<1>2. \A x, y \in Nat : y < x => <<y, x>> \in R BY DEF OpToRel
<1>. HIDE DEF R
<1>3. PICK x \in S : \A y \in S : ~(<<y, x>> \in R) BY <1>1, WFMin
<1>4. ASSUME NEW y \in S PROVE x <= y
  <2>1. x \in Nat /\ y \in Nat OBVIOUS
  <2>2. ~(y < x) BY <1>2, <1>3, <2>1, Zenon
  <2>. QED BY <2>1, <2>2
<1>5. \E z \in S : \A y \in S : z <= y BY <1>4
<1>. QED BY ONLY <1>5, Zenon DEF Min

LEMMA Greatest ==
    ASSUME NEW n \in Nat, NEW S, S \subseteq 0..n, S # {}
    PROVE  Max(S) \in S /\ \A y \in S : Max(S) >= y
<1>. DEFINE T == {m \in Nat : \A y \in S : y <= m}
            x == Min(T)
<1>1. n \in T /\ T \subseteq Nat OBVIOUS
<1>2. x \in T /\ \A m \in T : x <= m BY <1>1, Least
<1>. HIDE DEF x
<1>3. x \in S
  <2>1. SUFFICES ASSUME x \notin S PROVE FALSE OBVIOUS
  <2>2. \A y \in S : y <= x - 1 BY <1>2, <2>1
  <2>3. x - 1 \in Nat
    <3>1. PICK y \in S : TRUE OBVIOUS
    <3>. QED BY <1>2, <2>2, <3>1
  <2>. QED BY <1>2, <2>2, <2>3
<1>4. \E z \in S : \A y \in S : z >= y BY <1>2, <1>3
<1>. QED BY ONLY <1>4, Zenon DEF Max

LEMMA GreatestIs ==
    ASSUME NEW S, S \subseteq Int, NEW n \in S, \A y \in S : n >= y
    PROVE  Max(S) = n
<1>1. \E z \in S : \A y \in S : z >= y OBVIOUS
<1>2. Max(S) \in S /\ \A y \in S : Max(S) >= y BY ONLY <1>1, Zenon DEF Max
<1>3. Max(S) \in Int /\ n \in Int /\ Max(S) >= n /\ n >= Max(S) BY <1>2
<1>. QED BY <1>3

-----------------------------------------------------------------------------
(* Hashes: the last value of each key, some keys left out.                   *)

Off(h, S) == [k \in DOMAIN h \ S |-> h[k]]

Named(p, places, k) == {i \in places : p[i][1] = k}
\* The places are among the first n.
UpTo(places, n) == n \in Nat /\ places \subseteq 1..n
After(x, n) == x \in Nat /\ x > n
With(P, x) == P \cup {x}
First(n)   == 1..n

LEMMA HashKeys ==
    ASSUME NEW p, NEW places
    PROVE  DOMAIN HashOf(p, places) = {p[i][1] : i \in places}
BY DEF HashOf

LEMMA HashAt ==
    ASSUME NEW n, NEW p, NEW places, UpTo(places, n), NEW k \in {p[i][1] : i \in places}
    PROVE  /\ Max(Named(p, places, k)) \in places
           /\ HashOf(p, places)[k] = p[Max(Named(p, places, k))][2]
<1>1. Named(p, places, k) # {} BY DEF Named
<1>2. ASSUME NEW i \in Named(p, places, k) PROVE i \in 0..n
  <2>1. n \in Nat /\ i \in 1..n BY DEF Named, UpTo
  <2>. QED BY <2>1
<1>3. Max(Named(p, places, k)) \in Named(p, places, k) BY <1>1, <1>2, Greatest DEF UpTo
<1>4. HashOf(p, places)[k] = p[Max(Named(p, places, k))][2] BY DEF HashOf, Named
<1>. QED BY <1>3, <1>4 DEF Named

\* Only the pairs that are in it count.
LEMMA HashSame ==
    ASSUME NEW n, NEW p, NEW q, NEW places, UpTo(places, n), \A i \in places : p[i] = q[i]
    PROVE  HashOf(p, places) = HashOf(q, places)
<1>1. {p[i][1] : i \in places} = {q[i][1] : i \in places} OBVIOUS
<1>2. ASSUME NEW k \in {p[i][1] : i \in places}
      PROVE  p[Max(Named(p, places, k))][2] = q[Max(Named(q, places, k))][2]
  <2>1. Named(p, places, k) = Named(q, places, k) BY DEF Named
  <2>2. Max(Named(p, places, k)) \in places BY HashAt
  <2>. QED BY <2>1, <2>2
<1>. QED BY <1>1, <1>2 DEF HashOf, Named

\* A value for a key that comes last is the key's value.
Put(p, P, k, v) == [j \in {p[i][1] : i \in P} \cup {k} |->
                       IF j = k THEN v ELSE p[Max(Named(p, P, j))][2]]

LEMMA HashPut ==
    ASSUME NEW n, NEW p, NEW P, UpTo(P, n), NEW x, After(x, n),
           NEW k, NEW v, p[x][1] = k, p[x][2] = v
    PROVE  HashOf(p, With(P, x)) = Put(p, P, k, v)
<1>1. {p[i][1] : i \in With(P, x)} = {p[i][1] : i \in P} \cup {k} BY DEF With
<1>2. ASSUME NEW j, j # k PROVE Named(p, With(P, x), j) = Named(p, P, j) BY <1>2 DEF Named, With
<1>3. Max(Named(p, With(P, x), k)) = x
  <2>1. x \in Named(p, With(P, x), k) BY DEF Named, With
  <2>2. ASSUME NEW i \in Named(p, With(P, x), k) PROVE i \in Int /\ x >= i
    <3>1. i = x \/ i \in 1..n BY DEF Named, UpTo, With
    <3>. QED BY <3>1 DEF UpTo, After
  <2>. QED BY <2>1, <2>2, GreatestIs
<1>4. \A j : p[Max(Named(p, With(P, x), j))][2] = IF j = k THEN v ELSE p[Max(Named(p, P, j))][2]
  BY <1>2, <1>3
<1>. QED BY <1>1, <1>4 DEF HashOf, Named, Put

\* Two hashes that agree but for a key agree once that key has been given a value.
LEMMA HashesMeet ==
    ASSUME NEW n, NEW p, NEW P, UpTo(P, n), NEW m, NEW q, NEW Q, UpTo(Q, m),
           NEW x, After(x, n), NEW y, After(y, m),
           NEW k, NEW v, p[x][1] = k, p[x][2] = v, q[y][1] = k, q[y][2] = v,
           NEW S, S \subseteq {k}, Off(HashOf(p, P), S) = Off(HashOf(q, Q), S)
    PROVE  HashOf(p, With(P, x)) = HashOf(q, With(Q, y))
<1>1. HashOf(p, With(P, x)) = Put(p, P, k, v) BY HashPut
<1>2. HashOf(q, With(Q, y)) = Put(q, Q, k, v) BY HashPut
<1>3. {p[i][1] : i \in P} \ S = {q[i][1] : i \in Q} \ S
  <2>1. \A h : DOMAIN Off(h, S) = DOMAIN h \ S BY DEF Off
  <2>2. DOMAIN HashOf(p, P) \ S = DOMAIN HashOf(q, Q) \ S BY <2>1
  <2>. QED BY <2>2, HashKeys
<1>4. {p[i][1] : i \in P} \cup {k} = {q[i][1] : i \in Q} \cup {k} BY <1>3
<1>5. ASSUME NEW j \in {p[i][1] : i \in P} \cup {k}, j # k
      PROVE  p[Max(Named(p, P, j))][2] = q[Max(Named(q, Q, j))][2]
  <2>1. j \in {p[i][1] : i \in P} /\ j \in {q[i][1] : i \in Q} /\ j \notin S BY <1>3, <1>5
  <2>2. \A h : j \in DOMAIN h => Off(h, S)[j] = h[j] BY <2>1 DEF Off
  <2>3. HashOf(p, P)[j] = HashOf(q, Q)[j] BY <2>1, <2>2, HashKeys
  <2>4. HashOf(p, P)[j] = p[Max(Named(p, P, j))][2] BY <2>1, HashAt
  <2>5. HashOf(q, Q)[j] = q[Max(Named(q, Q, j))][2] BY <2>1, HashAt
  <2>. QED BY <2>3, <2>4, <2>5
<1>6. Put(p, P, k, v) = Put(q, Q, k, v) BY <1>4, <1>5 DEF Put
<1>. QED BY <1>1, <1>2, <1>6

\* A pair for the key that is left out changes nothing.
LEMMA HashOff ==
    ASSUME NEW n, NEW p, NEW P, UpTo(P, n), NEW x, After(x, n),
           NEW S, p[x][1] \in S
    PROVE  Off(HashOf(p, With(P, x)), S) = Off(HashOf(p, P), S)
<1>1. {p[i][1] : i \in With(P, x)} \ S = {p[i][1] : i \in P} \ S BY DEF With
<1>2. ASSUME NEW j, j \notin S PROVE Named(p, With(P, x), j) = Named(p, P, j) BY <1>2 DEF Named, With
<1>3. ASSUME NEW j \in {p[i][1] : i \in P} \ S
      PROVE  HashOf(p, With(P, x))[j] = HashOf(p, P)[j]
  <2>1. j \in {p[i][1] : i \in With(P, x)} BY <1>1
  <2>. QED BY <1>2, <2>1 DEF HashOf, Named
<1>4. DOMAIN HashOf(p, With(P, x)) \ S = DOMAIN HashOf(p, P) \ S
  BY <1>1 DEF HashOf
<1>. QED BY <1>1, <1>3, <1>4 DEF Off, HashOf

LEMMA OffMore ==
    ASSUME NEW h, NEW g, NEW S, NEW T, S \subseteq T, Off(h, S) = Off(g, S)
    PROVE  Off(h, T) = Off(g, T)
<1>1. DOMAIN h \ S = DOMAIN g \ S BY DEF Off
<1>2. DOMAIN h \ T = DOMAIN g \ T BY <1>1
<1>3. ASSUME NEW k \in DOMAIN h \ T PROVE h[k] = g[k]
  <2>1. k \in DOMAIN h \ S /\ k \in DOMAIN g \ S BY <1>1
  <2>2. Off(h, S)[k] = h[k] /\ Off(g, S)[k] = g[k] BY <2>1 DEF Off
  <2>. QED BY <2>2
<1>. QED BY <1>2, <1>3 DEF Off

LEMMA OffNone ==
    ASSUME NEW p, NEW P, NEW q, NEW Q, Off(HashOf(p, P), {}) = Off(HashOf(q, Q), {})
    PROVE  HashOf(p, P) = HashOf(q, Q)
<1>1. \A r, R : Off(HashOf(r, R), {}) = HashOf(r, R) BY DEF Off, HashOf
<1>. QED BY <1>1

-----------------------------------------------------------------------------
(* What an open container has so far, on the stacks and in its frame.        *)

\* Kept, Naming and the class they choose, for options o.
IsNaming(o, m)   == o.create /\ m[1] = CreateId /\ m[2][1] = "str"
                    /\ (m[2][2] \in Classes \/ o.missing_class = "auto")
IsOmitted(o, m)  == o.omit_null /\ m[2] = Nil
NamingOf(o, it)  == {i \in DOMAIN it : IsNaming(o, it[i])}
KeptOf(o, it)    == {i \in DOMAIN it : ~IsNaming(o, it[i]) /\ ~IsOmitted(o, it[i])}
ClassSlot(o, it) == IF NamingOf(o, it) = {} THEN Undef ELSE Class(it[Max(NamingOf(o, it))][2][2])

LEMMA KeptUpTo ==
    ASSUME NEW o, NEW it, Sequence(it)
    PROVE  UpTo(KeptOf(o, it), Len(it)) /\ UpTo(NamingOf(o, it), Len(it))
BY Lengths DEF UpTo, KeptOf, NamingOf

\* One more item.
OneMore(o, it, m, n, more) == Sequence(it) /\ n = Len(it) + 1 /\ more = Append(it, m)

LEMMA ItemKept ==
    ASSUME NEW o, NEW it, NEW m, NEW n, NEW more, OneMore(o, it, m, n, more)
    PROVE  /\ more[n] = m
           /\ \A i \in KeptOf(o, it) : more[i] = it[i]
           /\ IsNaming(o, m) \/ IsOmitted(o, m) => KeptOf(o, more) = KeptOf(o, it)
           /\ ~IsNaming(o, m) /\ ~IsOmitted(o, m) => KeptOf(o, more) = With(KeptOf(o, it), n)
           /\ IsNaming(o, m) => NamingOf(o, more) = With(NamingOf(o, it), n)
           /\ ~IsNaming(o, m) => NamingOf(o, more) = NamingOf(o, it)
<1>1. Len(it) \in Nat /\ DOMAIN it = 1..Len(it) BY Lengths DEF OneMore
<1>2. Sequence(more) /\ Len(more) = n /\ (\A i \in 1..Len(it) : more[i] = it[i]) /\ more[n] = m BY Appended DEF OneMore
<1>3. DOMAIN more = 1..n BY <1>2, Lengths
<1>4. 1..n = 1..Len(it) \cup {n} BY <1>1 DEF OneMore
<1>5. KeptOf(o, more) = KeptOf(o, it) \cup (IF IsNaming(o, m) \/ IsOmitted(o, m) THEN {} ELSE {n})
  BY <1>1, <1>2, <1>3, <1>4 DEF KeptOf
<1>6. NamingOf(o, more) = NamingOf(o, it) \cup (IF IsNaming(o, m) THEN {n} ELSE {})
  BY <1>1, <1>2, <1>3, <1>4 DEF NamingOf
<1>7. \A i \in KeptOf(o, it) : more[i] = it[i] BY <1>1, <1>2 DEF KeptOf
<1>8. KeptOf(o, it) \cup {} = KeptOf(o, it) /\ NamingOf(o, it) \cup {} = NamingOf(o, it) OBVIOUS
<1>. QED BY <1>2, <1>5, <1>6, <1>7, <1>8 DEF With

LEMMA SlotKept ==
    ASSUME NEW o, NEW it, Sequence(it), NEW m
    PROVE  ClassSlot(o, Append(it, m)) = IF IsNaming(o, m) THEN Class(m[2][2]) ELSE ClassSlot(o, it)
<1>. DEFINE more == Append(it, m)
            n == Len(it) + 1
<1>1. Len(it) \in Nat /\ DOMAIN it = 1..Len(it) BY Lengths
<1>2. /\ more[n] = m
      /\ IsNaming(o, m) => NamingOf(o, more) = With(NamingOf(o, it), n)
      /\ ~IsNaming(o, m) => NamingOf(o, more) = NamingOf(o, it)
  <2>1. OneMore(o, it, m, n, more) BY DEF OneMore
  <2>. HIDE DEF more, n
  <2>. QED BY <2>1, ItemKept
<1>3. \A i \in 1..Len(it) : more[i] = it[i] BY Appended
<1>. HIDE DEF more
<1>4. NamingOf(o, it) \subseteq 1..Len(it) BY <1>1 DEF NamingOf
<1>5. CASE IsNaming(o, m)
  <2>1. n \in NamingOf(o, more) BY <1>2, <1>5 DEF With
  <2>2. ASSUME NEW i \in NamingOf(o, more) PROVE i \in Int /\ n >= i
    <3>1. i = n \/ i \in 1..Len(it) BY <1>2, <1>4, <1>5 DEF With
    <3>. QED BY <1>1, <3>1
  <2>3. Max(NamingOf(o, more)) = n BY <2>1, <2>2, GreatestIs
  <2>. QED BY <1>2, <1>5, <2>1, <2>3 DEF ClassSlot, more
<1>6. CASE ~IsNaming(o, m)
  <2>1. NamingOf(o, more) = NamingOf(o, it) BY <1>2, <1>6
  <2>2. CASE NamingOf(o, it) = {} BY <1>6, <2>1, <2>2 DEF ClassSlot, more
  <2>3. CASE NamingOf(o, it) # {}
    <3>1. \A i \in NamingOf(o, it) : i \in 0..Len(it) BY <1>1, <1>4
    <3>2. Max(NamingOf(o, it)) \in NamingOf(o, it) BY <1>1, <2>3, <3>1, Greatest
    <3>3. more[Max(NamingOf(o, it))] = it[Max(NamingOf(o, it))] BY <1>3, <1>4, <3>2
    <3>. QED BY <1>6, <2>1, <2>3, <3>3 DEF ClassSlot, more
  <2>. QED BY <2>2, <2>3
<1>. QED BY <1>5, <1>6

\* The pairs of an object, its first n slots of the stack being complete.
Members(vs, ks, c, h) == [j \in 1..h |-> <<ks[c.ki + j], vs[c.vi + 1 + 2 * j]>>]
OnStacks(vs, ks, c, h) == HashOf(Members(vs, ks, c, h), First(h))
InFrame(o, it) == HashOf(it, KeptOf(o, it))

\* Container c has what frame f has in its first n slots, but for the keys in S.
Held(o, vs, ks, c, n, f, S) ==
    /\ f.kind = "array" =>
          /\ n = Len(f.items)
          /\ \A j \in 1..n : vs[c.vi + 1 + j] = f.items[j]
    /\ f.kind = "object" =>
          /\ vs[c.vi + 1] = ClassSlot(o, f.items)
          /\ Off(OnStacks(vs, ks, c, Half(n)), S) = Off(InFrame(o, f.items), S)

LEMMA MoreMembers ==
    ASSUME NEW h \in Nat, NEW x, x = h + 1, NEW vs, NEW ks, NEW c
    PROVE  LET p == Members(vs, ks, c, x)
           IN  /\ OnStacks(vs, ks, c, h) = HashOf(p, First(h))
               /\ OnStacks(vs, ks, c, x) = HashOf(p, With(First(h), x))
               /\ p[x][1] = ks[c.ki + x] /\ p[x][2] = vs[c.vi + 1 + 2 * x]
<1>. DEFINE p == Members(vs, ks, c, x)
            q == Members(vs, ks, c, h)
<1>1. \A i \in First(h) : q[i] = p[i] BY DEF Members, First
<1>2. UpTo(First(h), h) BY DEF UpTo, First
<1>3. p[x] = <<ks[c.ki + x], vs[c.vi + 1 + 2 * x]>> BY DEF Members
<1>. HIDE DEF p, q
<1>4. HashOf(q, First(h)) = HashOf(p, First(h)) BY <1>1, <1>2, HashSame
<1>5. First(x) = With(First(h), x) BY DEF First, With
<1>. QED BY <1>3, <1>4, <1>5 DEF OnStacks, p, q

\* What is not written to is held as before.
LEMMA HeldSame ==
    ASSUME NEW o, NEW vs, NEW ks, NEW c, NEW n \in Nat, NEW f, NEW S, Held(o, vs, ks, c, n, f, S),
           f.kind = "object" => n = 2 * Half(n), c.vi \in Nat,
           NEW ws, \A p \in c.vi + 1..c.vi + 1 + n : ws[p] = vs[p],
           NEW ls, f.kind = "object" => c.ki \in Nat /\ \A q \in c.ki + 1..c.ki + Half(n) : ls[q] = ks[q]
    PROVE  Held(o, ws, ls, c, n, f, S)
<1>1. CASE f.kind = "array"
  <2>1. \A j \in 1..n : ws[c.vi + 1 + j] = vs[c.vi + 1 + j] OBVIOUS
  <2>. QED BY <1>1, <2>1 DEF Held
<1>2. CASE f.kind = "object"
  <2>1. ws[c.vi + 1] = vs[c.vi + 1] OBVIOUS
  <2>2. Half(n) \in Nat BY Halves
  <2>3. ASSUME NEW j \in 1..Half(n)
        PROVE  ws[c.vi + 1 + 2 * j] = vs[c.vi + 1 + 2 * j] /\ ls[c.ki + j] = ks[c.ki + j]
    <3>1. c.vi + 1 + 2 * j \in c.vi + 1..c.vi + 1 + n BY <1>2, <2>2
    <3>2. c.ki + j \in c.ki + 1..c.ki + Half(n) BY <1>2, <2>2
    <3>. QED BY <1>2, <3>1, <3>2
  <2>4. Members(ws, ls, c, Half(n)) = Members(vs, ks, c, Half(n)) BY <2>3 DEF Members
  <2>. QED BY <1>2, <2>1, <2>4 DEF Held, OnStacks
<1>. QED BY <1>1, <1>2 DEF Held

\* An object that only a key is waiting in.
LEMMA HeldLess ==
    ASSUME NEW o, NEW vs, NEW ks, NEW c, NEW n, NEW f, NEW S, Held(o, vs, ks, c, n, f, S),
           NEW T, S \subseteq T
    PROVE  Held(o, vs, ks, c, n, f, T)
<1>1. f.kind = "object" => Off(OnStacks(vs, ks, c, Half(n)), T) = Off(InFrame(o, f.items), T)
  BY OffMore DEF Held
<1>. QED BY <1>1 DEF Held

\* A container that has just been opened.
LEMMA HeldNew ==
    ASSUME NEW o, NEW vs, NEW ks, NEW c, NEW f, f.items = <<>>,
           f.kind = "object" => vs[c.vi + 1] = Undef
    PROVE  Held(o, vs, ks, c, 0, f, {})
<1>1. Len(f.items) = 0 /\ Half(0) = 0 BY Halves
<1>2. DOMAIN f.items = {} BY Empty, Lengths
<1>3. NamingOf(o, f.items) = {} /\ KeptOf(o, f.items) = {} BY <1>2 DEF NamingOf, KeptOf
<1>4. 1..0 = {} OBVIOUS
<1>5. \A p, q : HashOf(p, {}) = HashOf(q, {}) BY DEF HashOf
<1>6. OnStacks(vs, ks, c, Half(0)) = InFrame(o, f.items) BY <1>1, <1>3, <1>4, <1>5 DEF OnStacks, InFrame, First
<1>. QED BY <1>1, <1>3, <1>4, <1>6 DEF Held, ClassSlot

Grew(f, m) == [f EXCEPT !.items = Append(@, m)]

LEMMA GrewHas ==
    ASSUME NEW f, NEW m, "items" \in DOMAIN f
    PROVE  Grew(f, m).items = Append(f.items, m) /\ Grew(f, m).kind = f.kind /\ Grew(f, m).name = f.name
BY DEF Grew

Frame(f, kind) == "items" \in DOMAIN f /\ f.kind = kind /\ Sequence(f.items)

LEMMA GrewFrame ==
    ASSUME NEW f, NEW kind, Frame(f, kind), NEW m
    PROVE  Frame(Grew(f, m), kind) /\ Grew(f, m).name = f.name
<1>1. Grew(f, m).items = Append(f.items, m) /\ Grew(f, m).kind = kind /\ Grew(f, m).name = f.name
  BY GrewHas DEF Frame
<1>2. Sequence(Append(f.items, m)) BY Appended DEF Frame
<1>3. DOMAIN Grew(f, m) = DOMAIN f BY DEF Grew
<1>. QED BY <1>1, <1>2, <1>3 DEF Frame

\* A value of an array.
LEMMA HeldValue ==
    ASSUME NEW o, NEW vs, NEW ks, NEW c, NEW n \in Nat, NEW f, NEW S, Held(o, vs, ks, c, n, f, S),
           f.kind = "array", Sequence(f.items), "items" \in DOMAIN f, NEW T
    PROVE  Held(o, vs, ks, c, n + 1, Grew(f, vs[c.vi + 1 + (n + 1)]), T)
<1>. DEFINE v == vs[c.vi + 1 + (n + 1)]
            it == Append(f.items, v)
<1>1. n = Len(f.items) /\ \A j \in 1..n : vs[c.vi + 1 + j] = f.items[j] BY DEF Held
<1>2. Len(it) = n + 1 /\ it[n + 1] = v /\ \A j \in 1..n : it[j] = f.items[j] BY <1>1, Appended
<1>. HIDE DEF it
<1>3. \A j \in 1..n + 1 : vs[c.vi + 1 + j] = it[j]
  <2>1. \A j \in 1..n + 1 : j = n + 1 \/ j \in 1..n OBVIOUS
  <2>. QED BY <1>1, <1>2, <2>1
<1>4. Grew(f, v).items = it /\ Grew(f, v).kind = "array" BY GrewHas DEF it
<1>. QED BY <1>2, <1>3, <1>4 DEF Held

\* A member that is kept: its key was the one that was waited for.
LEMMA HeldMember ==
    ASSUME NEW o, NEW vs, NEW ks, NEW c, NEW n \in Nat, NEW f, NEW S, Held(o, vs, ks, c, n, f, S),
           f.kind = "object", Sequence(f.items), "items" \in DOMAIN f,
           n = 2 * Half(n), NEW k, k = ks[c.ki + (Half(n) + 1)], S \subseteq {k},
           NEW v, v = vs[c.vi + 1 + (n + 2)], ~IsNaming(o, <<k, v>>), ~IsOmitted(o, <<k, v>>)
    PROVE  Held(o, vs, ks, c, n + 2, Grew(f, <<k, v>>), {})
<1>. DEFINE h == Half(n)
            x == h + 1
            y == Len(f.items) + 1
            m == <<k, v>>
            it == Append(f.items, m)
            p == Members(vs, ks, c, x)
            K == KeptOf(o, f.items)
<1>1. h \in Nat /\ Half(n + 2) = x BY Halves
<1>2. 2 * x = n + 2 BY <1>1
<1>3. x = h + 1 /\ y = Len(f.items) + 1 /\ m[1] = k /\ m[2] = v /\ h = Half(n) OBVIOUS
<1>4. vs[c.vi + 1 + 2 * x] = v /\ ks[c.ki + x] = k BY <1>2
<1>5. After(x, h) /\ UpTo(First(h), h) BY <1>1 DEF After, UpTo, First
<1>6. After(y, Len(f.items)) /\ UpTo(K, Len(f.items)) BY Lengths, KeptUpTo DEF After
<1>7. it[y] = m /\ (\A i \in K : it[i] = f.items[i]) /\ KeptOf(o, it) = With(K, y)
  <2>1. OneMore(o, f.items, m, y, it) BY DEF OneMore
  <2>2. ~IsNaming(o, m) /\ ~IsOmitted(o, m) OBVIOUS
  <2>. HIDE DEF it, y, m
  <2>. QED BY <2>1, <2>2, ItemKept
<1>8. Grew(f, m).items = it /\ Grew(f, m).kind = "object" BY GrewHas
<1>9. ClassSlot(o, it) = ClassSlot(o, f.items) BY SlotKept
<1>10. InFrame(o, f.items) = HashOf(f.items, K) BY DEF InFrame
<1>11. InFrame(o, it) = HashOf(it, With(K, y)) BY <1>7 DEF InFrame
<1>. HIDE DEF h, x, y, m, it, p, K
<1>12. /\ OnStacks(vs, ks, c, h) = HashOf(p, First(h))
       /\ OnStacks(vs, ks, c, x) = HashOf(p, With(First(h), x))
       /\ p[x][1] = k /\ p[x][2] = v
  BY <1>1, <1>3, <1>4, MoreMembers, SMTT(30) DEF p
<1>13. HashOf(it, K) = HashOf(f.items, K) BY <1>6, <1>7, HashSame
<1>14. Off(HashOf(p, First(h)), S) = Off(HashOf(it, K), S) BY <1>3, <1>10, <1>12, <1>13 DEF Held
<1>15. it[y][1] = k /\ it[y][2] = v BY <1>3, <1>7
<1>16. HashOf(p, With(First(h), x)) = HashOf(it, With(K, y))
  BY <1>5, <1>6, <1>12, <1>14, <1>15, HashesMeet
<1>17. OnStacks(vs, ks, c, Half(n + 2)) = InFrame(o, it) BY <1>1, <1>11, <1>12, <1>16
<1>. QED BY <1>8, <1>9, <1>17 DEF Held, m

\* A member that is announced: whatever text stands for its value.
LEMMA HeldAnnounced ==
    ASSUME NEW o, NEW vs, NEW ks, NEW c, NEW n \in Nat, NEW f, Held(o, vs, ks, c, n, f, {}),
           f.kind = "object", NEW k, k = ks[c.ki + (Half(n) + 1)]
    PROVE  Held(o, vs, ks, c, n + 2, f, {k})
<1>. DEFINE h == Half(n)
            x == h + 1
            p == Members(vs, ks, c, x)
<1>1. h \in Nat /\ Half(n + 2) = x BY Halves
<1>2. ks[c.ki + x] = k /\ x = h + 1 /\ h = Half(n) OBVIOUS
<1>3. After(x, h) /\ UpTo(First(h), h) BY <1>1 DEF After, UpTo, First
<1>. HIDE DEF p, h, x
<1>4. /\ OnStacks(vs, ks, c, h) = HashOf(p, First(h))
      /\ OnStacks(vs, ks, c, x) = HashOf(p, With(First(h), x))
      /\ p[x][1] = k
  BY <1>1, <1>2, MoreMembers DEF p
<1>5. Off(HashOf(p, With(First(h), x)), {k}) = Off(HashOf(p, First(h)), {k}) BY <1>3, <1>4, HashOff
<1>6. Off(OnStacks(vs, ks, c, h), {k}) = Off(InFrame(o, f.items), {k})
  <2>1. {} \subseteq {k} /\ Off(OnStacks(vs, ks, c, h), {}) = Off(InFrame(o, f.items), {}) BY <1>2 DEF Held
  <2>. QED BY <2>1, OffMore
<1>. QED BY <1>1, <1>4, <1>5, <1>6 DEF Held

\* A member that names the class, and a null that is omitted.
LEMMA HeldClass ==
    ASSUME NEW o, NEW vs, NEW ks, NEW c, NEW n \in Nat, NEW f, Held(o, vs, ks, c, n, f, {}),
           f.kind = "object", Sequence(f.items), "items" \in DOMAIN f, c.vi \in Nat,
           NEW m, IsNaming(o, m), NEW ws, ws[c.vi + 1] = Class(m[2][2]),
           \A p \in c.vi + 2..c.vi + 1 + n : ws[p] = vs[p], n = 2 * Half(n)
    PROVE  Held(o, ws, ks, c, n, Grew(f, m), {})
<1>. DEFINE it == Append(f.items, m)
<1>1. /\ \A i \in KeptOf(o, f.items) : it[i] = f.items[i]
      /\ KeptOf(o, it) = KeptOf(o, f.items)
  <2>1. OneMore(o, f.items, m, Len(f.items) + 1, it) BY DEF OneMore
  <2>. HIDE DEF it
  <2>. QED BY <2>1, ItemKept
<1>2. ClassSlot(o, it) = Class(m[2][2]) BY SlotKept
<1>. HIDE DEF it
<1>3. InFrame(o, it) = InFrame(o, f.items) BY <1>1, KeptUpTo, HashSame DEF InFrame
<1>4. Half(n) \in Nat BY Halves
<1>5. ASSUME NEW j \in 1..Half(n) PROVE ws[c.vi + 1 + 2 * j] = vs[c.vi + 1 + 2 * j]
  <2>1. c.vi + 1 + 2 * j \in c.vi + 2..c.vi + 1 + n BY <1>4
  <2>. QED BY <2>1
<1>6. Members(ws, ks, c, Half(n)) = Members(vs, ks, c, Half(n)) BY <1>5 DEF Members
<1>7. Grew(f, m).items = it /\ Grew(f, m).kind = "object" BY GrewHas DEF it
<1>. QED BY <1>2, <1>3, <1>6, <1>7 DEF Held, OnStacks

LEMMA HeldOmitted ==
    ASSUME NEW o, NEW vs, NEW ks, NEW c, NEW n, NEW f, Held(o, vs, ks, c, n, f, {}),
           f.kind = "object", Sequence(f.items), "items" \in DOMAIN f, NEW m, IsOmitted(o, m), ~IsNaming(o, m)
    PROVE  Held(o, vs, ks, c, n, Grew(f, m), {})
<1>. DEFINE it == Append(f.items, m)
<1>1. /\ \A i \in KeptOf(o, f.items) : it[i] = f.items[i]
      /\ KeptOf(o, it) = KeptOf(o, f.items)
  <2>1. OneMore(o, f.items, m, Len(f.items) + 1, it) BY DEF OneMore
  <2>. HIDE DEF it
  <2>. QED BY <2>1, ItemKept
<1>2. ClassSlot(o, it) = ClassSlot(o, f.items) BY SlotKept
<1>. HIDE DEF it
<1>3. InFrame(o, it) = InFrame(o, f.items) BY <1>1, KeptUpTo, HashSame DEF InFrame
<1>4. Grew(f, m).items = it /\ Grew(f, m).kind = "object" BY GrewHas DEF it
<1>. QED BY <1>2, <1>3, <1>4 DEF Held

-----------------------------------------------------------------------------
(* All the containers that are open.                                         *)

\* Slots of container i that are complete: the last value of an outer container is
\* the container in it.
Filled(n, cs, op, i) == Count(n, cs, i) - (IF i = Len(cs) THEN 0 ELSE IF op[i] = "array" THEN 1 ELSE 2)

LevelHeld(o, vs, ks, cs, op, fr, S, i) ==
    /\ Held(o, vs, ks, cs[i], Filled(Len(vs), cs, op, i), fr[i], IF i = Len(cs) THEN S ELSE {fr[i + 1].name})
    /\ i # Len(cs) /\ op[i] = "object" => ks[KeyEnd(Len(vs), cs, i)] = fr[i + 1].name
AllHeld(o, vs, ks, cs, op, fr, S) == \A i \in 1..Len(op) : LevelHeld(o, vs, ks, cs, op, fr, S, i)

Frames(op, fr) == /\ Sequence(fr) /\ Len(fr) = Len(op)
                  /\ \A i \in 1..Len(op) : Frame(fr[i], op[i])
Rising(cs) == \A i, j \in 1..Len(cs) : i < j => cs[i].vi < cs[j].vi
Stacks(vs, ks, cs, op) == Sequence(vs) /\ Sequence(ks) /\ Shape(Len(vs), cs, Len(ks), op) /\ Rising(cs)

\* The documents that are finished are those the block was given and those that are
\* at the bottom of the stack of values.
Bottom(vs, cs) == IF Len(cs) = 0 THEN Len(vs) ELSE cs[1].vi
DocsHeld(ys, vs, cs, docs) ==
    /\ Len(docs) = Len(ys) + Bottom(vs, cs)
    /\ \A j \in 1..Len(ys) : docs[j] = ys[j]
    /\ \A j \in 1..Bottom(vs, cs) : docs[Len(ys) + j] = vs[j]


LEMMA StackFacts ==
    ASSUME NEW vs, NEW ks, NEW cs, NEW op, Stacks(vs, ks, cs, op)
    PROVE  /\ Sequence(vs) /\ Sequence(ks) /\ Sequence(cs) /\ Sequence(op)
           /\ Len(vs) \in Nat /\ Len(ks) \in Nat /\ Len(op) \in Nat /\ Len(cs) = Len(op)
           /\ op # <<>> => Len(op) > 0
           /\ op = <<>> => Len(op) = 0
<1>1. op # <<>> => Len(op) > 0
  <2>1. PICK S : op \in Seq(S) BY DEF Stacks, Shape, Sequence
  <2>. QED BY <2>1, EmptySeq
<1>. QED BY <1>1, Lengths, Empty DEF Stacks, Shape

LEMMA LevelFacts ==
    ASSUME NEW vs, NEW ks, NEW cs, NEW op, Stacks(vs, ks, cs, op), NEW i \in 1..Len(op)
    PROVE  LET n == Len(vs) IN
           /\ op[i] \in {"array", "object"}
           /\ cs[i].vi \in Nat /\ cs[i].vi + 1 <= n
           /\ Count(n, cs, i) \in Nat /\ End(n, cs, i) = cs[i].vi + 1 + Count(n, cs, i)
           /\ Filled(n, cs, op, i) \in Nat /\ Filled(n, cs, op, i) <= Count(n, cs, i)
           /\ i = Len(op) => Filled(n, cs, op, i) = Count(n, cs, i)
           /\ i # Len(op) => cs[i].vi + 1 + Filled(n, cs, op, i) <= cs[i + 1].vi /\ cs[i + 1].vi < n
           /\ op[i] = "array" => cs[i].ki = -1 /\ (i # Len(op) => Filled(n, cs, op, i) + 1 = Count(n, cs, i))
           /\ op[i] = "object" =>
                 /\ cs[i].ki \in Nat /\ KeyEnd(n, cs, i) <= Len(ks) /\ KeyEnd(n, cs, i) \in Nat
                 /\ Count(n, cs, i) = 2 * Half(Count(n, cs, i))
                 /\ Filled(n, cs, op, i) = 2 * Half(Filled(n, cs, op, i))
                 /\ i # Len(op) => /\ Filled(n, cs, op, i) + 2 = Count(n, cs, i)
                                   /\ cs[i].ki + Half(Filled(n, cs, op, i)) + 1 = KeyEnd(n, cs, i)
                 /\ i = Len(op) => KeyEnd(n, cs, i) = Len(ks)
<1>. DEFINE n == Len(vs)
            l == Len(op)
            x == Count(n, cs, i)
            f == Filled(n, cs, op, i)
<1>1. n \in Nat /\ Len(ks) \in Nat /\ l \in Nat /\ Len(cs) = l /\ l \in 1..l BY StackFacts
<1>2. Level(n, cs, op, i) /\ Level(n, cs, op, l) BY <1>1 DEF Stacks, Shape
<1>3. cs[i].vi + 1 <= n
  <2>1. cs[l].vi + 1 <= n BY <1>1, <1>2 DEF Level, Count, End
  <2>2. CASE i = l BY <2>1, <2>2
  <2>3. CASE i # l
    <3>1. cs[i].vi < cs[l].vi BY <1>1, <2>3 DEF Stacks, Rising
    <3>. QED BY <1>1, <1>2, <2>1, <3>1 DEF Level
  <2>. QED BY <2>2, <2>3
<1>4. End(n, cs, i) = cs[i].vi + 1 + x
  <2>1. End(n, cs, i) \in Int
    <3>1. i # l => Level(n, cs, op, i + 1) BY <1>1 DEF Stacks, Shape
    <3>. QED BY <1>1, <3>1 DEF End, Level
  <2>. QED BY <1>2, <2>1 DEF Count, Level
<1>5. i # l => i < l /\ End(n, cs, i) = cs[i + 1].vi + 1 /\ cs[i + 1].vi \in Nat
  <2>1. i # l => Level(n, cs, op, i + 1) BY <1>1 DEF Stacks, Shape
  <2>. QED BY <1>1, <2>1 DEF End, Level
<1>6. i # l => cs[i + 1].vi < n
  <2>1. CASE i + 1 = l BY <1>1, <1>2, <2>1 DEF Level, Count, End
  <2>2. CASE i + 1 < l
    <3>1. cs[i + 1].vi < cs[l].vi BY <1>1, <2>2 DEF Stacks, Rising
    <3>2. cs[l].vi + 1 <= n BY <1>1, <1>2 DEF Level, Count, End
    <3>. QED BY <1>1, <1>2, <1>5, <2>2, <3>1, <3>2 DEF Level
  <2>. QED BY <1>1, <2>1, <2>2
<1>8. x \in Nat /\ (i # l => x >= 1) BY <1>1, <1>2, <1>5 DEF Level
<1>7. f = IF i = l THEN x ELSE IF op[i] = "array" THEN x - 1 ELSE x - 2
  <2>. HIDE DEF x
  <2>1. f = x - (IF i = l THEN 0 ELSE IF op[i] = "array" THEN 1 ELSE 2) BY <1>1 DEF Filled, x
  <2>. QED BY <1>8, <2>1
<1>9. op[i] = "object" => x = 2 * Half(x) /\ Half(x) \in Nat BY <1>2, <1>8, Halves DEF Level
<1>10. op[i] = "object" /\ i # l => f \in Nat /\ f + 2 = x /\ Half(x) = Half(f) + 1
  <2>1. SUFFICES ASSUME op[i] = "object", i # l PROVE f \in Nat /\ f + 2 = x /\ Half(x) = Half(f) + 1 OBVIOUS
  <2>2. f \in Nat /\ f + 2 = x BY <1>7, <1>8, <1>9, <2>1
  <2>. HIDE DEF f, x
  <2>. QED BY <2>2, Halves
<1>11. f \in Nat /\ f <= x /\ (op[i] = "array" /\ i # l => f + 1 = x) BY <1>7, <1>8, <1>10, <1>2 DEF Level
<1>12. op[i] = "object" => f = 2 * Half(f)
  <2>1. CASE i = l BY <1>7, <1>9, <2>1
  <2>2. CASE i # l
    <3>1. op[i] = "object" => Half(f) \in Nat BY <1>11, Halves
    <3>. QED BY <1>9, <1>10, <2>2, <3>1
  <2>. QED BY <2>1, <2>2
<1>13. op[i] = "object" => /\ cs[i].ki \in Nat /\ KeyEnd(n, cs, i) = cs[i].ki + Half(x)
                          /\ KeyEnd(n, cs, i) <= Len(ks)
  BY <1>2 DEF Level, KeyEnd, Stacks, Shape, KeysInOrder
<1>14. op[i] = "object" /\ i = l => KeyEnd(n, cs, i) = Len(ks)
  <2>1. ArraysOnly(op, l + 1, l) BY <1>1 DEF ArraysOnly
  <2>. QED BY <1>1, <2>1 DEF Stacks, Shape, KeysInOrder
<1>15. i # l => cs[i].vi + 1 + f <= cs[i + 1].vi
  <2>1. op[i] \in {"array", "object"} /\ cs[i].vi \in Nat BY <1>2 DEF Level
  <2>2. i # l => f + 1 <= x BY <1>8, <1>10, <1>11, <2>1
  <2>3. SUFFICES ASSUME i # l PROVE cs[i].vi + 1 + f <= cs[i + 1].vi OBVIOUS
  <2>4. cs[i].vi + 1 + x = cs[i + 1].vi + 1 /\ cs[i + 1].vi \in Nat BY <1>4, <1>5, <2>3
  <2>5. f + 1 <= x /\ f \in Nat /\ x \in Nat BY <1>8, <1>11, <2>2, <2>3
  <2>. HIDE DEF f, x
  <2>. QED BY <2>1, <2>4, <2>5, SMTT(30)
<1>16. op[i] = "object" => KeyEnd(n, cs, i) \in Nat BY <1>9, <1>13
<1>17. op[i] = "object" /\ i # l => cs[i].ki + Half(f) + 1 = KeyEnd(n, cs, i)
  <2>1. SUFFICES ASSUME op[i] = "object", i # l PROVE cs[i].ki + Half(f) + 1 = KeyEnd(n, cs, i) OBVIOUS
  <2>2. Half(f) \in Nat BY <1>11, Halves
  <2>3. Half(x) = Half(f) + 1 /\ cs[i].ki \in Nat /\ KeyEnd(n, cs, i) = cs[i].ki + Half(x) BY <1>10, <1>13, <2>1
  <2>. HIDE DEF f, x
  <2>. QED BY <2>2, <2>3
<1>. HIDE DEF f, x
<1>. QED BY <1>2, <1>3, <1>4, <1>6, <1>7, <1>8, <1>9, <1>10, <1>11, <1>12, <1>13, <1>14, <1>15, <1>16, <1>17 DEF Level, f, x

\* What happens further in does not change a container further out.
LEMMA LevelSame ==
    ASSUME NEW o, NEW vs, NEW ks, NEW cs, NEW op, NEW fr, NEW S, Stacks(vs, ks, cs, op), Frames(op, fr),
           NEW i \in 1..Len(op), i # Len(op), LevelHeld(o, vs, ks, cs, op, fr, S, i),
           NEW ws, NEW ls, NEW ds, NEW dp, NEW gr, NEW T,
           Len(ds) \in Nat, i < Len(ds), ds[i] = cs[i], ds[i + 1].vi = cs[i + 1].vi,
           dp[i] = op[i], gr[i] = fr[i], gr[i + 1].name = fr[i + 1].name,
           \A p \in 1..cs[i + 1].vi : ws[p] = vs[p],
           op[i] = "object" => \A q \in 1..KeyEnd(Len(vs), cs, i) : ls[q] = ks[q]
    PROVE  LevelHeld(o, ws, ls, ds, dp, gr, T, i)
<1>. DEFINE n == Filled(Len(vs), cs, op, i)
            f == fr[i]
            P == {fr[i + 1].name}
<1>1. Len(op) \in Nat /\ Len(cs) = Len(op) /\ i < Len(op) BY StackFacts
<1>2. Count(Len(ws), ds, i) = Count(Len(vs), cs, i) /\ KeyEnd(Len(ws), ds, i) = KeyEnd(Len(vs), cs, i)
  BY <1>1 DEF Count, End, KeyEnd
<1>3. Filled(Len(ws), ds, dp, i) = n BY <1>1, <1>2 DEF Filled
<1>4. Held(o, vs, ks, cs[i], n, f, P) BY <1>1 DEF LevelHeld
<1>5. /\ n \in Nat /\ cs[i].vi \in Nat
      /\ cs[i].vi + 1 + n <= cs[i + 1].vi /\ cs[i + 1].vi < Len(vs) /\ Len(vs) \in Nat
  BY LevelFacts, StackFacts
<1>6. op[i] = "object" => /\ n = 2 * Half(n) /\ cs[i].ki \in Nat
                          /\ KeyEnd(Len(vs), cs, i) \in Nat
                          /\ cs[i].ki + Half(n) + 1 = KeyEnd(Len(vs), cs, i)
  BY LevelFacts
<1>7. f.kind = op[i] BY DEF Frames, Frame
<1>8. cs[i + 1].vi \in Int
  <2>1. i + 1 \in 1..Len(op) BY <1>1
  <2>. QED BY <2>1, LevelFacts
<1>. HIDE DEF n
<1>9. ASSUME NEW p \in cs[i].vi + 1..cs[i].vi + 1 + n PROVE ws[p] = vs[p]
  <2>1. p \in 1..cs[i + 1].vi BY <1>5, <1>8, SMTT(30)
  <2>. QED BY <2>1
<1>10. f.kind = "object" => n = 2 * Half(n) /\ cs[i].ki \in Nat
                            /\ \A q \in cs[i].ki + 1..cs[i].ki + Half(n) : ls[q] = ks[q]
  <2>1. SUFFICES ASSUME op[i] = "object", NEW q \in cs[i].ki + 1..cs[i].ki + Half(n) PROVE ls[q] = ks[q]
    BY <1>6, <1>7
  <2>2. Half(n) \in Nat BY <1>5, Halves
  <2>3. /\ cs[i].ki \in Nat /\ KeyEnd(Len(vs), cs, i) \in Nat
        /\ cs[i].ki + Half(n) + 1 = KeyEnd(Len(vs), cs, i)
    BY <1>6, <2>1
  <2>4. q \in Nat /\ q >= cs[i].ki + 1 /\ q <= cs[i].ki + Half(n) BY <2>1, <2>2, <2>3
  <2>5. q \in 1..KeyEnd(Len(vs), cs, i) BY <2>2, <2>3, <2>4, SMTT(30)
  <2>. QED BY <2>1, <2>5
<1>11. Held(o, ws, ls, cs[i], n, f, P) BY <1>4, <1>5, <1>9, <1>10, HeldSame, SMTT(30)
<1>12. op[i] = "object" => ls[KeyEnd(Len(vs), cs, i)] = fr[i + 1].name
  <2>1. SUFFICES ASSUME op[i] = "object" PROVE ls[KeyEnd(Len(vs), cs, i)] = fr[i + 1].name OBVIOUS
  <2>2. ks[KeyEnd(Len(vs), cs, i)] = fr[i + 1].name BY <1>1, <2>1 DEF LevelHeld
  <2>3. KeyEnd(Len(vs), cs, i) \in 1..KeyEnd(Len(vs), cs, i)
    <3>1. Half(n) \in Nat BY <1>5, Halves
    <3>2. /\ cs[i].ki \in Nat /\ KeyEnd(Len(vs), cs, i) \in Nat
          /\ cs[i].ki + Half(n) + 1 = KeyEnd(Len(vs), cs, i)
      BY <1>6, <2>1
    <3>. QED BY <3>1, <3>2
  <2>. QED BY <2>1, <2>2, <2>3
<1>. QED BY <1>1, <1>2, <1>3, <1>11, <1>12 DEF LevelHeld

\* The innermost container, and the container in it yet to be opened, aside.
LEMMA OuterSame ==
    ASSUME NEW o, NEW vs, NEW ks, NEW cs, NEW op, NEW fr, NEW S, Stacks(vs, ks, cs, op), Frames(op, fr),
           AllHeld(o, vs, ks, cs, op, fr, S),
           NEW ws, NEW ls, NEW ds, NEW dp, NEW gr, NEW T,
           Len(ds) \in Nat, Len(ds) >= Len(op), \A j \in 1..Len(op) : ds[j] = cs[j] /\ dp[j] = op[j],
           \A j \in 1..Len(op) : j # Len(op) => gr[j] = fr[j],
           op # <<>> => gr[Len(op)].name = fr[Len(op)].name
                        /\ \A p \in 1..cs[Len(op)].vi : ws[p] = vs[p],
           \A q \in 1..Len(ks) : ls[q] = ks[q],
           NEW i \in 1..Len(op), i # Len(op)
    PROVE  LevelHeld(o, ws, ls, ds, dp, gr, T, i)
<1>1. i # Len(op) OBVIOUS
<1>. DEFINE l == Len(op)
<1>2. l \in Nat /\ l > 0 /\ i < l /\ l \in 1..l /\ i + 1 \in 1..l /\ op # <<>> /\ Len(vs) \in Nat
      /\ Len(ks) \in Nat /\ Len(cs) = l
  BY <1>1, StackFacts
<1>3. cs[i + 1].vi \in Nat /\ cs[l].vi \in Nat BY <1>2, LevelFacts
<1>4. cs[i + 1].vi <= cs[l].vi
  <2>1. CASE i + 1 = l BY <1>3, <2>1
  <2>2. CASE i + 1 < l BY <1>2, <1>3, <2>2 DEF Stacks, Rising
  <2>. QED BY <1>2, <2>1, <2>2
<1>5. \A p \in 1..cs[i + 1].vi : ws[p] = vs[p] BY <1>2, <1>3, <1>4
<1>6. op[i] = "object" => \A q \in 1..KeyEnd(Len(vs), cs, i) : ls[q] = ks[q]
  <2>1. op[i] = "object" => KeyEnd(Len(vs), cs, i) \in Nat /\ KeyEnd(Len(vs), cs, i) <= Len(ks) BY LevelFacts
  <2>. QED BY <1>2, <2>1
<1>7. gr[i] = fr[i] /\ gr[i + 1].name = fr[i + 1].name
  <2>1. CASE i + 1 = l BY <1>1, <1>2, <2>1
  <2>2. CASE i + 1 # l BY <1>1, <1>2, <2>2
  <2>. QED BY <2>1, <2>2
<1>8. LevelHeld(o, vs, ks, cs, op, fr, S, i) BY DEF AllHeld
<1>9. i < Len(ds) /\ ds[i] = cs[i] /\ ds[i + 1].vi = cs[i + 1].vi /\ dp[i] = op[i] BY <1>2
<1>. QED BY <1>1, <1>5, <1>6, <1>7, <1>8, <1>9, LevelSame

-----------------------------------------------------------------------------
(* What each operation does to the stacks.                                   *)

LEMMA ValueStacks ==
    ASSUME NEW vs, NEW ks, NEW cs, NEW op, Stacks(vs, ks, cs, op), op # <<>> => op[Len(op)] = "array", NEW v
    PROVE  LET ws == Append(vs, v) IN
           /\ Stacks(ws, ks, cs, op) /\ Len(ws) = Len(vs) + 1 /\ ws[Len(ws)] = v
           /\ \A p \in 1..Len(vs) : ws[p] = vs[p]
           /\ Len(op) > 0 => Count(Len(ws), cs, Len(op)) >= 1
<1>1. /\ Sequence(Append(vs, v)) /\ Len(Append(vs, v)) = Len(vs) + 1 /\ Append(vs, v)[Len(vs) + 1] = v
      /\ \A p \in 1..Len(vs) : Append(vs, v)[p] = vs[p]
  BY Appended DEF Stacks
<1>2. /\ Shape(Len(vs) + 1, cs, Len(ks), op)
      /\ Len(op) > 0 => Count(Len(vs) + 1, cs, Len(op)) >= 1
  BY ShapeValue DEF Stacks
<1>. QED BY <1>1, <1>2 DEF Stacks

LEMMA MemberStacks ==
    ASSUME NEW vs, NEW ks, NEW cs, NEW op, Stacks(vs, ks, cs, op), op # <<>>, op[Len(op)] = "object",
           NEW u, NEW v, NEW k
    PROVE  LET ws == vs \o <<u, v>>
               ls == Append(ks, k)
           IN
           /\ Stacks(ws, ls, cs, op) /\ Len(ws) = Len(vs) + 2 /\ ws[Len(ws)] = v
           /\ \A p \in 1..Len(vs) : ws[p] = vs[p]
           /\ Len(ls) = Len(ks) + 1 /\ ls[Len(ls)] = k /\ \A q \in 1..Len(ks) : ls[q] = ks[q]
           /\ Len(op) > 0 /\ Count(Len(ws), cs, Len(op)) >= 1
           /\ KeyEnd(Len(ws), cs, Len(op)) = Len(ls)
<1>. DEFINE ws == vs \o <<u, v>>
            ls == Append(ks, k)
<1>1. /\ Sequence(ws) /\ Len(ws) = Len(vs) + 2 /\ ws[Len(vs) + 2] = v
      /\ \A p \in 1..Len(vs) : ws[p] = vs[p]
  BY Joined DEF Stacks
<1>2. /\ Sequence(ls) /\ Len(ls) = Len(ks) + 1 /\ ls[Len(ks) + 1] = k
      /\ \A q \in 1..Len(ks) : ls[q] = ks[q]
  BY Appended DEF Stacks
<1>3. /\ Shape(Len(vs) + 2, cs, Len(ks) + 1, op)
      /\ Len(op) > 0 => Count(Len(vs) + 2, cs, Len(op)) >= 1
      /\ KeyEnd(Len(vs) + 2, cs, Len(op)) = KeyEnd(Len(vs), cs, Len(op)) + 1
  BY ShapeMember DEF Stacks
<1>4. Len(op) > 0 /\ Len(op) \in 1..Len(op) BY StackFacts
<1>5. KeyEnd(Len(vs), cs, Len(op)) = Len(ks) BY <1>4, LevelFacts
<1>. HIDE DEF ws, ls
<1>6. Stacks(ws, ls, cs, op) BY <1>1, <1>2, <1>3 DEF Stacks
<1>. QED BY <1>1, <1>2, <1>3, <1>4, <1>5, <1>6 DEF ws, ls

LEMMA SlotStacks ==
    ASSUME NEW vs, NEW ks, NEW cs, NEW op, Stacks(vs, ks, cs, op), op # <<>>, NEW x
    PROVE  LET at == cs[Len(cs)].vi + 1
               ws == [vs EXCEPT ![at] = x]
           IN  /\ at \in 1..Len(vs) /\ Stacks(ws, ks, cs, op) /\ Len(ws) = Len(vs) /\ ws[at] = x
               /\ \A p \in 1..Len(vs) : p # at => ws[p] = vs[p]
<1>. DEFINE at == cs[Len(cs)].vi + 1
            ws == [vs EXCEPT ![at] = x]
<1>1. Len(op) \in 1..Len(op) /\ Len(cs) = Len(op) /\ Len(vs) \in Nat BY StackFacts
<1>2. cs[Len(cs)].vi \in Nat /\ cs[Len(cs)].vi + 1 <= Len(vs) BY <1>1, LevelFacts
<1>3. at \in 1..Len(vs) BY <1>1, <1>2
<1>. HIDE DEF at
<1>4. Sequence(ws) /\ Len(ws) = Len(vs) /\ \A p \in 1..Len(vs) : ws[p] = IF p = at THEN x ELSE vs[p]
  BY <1>3, Replaced DEF Stacks
<1>. HIDE DEF ws
<1>5. Stacks(ws, ks, cs, op) BY <1>4 DEF Stacks
<1>. QED BY <1>3, <1>4, <1>5 DEF ws, at

Entry(vs, ks, kind) == [vi |-> Len(vs) - 1, ki |-> IF kind = "array" THEN -1 ELSE Len(ks)]

LEMMA OpenStacks ==
    ASSUME NEW vs, NEW ks, NEW cs, NEW op, Stacks(vs, ks, cs, op), Len(vs) > 0,
           Len(op) > 0 => Count(Len(vs), cs, Len(op)) >= 1, NEW kind \in {"array", "object"}
    PROVE  Stacks(vs, ks, Append(cs, Entry(vs, ks, kind)), Append(op, kind))
<1>. DEFINE c == Entry(vs, ks, kind)
            ds == Append(cs, c)
            l == Len(op)
<1>1. Shape(Len(vs), ds, Len(ks), Append(op, kind)) BY ShapeOpened DEF Stacks, Entry
<1>2. Len(cs) = l /\ l \in Nat /\ Len(vs) \in Nat /\ Sequence(cs) BY StackFacts
<1>3. Len(ds) = l + 1 /\ ds[l + 1] = c /\ \A i \in 1..l : ds[i] = cs[i] BY <1>2, Appended
<1>4. c.vi = Len(vs) - 1 BY DEF Entry
<1>. HIDE DEF ds, c
<1>5. ASSUME NEW i \in 1..l PROVE cs[i].vi < c.vi
  <2>1. l \in 1..l /\ l > 0 BY <1>2
  <2>2. cs[l].vi + 1 + Count(Len(vs), cs, l) = Len(vs) /\ cs[l].vi \in Nat /\ Count(Len(vs), cs, l) \in Nat
    BY <1>2, <2>1, LevelFacts DEF End
  <2>3. cs[l].vi < c.vi BY <1>2, <1>4, <2>1, <2>2
  <2>4. cs[i].vi <= cs[l].vi
    <3>1. CASE i = l BY <2>2, <3>1
    <3>2. CASE i < l
      <4>1. cs[i].vi < cs[l].vi BY <1>2, <2>1, <3>2 DEF Stacks, Rising
      <4>. QED BY <2>2, <4>1, LevelFacts
    <3>. QED BY <1>2, <3>1, <3>2
  <2>5. cs[i].vi \in Nat BY LevelFacts
  <2>. QED BY <1>2, <1>4, <2>2, <2>3, <2>4, <2>5
<1>6. Rising(ds)
  <2>1. SUFFICES ASSUME NEW i \in 1..l + 1, NEW j \in 1..l + 1, i < j PROVE ds[i].vi < ds[j].vi
    BY <1>3 DEF Rising
  <2>2. CASE j = l + 1 BY <1>2, <1>3, <1>5, <2>1, <2>2
  <2>3. CASE j \in 1..l BY <1>2, <1>3, <2>1, <2>3 DEF Stacks, Rising
  <2>. QED BY <1>2, <2>2, <2>3
<1>. QED BY <1>1, <1>6 DEF Stacks, ds, c

\* What is left when the innermost container has become value v.
Closing(vs, ks, cs, op, ws, ls, v) ==
    /\ op # <<>>
    /\ ws = Append(SubSeq(vs, 1, cs[Len(cs)].vi), v)
    /\ ls = IF op[Len(op)] = "array" THEN ks ELSE SubSeq(ks, 1, cs[Len(cs)].ki)

LEMMA CloseStacks ==
    ASSUME NEW vs, NEW ks, NEW cs, NEW op, Stacks(vs, ks, cs, op), NEW ws, NEW ls, NEW v,
           Closing(vs, ks, cs, op, ws, ls, v)
    PROVE  LET c == cs[Len(cs)] IN
           /\ op # <<>> /\ Stacks(ws, ls, Front(cs), Front(op)) /\ Len(ls) \in Nat
           /\ Len(ws) = c.vi + 1 /\ ws[c.vi + 1] = v /\ \A p \in 1..c.vi : ws[p] = vs[p]
           /\ Len(ls) <= Len(ks) /\ \A q \in 1..Len(ls) : ls[q] = ks[q]
           /\ op[Len(op)] = "object" => Len(ls) = c.ki
           /\ op[Len(op)] = "array" => ls = ks
<1>. DEFINE c == cs[Len(cs)]
            l == Len(op)
            us == SubSeq(vs, 1, c.vi)
<1>0. op # <<>> /\ ws = Append(us, v) /\ ls = IF op[l] = "array" THEN ks ELSE SubSeq(ks, 1, c.ki)
  BY DEF Closing
<1>1. l \in 1..l /\ Len(cs) = l /\ Len(vs) \in Nat /\ Len(ks) \in Nat /\ Sequence(cs) BY <1>0, StackFacts
<1>2. c.vi \in Nat /\ c.vi + 1 <= Len(vs) BY <1>1, LevelFacts
<1>3. op[l] = "object" => c.ki \in Nat /\ c.ki <= Len(ks)
  <2>1. op[l] = "object" => c.ki \in Nat /\ KeyEnd(Len(vs), cs, l) = Len(ks) /\ Count(Len(vs), cs, l) \in Nat
    BY <1>1, LevelFacts
  <2>2. Count(Len(vs), cs, l) \in Nat => Half(Count(Len(vs), cs, l)) \in Nat BY Halves
  <2>. QED BY <1>1, <2>1, <2>2 DEF KeyEnd
<1>4. Sequence(us) /\ Len(us) = c.vi /\ \A p \in 1..c.vi : us[p] = vs[p]
  <2>1. c.vi \in 0..Len(vs) BY <1>1, <1>2
  <2>. QED BY <2>1, Cut DEF Stacks
<1>. HIDE DEF us
<1>5. Sequence(ws) /\ Len(ws) = c.vi + 1 /\ ws[c.vi + 1] = v /\ \A p \in 1..c.vi : ws[p] = us[p]
  BY <1>0, <1>4, Appended
<1>6. op[l] \in {"array", "object"} BY <1>1, LevelFacts
<1>7. /\ Sequence(ls) /\ Len(ls) = IF op[l] = "array" THEN Len(ks) ELSE c.ki
      /\ Len(ls) <= Len(ks) /\ \A q \in 1..Len(ls) : ls[q] = ks[q]
  <2>1. CASE op[l] = "array" BY <1>0, <1>1, <2>1 DEF Stacks
  <2>2. CASE op[l] = "object"
    <3>1. c.ki \in 0..Len(ks) BY <1>1, <1>3, <2>2
    <3>2. ls = SubSeq(ks, 1, c.ki) BY <1>0, <2>2
    <3>. QED BY <1>3, <2>2, <3>1, <3>2, Cut DEF Stacks
  <2>. QED BY <1>6, <2>1, <2>2
<1>8. Shape(c.vi + 1, Front(cs), Len(ls), Front(op)) BY <1>0, <1>1, <1>7, ShapeClosed DEF Stacks
<1>9. Rising(Front(cs))
  <2>1. Len(Front(cs)) = l - 1 /\ \A i \in 1..l - 1 : Front(cs)[i] = cs[i]
    <3>1. cs # <<>> BY <1>1, Empty
    <3>. QED BY <1>1, <3>1, FrontCut
  <2>. QED BY <1>1, <2>1, SMTT(30) DEF Stacks, Rising
<1>10. Stacks(ws, ls, Front(cs), Front(op)) BY <1>5, <1>7, <1>8, <1>9 DEF Stacks
<1>11. \A p \in 1..c.vi : ws[p] = vs[p] BY <1>4, <1>5
<1>12. Len(ls) \in Nat BY <1>10, StackFacts
<1>. HIDE DEF c
<1>. QED BY <1>0, <1>5, <1>7, <1>10, <1>11, <1>12 DEF c

-----------------------------------------------------------------------------
(* What each operation does to what the containers hold.                     *)

\* The containers that are open hold what their frames say.
Faithful(o, vs, ks, cs, op, fr, S) ==
    Stacks(vs, ks, cs, op) /\ Frames(op, fr) /\ AllHeld(o, vs, ks, cs, op, fr, S)

\* t is s with x in place n.
Instead(s, n, x, t) == Sequence(s) /\ n \in 1..Len(s) /\ t = [s EXCEPT ![n] = x]

LEMMA Replacing ==
    ASSUME NEW s, NEW n, NEW x, NEW t, Instead(s, n, x, t)
    PROVE  /\ Sequence(t) /\ Len(t) = Len(s)
           /\ \A i \in 1..Len(s) : t[i] = IF i = n THEN x ELSE s[i]
<1>1. PICK S : s \in Seq(S) BY DEF Sequence, Instead
<1>2. s \in Seq(S \cup {x}) BY <1>1, SeqMonotonic
<1>3. t \in Seq(S \cup {x}) BY <1>2 DEF Instead
<1>. QED BY <1>2, <1>3 DEF Sequence, Instead

LEMMA Sums ==
    ASSUME NEW a \in Nat, NEW b \in Nat, NEW s \in Nat, a + 1 + b = s
    PROVE  a + 1 + (b + 1) = s + 1 /\ a + 1 + (b + 2) = s + 2
OBVIOUS

LEMMA Innermost ==
    ASSUME NEW o, NEW vs, NEW ks, NEW cs, NEW op, NEW fr, NEW S, Faithful(o, vs, ks, cs, op, fr, S),
           op # <<>>
    PROVE  LET l == Len(op)
               n == Count(Len(vs), cs, l)
           IN  /\ l \in Nat /\ l > 0 /\ l \in 1..l /\ Len(cs) = l /\ Len(fr) = l /\ n \in Nat
               /\ Len(vs) \in Nat /\ Len(ks) \in Nat
               /\ Held(o, vs, ks, cs[l], n, fr[l], S)
               /\ Frame(fr[l], op[l]) /\ op[l] \in {"array", "object"}
               /\ cs[l].vi \in Nat /\ cs[l].vi + 1 + n = Len(vs)
               /\ op[l] = "object" => /\ n = 2 * Half(n) /\ Half(n) \in Nat /\ cs[l].ki \in Nat
                                      /\ cs[l].ki + Half(n) = Len(ks)
<1>. DEFINE l == Len(op)
            n == Count(Len(vs), cs, l)
<1>1. l \in Nat /\ l > 0 /\ l \in 1..l /\ Len(cs) = l /\ Len(vs) \in Nat /\ Len(ks) \in Nat
  BY StackFacts DEF Faithful
<1>2. /\ n \in Nat /\ Filled(Len(vs), cs, op, l) = n /\ op[l] \in {"array", "object"}
      /\ cs[l].vi \in Nat /\ End(Len(vs), cs, l) = cs[l].vi + 1 + n
      /\ op[l] = "object" => n = 2 * Half(n) /\ cs[l].ki \in Nat /\ KeyEnd(Len(vs), cs, l) = Len(ks)
  BY <1>1, LevelFacts DEF Faithful
<1>3. LevelHeld(o, vs, ks, cs, op, fr, S, l) BY <1>1 DEF Faithful, AllHeld
<1>4. Held(o, vs, ks, cs[l], n, fr[l], S) BY <1>1, <1>2, <1>3 DEF LevelHeld
<1>5. Half(n) \in Nat BY <1>2, Halves
<1>. QED BY <1>1, <1>2, <1>4, <1>5 DEF Faithful, Frames, End, KeyEnd

\* The innermost container changes: so do no others.
LEMMA InnerChanges ==
    ASSUME NEW o, NEW vs, NEW ks, NEW cs, NEW op, NEW fr, NEW S, Faithful(o, vs, ks, cs, op, fr, S),
           op # <<>>, NEW ws, NEW ls, NEW gr, NEW T, Stacks(ws, ls, cs, op),
           \A p \in 1..cs[Len(op)].vi : ws[p] = vs[p], \A q \in 1..Len(ks) : ls[q] = ks[q],
           NEW g, gr = [fr EXCEPT ![Len(op)] = g], g.name = fr[Len(op)].name, Frame(g, op[Len(op)]),
           Held(o, ws, ls, cs[Len(op)], Count(Len(ws), cs, Len(op)), g, T)
    PROVE  Faithful(o, ws, ls, cs, op, gr, T)
<1>. DEFINE l == Len(op)
<1>1. l \in Nat /\ l > 0 /\ l \in 1..l /\ Len(cs) = l /\ Len(fr) = l BY Innermost
<1>2. Sequence(gr) /\ Len(gr) = l /\ (\A i \in 1..l : gr[i] = IF i = l THEN g ELSE fr[i])
  <2>1. Sequence(fr) /\ l \in 1..Len(fr) BY <1>1 DEF Faithful, Frames
  <2>2. gr = [fr EXCEPT ![l] = g] OBVIOUS
  <2>. HIDE DEF l
  <2>3. Instead(fr, l, g, gr) BY <2>1, <2>2 DEF Instead
  <2>4. Sequence(gr) /\ Len(gr) = Len(fr) /\ (\A i \in 1..Len(fr) : gr[i] = IF i = l THEN g ELSE fr[i])
    BY ONLY <2>3, Replacing
  <2>. QED BY <1>1, <2>4
<1>3. gr[l] = g /\ (\A i \in 1..l : i # l => gr[i] = fr[i]) BY <1>1, <1>2
<1>4. Frames(op, gr) BY <1>1, <1>2 DEF Faithful, Frames
<1>5. ASSUME NEW i \in 1..l, i # l PROVE LevelHeld(o, ws, ls, cs, op, gr, T, i)
  <2>1. Len(cs) \in Nat /\ Len(cs) >= Len(op) /\ \A p \in 1..Len(op) : cs[p] = cs[p] /\ op[p] = op[p] BY <1>1
  <2>2. gr[Len(op)].name = fr[Len(op)].name BY <1>3
  <2>3. Stacks(vs, ks, cs, op) /\ Frames(op, fr) /\ AllHeld(o, vs, ks, cs, op, fr, S) BY DEF Faithful
  <2>4. \A j \in 1..Len(op) : j # Len(op) => gr[j] = fr[j] BY <1>3
  <2>5. \A p \in 1..cs[Len(op)].vi : ws[p] = vs[p] OBVIOUS
  <2>6. \A q \in 1..Len(ks) : ls[q] = ks[q] OBVIOUS
  <2>7. i \in 1..Len(op) /\ i # Len(op) BY <1>5
  <2>. QED BY ONLY <2>1, <2>2, <2>3, <2>4, <2>5, <2>6, <2>7, OuterSame
<1>6. LevelHeld(o, ws, ls, cs, op, gr, T, l)
  <2>1. Filled(Len(ws), cs, op, l) = Count(Len(ws), cs, l) BY <1>1, LevelFacts
  <2>. QED BY <1>1, <1>3, <2>1 DEF LevelHeld
<1>7. \A i \in 1..l : LevelHeld(o, ws, ls, cs, op, gr, T, i) BY <1>5, <1>6
<1>. QED BY <1>4, <1>7 DEF Faithful, AllHeld

\* A value of an array.
LEMMA ArrayGrows ==
    ASSUME NEW o, NEW vs, NEW ks, NEW cs, NEW op, NEW fr, NEW S, Faithful(o, vs, ks, cs, op, fr, S),
           op # <<>>, op[Len(op)] = "array", NEW v
    PROVE  Faithful(o, Append(vs, v), ks, cs, op, [fr EXCEPT ![Len(op)] = Grew(@, v)], {})
<1>. DEFINE l == Len(op)
            n == Count(Len(vs), cs, l)
            ws == Append(vs, v)
            g == Grew(fr[l], v)
<1>1. /\ l \in Nat /\ l > 0 /\ l \in 1..l /\ Len(cs) = l /\ n \in Nat /\ Len(vs) \in Nat
      /\ Held(o, vs, ks, cs[l], n, fr[l], S) /\ Frame(fr[l], "array")
      /\ cs[l].vi \in Nat /\ cs[l].vi + 1 + n = Len(vs)
  BY Innermost
<1>2. /\ Stacks(ws, ks, cs, op) /\ Len(ws) = Len(vs) + 1 /\ ws[Len(ws)] = v
      /\ \A p \in 1..Len(vs) : ws[p] = vs[p]
  BY ValueStacks DEF Faithful
<1>3. Count(Len(ws), cs, l) = n + 1
  <2>1. Count(Len(ws), cs, l) = Len(ws) - (cs[l].vi + 1) BY <1>1 DEF Count, End
  <2>. HIDE DEF n, ws
  <2>. QED BY <1>1, <1>2, <2>1
<1>. HIDE DEF n, ws
<1>4. ws[cs[l].vi + 1 + (n + 1)] = v
  <2>1. /\ cs[l].vi \in Nat /\ n \in Nat /\ Len(vs) \in Nat
        /\ cs[l].vi + 1 + n = Len(vs) /\ Len(ws) = Len(vs) + 1
    BY <1>1, <1>2
  <2>2. cs[l].vi + 1 + (n + 1) = Len(vs) + 1 BY ONLY <2>1, Sums
  <2>. QED BY <1>2, <2>2
<1>5. Held(o, ws, ks, cs[l], n, fr[l], S)
  <2>1. fr[l].kind = "array" BY <1>1 DEF Frame
  <2>2. \A p \in cs[l].vi + 1..cs[l].vi + 1 + n : ws[p] = vs[p] BY <1>1, <1>2
  <2>. QED BY <1>1, <2>1, <2>2, HeldSame
<1>6. Held(o, ws, ks, cs[l], n + 1, Grew(fr[l], ws[cs[l].vi + 1 + (n + 1)]), {})
  BY <1>1, <1>5, HeldValue DEF Frame
<1>7. Held(o, ws, ks, cs[l], Count(Len(ws), cs, l), g, {}) BY <1>3, <1>4, <1>6
<1>8. g.name = fr[l].name /\ Frame(g, op[l])
  BY <1>1, GrewFrame
<1>9. \A p \in 1..cs[l].vi : ws[p] = vs[p] BY <1>1, <1>2
<1>. HIDE DEF g
<1>10. Faithful(o, ws, ks, cs, op, [fr EXCEPT ![l] = g], {}) BY <1>2, <1>7, <1>8, <1>9, InnerChanges
<1>. QED BY <1>10 DEF ws, g

\* A member of an object.
LEMMA ObjectGrows ==
    ASSUME NEW o, NEW vs, NEW ks, NEW cs, NEW op, NEW fr, NEW S, Faithful(o, vs, ks, cs, op, fr, S),
           op # <<>>, op[Len(op)] = "object", NEW u, NEW v, NEW k, S \subseteq {k},
           ~IsNaming(o, <<k, v>>), ~IsOmitted(o, <<k, v>>)
    PROVE  Faithful(o, vs \o <<u, v>>, Append(ks, k), cs, op, [fr EXCEPT ![Len(op)] = Grew(@, <<k, v>>)], {})
<1>. DEFINE l == Len(op)
            n == Count(Len(vs), cs, l)
            ws == vs \o <<u, v>>
            ls == Append(ks, k)
            g == Grew(fr[l], <<k, v>>)
<1>1. /\ l \in Nat /\ l > 0 /\ l \in 1..l /\ Len(cs) = l /\ n \in Nat /\ Len(vs) \in Nat /\ Len(ks) \in Nat
      /\ Held(o, vs, ks, cs[l], n, fr[l], S) /\ Frame(fr[l], "object")
      /\ cs[l].vi \in Nat /\ cs[l].vi + 1 + n = Len(vs)
      /\ n = 2 * Half(n) /\ Half(n) \in Nat /\ cs[l].ki \in Nat /\ cs[l].ki + Half(n) = Len(ks)
  BY Innermost
<1>2. /\ Stacks(ws, ls, cs, op) /\ Len(ws) = Len(vs) + 2 /\ ws[Len(ws)] = v
      /\ \A p \in 1..Len(vs) : ws[p] = vs[p]
      /\ Len(ls) = Len(ks) + 1 /\ ls[Len(ls)] = k /\ \A q \in 1..Len(ks) : ls[q] = ks[q]
  BY MemberStacks DEF Faithful
<1>3. Count(Len(ws), cs, l) = n + 2
  <2>1. Count(Len(ws), cs, l) = Len(ws) - (cs[l].vi + 1) BY <1>1 DEF Count, End
  <2>2. Len(ws) = Len(vs) + 2 /\ n \in Nat /\ Len(vs) \in Nat /\ cs[l].vi \in Nat /\ cs[l].vi + 1 + n = Len(vs)
    BY <1>1, <1>2
  <2>. HIDE DEF n, ws, ls
  <2>. QED BY ONLY <2>1, <2>2
<1>. HIDE DEF n, ws, ls
<1>4. ws[cs[l].vi + 1 + (n + 2)] = v /\ ls[cs[l].ki + (Half(n) + 1)] = k
  <2>1. /\ cs[l].vi \in Nat /\ n \in Nat /\ Len(vs) \in Nat
        /\ cs[l].vi + 1 + n = Len(vs) /\ Len(ws) = Len(vs) + 2
        /\ Len(ks) \in Nat /\ cs[l].ki \in Nat /\ Half(n) \in Nat /\ cs[l].ki + Half(n) = Len(ks) /\ Len(ls) = Len(ks) + 1
    BY <1>1, <1>2
  <2>2. cs[l].ki + (Half(n) + 1) = Len(ls) BY ONLY <2>1, SMTT(30)
  <2>3. cs[l].vi + 1 + (n + 2) = Len(ws)
    <3>1. cs[l].vi \in Nat /\ n \in Nat /\ Len(vs) \in Nat /\ cs[l].vi + 1 + n = Len(vs) BY <2>1
    <3>2. cs[l].vi + 1 + (n + 2) = Len(vs) + 2 BY ONLY <3>1, Sums
    <3>. QED BY <1>2, <3>2
  <2>. QED BY <1>2, <2>2, <2>3
<1>5. Held(o, ws, ls, cs[l], n, fr[l], S)
  <2>1. fr[l].kind = "object" BY <1>1 DEF Frame
  <2>2. \A p \in cs[l].vi + 1..cs[l].vi + 1 + n : ws[p] = vs[p] BY <1>1, <1>2, SMTT(30)
  <2>3. \A q \in cs[l].ki + 1..cs[l].ki + Half(n) : ls[q] = ks[q] BY <1>1, <1>2, SMTT(30)
  <2>. QED BY <1>1, <2>1, <2>2, <2>3, HeldSame
<1>6. Held(o, ws, ls, cs[l], n + 2, g, {})
  <2>1. fr[l].kind = "object" /\ Sequence(fr[l].items) /\ "items" \in DOMAIN fr[l] BY <1>1 DEF Frame
  <2>. QED BY <1>1, <1>4, <1>5, <2>1, HeldMember
<1>7. g.name = fr[l].name /\ Frame(g, op[l])
  BY <1>1, GrewFrame
<1>8. \A p \in 1..cs[l].vi : ws[p] = vs[p] BY <1>1, <1>2
<1>. HIDE DEF g
<1>9. Faithful(o, ws, ls, cs, op, [fr EXCEPT ![l] = g], {}) BY <1>2, <1>3, <1>6, <1>7, <1>8, InnerChanges
<1>. QED BY <1>9 DEF ws, ls, g

\* An announced key, with a text that does not belong to it.
LEMMA KeyAnnounced ==
    ASSUME NEW o, NEW vs, NEW ks, NEW cs, NEW op, NEW fr, Faithful(o, vs, ks, cs, op, fr, {}),
           op # <<>>, op[Len(op)] = "object", NEW u, NEW v, NEW k
    PROVE  Faithful(o, vs \o <<u, v>>, Append(ks, k), cs, op, fr, {k})
<1>. DEFINE l == Len(op)
            n == Count(Len(vs), cs, l)
            ws == vs \o <<u, v>>
            ls == Append(ks, k)
<1>1. /\ l \in Nat /\ l > 0 /\ l \in 1..l /\ Len(cs) = l /\ n \in Nat /\ Len(vs) \in Nat /\ Len(ks) \in Nat
      /\ Held(o, vs, ks, cs[l], n, fr[l], {}) /\ Frame(fr[l], "object")
      /\ cs[l].vi \in Nat /\ cs[l].vi + 1 + n = Len(vs) /\ Len(fr) = l
      /\ n = 2 * Half(n) /\ Half(n) \in Nat /\ cs[l].ki \in Nat /\ cs[l].ki + Half(n) = Len(ks)
  BY Innermost
<1>2. /\ Stacks(ws, ls, cs, op) /\ Len(ws) = Len(vs) + 2
      /\ \A p \in 1..Len(vs) : ws[p] = vs[p]
      /\ Len(ls) = Len(ks) + 1 /\ ls[Len(ls)] = k /\ \A q \in 1..Len(ks) : ls[q] = ks[q]
  BY MemberStacks DEF Faithful
<1>3. Count(Len(ws), cs, l) = n + 2
  <2>1. Count(Len(ws), cs, l) = Len(ws) - (cs[l].vi + 1) BY <1>1 DEF Count, End
  <2>2. Len(ws) = Len(vs) + 2 /\ n \in Nat /\ Len(vs) \in Nat /\ cs[l].vi \in Nat /\ cs[l].vi + 1 + n = Len(vs)
    BY <1>1, <1>2
  <2>. HIDE DEF n, ws, ls
  <2>. QED BY ONLY <2>1, <2>2
<1>. HIDE DEF n, ws, ls
<1>4. ls[cs[l].ki + (Half(n) + 1)] = k
  <2>1. cs[l].ki \in Nat /\ Half(n) \in Nat /\ cs[l].ki + Half(n) = Len(ks) /\ Len(ls) = Len(ks) + 1
    BY <1>1, <1>2
  <2>2. cs[l].ki + (Half(n) + 1) = Len(ls) BY ONLY <2>1
  <2>. QED BY <1>2, <2>2
<1>5. Held(o, ws, ls, cs[l], n, fr[l], {})
  <2>1. fr[l].kind = "object" BY <1>1 DEF Frame
  <2>2. \A p \in cs[l].vi + 1..cs[l].vi + 1 + n : ws[p] = vs[p] BY <1>1, <1>2, SMTT(30)
  <2>3. \A q \in cs[l].ki + 1..cs[l].ki + Half(n) : ls[q] = ks[q] BY <1>1, <1>2
  <2>. QED BY <1>1, <2>1, <2>2, <2>3, HeldSame
<1>6. Held(o, ws, ls, cs[l], n + 2, fr[l], {k})
  <2>1. fr[l].kind = "object" BY <1>1 DEF Frame
  <2>. QED BY <1>1, <1>4, <1>5, <2>1, HeldAnnounced
<1>7. fr = [fr EXCEPT ![l] = fr[l]]
  <2>1. PICK F : fr \in Seq(F) BY DEF Faithful, Frames, Sequence
  <2>. QED BY <1>1, <2>1
<1>8. \A p \in 1..cs[l].vi : ws[p] = vs[p] BY <1>1, <1>2
<1>9. Faithful(o, ws, ls, cs, op, fr, {k})
  <2>1. Frame(fr[l], op[l]) /\ fr[l].name = fr[l].name BY <1>1
  <2>2. Held(o, ws, ls, cs[l], Count(Len(ws), cs, l), fr[l], {k}) BY <1>3, <1>6
  <2>. QED BY <1>2, <1>7, <1>8, <2>1, <2>2, InnerChanges
<1>. QED BY <1>9 DEF ws, ls

\* The member that names the class.
LEMMA ClassNamed ==
    ASSUME NEW o, NEW vs, NEW ks, NEW cs, NEW op, NEW fr, Faithful(o, vs, ks, cs, op, fr, {}),
           op # <<>>, op[Len(op)] = "object", NEW m, IsNaming(o, m)
    PROVE  Faithful(o, [vs EXCEPT ![cs[Len(cs)].vi + 1] = Class(m[2][2])], ks, cs, op,
                    [fr EXCEPT ![Len(op)] = Grew(@, m)], {})
<1>. DEFINE l == Len(op)
            n == Count(Len(vs), cs, l)
            at == cs[Len(cs)].vi + 1
            ws == [vs EXCEPT ![at] = Class(m[2][2])]
            g == Grew(fr[l], m)
<1>1. /\ l \in Nat /\ l > 0 /\ l \in 1..l /\ Len(cs) = l /\ n \in Nat /\ Len(vs) \in Nat
      /\ Held(o, vs, ks, cs[l], n, fr[l], {}) /\ Frame(fr[l], "object")
      /\ cs[l].vi \in Nat /\ cs[l].vi + 1 + n = Len(vs) /\ n = 2 * Half(n)
  BY Innermost
<1>2. /\ Stacks(ws, ks, cs, op) /\ Len(ws) = Len(vs) /\ ws[at] = Class(m[2][2])
      /\ \A p \in 1..Len(vs) : p # at => ws[p] = vs[p]
  BY SlotStacks, SMTT(30) DEF Faithful
<1>3. at = cs[l].vi + 1 BY <1>1
<1>. HIDE DEF n, ws, at
<1>4. ASSUME NEW p \in cs[l].vi + 2..cs[l].vi + 1 + n PROVE ws[p] = vs[p]
  <2>1. cs[l].vi \in Nat /\ n \in Nat /\ cs[l].vi + 1 + n = Len(vs) /\ at = cs[l].vi + 1
        /\ p \in cs[l].vi + 2..cs[l].vi + 1 + n
    BY <1>1, <1>3
  <2>2. p \in 1..Len(vs) /\ p # at BY ONLY <2>1
  <2>. QED BY <1>2, <2>2
<1>5. Held(o, ws, ks, cs[l], n, g, {})
  <2>1. fr[l].kind = "object" /\ Sequence(fr[l].items) /\ "items" \in DOMAIN fr[l] BY <1>1 DEF Frame
  <2>2. ws[cs[l].vi + 1] = Class(m[2][2]) BY <1>2, <1>3
  <2>. QED BY <1>1, <1>4, <2>1, <2>2, HeldClass
<1>6. g.name = fr[l].name /\ Frame(g, op[l])
  BY <1>1, GrewFrame
<1>7. \A p \in 1..cs[l].vi : ws[p] = vs[p] BY <1>1, <1>2, <1>3
<1>8. Count(Len(ws), cs, l) = n BY <1>2 DEF n
<1>. HIDE DEF g
<1>9. Faithful(o, ws, ks, cs, op, [fr EXCEPT ![l] = g], {}) BY <1>2, <1>5, <1>6, <1>7, <1>8, InnerChanges
<1>. QED BY <1>9 DEF ws, at, g

\* A null that is omitted.
LEMMA NullOmitted ==
    ASSUME NEW o, NEW vs, NEW ks, NEW cs, NEW op, NEW fr, Faithful(o, vs, ks, cs, op, fr, {}),
           op # <<>>, op[Len(op)] = "object", NEW m, IsOmitted(o, m), ~IsNaming(o, m)
    PROVE  Faithful(o, vs, ks, cs, op, [fr EXCEPT ![Len(op)] = Grew(@, m)], {})
<1>. DEFINE l == Len(op)
            n == Count(Len(vs), cs, l)
            g == Grew(fr[l], m)
<1>1. Held(o, vs, ks, cs[l], n, fr[l], {}) /\ Frame(fr[l], "object") /\ Stacks(vs, ks, cs, op)
  BY Innermost DEF Faithful
<1>2. Held(o, vs, ks, cs[l], n, g, {})
  <2>1. fr[l].kind = "object" /\ Sequence(fr[l].items) /\ "items" \in DOMAIN fr[l] BY <1>1 DEF Frame
  <2>. HIDE DEF n
  <2>. QED BY <1>1, <2>1, HeldOmitted
<1>3. g.name = fr[l].name /\ Frame(g, op[l])
  BY <1>1, GrewFrame
<1>. HIDE DEF g
<1>4. Faithful(o, vs, ks, cs, op, [fr EXCEPT ![l] = g], {}) BY <1>1, <1>2, <1>3, InnerChanges
<1>. QED BY <1>4 DEF g

\* A key has been read.
LEMMA KeyWaits ==
    ASSUME NEW o, NEW vs, NEW ks, NEW cs, NEW op, NEW fr, Faithful(o, vs, ks, cs, op, fr, {}), NEW T
    PROVE  Faithful(o, vs, ks, cs, op, fr, T)
<1>1. ASSUME NEW i \in 1..Len(op) PROVE LevelHeld(o, vs, ks, cs, op, fr, T, i)
  <2>1. LevelHeld(o, vs, ks, cs, op, fr, {}, i) BY DEF Faithful, AllHeld
  <2>2. CASE i = Len(cs)
    <3>1. Held(o, vs, ks, cs[i], Filled(Len(vs), cs, op, i), fr[i], {}) BY <2>1, <2>2 DEF LevelHeld
    <3>2. Held(o, vs, ks, cs[i], Filled(Len(vs), cs, op, i), fr[i], T) BY <3>1, HeldLess
    <3>. QED BY <2>1, <2>2, <3>2 DEF LevelHeld
  <2>3. CASE i # Len(cs) BY <2>1, <2>3 DEF LevelHeld
  <2>. QED BY <2>2, <2>3
<1>. QED BY <1>1 DEF Faithful, AllHeld

-----------------------------------------------------------------------------
(* Containers that open and close.                                           *)

\* What the caller has pushed for the container that opens.
Pushed(vs, ks, cs, op, ws, ls) ==
    /\ Stacks(ws, ls, cs, op) /\ ws[Len(ws)] = Undef
    /\ Len(ws) = Len(vs) + (IF op # <<>> /\ op[Len(op)] = "object" THEN 2 ELSE 1)
    /\ \A p \in 1..Len(vs) : ws[p] = vs[p]
    /\ \A q \in 1..Len(ks) : ls[q] = ks[q]
    /\ Len(op) > 0 => Count(Len(ws), cs, Len(op)) >= 1

\* The keys of which nothing is known are those of the container that opens.
Waiting(ws, ls, cs, op, S, f) ==
    op # <<>> /\ op[Len(op)] = "object" => S \subseteq {f.name} /\ ls[KeyEnd(Len(ws), cs, Len(op))] = f.name

LEMMA Opened ==
    ASSUME NEW o, NEW vs, NEW ks, NEW cs, NEW op, NEW fr, NEW S, Faithful(o, vs, ks, cs, op, fr, S),
           NEW ws, NEW ls, Pushed(vs, ks, cs, op, ws, ls), NEW kind \in {"array", "object"},
           NEW f, Frame(f, kind), f.items = <<>>, Waiting(ws, ls, cs, op, S, f)
    PROVE  Faithful(o, ws, ls, Append(cs, Entry(ws, ls, kind)), Append(op, kind), Append(fr, f), {})
<1>. DEFINE l == Len(op)
            c == Entry(ws, ls, kind)
            ds == Append(cs, c)
            dp == Append(op, kind)
            gr == Append(fr, f)
<1>1. /\ l \in Nat /\ Len(cs) = l /\ Len(vs) \in Nat /\ Len(ks) \in Nat /\ Sequence(cs) /\ Sequence(op)
      /\ Sequence(fr) /\ Len(fr) = l /\ (op # <<>> => l > 0) /\ (op = <<>> => l = 0)
  BY StackFacts DEF Faithful, Frames
<1>2. /\ Len(ds) = l + 1 /\ Len(dp) = l + 1 /\ Len(gr) = l + 1 /\ Sequence(gr)
      /\ \A j \in 1..l : ds[j] = cs[j] /\ dp[j] = op[j] /\ gr[j] = fr[j]
      /\ ds[l + 1] = c /\ dp[l + 1] = kind /\ gr[l + 1] = f
  BY <1>1, Appended
<1>3. Stacks(ws, ls, ds, dp)
  <2>1. Len(ws) > 0 BY <1>1 DEF Pushed
  <2>. QED BY <2>1, OpenStacks DEF Pushed
<1>. HIDE DEF ds, dp, gr
<1>4. Frames(dp, gr)
  <2>1. ASSUME NEW i \in 1..l + 1 PROVE Frame(gr[i], dp[i])
    <3>1. CASE i \in 1..l BY <1>2, <3>1 DEF Faithful, Frames
    <3>2. CASE i = l + 1 BY <1>2, <3>2
    <3>. QED BY <1>1, <3>1, <3>2
  <2>. QED BY <1>2, <2>1 DEF Frames
<1>5. ASSUME NEW i \in 1..l, i # l PROVE LevelHeld(o, ws, ls, ds, dp, gr, {}, i)
  <2>1. Stacks(vs, ks, cs, op) /\ Frames(op, fr) /\ AllHeld(o, vs, ks, cs, op, fr, S) BY DEF Faithful
  <2>2. Len(ds) \in Nat /\ Len(ds) >= Len(op) /\ \A j \in 1..Len(op) : ds[j] = cs[j] /\ dp[j] = op[j]
    BY <1>1, <1>2
  <2>3. \A j \in 1..Len(op) : j # Len(op) => gr[j] = fr[j] BY <1>2
  <2>4. l \in 1..l BY <1>1
  <2>5. gr[Len(op)].name = fr[Len(op)].name BY <1>2, <2>4
  <2>6. \A p \in 1..cs[Len(op)].vi : ws[p] = vs[p]
    <3>1. cs[l].vi \in Nat /\ cs[l].vi + 1 <= Len(vs) BY <2>1, <2>4, LevelFacts
    <3>. QED BY <1>1, <3>1 DEF Pushed
  <2>7. \A q \in 1..Len(ks) : ls[q] = ks[q] BY DEF Pushed
  <2>8. i \in 1..Len(op) /\ i # Len(op) BY <1>5
  <2>. QED BY ONLY <2>1, <2>2, <2>3, <2>5, <2>6, <2>7, <2>8, OuterSame
<1>6. ASSUME l > 0 PROVE LevelHeld(o, ws, ls, ds, dp, gr, {}, l)
  <2>. DEFINE n == Count(Len(vs), cs, l)
              d == IF op[l] = "object" THEN 2 ELSE 1
  <2>1. op # <<>> BY <1>1, <1>6
  <2>2. /\ l \in 1..l /\ n \in Nat /\ Held(o, vs, ks, cs[l], n, fr[l], S)
        /\ Frame(fr[l], op[l]) /\ op[l] \in {"array", "object"} /\ cs[l].vi \in Nat /\ cs[l].vi + 1 + n = Len(vs)
        /\ op[l] = "object" => n = 2 * Half(n) /\ Half(n) \in Nat /\ cs[l].ki \in Nat /\ cs[l].ki + Half(n) = Len(ks)
    BY <2>1, Innermost
  <2>. HIDE DEF n
  <2>3. Held(o, ws, ls, cs[l], n, fr[l], S)
    <3>1. fr[l].kind = op[l] BY <2>2 DEF Frame
    <3>2. \A p \in cs[l].vi + 1..cs[l].vi + 1 + n : ws[p] = vs[p] BY <2>2, <1>1 DEF Pushed
    <3>3. op[l] = "object" => \A q \in cs[l].ki + 1..cs[l].ki + Half(n) : ls[q] = ks[q]
      BY <2>2, <1>1 DEF Pushed
    <3>. QED BY <2>2, <3>1, <3>2, <3>3, HeldSame
  <2>4. Held(o, ws, ls, cs[l], n, fr[l], {f.name})
    <3>1. CASE op[l] = "array" BY <2>2, <2>3, <3>1 DEF Held, Frame
    <3>2. CASE op[l] = "object"
      <4>1. S \subseteq {f.name} BY <2>1, <3>2 DEF Waiting
      <4>. QED BY <2>3, <4>1, HeldLess
    <3>. QED BY <2>2, <3>1, <3>2
  <2>5. Len(ws) = Len(vs) + d /\ d \in {1, 2} BY <2>1 DEF Pushed
  <2>. HIDE DEF d
  <2>6. Count(Len(ws), ds, l) = n + d
    <3>1. l \in Nat /\ l # Len(ds) /\ ds[l] = cs[l] BY <1>1, <1>2, <2>2
    <3>2. c.vi = Len(ws) - 1 BY DEF Entry
    <3>3. ds[l + 1].vi = Len(ws) - 1 BY <1>2, <3>2
    <3>4. cs[l].vi \in Nat /\ n \in Nat /\ cs[l].vi + 1 + n = Len(vs) /\ Len(vs) \in Nat BY <1>1, <2>2
    <3>. HIDE DEF l
    <3>7. ds[l].vi \in Nat /\ ds[l].vi = cs[l].vi BY <3>1, <3>4
    <3>8. Len(ws) \in Nat BY <1>3, StackFacts
    <3>5. End(Len(ws), ds, l) = Len(ws) BY <3>1, <3>3, <3>8 DEF End
    <3>6. Count(Len(ws), ds, l) = Len(ws) - (cs[l].vi + 1) BY <3>4, <3>5, <3>7, <3>8 DEF Count
    <3>9. d \in Nat /\ Len(ws) = Len(vs) + d BY <2>5
    <3>10. Len(ws) - (cs[l].vi + 1) = n + d
      <4>. DEFINE a == cs[l].vi
                  u == Len(vs)
                  w == Len(ws)
      <4>1. a \in Nat /\ n \in Nat /\ u \in Nat /\ d \in Nat /\ w \in Nat /\ a + 1 + n = u /\ w = u + d
        BY <3>4, <3>8, <3>9
      <4>. HIDE DEF a, u, w, n, d
      <4>2. w - (a + 1) = n + d BY ONLY <4>1
      <4>. QED BY <4>2 DEF a, w
    <3>. QED BY ONLY <3>6, <3>10
  <2>7. Filled(Len(ws), ds, dp, l) = n
    <3>1. l # Len(ds) /\ dp[l] = op[l] BY <1>1, <1>2, <2>2
    <3>2. Filled(Len(ws), ds, dp, l) = n + d - d BY <2>2, <2>6, <3>1 DEF Filled, d
    <3>. QED BY <2>2, <2>5, <3>2
  <2>8. Count(Len(ws), cs, l) = n + d
    <3>1. Count(Len(ws), cs, l) = Len(ws) - (cs[l].vi + 1) BY <1>1, <2>2 DEF Count, End
    <3>2. cs[l].vi \in Nat /\ n \in Nat /\ cs[l].vi + 1 + n = Len(vs) /\ Len(vs) \in Nat BY <1>1, <2>2
    <3>. HIDE DEF l
    <3>. QED BY ONLY <3>1, <3>2, <2>5
  <2>9. KeyEnd(Len(ws), ds, l) = KeyEnd(Len(ws), cs, l) BY <1>2, <2>2, <2>6, <2>8 DEF KeyEnd
  <2>10. op[l] = "object" => ls[KeyEnd(Len(ws), ds, l)] = f.name BY <2>1, <2>9 DEF Waiting
  <2>11. l # Len(ds) /\ ds[l] = cs[l] /\ dp[l] = op[l] /\ gr[l] = fr[l] /\ gr[l + 1] = f BY <1>1, <1>2, <2>2
  <2>. QED BY <2>4, <2>7, <2>10, <2>11 DEF LevelHeld
<1>7. LevelHeld(o, ws, ls, ds, dp, gr, {}, l + 1)
  <2>1. Len(ws) \in Nat BY <1>3, StackFacts
  <2>2. c.vi = Len(ws) - 1 BY DEF Entry
  <2>3. Count(Len(ws), ds, l + 1) = 0 BY <1>2, <2>1, <2>2 DEF Count, End
  <2>4. Filled(Len(ws), ds, dp, l + 1) = 0 BY <1>2, <2>3 DEF Filled
  <2>5. ws[c.vi + 1] = Undef BY <2>1, <2>2 DEF Pushed
  <2>. HIDE DEF c
  <2>6. Held(o, ws, ls, c, 0, f, {}) BY <2>5, HeldNew
  <2>. QED BY <1>2, <2>4, <2>6 DEF LevelHeld
<1>8. AllHeld(o, ws, ls, ds, dp, gr, {})
  <2>1. ASSUME NEW i \in 1..l + 1 PROVE LevelHeld(o, ws, ls, ds, dp, gr, {}, i)
    <3>1. CASE i = l + 1 BY <1>7, <3>1
    <3>2. CASE i \in 1..l /\ i # l BY <1>5, <3>2
    <3>3. CASE i = l /\ l > 0 BY <1>6, <3>3
    <3>. QED BY <1>1, <3>1, <3>2, <3>3
  <2>. QED BY <1>2, <2>1 DEF AllHeld
<1>. QED BY <1>3, <1>4, <1>8 DEF Faithful, ds, dp, gr

\* The container that was opened in it has taken the value, under the closed one's name.
Taken(op, fr, gr, v) ==
    LET l == Len(op)
        m == IF op[l - 1] = "array" THEN v ELSE <<fr[l].name, v>>
    IN gr = IF l = 1 THEN <<>> ELSE [Front(fr) EXCEPT ![l - 1] = Grew(fr[l - 1], m)]
\* A value that is a member as it stands.
Plain(o, v) == \A k : ~IsNaming(o, <<k, v>>) /\ ~IsOmitted(o, <<k, v>>)

LEMMA TakenFrames ==
    ASSUME NEW op, NEW fr, NEW gr, NEW v, op # <<>>, Sequence(op), Frames(op, fr), Taken(op, fr, gr, v)
    PROVE  LET l == Len(op)
               m == IF op[l - 1] = "array" THEN v ELSE <<fr[l].name, v>>
           IN  /\ l \in Nat /\ l > 0 /\ Sequence(gr) /\ Len(gr) = l - 1 /\ Frames(Front(op), gr)
               /\ Len(Front(op)) = l - 1
               /\ \A i \in 1..l - 1 : Front(op)[i] = op[i] /\ (i # l - 1 => gr[i] = fr[i])
               /\ l > 1 => gr[l - 1] = Grew(fr[l - 1], m) /\ gr[l - 1].name = fr[l - 1].name
<1>. DEFINE l == Len(op)
            m == IF op[l - 1] = "array" THEN v ELSE <<fr[l].name, v>>
            g == Grew(fr[l - 1], m)
<1>1. Len(Front(op)) = l - 1 /\ l > 0 /\ l \in Nat /\ \A i \in 1..l - 1 : Front(op)[i] = op[i]
  BY FrontCut, Lengths
<1>2. Sequence(fr) /\ Len(fr) = l BY DEF Frames
<1>3. fr # <<>> BY <1>1, <1>2, Empty
<1>4. Sequence(Front(fr)) /\ Len(Front(fr)) = l - 1 /\ \A i \in 1..l - 1 : Front(fr)[i] = fr[i]
  BY <1>2, <1>3, FrontCut
<1>5. /\ Sequence(gr) /\ Len(gr) = l - 1
      /\ \A i \in 1..l - 1 : gr[i] = IF i = l - 1 THEN g ELSE fr[i]
  <2>1. CASE l = 1
    <3>1. gr = <<>> BY <2>1 DEF Taken
    <3>2. Sequence(gr) /\ Len(gr) = 0 BY <3>1, Empty
    <3>3. 1..l - 1 = {} BY <2>1
    <3>. QED BY <2>1, <3>2, <3>3
  <2>2. CASE l # 1
    <3>1. gr = [Front(fr) EXCEPT ![l - 1] = g] BY <2>2 DEF Taken
    <3>2. l - 1 \in 1..Len(Front(fr)) BY <1>1, <1>4, <2>2
    <3>. HIDE DEF g, l
    <3>3. Instead(Front(fr), l - 1, g, gr) BY <1>4, <3>1, <3>2 DEF Instead
    <3>4. /\ Sequence(gr) /\ Len(gr) = Len(Front(fr))
          /\ \A i \in 1..Len(Front(fr)) : gr[i] = IF i = l - 1 THEN g ELSE Front(fr)[i]
      BY ONLY <3>3, Replacing
    <3>. QED BY <1>4, <3>4
  <2>. QED BY <2>1, <2>2
<1>6. ASSUME NEW i \in 1..l - 1 PROVE Frame(gr[i], op[i])
  <2>1. i \in 1..l /\ Frame(fr[i], op[i]) BY <1>1 DEF Frames
  <2>2. CASE i = l - 1
    <3>. HIDE DEF m
    <3>1. Frame(Grew(fr[l - 1], m), op[l - 1]) BY <2>1, <2>2, GrewFrame
    <3>. QED BY <1>5, <2>2, <3>1
  <2>3. CASE i # l - 1 BY <1>5, <2>1, <2>3
  <2>. QED BY <2>2, <2>3
<1>7. Frames(Front(op), gr)
  <2>. HIDE DEF l
  <2>. QED BY <1>1, <1>5, <1>6 DEF Frames
<1>8. ASSUME l > 1 PROVE gr[l - 1] = g /\ g.name = fr[l - 1].name
  <2>1. l - 1 \in 1..l /\ l - 1 \in 1..l - 1 BY <1>1, <1>8
  <2>2. Frame(fr[l - 1], op[l - 1]) BY <2>1 DEF Frames
  <2>. HIDE DEF m
  <2>3. Grew(fr[l - 1], m).name = fr[l - 1].name BY <2>2, GrewFrame
  <2>. QED BY <1>5, <2>1, <2>3
<1>. HIDE DEF g, m
<1>9. l > 1 => gr[l - 1] = g /\ gr[l - 1].name = fr[l - 1].name BY <1>8
<1>. QED BY <1>1, <1>5, <1>7, <1>9 DEF g, m

\* The container that takes the value of the one that closes in it.
LEMMA ClosedInto ==
    ASSUME NEW o, NEW vs, NEW ks, NEW cs, NEW op, NEW fr, NEW S, Faithful(o, vs, ks, cs, op, fr, S),
           NEW ws, NEW ls, NEW v, Closing(vs, ks, cs, op, ws, ls, v), Plain(o, v),
           NEW i, i + 1 = Len(op), i \in 1..Len(op)
    PROVE  Held(o, ws, ls, cs[i], Count(Len(vs), cs, i),
                Grew(fr[i], IF op[i] = "array" THEN v ELSE <<fr[i + 1].name, v>>), {})
<1>. DEFINE l == Len(op)
            n == Filled(Len(vs), cs, op, i)
            name == fr[i + 1].name
<1>1. /\ l \in Nat /\ l > 0 /\ i \in Nat /\ i # l /\ Len(cs) = l /\ i + 1 \in 1..l /\ i \in 1..l
      /\ Len(vs) \in Nat /\ Len(ks) \in Nat
  BY StackFacts DEF Faithful
<1>2. /\ op[i] \in {"array", "object"} /\ cs[i].vi \in Nat /\ n \in Nat
      /\ End(Len(vs), cs, i) = cs[i].vi + 1 + Count(Len(vs), cs, i)
      /\ cs[i].vi + 1 + n <= cs[i + 1].vi
      /\ op[i] = "array" => n + 1 = Count(Len(vs), cs, i)
      /\ op[i] = "object" =>
            /\ cs[i].ki \in Nat /\ KeyEnd(Len(vs), cs, i) <= Len(ks) /\ KeyEnd(Len(vs), cs, i) \in Nat
            /\ n = 2 * Half(n) /\ n + 2 = Count(Len(vs), cs, i)
            /\ cs[i].ki + Half(n) + 1 = KeyEnd(Len(vs), cs, i)
  BY <1>1, LevelFacts DEF Faithful
<1>3. cs[i + 1].vi \in Nat BY <1>1, LevelFacts DEF Faithful
<1>4. /\ Held(o, vs, ks, cs[i], n, fr[i], {name})
      /\ op[i] = "object" => ks[KeyEnd(Len(vs), cs, i)] = name
  BY <1>1 DEF Faithful, AllHeld, LevelHeld
<1>5. /\ ws[cs[l].vi + 1] = v /\ \A p \in 1..cs[l].vi : ws[p] = vs[p]
      /\ \A q \in 1..Len(ls) : ls[q] = ks[q]
      /\ op[l] = "object" => Len(ls) = cs[l].ki
      /\ op[l] = "array" => ls = ks
  BY <1>1, CloseStacks DEF Faithful
<1>6. op[i] = "object" => KeyEnd(Len(vs), cs, i) <= Len(ls)
  <2>1. SUFFICES ASSUME op[i] = "object" PROVE KeyEnd(Len(vs), cs, i) <= Len(ls) OBVIOUS
  <2>2. CASE op[l] = "array" BY <1>2, <1>5, <2>1, <2>2
  <2>3. CASE op[l] = "object"
    <3>1. KeyEnd(Len(vs), cs, i) <= cs[l].ki
      <4>1. KeysInOrder(Len(vs), cs, Len(ks), op) BY DEF Faithful, Stacks, Shape
      <4>2. l \in i + 1..l /\ i \in 1..l BY <1>1
      <4>. QED BY <2>1, <2>3, <4>1, <4>2 DEF KeysInOrder
    <3>. QED BY <1>5, <2>3, <3>1
  <2>4. op[l] \in {"array", "object"} BY <1>1, LevelFacts DEF Faithful
  <2>. QED BY <2>2, <2>3, <2>4
<1>7. Frame(fr[i], op[i]) BY <1>1 DEF Faithful, Frames
<1>8. fr[i].kind = op[i] /\ Sequence(fr[i].items) /\ "items" \in DOMAIN fr[i] BY <1>7 DEF Frame
<1>. HIDE DEF n, name
<1>9. Held(o, ws, ls, cs[i], n, fr[i], {name})
  <2>1. ASSUME NEW p \in cs[i].vi + 1..cs[i].vi + 1 + n PROVE ws[p] = vs[p]
    <3>1. p \in 1..cs[l].vi BY <1>1, <1>2, <1>3
    <3>. QED BY <1>5, <3>1
  <2>2. ASSUME op[i] = "object", NEW q \in cs[i].ki + 1..cs[i].ki + Half(n) PROVE ls[q] = ks[q]
    <3>1. Half(n) \in Nat BY <1>2, Halves
    <3>2. q \in 1..KeyEnd(Len(vs), cs, i)
      <4>1. cs[i].ki \in Nat /\ cs[i].ki + Half(n) + 1 = KeyEnd(Len(vs), cs, i) BY <1>2, <2>2
      <4>. QED BY ONLY <2>2, <3>1, <4>1
    <3>3. Len(ls) \in Nat BY CloseStacks DEF Faithful
    <3>4. q \in 1..Len(ls) BY <1>2, <1>6, <2>2, <3>2, <3>3
    <3>. QED BY <1>5, <3>4
  <2>3. op[i] = "object" => cs[i].ki \in Nat /\ \A q \in cs[i].ki + 1..cs[i].ki + Half(n) : ls[q] = ks[q]
    BY <1>2, <2>2
  <2>. QED BY <1>2, <1>4, <1>8, <2>1, <2>3, HeldSame
<1>10. cs[l].vi + 1 = cs[i].vi + 1 + Count(Len(vs), cs, i)
  <2>1. End(Len(vs), cs, i) = cs[i + 1].vi + 1 BY <1>1 DEF End
  <2>. QED BY <1>1, <1>2, <2>1
<1>11. CASE op[i] = "array"
  <2>1. n + 1 = Count(Len(vs), cs, i) BY <1>2, <1>11
  <2>2. ws[cs[i].vi + 1 + (n + 1)] = v BY <1>5, <1>10, <2>1
  <2>3. Held(o, ws, ls, cs[i], n + 1, Grew(fr[i], ws[cs[i].vi + 1 + (n + 1)]), {})
    BY <1>2, <1>8, <1>9, <1>11, HeldValue
  <2>. QED BY <1>11, <2>1, <2>2, <2>3
<1>12. CASE op[i] = "object"
  <2>1. n + 2 = Count(Len(vs), cs, i) BY <1>2, <1>12
  <2>2. v = ws[cs[i].vi + 1 + (n + 2)] BY <1>5, <1>10, <2>1
  <2>3. name = ls[cs[i].ki + (Half(n) + 1)]
    <3>1. Half(n) \in Nat BY <1>2, <1>12, Halves
    <3>2. cs[i].ki + (Half(n) + 1) = KeyEnd(Len(vs), cs, i)
      <4>1. cs[i].ki \in Nat /\ cs[i].ki + Half(n) + 1 = KeyEnd(Len(vs), cs, i) BY <1>2, <1>12
      <4>. QED BY ONLY <3>1, <4>1
    <3>3. Len(ls) \in Nat BY CloseStacks DEF Faithful
    <3>4. KeyEnd(Len(vs), cs, i) \in 1..Len(ls)
      <4>1. cs[i].ki \in Nat /\ cs[i].ki + Half(n) + 1 = KeyEnd(Len(vs), cs, i)
            /\ KeyEnd(Len(vs), cs, i) <= Len(ls)
        BY <1>2, <1>6, <1>12
      <4>. QED BY ONLY <3>1, <3>3, <4>1
    <3>5. ls[KeyEnd(Len(vs), cs, i)] = name BY <1>4, <1>5, <1>12, <3>4
    <3>. QED BY <3>2, <3>5
  <2>4. ~IsNaming(o, <<name, v>>) /\ ~IsOmitted(o, <<name, v>>) BY DEF Plain
  <2>5. n = 2 * Half(n) BY <1>2, <1>12
  <2>6. fr[i].kind = "object" BY <1>8, <1>12
  <2>7. Held(o, ws, ls, cs[i], n + 2, Grew(fr[i], <<name, v>>), {})
    BY <1>2, <1>8, <1>9, <2>2, <2>3, <2>4, <2>5, <2>6, HeldMember
  <2>. QED BY <1>12, <2>1, <2>7 DEF name
<1>. QED BY <1>2, <1>11, <1>12

LEMMA Closed ==
    ASSUME NEW o, NEW vs, NEW ks, NEW cs, NEW op, NEW fr, NEW S, Faithful(o, vs, ks, cs, op, fr, S),
           NEW ws, NEW ls, NEW v, Closing(vs, ks, cs, op, ws, ls, v), Plain(o, v),
           NEW gr, Taken(op, fr, gr, v)
    PROVE  Faithful(o, ws, ls, Front(cs), Front(op), gr, {})
<1>. DEFINE l == Len(op)
            ds == Front(cs)
            dp == Front(op)
            m == IF op[l - 1] = "array" THEN v ELSE <<fr[l].name, v>>
<1>1. Stacks(vs, ks, cs, op) /\ Frames(op, fr) /\ op # <<>> BY DEF Faithful, Closing
<1>2. /\ Sequence(op) /\ Sequence(cs) /\ l \in Nat /\ l > 0 /\ Len(cs) = l
      /\ Len(vs) \in Nat /\ Len(ks) \in Nat
  BY <1>1, StackFacts
<1>3. /\ Sequence(gr) /\ Len(gr) = l - 1 /\ Frames(dp, gr) /\ Len(dp) = l - 1
      /\ \A i \in 1..l - 1 : dp[i] = op[i] /\ (i # l - 1 => gr[i] = fr[i])
      /\ l > 1 => gr[l - 1] = Grew(fr[l - 1], m) /\ gr[l - 1].name = fr[l - 1].name
  BY <1>1, <1>2, TakenFrames
<1>4. Len(ds) = l - 1 /\ \A i \in 1..l - 1 : ds[i] = cs[i]
  <2>1. cs # <<>> BY <1>2, Empty
  <2>. QED BY <1>2, <2>1, FrontCut
<1>5. /\ Stacks(ws, ls, ds, dp) /\ Len(ws) = cs[l].vi + 1 /\ \A p \in 1..cs[l].vi : ws[p] = vs[p]
      /\ \A q \in 1..Len(ls) : ls[q] = ks[q]
      /\ op[l] = "object" => Len(ls) = cs[l].ki
      /\ op[l] = "array" => ls = ks
  BY <1>1, <1>2, CloseStacks
<1>. HIDE DEF ds, dp, m
<1>6. \A i \in 1..l : op[i] \in {"array", "object"} /\ cs[i].vi \in Nat
  BY <1>1, LevelFacts
<1>7. ASSUME NEW i \in 1..l - 1, i # l - 1 PROVE LevelHeld(o, ws, ls, ds, dp, gr, {}, i)
  <2>1. i \in 1..l /\ i # l /\ i + 1 \in 1..l - 1 /\ i < l - 1 BY <1>2, <1>7
  <2>2. LevelHeld(o, vs, ks, cs, op, fr, S, i) BY <2>1 DEF Faithful, AllHeld
  <2>3. ds[i] = cs[i] /\ ds[i + 1].vi = cs[i + 1].vi /\ dp[i] = op[i] /\ gr[i] = fr[i] BY <1>3, <1>4, <1>7, <2>1
  <2>4. gr[i + 1].name = fr[i + 1].name
    <3>1. CASE i + 1 = l - 1 BY <1>2, <1>3, <2>1, <3>1
    <3>2. CASE i + 1 # l - 1 BY <1>3, <2>1, <3>2
    <3>. QED BY <3>1, <3>2
  <2>5. ASSUME NEW p \in 1..cs[i + 1].vi PROVE ws[p] = vs[p]
    <3>1. cs[i + 1].vi < cs[l].vi
      <4>1. i + 1 \in 1..Len(cs) /\ l \in 1..Len(cs) /\ i + 1 < l BY <1>2, <2>1
      <4>. QED BY <1>1, <4>1 DEF Stacks, Rising
    <3>2. cs[i + 1].vi \in Nat /\ cs[l].vi \in Nat BY <1>2, <1>6, <2>1
    <3>. QED BY <1>5, <3>1, <3>2
  <2>6. ASSUME op[i] = "object", NEW q \in 1..KeyEnd(Len(vs), cs, i) PROVE ls[q] = ks[q]
    <3>1. CASE op[l] = "array" BY <1>5, <3>1
    <3>2. CASE op[l] = "object"
      <4>1. KeysInOrder(Len(vs), cs, Len(ks), op) BY <1>1 DEF Stacks, Shape
      <4>2. l \in i + 1..l BY <1>2, <2>1
      <4>3. KeyEnd(Len(vs), cs, i) <= cs[l].ki BY <2>1, <2>6, <3>2, <4>1, <4>2 DEF KeysInOrder
      <4>4. KeyEnd(Len(vs), cs, i) \in Nat BY <1>1, <2>1, <2>6, LevelFacts
      <4>5. cs[l].ki \in Nat BY <1>1, <1>2, <3>2, LevelFacts
      <4>6. q \in 1..cs[l].ki BY <4>3, <4>4, <4>5
      <4>. QED BY <1>5, <3>2, <4>6
    <3>3. op[l] \in {"array", "object"} BY <1>2, <1>6
    <3>. QED BY <3>1, <3>2, <3>3
  <2>7. Len(ds) \in Nat /\ i < Len(ds) BY <1>2, <1>4, <2>1
  <2>8. \A p \in 1..cs[i + 1].vi : ws[p] = vs[p] BY <2>5
  <2>9. op[i] = "object" => \A q \in 1..KeyEnd(Len(vs), cs, i) : ls[q] = ks[q] BY <2>6
  <2>. QED BY ONLY <1>1, <2>1, <2>2, <2>3, <2>4, <2>7, <2>8, <2>9, LevelSame
<1>8. ASSUME l > 1 PROVE LevelHeld(o, ws, ls, ds, dp, gr, {}, l - 1)
  <2>. DEFINE i == l - 1
              n == Count(Len(vs), cs, i)
  <2>1. i + 1 = Len(op) /\ i \in 1..Len(op) /\ i \in 1..l - 1 /\ i = Len(ds) /\ i = Len(dp) BY <1>2, <1>3, <1>4, <1>8
  <2>2. Held(o, ws, ls, cs[i], n, Grew(fr[i], IF op[i] = "array" THEN v ELSE <<fr[i + 1].name, v>>), {})
    <3>. HIDE DEF i
    <3>. QED BY <2>1, ClosedInto
  <2>3. Held(o, ws, ls, cs[i], n, gr[i], {})
    <3>1. gr[i] = Grew(fr[i], m) BY <1>3, <1>8
    <3>. QED BY <2>1, <2>2, <3>1 DEF m
  <2>4. Filled(Len(ws), ds, dp, i) = Count(Len(ws), ds, i) BY <1>5, <2>1, LevelFacts
  <2>5. Count(Len(ws), ds, i) = n
    <3>1. End(Len(ws), ds, i) = cs[l].vi + 1 BY <1>5, <2>1 DEF End
    <3>2. End(Len(vs), cs, i) = cs[l].vi + 1
      <4>1. i # Len(cs) /\ i + 1 = l BY <1>2, <2>1
      <4>. HIDE DEF i
      <4>. QED BY <4>1 DEF End
    <3>3. ds[i].vi = cs[i].vi BY <1>4, <2>1
    <3>. QED BY <3>1, <3>2, <3>3 DEF Count
  <2>6. ds[i] = cs[i] BY <1>4, <2>1
  <2>. HIDE DEF i, n
  <2>7. LevelHeld(o, ws, ls, ds, dp, gr, {}, i) BY <2>1, <2>3, <2>4, <2>5, <2>6 DEF LevelHeld
  <2>. QED BY <2>7 DEF i
<1>9. AllHeld(o, ws, ls, ds, dp, gr, {})
  <2>1. ASSUME NEW i \in 1..l - 1 PROVE LevelHeld(o, ws, ls, ds, dp, gr, {}, i)
    <3>1. CASE i # l - 1 BY <1>7, <3>1
    <3>2. CASE i = l - 1
      <4>1. l > 1 BY <1>2, <3>2
      <4>. QED BY <1>8, <3>2, <4>1
    <3>. QED BY <3>1, <3>2
  <2>. QED BY <1>3, <2>1 DEF AllHeld
<1>. QED BY <1>3, <1>5, <1>9 DEF Faithful, ds, dp

-----------------------------------------------------------------------------
(* The documents that are finished.                                          *)

LEMMA DocsValue ==
    ASSUME NEW ys, NEW vs, NEW cs, NEW docs, DocsHeld(ys, vs, cs, docs), Len(cs) = 0,
           Sequence(ys), Sequence(vs), Sequence(docs), NEW v
    PROVE  DocsHeld(ys, Append(vs, v), cs, Append(docs, v))
<1>1. /\ Len(vs) \in Nat /\ Len(ys) \in Nat /\ Len(docs) = Len(ys) + Len(vs)
      /\ \A j \in 1..Len(ys) : docs[j] = ys[j]
      /\ \A j \in 1..Len(vs) : docs[Len(ys) + j] = vs[j]
  BY Lengths DEF DocsHeld, Bottom
<1>. DEFINE ws == Append(vs, v)
            ds == Append(docs, v)
<1>2. Len(ws) = Len(vs) + 1 /\ (\A j \in 1..Len(vs) : ws[j] = vs[j]) /\ ws[Len(vs) + 1] = v
  BY Appended
<1>3. Len(ds) = Len(docs) + 1 /\ (\A j \in 1..Len(docs) : ds[j] = docs[j]) /\ ds[Len(docs) + 1] = v
  BY Appended
<1>. HIDE DEF ws, ds
<1>4. Len(ds) = Len(ys) + Len(ws) BY <1>1, <1>2, <1>3
<1>5. \A j \in 1..Len(ys) : ds[j] = ys[j] BY <1>1, <1>3
<1>6. ASSUME NEW j \in 1..Len(ws) PROVE ds[Len(ys) + j] = ws[j]
  <2>1. CASE j \in 1..Len(vs)
    <3>1. Len(ys) + j \in 1..Len(docs) BY <1>1, <2>1
    <3>. QED BY <1>1, <1>2, <1>3, <2>1, <3>1
  <2>2. CASE j = Len(vs) + 1
    <3>1. Len(ys) + j = Len(docs) + 1 BY <1>1, <2>2
    <3>. QED BY <1>2, <1>3, <2>2, <3>1
  <2>. QED BY <1>1, <1>2, <2>1, <2>2
<1>7. DocsHeld(ys, ws, cs, ds) BY <1>4, <1>5, <1>6 DEF DocsHeld, Bottom
<1>. QED BY <1>7 DEF ws, ds

\* What happens inside a container does not change the documents before it.
LEMMA DocsSame ==
    ASSUME NEW ys, NEW vs, NEW cs, NEW docs, DocsHeld(ys, vs, cs, docs),
           NEW ws, NEW ds, Len(ds) # 0, ds[1].vi = Bottom(vs, cs),
           \A p \in 1..ds[1].vi : ws[p] = vs[p]
    PROVE  DocsHeld(ys, ws, ds, docs)
BY DEF DocsHeld, Bottom

\* The container that was a document's closes.
LEMMA DocsClosed ==
    ASSUME NEW ys, NEW vs, NEW cs, NEW docs, DocsHeld(ys, vs, cs, docs), Len(cs) = 1,
           Sequence(ys), Sequence(docs), NEW ws, NEW v, cs[1].vi \in Nat, Len(ws) = cs[1].vi + 1,
           ws[cs[1].vi + 1] = v, \A p \in 1..cs[1].vi : ws[p] = vs[p]
    PROVE  DocsHeld(ys, ws, <<>>, Append(docs, v))
<1>. DEFINE n == cs[1].vi
            ds == Append(docs, v)
<1>1. /\ n \in Nat /\ Len(ys) \in Nat /\ Len(docs) = Len(ys) + n
      /\ \A j \in 1..Len(ys) : docs[j] = ys[j]
      /\ \A j \in 1..n : docs[Len(ys) + j] = vs[j]
  BY Lengths DEF DocsHeld, Bottom
<1>2. Len(ds) = Len(docs) + 1 /\ (\A j \in 1..Len(docs) : ds[j] = docs[j]) /\ ds[Len(docs) + 1] = v
  BY Appended
<1>. HIDE DEF ds
<1>3. Len(ds) = Len(ys) + Len(ws) BY <1>1, <1>2
<1>4. \A j \in 1..Len(ys) : ds[j] = ys[j] BY <1>1, <1>2
<1>5. ASSUME NEW j \in 1..Len(ws) PROVE ds[Len(ys) + j] = ws[j]
  <2>1. CASE j \in 1..n
    <3>1. Len(ys) + j \in 1..Len(docs) BY <1>1, <2>1
    <3>. QED BY <1>1, <1>2, <2>1, <3>1
  <2>2. CASE j = n + 1
    <3>1. Len(ys) + j = Len(docs) + 1 BY <1>1, <2>2
    <3>. QED BY <1>2, <2>2, <3>1
  <2>. QED BY <1>1, <2>1, <2>2
<1>. HIDE DEF n
<1>6. DocsHeld(ys, ws, <<>>, ds) BY <1>3, <1>4, <1>5, Empty DEF DocsHeld, Bottom
<1>. QED BY <1>6 DEF ds

\* A document that the block is given.
LEMMA DocsYielded ==
    ASSUME NEW ys, NEW v, NEW docs, DocsHeld(ys, <<v>>, <<>>, docs), Sequence(ys)
    PROVE  DocsHeld(Append(ys, v), <<>>, <<>>, docs)
<1>1. /\ Len(ys) \in Nat /\ Len(docs) = Len(ys) + 1
      /\ \A j \in 1..Len(ys) : docs[j] = ys[j]
      /\ docs[Len(ys) + 1] = v
  <2>1. Len(<<v>>) = 1 /\ <<v>>[1] = v /\ Len(<<>>) = 0 OBVIOUS
  <2>. QED BY <2>1, Lengths DEF DocsHeld, Bottom
<1>. DEFINE zs == Append(ys, v)
<1>2. Len(zs) = Len(ys) + 1 /\ (\A j \in 1..Len(ys) : zs[j] = ys[j]) /\ zs[Len(ys) + 1] = v
  BY Appended
<1>. HIDE DEF zs
<1>3. DocsHeld(zs, <<>>, <<>>, docs)
  <2>1. Len(<<>>) = 0 OBVIOUS
  <2>2. Len(docs) = Len(zs) + 0 BY <1>1, <1>2
  <2>3. \A j \in 1..Len(zs) : docs[j] = zs[j] BY <1>1, <1>2
  <2>. QED BY <2>1, <2>2, <2>3 DEF DocsHeld, Bottom
<1>. QED BY <1>3 DEF zs

\* Outside every container, the documents are those given to the block and the rest.
LEMMA DocsApart ==
    ASSUME NEW ys, NEW vs, NEW cs, NEW docs, DocsHeld(ys, vs, cs, docs), Len(cs) = 0,
           Sequence(ys), Sequence(vs), Sequence(docs)
    PROVE  /\ ys \o vs = docs
           /\ SubSeq(docs, Len(ys) + 1, Len(docs)) = vs
<1>1. /\ Len(vs) \in Nat /\ Len(ys) \in Nat /\ Len(docs) = Len(ys) + Len(vs)
      /\ \A j \in 1..Len(ys) : docs[j] = ys[j]
      /\ \A j \in 1..Len(vs) : docs[Len(ys) + j] = vs[j]
  BY Lengths DEF DocsHeld, Bottom
<1>2. ys \o vs = docs
  <2>1. PICK S : ys \in Seq(S) BY DEF Sequence
  <2>2. PICK T : vs \in Seq(T) BY DEF Sequence
  <2>3. ys \in Seq(S \cup T) /\ vs \in Seq(S \cup T) BY <2>1, <2>2, SeqMonotonic
  <2>. DEFINE zs == ys \o vs
  <2>4. /\ Sequence(zs) /\ Len(zs) = Len(ys) + Len(vs)
        /\ \A j \in 1..Len(ys) + Len(vs) : zs[j] = IF j <= Len(ys) THEN ys[j] ELSE vs[j - Len(ys)]
    BY <2>3, ConcatProperties DEF Sequence
  <2>. HIDE DEF zs
  <2>5. ASSUME NEW j \in 1..Len(zs) PROVE zs[j] = docs[j]
    <3>1. CASE j <= Len(ys) BY <1>1, <2>4, <3>1
    <3>2. CASE j > Len(ys)
      <4>1. j - Len(ys) \in 1..Len(vs) /\ Len(ys) + (j - Len(ys)) = j BY <1>1, <2>4, <3>2
      <4>2. docs[Len(ys) + (j - Len(ys))] = vs[j - Len(ys)] BY <1>1, <4>1
      <4>3. zs[j] = vs[j - Len(ys)] BY <1>1, <2>4, <3>2
      <4>. QED BY <4>1, <4>2, <4>3
    <3>. QED BY <1>1, <2>4, <3>1, <3>2
  <2>6. zs = docs BY <1>1, <2>4, <2>5, Same
  <2>. QED BY <2>6 DEF zs
<1>3. SubSeq(docs, Len(ys) + 1, Len(docs)) = vs
  <2>. DEFINE zs == SubSeq(docs, Len(ys) + 1, Len(docs))
  <2>1. Len(ys) \in 0..Len(docs) BY <1>1
  <2>2. Sequence(zs) /\ Len(zs) = Len(docs) - Len(ys) /\ \A i \in 1..Len(docs) - Len(ys) : zs[i] = docs[Len(ys) + i]
    BY <2>1, Rest
  <2>. HIDE DEF zs
  <2>3. Len(zs) = Len(vs) BY <1>1, <2>2
  <2>4. \A i \in 1..Len(zs) : zs[i] = vs[i] BY <1>1, <2>2, <2>3
  <2>5. zs = vs BY <2>2, <2>3, <2>4, Same
  <2>. QED BY <2>5 DEF zs
<1>. QED BY <1>2, <1>3

-----------------------------------------------------------------------------
(* The value of a container is its tree.                                     *)

LEMMA SlotsAre ==
    ASSUME NEW n \in Nat, Sequence(vstack), col.vi \in Nat, col.vi + 1 + n = Len(vstack)
    PROVE  Sequence(Slots) /\ Len(Slots) = n /\ \A j \in 1..n : Slots[j] = vstack[col.vi + 1 + j]
<1>. DEFINE a == col.vi + 1
            t == SubSeq(vstack, a + 1, Len(vstack))
<1>1. a \in Nat /\ a \in 0..Len(vstack) /\ Len(vstack) - a = n /\ Len(vstack) \in Nat OBVIOUS
<1>2. Slots = t
  <2>1. a + 1 = col.vi + 2 OBVIOUS
  <2>. HIDE DEF a
  <2>. QED BY <2>1 DEF Slots
<1>. HIDE DEF a
<1>3. Sequence(t) /\ Len(t) = Len(vstack) - a /\ \A i \in 1..Len(vstack) - a : t[i] = vstack[a + i]
  BY <1>1, Rest
<1>. HIDE DEF t
<1>. QED BY <1>1, <1>2, <1>3 DEF a

LEMMA ArrayTree ==
    ASSUME NEW n \in Nat, NEW f, Held(set, vstack, kstack, col, n, f, {}), f.kind = "array",
           Sequence(f.items), Sequence(vstack), col.vi \in Nat, col.vi + 1 + n = Len(vstack)
    PROVE  Array(Slots) = Tree(f.kind, f.items)
<1>1. Sequence(Slots) /\ Len(Slots) = n /\ \A j \in 1..n : Slots[j] = vstack[col.vi + 1 + j]
  BY SlotsAre
<1>2. n = Len(f.items) /\ \A j \in 1..n : vstack[col.vi + 1 + j] = f.items[j] BY DEF Held
<1>3. Slots = f.items
  <2>1. \A j \in 1..Len(Slots) : Slots[j] = f.items[j] BY <1>1, <1>2
  <2>. QED BY <1>1, <1>2, <2>1, Same
<1>. QED BY <1>3 DEF Tree

LEMMA KeysAre ==
    ASSUME NEW h \in Nat, Sequence(kstack), col.ki \in Nat, col.ki + h = Len(kstack)
    PROVE  Len(ColKeys) = h /\ \A j \in 1..h : ColKeys[j] = kstack[col.ki + j]
<1>. DEFINE a == col.ki
            t == SubSeq(kstack, a + 1, Len(kstack))
<1>1. a \in Nat /\ a \in 0..Len(kstack) /\ Len(kstack) - a = h /\ Len(kstack) \in Nat OBVIOUS
<1>2. ColKeys = t BY DEF ColKeys
<1>. HIDE DEF a
<1>3. Sequence(t) /\ Len(t) = Len(kstack) - a /\ \A i \in 1..Len(kstack) - a : t[i] = kstack[a + i]
  BY <1>1, Rest
<1>. HIDE DEF t
<1>. QED BY <1>1, <1>2, <1>3 DEF a

LEMMA PairsAre ==
    ASSUME NEW n \in Nat, n = 2 * Half(n), Sequence(vstack), Sequence(kstack),
           col.vi \in Nat, col.vi + 1 + n = Len(vstack), col.ki \in Nat, col.ki + Half(n) = Len(kstack)
    PROVE  FromPairs(Pairs) = OnStacks(vstack, kstack, col, Half(n))
<1>. DEFINE h == Half(n)
<1>1. h \in Nat BY Halves
<1>2. Len(Slots) = n /\ \A j \in 1..n : Slots[j] = vstack[col.vi + 1 + j] BY SlotsAre
<1>3. Len(ColKeys) = h /\ \A j \in 1..h : ColKeys[j] = kstack[col.ki + j] BY <1>1, KeysAre
<1>. HIDE DEF h
<1>4. ASSUME NEW j \in 1..h PROVE Slots[2 * j] = vstack[col.vi + 1 + 2 * j]
  <2>1. 2 * j \in 1..n
    <3>1. n = 2 * h BY DEF h
    <3>. QED BY ONLY <1>1, <1>4, <3>1
  <2>. QED BY <1>2, <2>1
<1>5. Pairs = Members(vstack, kstack, col, h) BY <1>1, <1>3, <1>4 DEF Pairs, Members
<1>6. DOMAIN Pairs = First(h) BY <1>5 DEF Members, First
<1>. QED BY <1>5, <1>6 DEF FromPairs, OnStacks, h

LEMMA ObjectTree ==
    ASSUME NEW n \in Nat, NEW f, Held(set, vstack, kstack, col, n, f, {}), f.kind = "object",
           n = 2 * Half(n), Sequence(vstack), Sequence(kstack),
           col.vi \in Nat, col.vi + 1 + n = Len(vstack), col.ki \in Nat, col.ki + Half(n) = Len(kstack),
           set \in Options, closer = IF set.create THEN "create" ELSE PlainOr(set.hash_class)
    PROVE  ObjectValue = Tree(f.kind, f.items)
<1>. DEFINE it == f.items
<1>1. FromPairs(Pairs) = HashOf(it, Kept(it))
  <2>1. FromPairs(Pairs) = OnStacks(vstack, kstack, col, Half(n)) BY PairsAre
  <2>2. Off(OnStacks(vstack, kstack, col, Half(n)), {}) = Off(InFrame(set, it), {}) BY DEF Held
  <2>3. OnStacks(vstack, kstack, col, Half(n)) = InFrame(set, it) BY <2>2, OffNone DEF OnStacks, InFrame
  <2>4. Kept(it) = KeptOf(set, it) BY DEF Kept, KeptOf, NamesClass, IsNaming, Omitted, IsOmitted, Resolves
  <2>. QED BY <2>1, <2>3, <2>4 DEF InFrame
<1>2. Naming(it) = NamingOf(set, it) BY DEF Naming, NamingOf, NamesClass, IsNaming, Resolves
<1>3. vstack[col.vi + 1] = ClassSlot(set, it) BY DEF Held
<1>4. set.create \in BOOLEAN /\ set.hash_class \in BOOLEAN BY DEF Options
<1>5. CASE ~set.create
  <2>1. Naming(it) = {} BY <1>5 DEF Naming, NamesClass
  <2>2. Tree("object", it) = <<"hash", set.hash_class, FromPairs(Pairs)>> BY <1>1, <2>1 DEF Tree
  <2>3. closer = PlainOr(set.hash_class) BY <1>5
  <2>4. CASE set.hash_class
    <3>1. closer = "class" BY <2>3, <2>4 DEF PlainOr
    <3>. QED BY <2>2, <2>4, <3>1 DEF ObjectValue
  <2>5. CASE ~set.hash_class
    <3>1. closer = "plain" BY <2>3, <2>5 DEF PlainOr
    <3>2. set.hash_class = FALSE BY <1>4, <2>5
    <3>. QED BY <2>2, <3>1, <3>2 DEF ObjectValue
  <2>. QED BY <2>4, <2>5
<1>6. CASE set.create
  <2>1. closer = "create" BY <1>6
  <2>2. CASE Naming(it) = {}
    <3>1. vstack[col.vi + 1] = Undef BY <1>2, <1>3, <2>2 DEF ClassSlot
    <3>2. Tree("object", it) = <<"hash", set.hash_class, FromPairs(Pairs)>> BY <1>1, <2>2 DEF Tree
    <3>. QED BY <2>1, <3>1, <3>2 DEF ObjectValue
  <2>3. CASE Naming(it) # {}
    <3>. DEFINE s == it[Max(Naming(it))][2][2]
    <3>1. vstack[col.vi + 1] = Class(s) BY <1>2, <1>3, <2>3 DEF ClassSlot
    <3>2. Tree("object", it) = <<IF s \in Creatable /\ ~set.ignore_json_create THEN "created" ELSE "object",
                                 s, FromPairs(Pairs)>>
      BY <1>1, <2>3 DEF Tree
    <3>. HIDE DEF s
    <3>3. Class(s) # Undef /\ Class(s)[2] = s
      <4>1. Class(s)[1] = "class" /\ Undef[1] = "undef" BY DEF Class, Undef
      <4>2. "class" # "undef" OBVIOUS
      <4>4. Class(s) # Undef BY ONLY <4>1, <4>2, Zenon
      <4>3. Class(s)[2] = s BY DEF Class
      <4>. QED BY <4>3, <4>4
    <3>4. ObjectValue = <<IF s \in Creatable /\ ~set.ignore_json_create THEN "created" ELSE "object",
                          s, FromPairs(Pairs)>>
      BY <2>1, <3>1, <3>3 DEF ObjectValue
    <3>. QED BY <3>2, <3>4
  <2>. QED BY <2>2, <2>3
<1>. QED BY <1>4, <1>5, <1>6

-----------------------------------------------------------------------------
(* The invariant.                                                            *)

\* The key that may have an announced text for a value.
Pending == IF member /\ ~set.omit_null /\ ~(set.create /\ key = CreateId) THEN {key} ELSE {}

Reference(r, op) == /\ DOMAIN r = {"frames", "docs"} /\ Sequence(r.docs)
                    /\ Frames(op, r.frames)
CloserOf(o) == IF o.create THEN "create" ELSE PlainOr(o.hash_class)
Types ==
    /\ open \in Seq({"array", "object"}) /\ member \in BOOLEAN
    /\ key \in Keys /\ buf \in Texts \cup {""}
    /\ Sequence(vstack) /\ Sequence(cstack) /\ kstack \in Seq(Keys)
    /\ set \in Settings /\ closer = CloserOf(set)
    /\ block \in BOOLEAN /\ phase \in {"idle", "parsing", "returned", "raised"}
    /\ Sequence(yields) /\ stale \in BOOLEAN /\ values \in 0..MaxValues
    /\ Reference(ref, open)
InPlace(vs, ks, cs) ==
    \A i \in DOMAIN cs : cs[i].vi \in 0..Len(vs) - 1 /\ cs[i].ki \in -1..Len(ks)
Places == InPlace(vstack, kstack, cstack)
Fits(n, cap) == cap \in Nat /\ cap >= 2 /\ n \in Nat /\ n <= cap
RoomFor(cap, vs, ks, cs) ==
    DOMAIN cap = {"v", "c", "k"} /\ Fits(Len(vs), cap.v) /\ Fits(Len(ks), cap.k) /\ Fits(Len(cs), cap.c)
Room == RoomFor(caps, vstack, kstack, cstack)
InStep == Parsing => Stacks(vstack, kstack, cstack, open) /\ (member => InObject)
Agreed ==
    Parsing /\ ~stale => /\ AllHeld(set, vstack, kstack, cstack, open, ref.frames, Pending)
                         /\ DocsHeld(yields, vstack, cstack, ref.docs)
Answered ==
    ~stale /\ open = <<>> /\ phase = "returned" =>
        LET rest == SubSeq(ref.docs, Len(yields) + 1, Len(ref.docs))
        IN result = CASE rest = <<>>    -> Nil
                      [] Len(rest) = 1 -> rest[1]
                      [] OTHER         -> <<"array", FALSE, rest>>
UsualInv == Types /\ Places /\ Room /\ InStep /\ Agreed /\ Answered

-----------------------------------------------------------------------------
(* Room, places and the reference.                                           *)

LEMMA FitsMore ==
    ASSUME NEW n, NEW cap, Fits(n, cap)
    PROVE  /\ Fits(n + 1, IF cap <= n THEN 2 * cap ELSE cap)
           /\ Fits(n + 2, IF cap <= n + 1 THEN 2 * cap ELSE cap)
           /\ Fits(n + 1, IF cap <= n + 1 THEN 2 * cap ELSE cap)
BY DEF Fits

LEMMA FitsLess ==
    ASSUME NEW n, NEW cap, Fits(n, cap), NEW m \in Nat, m <= n
    PROVE  Fits(m, cap)
BY DEF Fits

LEMMA StacksInPlace ==
    ASSUME NEW vs, NEW ks, NEW cs, NEW op, Stacks(vs, ks, cs, op)
    PROVE  InPlace(vs, ks, cs)
<1>1. /\ Len(vs) \in Nat /\ Len(ks) \in Nat /\ Len(op) \in Nat /\ Len(cs) = Len(op) /\ DOMAIN cs = 1..Len(op)
  BY StackFacts, Lengths
<1>2. SUFFICES ASSUME NEW i \in 1..Len(op) PROVE cs[i].vi \in 0..Len(vs) - 1 /\ cs[i].ki \in -1..Len(ks)
  BY <1>1 DEF InPlace
<1>3. /\ op[i] \in {"array", "object"} /\ cs[i].vi \in Nat /\ cs[i].vi + 1 <= Len(vs)
      /\ op[i] = "array" => cs[i].ki = -1
      /\ op[i] = "object" => /\ cs[i].ki \in Nat /\ KeyEnd(Len(vs), cs, i) <= Len(ks)
                             /\ Count(Len(vs), cs, i) \in Nat
  BY LevelFacts
<1>4. op[i] = "object" => cs[i].ki <= Len(ks)
  <2>1. Count(Len(vs), cs, i) \in Nat => Half(Count(Len(vs), cs, i)) \in Nat BY Halves
  <2>. QED BY <1>1, <1>3, <2>1 DEF KeyEnd
<1>. QED BY <1>1, <1>3, <1>4

LEMMA NoItems ==
    ASSUME NEW s, Sequence(s)
    PROVE  Len(s) = 0 <=> s = <<>>
<1>1. PICK S : s \in Seq(S) BY DEF Sequence
<1>. QED BY <1>1, EmptySeq

\* What a value, or a container that closes, does to the reference.
HasGrown(r, op, k, v, s) ==
    /\ DOMAIN s = {"frames", "docs"}
    /\ op = <<>> => s.frames = r.frames /\ s.docs = Append(r.docs, v)
    /\ op # <<>> =>
          /\ s.docs = r.docs
          /\ s.frames = [r.frames EXCEPT ![Len(op)] =
                            Grew(r.frames[Len(op)], IF op[Len(op)] = "array" THEN v ELSE <<k, v>>)]

LEMMA GrownHas ==
    ASSUME NEW r, NEW op, Reference(r, op), Sequence(op), NEW k, NEW v
    PROVE  HasGrown(r, op, k, v, Grown(r, k, v))
<1>. DEFINE l == Len(op)
            fr == r.frames
            s == Grown(r, k, v)
<1>1. Sequence(fr) /\ Len(fr) = l /\ (fr = <<>> <=> op = <<>>) BY NoItems DEF Reference, Frames
<1>2. CASE op = <<>>
  <2>1. s = [r EXCEPT !.docs = Append(r.docs, v)] BY <1>1, <1>2 DEF Grown
  <2>. HIDE DEF s
  <2>2. DOMAIN s = {"frames", "docs"} /\ s.frames = r.frames /\ s.docs = Append(r.docs, v)
    BY <2>1 DEF Reference
  <2>. QED BY <1>2, <2>2 DEF HasGrown, s
<1>3. CASE op # <<>>
  <2>. DEFINE m == IF op[l] = "array" THEN v ELSE <<k, v>>
              n == Len(fr)
  <2>1. s = [r EXCEPT !.frames[n].items = Append(@, IF fr[n].kind = "array" THEN v ELSE <<k, v>>)]
    BY <1>1, <1>3 DEF Grown
  <2>2. fr[l].kind = op[l]
    <3>1. l \in 1..l BY <1>1, <1>3, Lengths, NoItems
    <3>. QED BY <3>1 DEF Reference, Frames, Frame
  <2>3. s = [r EXCEPT !.frames = [fr EXCEPT ![l] = [fr[l] EXCEPT !.items = Append(fr[l].items, m)]]]
    BY <1>1, <2>1, <2>2
  <2>. HIDE DEF s, m
  <2>4. DOMAIN s = {"frames", "docs"} /\ s.docs = r.docs
        /\ s.frames = [fr EXCEPT ![l] = [fr[l] EXCEPT !.items = Append(fr[l].items, m)]]
    BY <2>3 DEF Reference
  <2>5. s.frames = [fr EXCEPT ![l] = Grew(fr[l], m)] BY <2>4 DEF Grew
  <2>. QED BY <1>3, <2>4, <2>5 DEF HasGrown, s, m
<1>. QED BY <1>2, <1>3

LEMMA GrownReference ==
    ASSUME NEW r, NEW op, Reference(r, op), Sequence(op), NEW k, NEW v, NEW s, HasGrown(r, op, k, v, s)
    PROVE  Reference(s, op)
<1>. DEFINE l == Len(op)
            fr == r.frames
<1>1. Sequence(fr) /\ Len(fr) = l /\ Sequence(r.docs) /\ \A i \in 1..l : Frame(fr[i], op[i])
  BY DEF Reference, Frames
<1>2. CASE op = <<>>
  <2>1. s.frames = fr /\ s.docs = Append(r.docs, v) /\ DOMAIN s = {"frames", "docs"}
    BY <1>2 DEF HasGrown
  <2>2. Sequence(s.docs) BY <1>1, <2>1, Appended
  <2>. QED BY <2>1, <2>2 DEF Reference
<1>3. CASE op # <<>>
  <2>. DEFINE m == IF op[l] = "array" THEN v ELSE <<k, v>>
              g == Grew(fr[l], m)
  <2>1. s.frames = [fr EXCEPT ![l] = g] /\ s.docs = r.docs /\ DOMAIN s = {"frames", "docs"}
    BY <1>3 DEF HasGrown
  <2>2. l \in 1..l BY <1>3, Lengths, NoItems
  <2>. HIDE DEF m
  <2>3. Frame(g, op[l]) BY <1>1, <2>2, GrewFrame
  <2>. HIDE DEF g, l
  <2>4. Instead(fr, l, g, s.frames) BY <1>1, <2>1, <2>2 DEF Instead
  <2>5. /\ Sequence(s.frames) /\ Len(s.frames) = Len(fr)
        /\ \A i \in 1..Len(fr) : s.frames[i] = IF i = l THEN g ELSE fr[i]
    BY ONLY <2>4, Replacing
  <2>6. \A i \in 1..l : Frame(s.frames[i], op[i]) BY <1>1, <2>3, <2>5
  <2>. QED BY <1>1, <2>1, <2>5, <2>6 DEF Reference, Frames, l
<1>. QED BY <1>2, <1>3

LEMMA CloseHas ==
    ASSUME Reference(ref, open), Sequence(open), open # <<>>,
           NEW f, f = Last(ref.frames), NEW v, v = Tree(f.kind, f.items)
    PROVE  /\ f = ref.frames[Len(open)]
           /\ Taken(open, ref.frames, RefClose.frames, v)
           /\ RefClose.docs = IF Len(open) = 1 THEN Append(ref.docs, v) ELSE ref.docs
           /\ Reference(RefClose, Front(open))
<1>. DEFINE l == Len(open)
            fr == ref.frames
            op == Front(open)
            r == [ref EXCEPT !.frames = Front(fr)]
            s == RefClose
<1>1. l \in Nat /\ Sequence(op) /\ Len(op) = l - 1 /\ l > 0 /\ \A i \in 1..l - 1 : op[i] = open[i]
  BY FrontCut, Lengths
<1>2. Sequence(fr) /\ Len(fr) = l /\ Sequence(ref.docs) /\ DOMAIN ref = {"frames", "docs"}
      /\ \A i \in 1..l : Frame(fr[i], open[i])
  BY DEF Reference, Frames
<1>3. Sequence(Front(fr)) /\ Len(Front(fr)) = l - 1 /\ \A i \in 1..l - 1 : Front(fr)[i] = fr[i]
  <2>1. fr # <<>> BY <1>1, <1>2, Empty
  <2>. QED BY <1>2, <2>1, FrontCut
<1>4. f = fr[l] BY <1>2 DEF Last
<1>5. DOMAIN r = {"frames", "docs"} /\ r.frames = Front(fr) /\ r.docs = ref.docs BY <1>2
<1>6. s = Grown(r, f.name, v) BY DEF RefClose
<1>. HIDE DEF s, r, op, l
<1>7. Reference(r, op)
  <2>1. Frames(op, r.frames) BY <1>1, <1>2, <1>3, <1>5 DEF Frames
  <2>. QED BY <1>2, <1>5, <2>1 DEF Reference
<1>8. HasGrown(r, op, f.name, v, s) BY <1>1, <1>6, <1>7, GrownHas
<1>9. Reference(s, op) BY <1>1, <1>7, <1>8, GrownReference
<1>10. CASE l = 1
  <2>1. op = <<>> /\ r.frames = <<>> BY <1>1, <1>3, <1>5, <1>10, NoItems
  <2>2. s.frames = <<>> /\ s.docs = Append(ref.docs, v) BY <1>5, <1>8, <2>1 DEF HasGrown
  <2>3. Taken(open, fr, s.frames, v) BY <1>10, <2>2 DEF Taken, l
  <2>. QED BY <1>4, <1>9, <1>10, <2>2, <2>3 DEF s, l, op
<1>11. CASE l # 1
  <2>1. op # <<>> /\ Len(op) = l - 1 /\ l - 1 \in 1..l - 1 BY <1>1, <1>11, NoItems
  <2>2. op[l - 1] = open[l - 1] /\ Front(fr)[l - 1] = fr[l - 1] BY <1>1, <1>3, <2>1
  <2>3. s.docs = ref.docs
        /\ s.frames = [Front(fr) EXCEPT ![l - 1] =
                         Grew(fr[l - 1], IF open[l - 1] = "array" THEN v ELSE <<f.name, v>>)]
    BY <1>5, <1>8, <2>1, <2>2 DEF HasGrown
  <2>4. Taken(open, fr, s.frames, v) BY <1>4, <1>11, <2>3 DEF Taken, l
  <2>. QED BY <1>4, <1>9, <1>11, <2>3, <2>4 DEF s, l, op
<1>. QED BY <1>10, <1>11

LEMMA OpenHas ==
    ASSUME Reference(ref, open), Sequence(open), NEW kind,
           NEW f, f = [kind |-> kind, name |-> key, items |-> <<>>]
    PROVE  /\ RefOpen(kind).frames = Append(ref.frames, f) /\ RefOpen(kind).docs = ref.docs
           /\ Reference(RefOpen(kind), Append(open, kind))
           /\ Frame(f, kind) /\ f.items = <<>> /\ f.name = key
<1>. DEFINE l == Len(open)
            fr == ref.frames
            op == Append(open, kind)
            s == RefOpen(kind)
            gr == Append(fr, f)
<1>1. s = [ref EXCEPT !.frames = gr] BY DEF RefOpen
<1>. HIDE DEF s
<1>2. DOMAIN s = {"frames", "docs"} /\ s.frames = gr /\ s.docs = ref.docs BY <1>1 DEF Reference
<1>3. Frame(f, kind) /\ f.items = <<>> /\ f.name = key BY Empty DEF Frame
<1>4. l \in Nat /\ Len(op) = l + 1 /\ op[l + 1] = kind /\ \A i \in 1..l : op[i] = open[i]
  BY Appended, Lengths
<1>5. Sequence(fr) /\ Len(fr) = l /\ Sequence(ref.docs) /\ \A i \in 1..l : Frame(fr[i], open[i])
  BY DEF Reference, Frames
<1>6. Sequence(gr) /\ Len(gr) = l + 1 /\ gr[l + 1] = f /\ \A i \in 1..l : gr[i] = fr[i]
  BY <1>5, Appended
<1>. HIDE DEF op, gr, l
<1>7. ASSUME NEW i \in 1..l + 1 PROVE Frame(gr[i], op[i])
  <2>1. CASE i \in 1..l BY <1>4, <1>5, <1>6, <2>1
  <2>2. CASE i = l + 1 BY <1>3, <1>4, <1>6, <2>2
  <2>. QED BY <1>4, <2>1, <2>2
<1>8. Frames(op, gr) BY <1>4, <1>6, <1>7 DEF Frames
<1>9. Reference(s, op) BY <1>2, <1>5, <1>8 DEF Reference
<1>. QED BY <1>2, <1>3, <1>9 DEF s, op, gr

-----------------------------------------------------------------------------
(* The invariant while the parser is parsing.                                *)

LEMMA Facts ==
    ASSUME UsualInv, Parsing
    PROVE  /\ Stacks(vstack, kstack, cstack, open) /\ (member => InObject)
           /\ Sequence(vstack) /\ Sequence(kstack) /\ Sequence(cstack) /\ Sequence(open)
           /\ Sequence(yields) /\ Sequence(ref.docs) /\ Frames(open, ref.frames)
           /\ Len(cstack) = Len(open) /\ Len(open) \in Nat /\ Len(vstack) \in Nat /\ Len(kstack) \in Nat
           /\ (open = <<>> <=> Len(open) = 0)
           /\ (InObject <=> open # <<>> /\ open[Len(open)] = "object")
           /\ open # <<>> => Len(open) \in 1..Len(open) /\ open[Len(open)] \in {"array", "object"}
           /\ ~stale => /\ Faithful(set, vstack, kstack, cstack, open, ref.frames, Pending)
                        /\ DocsHeld(yields, vstack, cstack, ref.docs)
<1>1. Stacks(vstack, kstack, cstack, open) /\ (member => InObject) BY DEF UsualInv, InStep
<1>2. /\ Sequence(vstack) /\ Sequence(kstack) /\ Sequence(cstack) /\ Sequence(open)
      /\ Len(cstack) = Len(open) /\ Len(open) \in Nat /\ Len(vstack) \in Nat /\ Len(kstack) \in Nat
  BY <1>1, StackFacts
<1>3. Sequence(yields) /\ Sequence(ref.docs) /\ Frames(open, ref.frames) BY DEF UsualInv, Types, Reference
<1>4. open = <<>> <=> Len(open) = 0 BY <1>2, NoItems
<1>5. InObject <=> open # <<>> /\ open[Len(open)] = "object" BY DEF InObject, Last
<1>6. open # <<>> => Len(open) \in 1..Len(open) /\ open[Len(open)] \in {"array", "object"}
  <2>1. open # <<>> => Len(open) \in 1..Len(open) BY <1>2, <1>4
  <2>. QED BY <1>1, <2>1, LevelFacts
<1>7. ~stale => /\ Faithful(set, vstack, kstack, cstack, open, ref.frames, Pending)
                /\ DocsHeld(yields, vstack, cstack, ref.docs)
  BY <1>1, <1>3 DEF UsualInv, Agreed, Faithful
<1>. QED BY <1>1, <1>2, <1>3, <1>4, <1>5, <1>6, <1>7

LEMMA Assembled ==
    ASSUME Types', phase' = "parsing", Stacks(vstack', kstack', cstack', open'), member' => InObject',
           RoomFor(caps', vstack', kstack', cstack'),
           ~stale' => /\ Faithful(set', vstack', kstack', cstack', open', ref.frames', Pending')
                      /\ DocsHeld(yields', vstack', cstack', ref.docs')
    PROVE  UsualInv'
<1>1. InPlace(vstack', kstack', cstack') BY StacksInPlace
<1>2. Places' BY <1>1 DEF Places
<1>3. Room' BY DEF Room
<1>4. InStep' BY DEF InStep
<1>5. Agreed' BY DEF Agreed, Faithful
<1>6. Answered' BY DEF Answered
<1>. QED BY <1>2, <1>3, <1>4, <1>5, <1>6 DEF UsualInv

-----------------------------------------------------------------------------
(* A value that is added, to the stacks and to the reference.                *)

MemberAdded(vs, ks, k, v, ws, ls) == ws = vs \o <<Undef, v>> /\ ls = Append(ks, k)
ValueAdded(vs, v, ws) == ws = Append(vs, v)

LEMMA MemberAdds ==
    ASSUME NEW vs, NEW ks, NEW cs, NEW op, Stacks(vs, ks, cs, op), op # <<>>, op[Len(op)] = "object",
           NEW k, NEW v, NEW ws, NEW ls, MemberAdded(vs, ks, k, v, ws, ls)
    PROVE  /\ Stacks(ws, ls, cs, op) /\ Sequence(ws) /\ Len(ws) = Len(vs) + 2 /\ Len(ls) = Len(ks) + 1
           /\ v = Undef => Pushed(vs, ks, cs, op, ws, ls)
           /\ ls[KeyEnd(Len(ws), cs, Len(op))] = k
           /\ \A p \in 1..Len(vs) : ws[p] = vs[p]
<1>. DEFINE xs == vs \o <<Undef, v>>
            ms == Append(ks, k)
<1>1. /\ Stacks(xs, ms, cs, op) /\ Len(xs) = Len(vs) + 2 /\ xs[Len(xs)] = v
      /\ \A p \in 1..Len(vs) : xs[p] = vs[p]
      /\ Len(ms) = Len(ks) + 1 /\ ms[Len(ms)] = k /\ \A q \in 1..Len(ks) : ms[q] = ks[q]
      /\ Len(op) > 0 /\ Count(Len(xs), cs, Len(op)) >= 1
      /\ KeyEnd(Len(xs), cs, Len(op)) = Len(ms)
  BY MemberStacks, SMTT(30)
<1>2. ws = xs /\ ls = ms BY DEF MemberAdded
<1>. HIDE DEF xs, ms
<1>3. Sequence(xs) BY <1>1, StackFacts
<1>4. v = Undef => Pushed(vs, ks, cs, op, ws, ls) BY <1>1, <1>2 DEF Pushed
<1>. QED BY <1>1, <1>2, <1>3, <1>4

LEMMA ValueAdds ==
    ASSUME NEW vs, NEW ks, NEW cs, NEW op, Stacks(vs, ks, cs, op), op # <<>> => op[Len(op)] = "array",
           NEW v, NEW ws, ValueAdded(vs, v, ws)
    PROVE  /\ Stacks(ws, ks, cs, op) /\ Sequence(ws) /\ Len(ws) = Len(vs) + 1
           /\ v = Undef => Pushed(vs, ks, cs, op, ws, ks)
           /\ \A p \in 1..Len(vs) : ws[p] = vs[p]
<1>. DEFINE xs == Append(vs, v)
<1>1. /\ Stacks(xs, ks, cs, op) /\ Len(xs) = Len(vs) + 1 /\ xs[Len(xs)] = v
      /\ \A p \in 1..Len(vs) : xs[p] = vs[p]
      /\ Len(op) > 0 => Count(Len(xs), cs, Len(op)) >= 1
  BY ValueStacks
<1>2. ws = xs BY DEF ValueAdded
<1>. HIDE DEF xs
<1>3. Sequence(xs) BY <1>1, StackFacts
<1>4. v = Undef => Pushed(vs, ks, cs, op, ws, ks) BY <1>1, <1>2 DEF Pushed
<1>. QED BY <1>1, <1>2, <1>3, <1>4

\* The documents before the first container stay where they are.
LEMMA DocsApartSame ==
    ASSUME NEW vs, NEW ks, NEW cs, NEW op, Stacks(vs, ks, cs, op), op # <<>>,
           NEW ys, NEW docs, DocsHeld(ys, vs, cs, docs), NEW ws, \A p \in 1..Len(vs) : ws[p] = vs[p]
    PROVE  DocsHeld(ys, ws, cs, docs)
<1>1. 1 \in 1..Len(op) /\ Len(cs) = Len(op) /\ Len(cs) # 0 /\ Len(vs) \in Nat BY StackFacts
<1>2. cs[1].vi \in Nat /\ cs[1].vi + 1 <= Len(vs) BY <1>1, LevelFacts
<1>3. cs[1].vi = Bottom(vs, cs) BY <1>1 DEF Bottom
<1>4. \A p \in 1..cs[1].vi : ws[p] = vs[p] BY <1>1, <1>2
<1>. QED BY <1>1, <1>3, <1>4, DocsSame

\* A member that is kept, under the key that was waited for if any was.
KeptMember(o, S, k, v) == S \subseteq {k} /\ ~IsNaming(o, <<k, v>>) /\ ~IsOmitted(o, <<k, v>>)

LEMMA MemberHeld ==
    ASSUME NEW o, NEW vs, NEW ks, NEW cs, NEW op, NEW r, NEW S, Faithful(o, vs, ks, cs, op, r.frames, S),
           op # <<>>, op[Len(op)] = "object", NEW k, NEW v, NEW ws, NEW ls, MemberAdded(vs, ks, k, v, ws, ls),
           KeptMember(o, S, k, v), NEW s, HasGrown(r, op, k, v, s), NEW ys, DocsHeld(ys, vs, cs, r.docs)
    PROVE  Faithful(o, ws, ls, cs, op, s.frames, {}) /\ DocsHeld(ys, ws, cs, s.docs)
<1>1. s.docs = r.docs /\ s.frames = [r.frames EXCEPT ![Len(op)] = Grew(r.frames[Len(op)], <<k, v>>)]
  BY DEF HasGrown
<1>2. ws = vs \o <<Undef, v>> /\ ls = Append(ks, k) BY DEF MemberAdded
<1>3. Faithful(o, vs \o <<Undef, v>>, Append(ks, k), cs, op,
               [r.frames EXCEPT ![Len(op)] = Grew(r.frames[Len(op)], <<k, v>>)], {})
  BY ObjectGrows DEF KeptMember
<1>4. Stacks(vs, ks, cs, op) BY DEF Faithful
<1>5. \A p \in 1..Len(vs) : ws[p] = vs[p] BY <1>4, MemberAdds
<1>6. DocsHeld(ys, ws, cs, s.docs) BY <1>1, <1>4, <1>5, DocsApartSame
<1>. QED BY <1>1, <1>2, <1>3, <1>6

LEMMA ValueHeld ==
    ASSUME NEW o, NEW vs, NEW ks, NEW cs, NEW op, NEW r, NEW S, Faithful(o, vs, ks, cs, op, r.frames, S),
           op # <<>> => op[Len(op)] = "array", NEW k, NEW v, NEW ws, ValueAdded(vs, v, ws),
           NEW s, HasGrown(r, op, k, v, s), NEW ys, DocsHeld(ys, vs, cs, r.docs),
           Sequence(ys), Sequence(r.docs)
    PROVE  Faithful(o, ws, ks, cs, op, s.frames, {}) /\ DocsHeld(ys, ws, cs, s.docs)
<1>1. Stacks(vs, ks, cs, op) /\ Frames(op, r.frames) BY DEF Faithful
<1>2. Stacks(ws, ks, cs, op) /\ \A p \in 1..Len(vs) : ws[p] = vs[p] BY <1>1, ValueAdds
<1>5. ws = Append(vs, v) BY DEF ValueAdded
<1>3. CASE op # <<>>
  <2>1. s.docs = r.docs /\ s.frames = [r.frames EXCEPT ![Len(op)] = Grew(r.frames[Len(op)], v)]
    BY <1>3 DEF HasGrown
  <2>2. Faithful(o, Append(vs, v), ks, cs, op, [r.frames EXCEPT ![Len(op)] = Grew(r.frames[Len(op)], v)], {})
    BY <1>3, ArrayGrows
  <2>3. DocsHeld(ys, ws, cs, s.docs) BY <1>1, <1>2, <1>3, <2>1, DocsApartSame
  <2>. QED BY <1>5, <2>1, <2>2, <2>3
<1>4. CASE op = <<>>
  <2>1. s.docs = Append(r.docs, v) /\ s.frames = r.frames BY <1>4 DEF HasGrown
  <2>2. Len(cs) = 0 /\ Len(op) = 0 /\ Sequence(vs) BY <1>1, <1>4, StackFacts
  <2>3. DocsHeld(ys, ws, cs, s.docs) BY <1>5, <2>1, <2>2, DocsValue
  <2>4. 1..Len(op) = {} BY <2>2
  <2>5. AllHeld(o, ws, ks, cs, op, s.frames, {}) BY <2>4 DEF AllHeld
  <2>. QED BY <1>1, <1>2, <2>1, <2>3, <2>5 DEF Faithful
<1>. QED BY <1>3, <1>4

-----------------------------------------------------------------------------
(* Values.                                                                   *)

LEMMA MemberFits ==
    ASSUME NEW vs, NEW ks, NEW cs, NEW cap, RoomFor(cap, vs, ks, cs), NEW ws, NEW ls,
           Len(ws) = Len(vs) + 2, Len(ls) = Len(ks) + 1, NEW room,
           room = [cap EXCEPT !.v = IF @ <= Len(vs) + 1 THEN 2 * @ ELSE @,
                              !.k = IF @ <= Len(ks) THEN 2 * @ ELSE @]
    PROVE  RoomFor(room, ws, ls, cs)
<1>1. /\ DOMAIN cap = {"v", "c", "k"} /\ Fits(Len(vs), cap.v) /\ Fits(Len(ks), cap.k) /\ Fits(Len(cs), cap.c)
  BY DEF RoomFor
<1>2. /\ DOMAIN room = {"v", "c", "k"} /\ room.c = cap.c
      /\ room.v = IF cap.v <= Len(vs) + 1 THEN 2 * cap.v ELSE cap.v
      /\ room.k = IF cap.k <= Len(ks) THEN 2 * cap.k ELSE cap.k
  BY <1>1
<1>3. Fits(Len(vs) + 2, IF cap.v <= Len(vs) + 1 THEN 2 * cap.v ELSE cap.v) BY <1>1, FitsMore
<1>4. Fits(Len(ks) + 1, IF cap.k <= Len(ks) THEN 2 * cap.k ELSE cap.k) BY <1>1, FitsMore
<1>. QED BY <1>1, <1>2, <1>3, <1>4 DEF RoomFor

LEMMA ValueFits ==
    ASSUME NEW vs, NEW ks, NEW cs, NEW cap, RoomFor(cap, vs, ks, cs), NEW ws,
           Len(ws) = Len(vs) + 1, NEW room,
           room = [cap EXCEPT !.v = IF @ <= Len(vs) THEN 2 * @ ELSE @]
    PROVE  RoomFor(room, ws, ks, cs)
<1>1. /\ DOMAIN cap = {"v", "c", "k"} /\ Fits(Len(vs), cap.v) /\ Fits(Len(ks), cap.k) /\ Fits(Len(cs), cap.c)
  BY DEF RoomFor
<1>2. /\ DOMAIN room = {"v", "c", "k"} /\ room.c = cap.c /\ room.k = cap.k
      /\ room.v = IF cap.v <= Len(vs) THEN 2 * cap.v ELSE cap.v
  BY <1>1
<1>3. Fits(Len(vs) + 1, IF cap.v <= Len(vs) THEN 2 * cap.v ELSE cap.v) BY <1>1, FitsMore
<1>. QED BY <1>1, <1>2, <1>3 DEF RoomFor

\* A value for the stacks is a value for the reference.
LEMMA AddKeeps ==
    ASSUME UsualInv, CanAdd, NEW v, Add(v), Placed(v), buf' \in Texts \cup {""},
           InObject => ~IsNaming(set, <<key, v>>) /\ ~IsOmitted(set, <<key, v>>)
    PROVE  UsualInv'
<1>1. /\ Parsing /\ member' = FALSE /\ values' = values + 1 /\ values < MaxValues
      /\ open' = open /\ cstack' = cstack /\ key' = key /\ set' = set /\ closer' = closer
      /\ block' = block /\ phase' = phase /\ yields' = yields /\ result' = result /\ stale' = stale
      /\ ref' = Grown(ref, key, v)
  BY DEF CanAdd, Placed, options, call
<1>2. /\ Stacks(vstack, kstack, cstack, open)
      /\ Sequence(open) /\ Sequence(yields) /\ Sequence(ref.docs)
      /\ InObject <=> open # <<>> /\ open[Len(open)] = "object"
      /\ open # <<>> => open[Len(open)] \in {"array", "object"}
      /\ ~stale => /\ Faithful(set, vstack, kstack, cstack, open, ref.frames, Pending)
                   /\ DocsHeld(yields, vstack, cstack, ref.docs)
  BY <1>1, Facts
<1>3. Types /\ RoomFor(caps, vstack, kstack, cstack) BY DEF UsualInv, Room
<1>4. Reference(ref, open) BY <1>3 DEF Types
<1>5. HasGrown(ref, open, key, v, ref') BY <1>1, <1>2, <1>4, GrownHas
<1>6. Reference(ref', open) BY <1>2, <1>4, <1>5, GrownReference
<1>7. Pending' = {} BY <1>1 DEF Pending
<1>8. kstack \in Seq(Keys) /\ key \in Keys BY <1>3 DEF Types
<1>9. ASSUME Sequence(vstack'), kstack' \in Seq(Keys) PROVE Types'
  <2>1. values' \in 0..MaxValues
    <3>1. values \in 0..MaxValues BY <1>3 DEF Types
    <3>2. MaxValues \in Nat BY UsualAssumption
    <3>3. values' = values + 1 /\ values < MaxValues BY <1>1
    <3>. QED BY ONLY <3>1, <3>2, <3>3
  <2>. QED BY <1>1, <1>3, <1>6, <1>9, <2>1 DEF Types
<1>10. CASE InObject
  <2>1. kstack' = Append(kstack, key) /\ vstack' = vstack \o <<Undef, v>> /\ caps' = MemberRoom
    BY <1>10 DEF Add, PushMember
  <2>2. open # <<>> /\ open[Len(open)] = "object" BY <1>2, <1>10
  <2>3. MemberAdded(vstack, kstack, key, v, vstack', kstack') BY <2>1 DEF MemberAdded
  <2>4. /\ Stacks(vstack', kstack', cstack, open) /\ Sequence(vstack')
        /\ Len(vstack') = Len(vstack) + 2 /\ Len(kstack') = Len(kstack) + 1
    <3>1. Stacks(vstack, kstack, cstack, open) BY <1>2
    <3>. QED BY ONLY <2>2, <2>3, <3>1, MemberAdds
  <2>5. Types'
    <3>1. Append(kstack, key) \in Seq(Keys) BY ONLY <1>8
    <3>. QED BY <1>9, <2>1, <2>4, <3>1
  <2>6. RoomFor(caps', vstack', kstack', cstack) BY <1>3, <2>1, <2>4, MemberFits DEF MemberRoom
  <2>7. ASSUME ~stale
        PROVE  Faithful(set, vstack', kstack', cstack, open, ref'.frames, {}) /\ DocsHeld(yields, vstack', cstack, ref'.docs)
    <3>2. KeptMember(set, Pending, key, v) BY <1>10 DEF KeptMember, Pending
    <3>3. Faithful(set, vstack, kstack, cstack, open, ref.frames, Pending) /\ DocsHeld(yields, vstack, cstack, ref.docs)
      BY <1>2, <2>7
    <3>. QED BY ONLY <1>5, <2>2, <2>3, <3>2, <3>3, MemberHeld
  <2>. QED BY <1>1, <1>7, <2>4, <2>5, <2>6, <2>7, Assembled DEF Parsing
<1>11. CASE ~InObject
  <2>1. kstack' = kstack /\ vstack' = Append(vstack, v)
        /\ caps' = [caps EXCEPT !.v = IF @ <= Len(vstack) THEN 2 * @ ELSE @]
    BY <1>11 DEF Add, Push
  <2>2. open # <<>> => open[Len(open)] = "array" BY <1>2, <1>11
  <2>3. ValueAdded(vstack, v, vstack') BY <2>1 DEF ValueAdded
  <2>4. Stacks(vstack', kstack, cstack, open) /\ Sequence(vstack') /\ Len(vstack') = Len(vstack) + 1
    BY <1>2, <2>2, <2>3, ValueAdds
  <2>5. Types' BY <1>8, <1>9, <2>1, <2>4
  <2>6. RoomFor(caps', vstack', kstack, cstack) BY <1>3, <2>1, <2>4, ValueFits
  <2>7. ASSUME ~stale
        PROVE  Faithful(set, vstack', kstack, cstack, open, ref'.frames, {}) /\ DocsHeld(yields, vstack', cstack, ref'.docs)
    <3>1. Faithful(set, vstack, kstack, cstack, open, ref.frames, Pending) /\ DocsHeld(yields, vstack, cstack, ref.docs)
      BY <1>2, <2>7
    <3>. QED BY <1>2, <1>5, <2>2, <2>3, <3>1, ValueHeld
  <2>. QED BY <1>1, <1>7, <2>1, <2>4, <2>5, <2>6, <2>7, Assembled DEF Parsing
<1>. QED BY <1>10, <1>11

\* The reference alone grows: a null that is omitted, a member that names the class.
LEMMA RefKeeps ==
    ASSUME UsualInv, CanAdd, InObject, NEW v, Placed(v), buf' \in Texts \cup {""},
           kstack' = kstack, caps' = caps, Stacks(vstack', kstack, cstack, open), Len(vstack') = Len(vstack),
           ~stale => /\ Faithful(set, vstack', kstack, cstack, open, ref'.frames, {})
                     /\ DocsHeld(yields, vstack', cstack, ref'.docs)
    PROVE  UsualInv'
<1>1. /\ Parsing /\ member' = FALSE /\ values' = values + 1 /\ values < MaxValues
      /\ open' = open /\ cstack' = cstack /\ key' = key /\ set' = set /\ closer' = closer
      /\ block' = block /\ phase' = phase /\ yields' = yields /\ result' = result /\ stale' = stale
      /\ ref' = Grown(ref, key, v)
  BY DEF CanAdd, Placed, options, call
<1>2. Types /\ RoomFor(caps, vstack, kstack, cstack) BY DEF UsualInv, Room
<1>3. Reference(ref, open) /\ Sequence(open) BY <1>2 DEF Types, Sequence
<1>4. HasGrown(ref, open, key, v, ref') BY <1>1, <1>3, GrownHas
<1>5. Reference(ref', open) BY <1>3, <1>4, GrownReference
<1>6. Pending' = {} BY <1>1 DEF Pending
<1>7. values' \in 0..MaxValues
  <2>1. values \in 0..MaxValues BY <1>2 DEF Types
  <2>2. MaxValues \in Nat BY UsualAssumption
  <2>3. values' = values + 1 /\ values < MaxValues BY <1>1
  <2>. QED BY ONLY <2>1, <2>2, <2>3
<1>8. Sequence(vstack') BY StackFacts
<1>9. Types' BY <1>1, <1>2, <1>5, <1>7, <1>8 DEF Types
<1>10. RoomFor(caps', vstack', kstack', cstack) BY <1>2 DEF RoomFor
<1>. QED BY <1>1, <1>6, <1>9, <1>10, Assembled DEF Parsing

LEMMA Growing ==
    ASSUME UsualInv, CanAdd, NEW v, Placed(v)
    PROVE  HasGrown(ref, open, key, v, ref')
<1>1. ref' = Grown(ref, key, v) BY DEF Placed
<1>2. Reference(ref, open) /\ Sequence(open) BY DEF UsualInv, Types, Sequence
<1>. QED BY <1>1, <1>2, GrownHas

LEMMA ScalarKeeps ==
    ASSUME UsualInv, ReadScalar
    PROVE  UsualInv'
<1>1. CanAdd /\ Add(Num) /\ Placed(Num) /\ buf' = buf BY DEF ReadScalar
<1>2. buf' \in Texts \cup {""} BY <1>1 DEF UsualInv, Types
<1>3. ~IsNaming(set, <<key, Num>>) /\ ~IsOmitted(set, <<key, Num>>)
  <2>1. Num[1] = "num" /\ Nil[1] = "nil" BY DEF Num, Nil
  <2>2. <<key, Num>>[2] = Num OBVIOUS
  <2>3. "num" # "nil" /\ "num" # "str" OBVIOUS
  <2>. QED BY ONLY <2>1, <2>2, <2>3, Zenon DEF IsNaming, IsOmitted
<1>. QED BY <1>1, <1>2, <1>3, AddKeeps

LEMMA NullKeeps ==
    ASSUME UsualInv, ReadNull
    PROVE  UsualInv'
<1>1. CanAdd /\ AddNull /\ Placed(Nil) /\ buf' = buf BY DEF ReadNull
<1>2. buf' \in Texts \cup {""} BY <1>1 DEF UsualInv, Types
<1>. DEFINE m == <<key, Nil>>
<1>3. ~IsNaming(set, m) /\ (IsOmitted(set, m) <=> set.omit_null)
  <2>1. Nil[1] = "nil" BY DEF Nil
  <2>2. m[2] = Nil OBVIOUS
  <2>3. "nil" # "str" OBVIOUS
  <2>. HIDE DEF m
  <2>. QED BY ONLY <2>1, <2>2, <2>3, Zenon DEF IsNaming, IsOmitted
<1>4. CASE InObject /\ set.omit_null
  <2>1. vstack' = vstack /\ kstack' = kstack /\ caps' = caps BY <1>1, <1>4 DEF AddNull
  <2>2. /\ Stacks(vstack, kstack, cstack, open) /\ open # <<>> /\ open[Len(open)] = "object"
        /\ ~stale => /\ Faithful(set, vstack, kstack, cstack, open, ref.frames, Pending)
                     /\ DocsHeld(yields, vstack, cstack, ref.docs)
    BY <1>1, <1>4, Facts DEF CanAdd
  <2>3. HasGrown(ref, open, key, Nil, ref') BY <1>1, Growing
  <2>4. ref'.docs = ref.docs /\ ref'.frames = [ref.frames EXCEPT ![Len(open)] = Grew(ref.frames[Len(open)], m)]
    BY <2>2, <2>3 DEF HasGrown
  <2>5. Pending = {} BY <1>4 DEF Pending
  <2>6. ASSUME ~stale
        PROVE  Faithful(set, vstack, kstack, cstack, open, ref'.frames, {}) /\ DocsHeld(yields, vstack, cstack, ref'.docs)
    <3>. HIDE DEF m
    <3>1. Faithful(set, vstack, kstack, cstack, open, ref.frames, {}) BY <2>2, <2>5, <2>6
    <3>2. Faithful(set, vstack, kstack, cstack, open,
                   [ref.frames EXCEPT ![Len(open)] = Grew(ref.frames[Len(open)], m)], {})
      BY <1>3, <1>4, <2>2, <3>1, NullOmitted
    <3>. QED BY <2>2, <2>4, <2>6, <3>2
  <2>. QED BY <1>1, <1>2, <1>4, <2>1, <2>2, <2>6, RefKeeps
<1>5. CASE ~(InObject /\ set.omit_null)
  <2>1. Add(Nil) BY <1>1, <1>5 DEF AddNull
  <2>. QED BY <1>1, <1>2, <1>3, <1>5, <2>1, AddKeeps
<1>. QED BY <1>4, <1>5

LEMMA StringKeeps ==
    ASSUME UsualInv, NEW s \in Texts, ReadString(s)
    PROVE  UsualInv'
<1>1. CanAdd /\ buf' = s /\ AddStr(s) /\ Placed(Str(s)) BY DEF ReadString
<1>2. buf' \in Texts \cup {""} BY <1>1
<1>. DEFINE m == <<key, Str(s)>>
<1>3. m[1] = key /\ m[2] = Str(s) /\ m[2][1] = "str" /\ m[2][2] = s /\ m[2] # Nil
  <2>1. m[1] = key /\ m[2] = Str(s) OBVIOUS
  <2>2. Str(s)[1] = "str" /\ Str(s)[2] = s /\ Nil[1] = "nil" /\ "str" # "nil" BY DEF Str, Nil
  <2>. HIDE DEF m
  <2>. QED BY ONLY <2>1, <2>2, Zenon
<1>. HIDE DEF m
<1>4. ~IsOmitted(set, m) BY <1>3 DEF IsOmitted
<1>5. IsNaming(set, m) <=> set.create /\ key = CreateId /\ Resolves(s) BY <1>3 DEF IsNaming, Resolves
<1>6. CASE IsClassName /\ Resolves(s)
  <2>1. vstack' = [vstack EXCEPT ![Last(cstack).vi + 1] = Class(s)] /\ kstack' = kstack /\ caps' = caps
    BY <1>1, <1>6 DEF AddStr
  <2>2. InObject /\ set.create /\ key = CreateId BY <1>6 DEF IsClassName
  <2>3. /\ Stacks(vstack, kstack, cstack, open) /\ open # <<>> /\ open[Len(open)] = "object"
        /\ ~stale => /\ Faithful(set, vstack, kstack, cstack, open, ref.frames, Pending)
                     /\ DocsHeld(yields, vstack, cstack, ref.docs)
    BY <1>1, <2>2, Facts DEF CanAdd
  <2>. DEFINE at == cstack[Len(cstack)].vi + 1
              ws == [vstack EXCEPT ![at] = Class(s)]
  <2>4. /\ at \in 1..Len(vstack) /\ Stacks(ws, kstack, cstack, open) /\ Len(ws) = Len(vstack)
        /\ \A p \in 1..Len(vstack) : p # at => ws[p] = vstack[p]
    BY <2>3, SlotStacks
  <2>5. vstack' = ws BY <2>1 DEF Last
  <2>6. HasGrown(ref, open, key, Str(s), ref') BY <1>1, Growing
  <2>7. ref'.docs = ref.docs /\ ref'.frames = [ref.frames EXCEPT ![Len(open)] = Grew(ref.frames[Len(open)], m)]
    BY <2>3, <2>6 DEF HasGrown, m
  <2>8. ASSUME ~stale
        PROVE  Faithful(set, vstack', kstack, cstack, open, ref'.frames, {}) /\ DocsHeld(yields, vstack', cstack, ref'.docs)
    <3>1. Faithful(set, vstack, kstack, cstack, open, ref.frames, {}) /\ DocsHeld(yields, vstack, cstack, ref.docs)
      <4>1. Pending = {} BY <2>2 DEF Pending
      <4>. QED BY <2>3, <2>8, <4>1
    <3>2. IsNaming(set, m) BY <1>5, <1>6, <2>2
    <3>3. Faithful(set, [vstack EXCEPT ![cstack[Len(cstack)].vi + 1] = Class(m[2][2])], kstack, cstack, open,
                   [ref.frames EXCEPT ![Len(open)] = Grew(ref.frames[Len(open)], m)], {})
      BY <2>3, <3>1, <3>2, ClassNamed
    <3>4. Faithful(set, ws, kstack, cstack, open, ref'.frames, {}) BY <1>3, <2>7, <3>3
    <3>5. DocsHeld(yields, ws, cstack, ref.docs)
      <4>. HIDE DEF ws, at
      <4>1. Len(cstack) # 0 /\ cstack[1].vi = Bottom(vstack, cstack) /\ Len(cstack) \in Nat
        BY <2>3, StackFacts DEF Bottom
      <4>2. cstack[1].vi \in Nat /\ cstack[1].vi + 1 <= Len(vstack) /\ Len(vstack) \in Nat
        <5>1. 1 \in 1..Len(open) /\ Len(vstack) \in Nat BY <2>3, StackFacts
        <5>. QED BY <2>3, <5>1, LevelFacts
      <4>3. cstack[1].vi < at
        <5>1. at = cstack[Len(cstack)].vi + 1 BY DEF at
        <5>2. Rising(cstack) /\ Len(cstack) = Len(open) BY <2>3, StackFacts DEF Stacks
        <5>3. Len(open) \in 1..Len(open) BY <2>3, StackFacts
        <5>4. cstack[Len(cstack)].vi \in Nat BY <2>3, <5>2, <5>3, LevelFacts
        <5>5. Len(cstack) # 1 => cstack[1].vi < cstack[Len(cstack)].vi
          BY <4>1, <5>2 DEF Rising
        <5>. QED BY <4>2, <5>1, <5>4, <5>5
      <4>4. \A p \in 1..cstack[1].vi : ws[p] = vstack[p] BY <2>4, <4>2, <4>3
      <4>. QED BY <3>1, <4>1, <4>4, DocsSame
    <3>. QED BY <2>5, <2>7, <3>4, <3>5
  <2>9. Stacks(vstack', kstack, cstack, open) /\ Len(vstack') = Len(vstack) BY <2>4, <2>5
  <2>. QED BY ONLY UsualInv, <1>1, <1>2, <2>1, <2>2, <2>8, <2>9, RefKeeps
<1>7. CASE ~(IsClassName /\ Resolves(s))
  <2>1. Add(Str(s)) BY <1>1, <1>7 DEF AddStr
  <2>2. InObject => ~IsNaming(set, m) /\ ~IsOmitted(set, m) BY <1>4, <1>5, <1>7 DEF IsClassName
  <2>. QED BY <1>1, <1>2, <2>1, <2>2, AddKeeps DEF m
<1>. QED BY <1>6, <1>7

-----------------------------------------------------------------------------
(* Keys.                                                                     *)

LEMMA KeyKeeps ==
    ASSUME UsualInv, NEW k \in Keys, ReadKey(k)
    PROVE  UsualInv'
<1>1. /\ Parsing /\ InObject /\ ~member /\ key' = k /\ member' = TRUE
      /\ open' = open /\ buf' = buf /\ vstack' = vstack /\ cstack' = cstack /\ kstack' = kstack /\ caps' = caps
      /\ set' = set /\ closer' = closer /\ block' = block /\ phase' = phase /\ yields' = yields
      /\ result' = result /\ ref' = ref /\ stale' = stale /\ values' = values
  BY DEF ReadKey, stacks, options, call
<1>2. /\ Stacks(vstack, kstack, cstack, open)
      /\ ~stale => /\ Faithful(set, vstack, kstack, cstack, open, ref.frames, Pending)
                   /\ DocsHeld(yields, vstack, cstack, ref.docs)
  BY <1>1, Facts
<1>3. Types' BY <1>1 DEF UsualInv, Types
<1>4. ASSUME ~stale PROVE Faithful(set, vstack, kstack, cstack, open, ref.frames, Pending')
  <2>1. Pending = {} BY <1>1 DEF Pending
  <2>2. Faithful(set, vstack, kstack, cstack, open, ref.frames, {}) BY <1>2, <1>4, <2>1
  <2>. QED BY <2>2, KeyWaits
<1>5. RoomFor(caps, vstack, kstack, cstack) BY DEF UsualInv, Room
<1>6. InObject' BY <1>1 DEF InObject
<1>. QED BY <1>1, <1>2, <1>3, <1>4, <1>5, <1>6, Assembled DEF Parsing

LEMMA AnnounceKeeps ==
    ASSUME UsualInv, NEW k \in Keys, Announce(k)
    PROVE  UsualInv'
<1>1. /\ Parsing /\ InObject /\ ~member /\ key' = k /\ member' = TRUE /\ values < MaxValues
      /\ open' = open /\ buf' = buf /\ cstack' = cstack
      /\ set' = set /\ closer' = closer /\ block' = block /\ phase' = phase /\ yields' = yields
      /\ result' = result /\ ref' = ref /\ values' = values + 1
      /\ stale' = (stale \/ set.omit_null \/ (set.create /\ k = CreateId))
  BY DEF Announce, options, call
<1>2. /\ Stacks(vstack, kstack, cstack, open) /\ open # <<>> /\ open[Len(open)] = "object"
      /\ ~stale => /\ Faithful(set, vstack, kstack, cstack, open, ref.frames, Pending)
                   /\ DocsHeld(yields, vstack, cstack, ref.docs)
  BY <1>1, Facts
<1>3. Types /\ RoomFor(caps, vstack, kstack, cstack) BY DEF UsualInv, Room
<1>4. ASSUME Sequence(vstack'), kstack' \in Seq(Keys) PROVE Types'
  <2>1. values' \in 0..MaxValues
    <3>1. values \in 0..MaxValues BY <1>3 DEF Types
    <3>2. MaxValues \in Nat BY UsualAssumption
    <3>3. values' = values + 1 /\ values < MaxValues BY <1>1
    <3>. QED BY ONLY <3>1, <3>2, <3>3
  <2>2. set \in Options BY <1>3, UsualAssumption DEF Types
  <2>3. stale' \in BOOLEAN
    <3>1. set.omit_null \in BOOLEAN /\ set.create \in BOOLEAN BY <2>2 DEF Options
    <3>2. stale \in BOOLEAN BY <1>3 DEF Types
    <3>. QED BY <1>1, <3>1, <3>2
  <2>. QED BY <1>1, <1>3, <1>4, <2>1, <2>3 DEF Types
<1>5. InObject' BY <1>1 DEF InObject
<1>6. kstack \in Seq(Keys) BY <1>3 DEF Types
<1>7. CASE set.create /\ k = CreateId /\ Resolves(buf)
  <2>. DEFINE at == cstack[Len(cstack)].vi + 1
              ws == [vstack EXCEPT ![at] = Class(buf)]
  <2>1. vstack' = ws /\ kstack' = kstack /\ caps' = caps BY <1>7 DEF Announce, col, Last
  <2>2. Stacks(ws, kstack, cstack, open) /\ Len(ws) = Len(vstack) BY <1>2, SlotStacks
  <2>. HIDE DEF ws
  <2>3. Sequence(ws) BY <2>2, StackFacts
  <2>4. Types' BY <1>4, <1>6, <2>1, <2>3
  <2>5. stale' BY <1>1, <1>7
  <2>6. RoomFor(caps', vstack', kstack', cstack') BY <1>1, <1>3, <2>1, <2>2 DEF RoomFor
  <2>. QED BY <1>1, <1>5, <2>1, <2>2, <2>4, <2>5, <2>6, Assembled DEF Parsing
<1>8. CASE ~(set.create /\ k = CreateId /\ Resolves(buf))
  <2>1. kstack' = Append(kstack, k) /\ vstack' = vstack \o <<Undef, Str(buf)>> /\ caps' = MemberRoom
    BY <1>8 DEF Announce
  <2>2. MemberAdded(vstack, kstack, k, Str(buf), vstack', kstack') BY <2>1 DEF MemberAdded
  <2>3. /\ Stacks(vstack', kstack', cstack, open) /\ Sequence(vstack')
        /\ Len(vstack') = Len(vstack) + 2 /\ Len(kstack') = Len(kstack) + 1
        /\ \A p \in 1..Len(vstack) : vstack'[p] = vstack[p]
    BY <1>2, <2>2, MemberAdds
  <2>4. Types'
    <3>1. Append(kstack, k) \in Seq(Keys) BY <1>6
    <3>. QED BY <1>4, <2>1, <2>3, <3>1
  <2>5. RoomFor(caps', vstack', kstack', cstack) BY <1>3, <2>1, <2>3, MemberFits DEF MemberRoom
  <2>6. ASSUME ~stale'
        PROVE  Faithful(set, vstack', kstack', cstack, open, ref.frames, Pending') /\ DocsHeld(yields, vstack', cstack, ref.docs)
    <3>1. ~stale /\ ~set.omit_null /\ ~(set.create /\ k = CreateId) BY <1>1, <2>6
    <3>2. Pending = {} /\ Pending' = {k} BY <1>1, <3>1 DEF Pending
    <3>3. Faithful(set, vstack, kstack, cstack, open, ref.frames, {}) /\ DocsHeld(yields, vstack, cstack, ref.docs)
      BY <1>2, <3>1, <3>2
    <3>4. Faithful(set, vstack \o <<Undef, Str(buf)>>, Append(kstack, k), cstack, open, ref.frames, {k})
      BY <1>2, <3>3, KeyAnnounced
    <3>5. DocsHeld(yields, vstack', cstack, ref.docs) BY <1>2, <2>3, <3>3, DocsApartSame
    <3>. QED BY <2>1, <3>2, <3>4, <3>5
  <2>. QED BY <1>1, <1>5, <2>3, <2>4, <2>5, <2>6, Assembled DEF Parsing
<1>. QED BY <1>7, <1>8

-----------------------------------------------------------------------------
(* Containers.                                                               *)

LEMMA ContainerFits ==
    ASSUME NEW vs, NEW ks, NEW cs, NEW cap, RoomFor(cap, vs, ks, cs), NEW ds, Len(ds) = Len(cs) + 1,
           NEW room, room = [cap EXCEPT !.c = IF @ <= Len(cs) + 1 THEN 2 * @ ELSE @]
    PROVE  RoomFor(room, vs, ks, ds)
<1>1. /\ DOMAIN cap = {"v", "c", "k"} /\ Fits(Len(vs), cap.v) /\ Fits(Len(ks), cap.k) /\ Fits(Len(cs), cap.c)
  BY DEF RoomFor
<1>2. /\ DOMAIN room = {"v", "c", "k"} /\ room.v = cap.v /\ room.k = cap.k
      /\ room.c = IF cap.c <= Len(cs) + 1 THEN 2 * cap.c ELSE cap.c
  BY <1>1
<1>3. Fits(Len(cs) + 1, IF cap.c <= Len(cs) + 1 THEN 2 * cap.c ELSE cap.c) BY <1>1, FitsMore
<1>. QED BY <1>1, <1>2, <1>3 DEF RoomFor

LEMMA OpenKeeps ==
    ASSUME UsualInv, NEW kind \in {"array", "object"}, Open(kind)
    PROVE  UsualInv'
<1>1. /\ Parsing /\ OpenCol(kind) /\ open' = Append(open, kind) /\ ref' = RefOpen(kind)
      /\ values' = values + 1 /\ values < MaxValues /\ member' = FALSE /\ key' = key /\ buf' = buf
      /\ set' = set /\ closer' = closer /\ block' = block /\ phase' = phase /\ yields' = yields
      /\ result' = result /\ stale' = stale
  BY DEF Open, CanAdd, options, call
<1>2. /\ Stacks(vstack, kstack, cstack, open) /\ Sequence(open) /\ Sequence(cstack)
      /\ InObject <=> open # <<>> /\ open[Len(open)] = "object"
      /\ open # <<>> => open[Len(open)] \in {"array", "object"}
      /\ ~stale => /\ Faithful(set, vstack, kstack, cstack, open, ref.frames, Pending)
                   /\ DocsHeld(yields, vstack, cstack, ref.docs)
  BY <1>1, Facts
<1>3. Types /\ RoomFor(caps, vstack, kstack, cstack) BY DEF UsualInv, Room
<1>4. kstack \in Seq(Keys) /\ key \in Keys /\ Reference(ref, open) BY <1>3 DEF Types
<1>. DEFINE f == [kind |-> kind, name |-> key, items |-> <<>>]
            room == IF InObject THEN MemberRoom
                    ELSE [caps EXCEPT !.v = IF @ <= Len(vstack) THEN 2 * @ ELSE @]
<1>5. /\ ref'.frames = Append(ref.frames, f) /\ ref'.docs = ref.docs
      /\ Reference(ref', open')
      /\ Frame(f, kind) /\ f.items = <<>> /\ f.name = key
  BY <1>1, <1>2, <1>4, OpenHas
<1>. HIDE DEF f
<1>6. /\ kstack' = IF InObject THEN Append(kstack, key) ELSE kstack
      /\ vstack' = IF InObject THEN vstack \o <<Undef, Undef>> ELSE Append(vstack, Undef)
      /\ cstack' = Append(cstack, [vi |-> ValueIndex, ki |-> IF kind = "array" THEN -1 ELSE Len(kstack')])
      /\ caps' = [room EXCEPT !.c = IF @ <= Len(cstack) + 1 THEN 2 * @ ELSE @]
  BY <1>1 DEF OpenCol
<1>. HIDE DEF room
<1>7. /\ Stacks(vstack', kstack', cstack, open) /\ Sequence(vstack') /\ kstack' \in Seq(Keys)
      /\ Pushed(vstack, kstack, cstack, open, vstack', kstack')
      /\ Len(vstack') = ValueIndex + 1
      /\ \A p \in 1..Len(vstack) : vstack'[p] = vstack[p]
      /\ RoomFor(room, vstack', kstack', cstack)
      /\ Waiting(vstack', kstack', cstack, open, Pending, f)
  <2>1. CASE InObject
    <3>1. open # <<>> /\ open[Len(open)] = "object" BY <1>2, <2>1
    <3>2. MemberAdded(vstack, kstack, key, Undef, vstack', kstack') BY <1>6, <2>1 DEF MemberAdded
    <3>3. /\ Stacks(vstack', kstack', cstack, open) /\ Sequence(vstack')
          /\ Len(vstack') = Len(vstack) + 2 /\ Len(kstack') = Len(kstack) + 1
          /\ \A p \in 1..Len(vstack) : vstack'[p] = vstack[p]
          /\ Pushed(vstack, kstack, cstack, open, vstack', kstack')
          /\ kstack'[KeyEnd(Len(vstack'), cstack, Len(open))] = key
      BY <1>2, <3>1, <3>2, MemberAdds
    <3>4. Append(kstack, key) \in Seq(Keys) BY <1>4
    <3>5. RoomFor(room, vstack', kstack', cstack) BY <1>3, <2>1, <3>3, MemberFits DEF room, MemberRoom
    <3>6. Len(vstack') = ValueIndex + 1
      <4>1. ValueIndex = Len(vstack) + 1 BY <2>1 DEF ValueIndex
      <4>2. Len(vstack) \in Nat BY <1>2, StackFacts
      <4>. QED BY <3>3, <4>1, <4>2
    <3>7. Waiting(vstack', kstack', cstack, open, Pending, f) BY <1>5, <3>3 DEF Waiting, Pending
    <3>. QED BY <1>6, <2>1, <3>3, <3>4, <3>5, <3>6, <3>7
  <2>2. CASE ~InObject
    <3>1. open # <<>> => open[Len(open)] = "array" BY <1>2, <2>2
    <3>2. ValueAdded(vstack, Undef, vstack') /\ kstack' = kstack BY <1>6, <2>2 DEF ValueAdded
    <3>3. /\ Stacks(vstack', kstack, cstack, open) /\ Sequence(vstack')
          /\ Len(vstack') = Len(vstack) + 1
          /\ \A p \in 1..Len(vstack) : vstack'[p] = vstack[p]
          /\ Pushed(vstack, kstack, cstack, open, vstack', kstack)
      BY <1>2, <3>1, <3>2, ValueAdds
    <3>4. RoomFor(room, vstack', kstack, cstack) BY <1>3, <2>2, <3>3, ValueFits DEF room
    <3>5. Len(vstack') = ValueIndex + 1
      <4>1. ValueIndex = Len(vstack) + 0 BY <2>2 DEF ValueIndex
      <4>2. Len(vstack) \in Nat BY <1>2, StackFacts
      <4>. QED BY <3>3, <4>1, <4>2
    <3>6. Waiting(vstack', kstack', cstack, open, Pending, f) BY <3>1 DEF Waiting
    <3>. QED BY <1>4, <3>2, <3>3, <3>4, <3>5, <3>6
  <2>. QED BY <2>1, <2>2
<1>8. ValueIndex \in Nat /\ Len(vstack') \in Nat
  <2>1. Len(vstack) \in Nat BY <1>2, StackFacts
  <2>2. ValueIndex \in Nat BY <2>1 DEF ValueIndex
  <2>. QED BY <1>7, <2>2
<1>9. cstack' = Append(cstack, Entry(vstack', kstack', kind))
  <2>1. ValueIndex = Len(vstack') - 1 BY <1>7, <1>8
  <2>. QED BY <1>6, <2>1 DEF Entry
<1>10. Stacks(vstack', kstack', cstack', open')
  <2>1. Len(vstack') > 0 BY <1>7, <1>8
  <2>2. Len(open) > 0 => Count(Len(vstack'), cstack, Len(open)) >= 1 BY <1>7 DEF Pushed
  <2>3. Stacks(vstack', kstack', Append(cstack, Entry(vstack', kstack', kind)), Append(open, kind))
    BY <1>7, <2>1, <2>2, OpenStacks
  <2>. QED BY <1>1, <1>9, <2>3
<1>11. Types'
  <2>1. values' \in 0..MaxValues
    <3>1. values \in 0..MaxValues BY <1>3 DEF Types
    <3>2. MaxValues \in Nat BY UsualAssumption
    <3>3. values' = values + 1 /\ values < MaxValues BY <1>1
    <3>. QED BY ONLY <3>1, <3>2, <3>3
  <2>2. open' \in Seq({"array", "object"})
    <3>1. open \in Seq({"array", "object"}) BY <1>3 DEF Types
    <3>. QED BY <1>1, <3>1
  <2>3. Sequence(cstack') BY <1>10, StackFacts
  <2>. QED BY <1>1, <1>3, <1>5, <1>7, <2>1, <2>2, <2>3 DEF Types
<1>12. RoomFor(caps', vstack', kstack', cstack')
  <2>1. Len(cstack') = Len(cstack) + 1 BY <1>2, <1>9, Appended
  <2>. QED BY <1>6, <1>7, <2>1, ContainerFits
<1>13. ASSUME ~stale
       PROVE  Faithful(set, vstack', kstack', cstack', open', ref'.frames, {}) /\ DocsHeld(yields, vstack', cstack', ref'.docs)
  <2>1. Faithful(set, vstack, kstack, cstack, open, ref.frames, Pending) /\ DocsHeld(yields, vstack, cstack, ref.docs)
    BY <1>2, <1>13
  <2>2. Faithful(set, vstack', kstack', Append(cstack, Entry(vstack', kstack', kind)), Append(open, kind),
                 Append(ref.frames, f), {})
    BY <1>5, <1>7, <2>1, Opened
  <2>3. DocsHeld(yields, vstack', cstack', ref.docs)
    <3>. DEFINE c == Entry(vstack', kstack', kind)
    <3>1. /\ Len(cstack') = Len(cstack) + 1 /\ Len(cstack) \in Nat /\ cstack'[Len(cstack) + 1] = c
          /\ \A i \in 1..Len(cstack) : cstack'[i] = cstack[i]
      BY <1>2, <1>9, Appended, Lengths
    <3>2. c.vi = Len(vstack') - 1 BY DEF Entry
    <3>. HIDE DEF c
    <3>3. CASE open = <<>>
      <4>1. Len(cstack) = 0 /\ Len(vstack) \in Nat BY <1>2, <3>3, StackFacts
      <4>2. Len(vstack') = Len(vstack) + 1 BY <1>7, <3>3 DEF Pushed
      <4>3. cstack'[1].vi = Bottom(vstack, cstack) BY <3>1, <3>2, <4>1, <4>2 DEF Bottom
      <4>4. \A p \in 1..cstack'[1].vi : vstack'[p] = vstack[p] BY <1>7, <4>1, <4>3 DEF Bottom
      <4>5. Len(cstack') # 0 BY <3>1
      <4>. QED BY <2>1, <4>3, <4>4, <4>5, DocsSame
    <3>4. CASE open # <<>>
      <4>1. 1 \in 1..Len(open) /\ Len(cstack) = Len(open) /\ Len(vstack) \in Nat BY <1>2, <3>4, StackFacts
      <4>2. cstack[1].vi \in Nat /\ cstack[1].vi + 1 <= Len(vstack) BY <1>2, <4>1, LevelFacts
      <4>3. cstack'[1] = cstack[1] BY <3>1, <4>1
      <4>4. cstack'[1].vi = Bottom(vstack, cstack) BY <4>1, <4>3 DEF Bottom
      <4>5. \A p \in 1..cstack'[1].vi : vstack'[p] = vstack[p] BY <1>7, <4>1, <4>2, <4>3
      <4>6. Len(cstack') # 0 BY <3>1
      <4>. QED BY <2>1, <4>4, <4>5, <4>6, DocsSame
    <3>. QED BY <3>3, <3>4
  <2>. QED BY <1>1, <1>5, <1>9, <2>2, <2>3
<1>14. Pending' = {} BY <1>1 DEF Pending
<1>. QED BY <1>1, <1>10, <1>11, <1>12, <1>13, <1>14, Assembled DEF Parsing

LEMMA BareStacks ==
    ASSUME NEW ks, Sequence(ks)
    PROVE  Stacks(<<>>, ks, <<>>, <<>>)
<1>1. Len(<<>>) = 0 /\ Sequence(<<>>) /\ Len(ks) \in Nat BY Empty, Lengths
<1>2. 1..Len(<<>>) = {} BY <1>1
<1>3. KeysInOrder(0, <<>>, Len(ks), <<>>) BY <1>2 DEF KeysInOrder
<1>4. Shape(0, <<>>, Len(ks), <<>>) BY <1>1, <1>2, <1>3 DEF Shape
<1>5. Rising(<<>>) BY <1>2 DEF Rising
<1>. QED BY <1>1, <1>4, <1>5 DEF Stacks

\* A tree is neither the name of a class nor a null.
LEMMA TreePlain ==
    ASSUME NEW kind, NEW items
    PROVE  Plain(set, Tree(kind, items))
<1>. DEFINE v == Tree(kind, items)
<1>1. v[1] \in {"array", "hash", "created", "object"}
  <2>1. CASE kind = "array" BY <2>1 DEF Tree, Array
  <2>2. CASE kind # "array"
    <3>. DEFINE members == HashOf(items, Kept(items))
                class == items[Max(Naming(items))][2][2]
    <3>1. CASE Naming(items) = {}
      <4>1. v = <<"hash", set.hash_class, members>> BY <2>2, <3>1 DEF Tree
      <4>. HIDE DEF members, v
      <4>. QED BY <4>1
    <3>2. CASE Naming(items) # {}
      <4>1. v = <<IF class \in Creatable /\ ~set.ignore_json_create THEN "created" ELSE "object", class, members>>
        BY <2>2, <3>2 DEF Tree
      <4>. HIDE DEF members, class, v
      <4>. QED BY <4>1
    <3>. QED BY <3>1, <3>2
  <2>. QED BY <2>1, <2>2
<1>. HIDE DEF v
<1>2. v[1] # "str" /\ v # Nil
  <2>1. v[1] # "str" /\ v[1] # "nil" BY <1>1
  <2>2. Nil[1] = "nil" BY DEF Nil
  <2>. QED BY ONLY <2>1, <2>2, Zenon
<1>3. ASSUME NEW k PROVE ~IsNaming(set, <<k, v>>) /\ ~IsOmitted(set, <<k, v>>)
  <2>1. <<k, v>>[2] = v OBVIOUS
  <2>. QED BY ONLY <1>2, <2>1, Zenon DEF IsNaming, IsOmitted
<1>. QED BY <1>3 DEF Plain, v

\* The value a container becomes.
ClosedValue(kind) == IF kind = "array" THEN Array(Slots) ELSE ObjectValue

LEMMA ClosedTree ==
    ASSUME UsualInv, Parsing, open # <<>>, NEW f, f = ref.frames[Len(open)],
           Faithful(set, vstack, kstack, cstack, open, ref.frames, {})
    PROVE  ClosedValue(open[Len(open)]) = Tree(f.kind, f.items)
<1>. DEFINE l == Len(open)
            n == Count(Len(vstack), cstack, l)
<1>1. /\ l \in Nat /\ l \in 1..l /\ Len(cstack) = l /\ n \in Nat
      /\ Held(set, vstack, kstack, cstack[l], n, f, {})
      /\ Frame(f, open[l]) /\ open[l] \in {"array", "object"}
      /\ cstack[l].vi \in Nat /\ cstack[l].vi + 1 + n = Len(vstack)
      /\ open[l] = "object" => /\ n = 2 * Half(n) /\ Half(n) \in Nat /\ cstack[l].ki \in Nat
                               /\ cstack[l].ki + Half(n) = Len(kstack)
  BY Innermost
<1>2. col = cstack[l] BY <1>1 DEF col, Last
<1>3. Sequence(vstack) /\ Sequence(kstack) BY StackFacts DEF Faithful
<1>4. set \in Options /\ closer = IF set.create THEN "create" ELSE PlainOr(set.hash_class)
  BY UsualAssumption DEF UsualInv, Types, CloserOf
<1>5. f.kind = open[l] /\ Sequence(f.items) BY <1>1 DEF Frame
<1>. HIDE DEF n
<1>6. CASE open[l] = "array"
  <2>1. Array(Slots) = Tree(f.kind, f.items) BY <1>1, <1>2, <1>3, <1>5, <1>6, ArrayTree
  <2>. QED BY <1>6, <2>1 DEF ClosedValue
<1>7. CASE open[l] = "object"
  <2>1. ObjectValue = Tree(f.kind, f.items) BY <1>1, <1>2, <1>3, <1>4, <1>5, <1>7, ObjectTree
  <2>. QED BY <1>7, <2>1 DEF ClosedValue
<1>. QED BY <1>1, <1>6, <1>7

\* What is on the stacks, and what the block has been given, once a container has closed.
Yielding(v) == Last(open) = "object" /\ Yields(v)

LEMMA ClosingSteps ==
    ASSUME UsualInv, NEW kind \in {"array", "object"}, Close(kind),
           NEW v, v = ClosedValue(kind)
    PROVE  /\ open # <<>> /\ open[Len(open)] = kind
           /\ Closing(vstack, kstack, cstack, open, Dropped(v), kstack', v)
           /\ cstack' = Front(cstack)
           /\ ~Yielding(v) => vstack' = Dropped(v) /\ yields' = yields
           /\ Yielding(v) => vstack' = <<>> /\ yields' = Append(yields, v) /\ Len(Dropped(v)) = 1
<1>1. open # <<>> /\ Last(open) = kind /\ open[Len(open)] = kind BY DEF Close, Last
<1>2. CASE kind = "array"
  <2>1. v = Array(Slots) BY <1>2 DEF ClosedValue
  <2>2. cstack' = Front(cstack) /\ vstack' = Dropped(v) /\ kstack' = kstack /\ yields' = yields
    BY <1>2, <2>1 DEF Close, CloseArrayCol
  <2>3. ~Yielding(v) BY <1>1, <1>2 DEF Yielding
  <2>4. Closing(vstack, kstack, cstack, open, Dropped(v), kstack', v)
    BY <1>1, <1>2, <2>2 DEF Closing, Dropped, col, Last
  <2>. QED BY <1>1, <2>2, <2>3, <2>4
<1>3. CASE kind = "object"
  <2>1. v = ObjectValue BY <1>3 DEF ClosedValue
  <2>2. /\ cstack' = Front(cstack) /\ kstack' = KeysLeft
        /\ vstack' = IF Yields(v) THEN <<>> ELSE Dropped(v)
        /\ yields' = IF Yields(v) THEN Append(yields, v) ELSE yields
    BY <1>3, <2>1 DEF Close, CloseObjectCol
  <2>3. Yielding(v) <=> Yields(v) BY <1>1, <1>3 DEF Yielding
  <2>4. Closing(vstack, kstack, cstack, open, Dropped(v), kstack', v)
    BY <1>1, <1>3, <2>2 DEF Closing, Dropped, KeysLeft, col, Last
  <2>5. Yields(v) => Len(Dropped(v)) = 1 BY DEF Yields
  <2>. QED BY <1>1, <2>2, <2>3, <2>4, <2>5
<1>. QED BY <1>2, <1>3

LEMMA CloseKeeps ==
    ASSUME UsualInv, NEW kind \in {"array", "object"}, Close(kind)
    PROVE  UsualInv'
<1>. DEFINE v == ClosedValue(kind)
            l == Len(open)
            ws == Dropped(v)
<1>1. /\ Parsing /\ open' = Front(open) /\ member' = FALSE /\ ref' = RefClose
      /\ stale' = (stale \/ member) /\ caps' = caps /\ key' = key /\ buf' = buf
      /\ set' = set /\ closer' = closer /\ block' = block /\ phase' = phase
      /\ result' = result /\ values' = values
  BY DEF Close, options
<1>2. /\ Stacks(vstack, kstack, cstack, open) /\ Sequence(open) /\ Sequence(cstack)
      /\ Sequence(yields) /\ Sequence(ref.docs) /\ Len(cstack) = l /\ l \in Nat
      /\ ~stale => /\ Faithful(set, vstack, kstack, cstack, open, ref.frames, Pending)
                   /\ DocsHeld(yields, vstack, cstack, ref.docs)
  BY <1>1, Facts
<1>3. Types /\ RoomFor(caps, vstack, kstack, cstack) BY DEF UsualInv, Room
<1>4. /\ open # <<>> /\ open[l] = kind
      /\ Closing(vstack, kstack, cstack, open, ws, kstack', v)
      /\ cstack' = Front(cstack)
      /\ ~Yielding(v) => vstack' = ws /\ yields' = yields
      /\ Yielding(v) => vstack' = <<>> /\ yields' = Append(yields, v) /\ Len(ws) = 1
  BY ClosingSteps
<1>. HIDE DEF v, ws
<1>5. /\ Stacks(ws, kstack', cstack', open') /\ Len(kstack') \in Nat
      /\ Len(ws) = cstack[l].vi + 1 /\ ws[cstack[l].vi + 1] = v
      /\ \A p \in 1..cstack[l].vi : ws[p] = vstack[p]
      /\ Len(kstack') <= Len(kstack)
      /\ kind = "object" => Len(kstack') = cstack[l].ki
      /\ kind = "array" => kstack' = kstack
  BY <1>1, <1>2, <1>4, CloseStacks
<1>6. /\ l \in 1..l /\ 1 \in 1..l /\ cstack[l].vi \in Nat /\ cstack[l].vi + 1 <= Len(vstack) /\ Len(vstack) \in Nat
      /\ cstack[1].vi \in Nat /\ (l # 1 => cstack[1].vi < cstack[l].vi)
  <2>1. l \in 1..l /\ 1 \in 1..l /\ Len(vstack) \in Nat BY <1>2, <1>4, StackFacts
  <2>2. cstack[l].vi \in Nat /\ cstack[l].vi + 1 <= Len(vstack) /\ cstack[1].vi \in Nat
    BY <1>2, <2>1, LevelFacts
  <2>3. l # 1 => cstack[1].vi < cstack[l].vi BY <1>2, <2>1 DEF Stacks, Rising
  <2>. QED BY <2>1, <2>2, <2>3
<1>7. /\ Len(cstack') = l - 1 /\ Len(open') = l - 1 /\ Sequence(cstack') /\ Sequence(open')
      /\ \A i \in 1..l - 1 : cstack'[i] = cstack[i]
  <2>1. cstack # <<>> BY <1>2, <1>6, Empty
  <2>. QED BY <1>1, <1>2, <1>4, <2>1, FrontCut
<1>8. Yielding(v) => l = 1
  <2>1. SUFFICES ASSUME Yielding(v), l # 1 PROVE FALSE OBVIOUS
  <2>2. Len(ws) = 1 /\ Len(ws) = cstack[l].vi + 1 BY <1>4, <1>5, <2>1
  <2>3. cstack[1].vi < cstack[l].vi /\ cstack[1].vi \in Nat /\ cstack[l].vi \in Nat BY <1>6, <2>1
  <2>. QED BY ONLY <2>2, <2>3
<1>9. l = 1 => cstack' = <<>> /\ open' = <<>>
  <2>1. l = 1 => Len(cstack') = 0 /\ Len(open') = 0 BY <1>7
  <2>. QED BY <1>7, <2>1, NoItems
<1>10. Stacks(vstack', kstack', cstack', open')
  <2>1. CASE Yielding(v)
    <3>1. Sequence(kstack') BY <1>5, StackFacts
    <3>. QED BY <1>4, <1>8, <1>9, <2>1, <3>1, BareStacks
  <2>2. CASE ~Yielding(v) BY <1>4, <1>5, <2>2
  <2>. QED BY <2>1, <2>2
<1>11. Reference(ref', open')
  <2>1. Reference(ref, open) BY <1>3 DEF Types
  <2>. QED BY <1>1, <1>2, <1>4, <2>1, CloseHas
<1>12. Types'
  <2>1. open' \in Seq({"array", "object"})
    <3>1. open \in Seq({"array", "object"}) BY <1>3 DEF Types
    <3>2. l - 1 \in 0..l BY <1>6
    <3>. QED BY <1>1, <3>1, <3>2 DEF Front
  <2>2. kstack' \in Seq(Keys)
    <3>1. kstack \in Seq(Keys) BY <1>3 DEF Types
    <3>2. CASE kind = "array" BY <1>5, <3>1, <3>2
    <3>3. CASE kind = "object"
      <4>1. cstack[l].ki \in 0..Len(kstack) BY <1>5, <3>1, <3>3
      <4>2. kstack' = SubSeq(kstack, 1, cstack[l].ki) BY <1>2, <1>4, <3>3 DEF Closing
      <4>. QED BY <3>1, <4>1, <4>2
    <3>. QED BY <3>2, <3>3
  <2>3. Sequence(vstack') /\ Sequence(cstack') BY <1>10, StackFacts
  <2>4. Sequence(yields')
    <3>1. CASE Yielding(v)
      <4>1. Sequence(Append(yields, v)) BY <1>2, Appended
      <4>. QED BY <1>4, <3>1, <4>1
    <3>2. CASE ~Yielding(v) BY <1>2, <1>4, <3>2
    <3>. QED BY <3>1, <3>2
  <2>5. stale' \in BOOLEAN BY <1>1, <1>3 DEF Types
  <2>. QED BY <1>1, <1>3, <1>11, <2>1, <2>2, <2>3, <2>4, <2>5 DEF Types
<1>13. RoomFor(caps', vstack', kstack', cstack')
  <2>1. /\ DOMAIN caps = {"v", "c", "k"} /\ Fits(Len(vstack), caps.v) /\ Fits(Len(kstack), caps.k)
        /\ Fits(Len(cstack), caps.c)
    BY <1>3 DEF RoomFor
  <2>2. Len(vstack') \in Nat /\ Len(vstack') <= Len(vstack)
    <3>1. CASE Yielding(v) BY <1>4, <1>6, <3>1, Empty
    <3>2. CASE ~Yielding(v) BY <1>4, <1>5, <1>6, <3>2
    <3>. QED BY <3>1, <3>2
  <2>3. Fits(Len(vstack'), caps.v) BY <2>1, <2>2, FitsLess
  <2>4. Fits(Len(kstack'), caps.k) BY <1>5, <2>1, FitsLess
  <2>5. Len(cstack') \in Nat /\ Len(cstack') <= Len(cstack) BY <1>2, <1>6, <1>7
  <2>6. Fits(Len(cstack'), caps.c) BY <2>1, <2>5, FitsLess
  <2>. QED BY <1>1, <2>1, <2>3, <2>4, <2>6 DEF RoomFor
<1>14. Pending' = {} BY <1>1 DEF Pending
<1>15. ASSUME ~stale'
       PROVE  Faithful(set, vstack', kstack', cstack', open', ref'.frames, {}) /\ DocsHeld(yields', vstack', cstack', ref'.docs)
  <2>1. ~stale /\ Pending = {} BY <1>1, <1>15 DEF Pending
  <2>2. Faithful(set, vstack, kstack, cstack, open, ref.frames, {}) /\ DocsHeld(yields, vstack, cstack, ref.docs)
    BY <1>2, <2>1
  <2>. DEFINE f == ref.frames[l]
  <2>3. v = Tree(f.kind, f.items) BY <1>1, <1>4, <2>2, ClosedTree DEF v
  <2>4. /\ Taken(open, ref.frames, ref'.frames, v)
        /\ ref'.docs = IF l = 1 THEN Append(ref.docs, v) ELSE ref.docs
    <3>1. Reference(ref, open) BY <1>3 DEF Types
    <3>2. Last(ref.frames) = f BY <3>1 DEF Last, Reference, Frames
    <3>. QED BY <1>1, <1>2, <1>4, <2>3, <3>1, <3>2, CloseHas
  <2>5. Plain(set, v) BY <2>3, TreePlain
  <2>6. Faithful(set, ws, kstack', cstack', open', ref'.frames, {})
    BY <1>1, <1>4, <2>2, <2>4, <2>5, Closed
  <2>7. DocsHeld(yields, ws, cstack', ref'.docs)
    <3>1. CASE l = 1
      <4>1. DocsHeld(yields, ws, <<>>, Append(ref.docs, v))
        BY <1>2, <1>5, <1>6, <2>2, <3>1, DocsClosed, ZenonT(60)
      <4>. QED BY <1>9, <2>4, <3>1, <4>1
    <3>2. CASE l # 1
      <4>1. 1 \in 1..l - 1 /\ Len(cstack') # 0 BY <1>6, <1>7, <3>2
      <4>2. cstack'[1] = cstack[1] BY <1>7, <4>1
      <4>3. cstack'[1].vi = Bottom(vstack, cstack) BY <1>2, <1>6, <4>2 DEF Bottom
      <4>4. \A p \in 1..cstack'[1].vi : ws[p] = vstack[p] BY <1>5, <1>6, <3>2, <4>2
      <4>. QED BY <2>2, <2>4, <3>2, <4>1, <4>3, <4>4, DocsSame
    <3>. QED BY <3>1, <3>2
  <2>8. CASE Yielding(v)
    <3>1. cstack' = <<>> /\ open' = <<>> /\ vstack' = <<>> /\ yields' = Append(yields, v) BY <1>4, <1>8, <1>9, <2>8
    <3>2. ws = <<v>>
      <4>1. Sequence(ws) BY <1>5, StackFacts
      <4>2. Len(ws) = 1 /\ ws[1] = v
        <5>1. Len(ws) = 1 BY <1>4, <2>8
        <5>2. cstack[l].vi = 0 BY <1>5, <1>6, <5>1
        <5>. QED BY <1>5, <5>1, <5>2
      <4>3. Sequence(<<v>>) /\ Len(<<v>>) = 1 /\ <<v>>[1] = v
        <5>1. <<v>> \in Seq({v}) OBVIOUS
        <5>. QED BY <5>1 DEF Sequence
      <4>4. \A i \in 1..Len(ws) : ws[i] = <<v>>[i]
        <5>1. ASSUME NEW i \in 1..Len(ws) PROVE ws[i] = <<v>>[i]
          <6>1. i = 1 BY <4>2, <5>1
          <6>. QED BY <4>2, <4>3, <6>1
        <5>. QED BY <5>1
      <4>. QED BY <4>1, <4>2, <4>3, <4>4, Same
    <3>3. DocsHeld(yields', vstack', cstack', ref'.docs) BY <1>2, <2>7, <3>1, <3>2, DocsYielded
    <3>4. Frames(open', ref'.frames) BY <1>11 DEF Reference
    <3>5. AllHeld(set, vstack', kstack', cstack', open', ref'.frames, {})
      <4>1. 1..Len(open') = {} BY <3>1, Empty
      <4>. QED BY <4>1 DEF AllHeld
    <3>. QED BY <1>10, <3>3, <3>4, <3>5 DEF Faithful
  <2>9. CASE ~Yielding(v) BY <1>4, <2>6, <2>7, <2>9
  <2>. QED BY <2>8, <2>9
<1>. QED BY <1>1, <1>10, <1>12, <1>13, <1>14, <1>15, Assembled DEF Parsing

-----------------------------------------------------------------------------
(* The steps between values, and outside of calls.                           *)

LEMMA BeginKeeps ==
    ASSUME UsualInv, NEW b \in BOOLEAN, Begin(b)
    PROVE  UsualInv'
<1>1. /\ vstack' = <<>> /\ cstack' = <<>> /\ kstack' = <<>> /\ open' = <<>> /\ member' = FALSE
      /\ block' = b /\ phase' = "parsing" /\ yields' = <<>>
      /\ ref' = [frames |-> <<>>, docs |-> <<>>] /\ stale' = FALSE /\ values' = 0
      /\ key' = key /\ buf' = buf /\ caps' = caps /\ set' = set /\ closer' = closer
  BY DEF Begin, Start, options
<1>2. Types /\ RoomFor(caps, vstack, kstack, cstack) BY DEF UsualInv, Room
<1>3. Sequence(<<>>) /\ Len(<<>>) = 0 BY Empty
<1>4. Stacks(vstack', kstack', cstack', open') BY <1>1, <1>3, BareStacks
<1>5. 1..Len(<<>>) = {} BY <1>3
<1>6. Frames(<<>>, <<>>) BY <1>3, <1>5 DEF Frames
<1>7. ref'.frames = <<>> /\ ref'.docs = <<>> /\ DOMAIN ref' = {"frames", "docs"} BY <1>1
<1>8. Reference(ref', open') BY <1>1, <1>3, <1>6, <1>7 DEF Reference
<1>9. Types'
  <2>1. 0 \in 0..MaxValues BY UsualAssumption
  <2>2. <<>> \in Seq({"array", "object"}) /\ <<>> \in Seq(Keys) OBVIOUS
  <2>. QED BY <1>1, <1>2, <1>3, <1>8, <2>1, <2>2 DEF Types
<1>10. RoomFor(caps', vstack', kstack', cstack')
  <2>1. /\ DOMAIN caps = {"v", "c", "k"} /\ Fits(Len(vstack), caps.v) /\ Fits(Len(kstack), caps.k)
        /\ Fits(Len(cstack), caps.c)
    BY <1>2 DEF RoomFor
  <2>2. Fits(0, caps.v) /\ Fits(0, caps.k) /\ Fits(0, caps.c) BY <2>1 DEF Fits
  <2>. QED BY <1>1, <1>3, <2>1, <2>2 DEF RoomFor
<1>11. AllHeld(set', <<>>, <<>>, <<>>, <<>>, <<>>, Pending') BY <1>5 DEF AllHeld
<1>12. DocsHeld(<<>>, <<>>, <<>>, <<>>) BY <1>3, <1>5 DEF DocsHeld, Bottom
<1>13. /\ Faithful(set', vstack', kstack', cstack', open', ref'.frames, Pending')
       /\ DocsHeld(yields', vstack', cstack', ref.docs')
  BY <1>1, <1>4, <1>6, <1>7, <1>11, <1>12 DEF Faithful
<1>. QED BY <1>1, <1>4, <1>9, <1>10, <1>13, Assembled

\* Nothing of what the call has read or built changes any more.
LEMMA LeftAlone ==
    ASSUME UsualInv, Types', Places', Room', phase' # "parsing", Answered'
    PROVE  UsualInv'
BY DEF UsualInv, InStep, Agreed, Parsing

LEMMA ReturnKeeps ==
    ASSUME UsualInv, Return
    PROVE  UsualInv'
<1>1. /\ Parsing /\ phase' = (IF vstack = <<>> /\ set.raise_on_empty THEN "raised" ELSE "returned")
      /\ result' = (IF phase' = "raised" THEN Nil ELSE Result)
      /\ open' = open /\ member' = member /\ key' = key /\ buf' = buf
      /\ vstack' = vstack /\ cstack' = cstack /\ kstack' = kstack /\ caps' = caps
      /\ set' = set /\ closer' = closer /\ block' = block /\ yields' = yields
      /\ ref' = ref /\ stale' = stale /\ values' = values
  BY DEF Return, stacks, options
<1>2. phase' \in {"raised", "returned"} BY <1>1
<1>3. Types' BY <1>1, <1>2 DEF UsualInv, Types
<1>4. Places' /\ Room' BY <1>1 DEF UsualInv, Places, Room
<1>5. Answered'
  <2>1. SUFFICES ASSUME ~stale, open = <<>>, phase' = "returned"
                 PROVE  LET rest == SubSeq(ref.docs, Len(yields) + 1, Len(ref.docs))
                        IN result' = CASE rest = <<>>    -> Nil
                                       [] Len(rest) = 1 -> rest[1]
                                       [] OTHER         -> <<"array", FALSE, rest>>
    BY <1>1 DEF Answered
  <2>2. /\ DocsHeld(yields, vstack, cstack, ref.docs) /\ Len(cstack) = 0
        /\ Sequence(yields) /\ Sequence(vstack) /\ Sequence(ref.docs)
    BY <1>1, <2>1, Facts, Empty
  <2>3. SubSeq(ref.docs, Len(yields) + 1, Len(ref.docs)) = vstack BY <2>2, DocsApart
  <2>4. result' = Result BY <1>1, <2>1
  <2>. QED BY <2>3, <2>4 DEF Result
<1>. QED BY <1>2, <1>3, <1>4, <1>5, LeftAlone

LEMMA RaiseKeeps ==
    ASSUME UsualInv, Raise
    PROVE  UsualInv'
<1>1. /\ Parsing /\ phase' = "raised" /\ key' \in (IF InObject /\ ~member THEN Keys ELSE {key})
      /\ buf' \in (IF CanAdd THEN Texts \cup {buf} ELSE {buf})
      /\ open' = open /\ member' = member
      /\ set' = set /\ closer' = closer /\ block' = block /\ yields' = yields
      /\ result' = result /\ ref' = ref /\ stale' = stale /\ values' = values
      /\ vstack' = vstack
  BY DEF Raise, options, stacks
<1>2. Types /\ Places /\ RoomFor(caps, vstack, kstack, cstack) BY DEF UsualInv, Room
<1>3. key' \in Keys /\ buf' \in Texts \cup {""} BY <1>1, <1>2 DEF Types
<1>4. Answered' BY <1>1 DEF Answered
<1>5. /\ Sequence(kstack) /\ Len(kstack) \in Nat /\ kstack \in Seq(Keys) /\ key \in Keys
      /\ Sequence(cstack) /\ Len(cstack) \in Nat /\ Len(vstack) \in Nat
  BY <1>2, Lengths DEF Types, Sequence
<1>6. /\ DOMAIN caps = {"v", "c", "k"} /\ Fits(Len(vstack), caps.v) /\ Fits(Len(kstack), caps.k)
      /\ Fits(Len(cstack), caps.c)
  BY <1>2 DEF RoomFor
<1>7. /\ kstack' \in Seq(Keys) /\ Sequence(cstack') /\ InPlace(vstack', kstack', cstack')
      /\ RoomFor(caps', vstack', kstack', cstack')
  <2>1. CASE UNCHANGED stacks
    <3>1. kstack' = kstack /\ cstack' = cstack /\ caps' = caps BY <2>1 DEF stacks
    <3>. QED BY <1>1, <1>2, <1>5, <3>1 DEF Places
  <2>2. CASE /\ kstack' \in {kstack, Append(kstack, key)}
             /\ caps' = [MemberRoom EXCEPT !.v = caps.v]
             /\ UNCHANGED <<vstack, cstack>>
    <3>1. Len(Append(kstack, key)) = Len(kstack) + 1 BY <1>5, Appended
    <3>2. kstack' \in Seq(Keys) BY <1>5, <2>2
    <3>3. Len(kstack') \in {Len(kstack), Len(kstack) + 1} BY <2>2, <3>1
    <3>4. DOMAIN caps' = {"v", "c", "k"} /\ caps'.v = caps.v /\ caps'.c = caps.c
          /\ caps'.k = IF caps.k <= Len(kstack) THEN 2 * caps.k ELSE caps.k
      BY <1>6, <2>2 DEF MemberRoom
    <3>5. Fits(Len(kstack) + 1, caps'.k) BY <1>6, <3>4, FitsMore
    <3>6. Fits(Len(kstack'), caps'.k) BY <1>5, <3>3, <3>5, FitsLess
    <3>7. RoomFor(caps', vstack', kstack', cstack') BY <1>1, <1>6, <2>2, <3>4, <3>6 DEF RoomFor
    <3>8. InPlace(vstack', kstack', cstack')
      <4>1. InPlace(vstack, kstack, cstack) BY <1>2 DEF Places
      <4>2. ASSUME NEW i \in DOMAIN cstack
            PROVE  cstack[i].vi \in 0..Len(vstack) - 1 /\ cstack[i].ki \in -1..Len(kstack')
        <5>1. cstack[i].vi \in 0..Len(vstack) - 1 /\ cstack[i].ki \in -1..Len(kstack) BY <4>1 DEF InPlace
        <5>. QED BY <1>5, <3>3, <5>1
      <4>. QED BY <1>1, <2>2, <4>2 DEF InPlace
    <3>. QED BY <1>5, <2>2, <3>2, <3>7, <3>8
  <2>3. CASE /\ open # <<>>
             /\ cstack' = Front(cstack)
             /\ UNCHANGED <<vstack, kstack, caps>>
    <3>1. Len(cstack) = Len(open) /\ Len(open) # 0 BY <1>1, <2>3, Facts
    <3>2. cstack # <<>> BY <3>1, Empty
    <3>3. Sequence(cstack') /\ Len(cstack') = Len(cstack) - 1 /\ \A i \in 1..Len(cstack) - 1 : cstack'[i] = cstack[i]
      BY <1>5, <2>3, <3>2, FrontCut
    <3>4. DOMAIN cstack' = 1..Len(cstack) - 1 /\ DOMAIN cstack = 1..Len(cstack) /\ Len(cstack') \in Nat
      BY <1>5, <3>3, Lengths
    <3>5. InPlace(vstack', kstack', cstack')
      <4>1. InPlace(vstack, kstack, cstack) BY <1>2 DEF Places
      <4>2. ASSUME NEW i \in 1..Len(cstack) - 1
            PROVE  cstack'[i].vi \in 0..Len(vstack) - 1 /\ cstack'[i].ki \in -1..Len(kstack)
        <5>1. i \in 1..Len(cstack) BY <1>5
        <5>. QED BY <3>3, <3>4, <4>1, <5>1 DEF InPlace
      <4>. QED BY <1>1, <2>3, <3>4, <4>2 DEF InPlace
    <3>6. Fits(Len(cstack'), caps.c) BY <1>5, <1>6, <3>3, <3>4, FitsLess
    <3>7. RoomFor(caps', vstack', kstack', cstack') BY <1>1, <1>6, <2>3, <3>6 DEF RoomFor
    <3>. QED BY <1>5, <2>3, <3>3, <3>5, <3>7
  <2>. QED BY <2>1, <2>2, <2>3 DEF Raise
<1>8. Types' BY <1>1, <1>2, <1>3, <1>7 DEF Types
<1>9. Places' /\ Room' BY <1>7 DEF Places, Room
<1>. QED BY <1>1, <1>4, <1>8, <1>9, LeftAlone

\* Between calls the options may change, and what the stacks are given.
LEMMA IdleKeeps ==
    ASSUME UsualInv, Idle,
           open' = open, member' = member, key' = key, buf' = buf, vstack' = vstack, cstack' = cstack,
           kstack' = kstack, block' = block, phase' = phase, yields' = yields, result' = result,
           ref' = ref, stale' = stale, values' = values,
           set' \in Settings, closer' = CloserOf(set'), RoomFor(caps', vstack, kstack, cstack)
    PROVE  UsualInv'
<1>1. Types' BY DEF UsualInv, Types
<1>2. Places' /\ Room' BY DEF UsualInv, Places, Room
<1>3. phase' # "parsing" BY DEF Idle
<1>4. Answered' BY DEF UsualInv, Answered
<1>. QED BY <1>1, <1>2, <1>3, <1>4, LeftAlone

LEMMA OptionKeeps ==
    ASSUME UsualInv, NEW s, Option(s), closer' = CloserOf(s)
    PROVE  UsualInv'
<1>1. /\ Idle /\ s \in Settings /\ set' = s
      /\ open' = open /\ member' = member /\ key' = key /\ buf' = buf /\ vstack' = vstack /\ cstack' = cstack
      /\ kstack' = kstack /\ caps' = caps /\ block' = block /\ phase' = phase /\ yields' = yields
      /\ result' = result /\ ref' = ref /\ stale' = stale /\ values' = values
  BY DEF Option, stacks, call
<1>2. RoomFor(caps', vstack, kstack, cstack) BY <1>1 DEF UsualInv, Room
<1>. QED BY <1>1, <1>2, IdleKeeps

LEMMA Chosen ==
    ASSUME UsualInv
    PROVE  /\ set \in Options /\ closer = CloserOf(set)
           /\ DOMAIN set = {"array_class", "hash_class", "create", "missing_class", "ignore_json_create",
                            "omit_null", "raise_on_empty"}
<1>1. set \in Settings /\ closer = CloserOf(set) BY DEF UsualInv, Types
<1>2. set \in Options BY <1>1, UsualAssumption
<1>. QED BY <1>1, <1>2 DEF Options

LEMMA OptionsKeep ==
    ASSUME UsualInv, NEW on \in BOOLEAN, SetCreateId(on) \/ SetHashClass(on) \/ SetOmitNull(on)
    PROVE  UsualInv'
<1>1. CASE SetCreateId(on)
  <2>. DEFINE s == [set EXCEPT !.create = on]
  <2>1. s.create = on /\ s.hash_class = set.hash_class BY Chosen
  <2>2. Option(s) /\ closer' = IF on THEN "create" ELSE PlainOr(set.hash_class) BY <1>1 DEF SetCreateId
  <2>. HIDE DEF s
  <2>3. closer' = CloserOf(s) BY <2>1, <2>2 DEF CloserOf
  <2>. QED BY <2>2, <2>3, OptionKeeps
<1>2. CASE SetHashClass(on)
  <2>. DEFINE s == [set EXCEPT !.hash_class = on]
  <2>1. s.create = set.create /\ s.hash_class = on BY Chosen
  <2>2. Option(s) /\ closer' = IF set.create THEN closer ELSE PlainOr(on) BY <1>2 DEF SetHashClass
  <2>3. closer = CloserOf(set) BY Chosen
  <2>. HIDE DEF s
  <2>4. closer' = CloserOf(s) BY <2>1, <2>2, <2>3 DEF CloserOf
  <2>. QED BY <2>2, <2>4, OptionKeeps
<1>3. CASE SetOmitNull(on)
  <2>. DEFINE s == [set EXCEPT !.omit_null = on]
  <2>1. s.create = set.create /\ s.hash_class = set.hash_class BY Chosen
  <2>2. Option(s) /\ closer' = closer BY <1>3 DEF SetOmitNull
  <2>3. closer = CloserOf(set) BY Chosen
  <2>. HIDE DEF s
  <2>4. closer' = CloserOf(s) BY <2>1, <2>2, <2>3 DEF CloserOf
  <2>. QED BY <2>2, <2>4, OptionKeeps
<1>. QED BY <1>1, <1>2, <1>3

LEMMA OtherKeeps ==
    ASSUME UsualInv, SetOther
    PROVE  UsualInv'
<1>1. PICK s : Option(s) /\ s.create = set.create /\ s.hash_class = set.hash_class
  <2>1. CASE \E on \in BOOLEAN : SetArrayClass(on) \/ SetIgnoreJsonCreate(on) \/ SetRaiseOnEmpty(on)
    <3>1. PICK on \in BOOLEAN : SetArrayClass(on) \/ SetIgnoreJsonCreate(on) \/ SetRaiseOnEmpty(on) BY <2>1
    <3>2. CASE SetArrayClass(on)
      <4>. DEFINE t == [set EXCEPT !.array_class = on]
      <4>1. t.create = set.create /\ t.hash_class = set.hash_class BY Chosen
      <4>2. Option(t) BY <3>2 DEF SetArrayClass
      <4>. HIDE DEF t
      <4>. QED BY <4>1, <4>2
    <3>3. CASE SetIgnoreJsonCreate(on)
      <4>. DEFINE t == [set EXCEPT !.ignore_json_create = on]
      <4>1. t.create = set.create /\ t.hash_class = set.hash_class BY Chosen
      <4>2. Option(t) BY <3>3 DEF SetIgnoreJsonCreate
      <4>. HIDE DEF t
      <4>. QED BY <4>1, <4>2
    <3>4. CASE SetRaiseOnEmpty(on)
      <4>. DEFINE t == [set EXCEPT !.raise_on_empty = on]
      <4>1. t.create = set.create /\ t.hash_class = set.hash_class BY Chosen
      <4>2. Option(t) BY <3>4 DEF SetRaiseOnEmpty
      <4>. HIDE DEF t
      <4>. QED BY <4>1, <4>2
    <3>. QED BY <3>1, <3>2, <3>3, <3>4
  <2>2. CASE \E mode \in {"auto", "ignore", "raise"} : SetMissingClass(mode)
    <3>1. PICK mode \in {"auto", "ignore", "raise"} : SetMissingClass(mode) BY <2>2
    <3>. DEFINE t == [set EXCEPT !.missing_class = mode]
    <3>2. t.create = set.create /\ t.hash_class = set.hash_class BY Chosen
    <3>3. Option(t) BY <3>1 DEF SetMissingClass
    <3>. HIDE DEF t
    <3>. QED BY <3>2, <3>3
  <2>. QED BY <2>1, <2>2 DEF SetOther
<1>2. closer' = closer /\ closer = CloserOf(set) BY Chosen DEF SetOther
<1>3. closer' = CloserOf(s) BY <1>1, <1>2 DEF CloserOf
<1>. QED BY <1>1, <1>3, OptionKeeps

LEMMA CapacityKeeps ==
    ASSUME UsualInv, SetCapacity
    PROVE  UsualInv'
<1>. DEFINE cap == caps.v + 1
<1>1. /\ Idle /\ caps' = [caps EXCEPT !.v = cap, !.k = IF @ < cap THEN cap ELSE @]
      /\ open' = open /\ member' = member /\ key' = key /\ buf' = buf /\ vstack' = vstack /\ cstack' = cstack
      /\ kstack' = kstack /\ block' = block /\ phase' = phase /\ yields' = yields /\ result' = result
      /\ ref' = ref /\ stale' = stale /\ values' = values /\ set' = set /\ closer' = closer
  BY DEF SetCapacity, options, call
<1>2. /\ DOMAIN caps = {"v", "c", "k"} /\ Fits(Len(vstack), caps.v) /\ Fits(Len(kstack), caps.k)
      /\ Fits(Len(cstack), caps.c)
  BY DEF UsualInv, Room, RoomFor
<1>3. DOMAIN caps' = {"v", "c", "k"} /\ caps'.v = caps.v + 1 /\ caps'.c = caps.c
      /\ caps'.k = IF caps.k < caps.v + 1 THEN caps.v + 1 ELSE caps.k
  BY <1>1, <1>2
<1>4. Fits(Len(vstack), caps'.v) /\ Fits(Len(kstack), caps'.k) BY <1>2, <1>3 DEF Fits
<1>5. RoomFor(caps', vstack, kstack, cstack) BY <1>2, <1>3, <1>4 DEF RoomFor
<1>6. set' \in Settings /\ closer' = CloserOf(set') BY <1>1 DEF UsualInv, Types
<1>. QED BY <1>1, <1>5, <1>6, IdleKeeps

-----------------------------------------------------------------------------
(* The invariant.                                                            *)

LEMMA FirstInv == Init => UsualInv
<1>1. SUFFICES ASSUME Init PROVE UsualInv OBVIOUS
<1>2. /\ open = <<>> /\ member = FALSE /\ key = CreateId /\ buf = ""
      /\ vstack = <<>> /\ cstack = <<>> /\ kstack = <<>>
      /\ caps = [v |-> InitCap, c |-> InitCols, k |-> InitCap]
      /\ set = Defaults /\ closer = "plain"
      /\ block = FALSE /\ phase = "idle" /\ yields = <<>>
      /\ ref = [frames |-> <<>>, docs |-> <<>>] /\ stale = FALSE /\ values = 0
  BY <1>1 DEF Init
<1>3. Sequence(<<>>) /\ Len(<<>>) = 0 BY Empty
<1>4. 1..Len(<<>>) = {} /\ DOMAIN <<>> = {} BY <1>3, Lengths
<1>5. Reference(ref, open)
  <2>1. Frames(<<>>, <<>>) BY <1>3, <1>4 DEF Frames
  <2>2. ref.frames = <<>> /\ ref.docs = <<>> /\ DOMAIN ref = {"frames", "docs"} BY <1>2
  <2>. QED BY <1>2, <1>3, <2>1, <2>2 DEF Reference
<1>6. Types
  <2>1. 0 \in 0..MaxValues /\ CreateId \in Keys /\ Defaults \in Settings BY UsualAssumption
  <2>2. <<>> \in Seq({"array", "object"}) /\ <<>> \in Seq(Keys) OBVIOUS
  <2>3. CloserOf(Defaults) = "plain" BY DEF CloserOf, Defaults, PlainOr
  <2>. QED BY <1>2, <1>3, <1>5, <2>1, <2>2, <2>3 DEF Types
<1>7. Places BY <1>2, <1>4 DEF Places, InPlace
<1>8. Room
  <2>1. DOMAIN caps = {"v", "c", "k"} /\ caps.v = InitCap /\ caps.k = InitCap /\ caps.c = InitCols BY <1>2
  <2>2. Fits(0, InitCap) /\ Fits(0, InitCols) BY UsualAssumption DEF Fits
  <2>. QED BY <1>2, <1>3, <2>1, <2>2 DEF Room, RoomFor
<1>9. InStep /\ Agreed /\ Answered BY <1>2 DEF InStep, Agreed, Answered, Parsing
<1>. QED BY <1>6, <1>7, <1>8, <1>9 DEF UsualInv

LEMMA NextInv == UsualInv /\ [Next]_vars => UsualInv'
<1>1. SUFFICES ASSUME UsualInv, [Next]_vars PROVE UsualInv' OBVIOUS
<1>2. ASSUME NEW b \in BOOLEAN, Begin(b) PROVE UsualInv' BY <1>1, <1>2, BeginKeeps
<1>3. ASSUME NEW k \in Keys, ReadKey(k) PROVE UsualInv' BY <1>1, <1>3, KeyKeeps
<1>4. ASSUME NEW k \in Keys, Announce(k) PROVE UsualInv' BY <1>1, <1>4, AnnounceKeeps
<1>5. CASE ReadNull BY <1>1, <1>5, NullKeeps
<1>6. CASE ReadScalar BY <1>1, <1>6, ScalarKeeps
<1>7. ASSUME NEW s \in Texts, ReadString(s) PROVE UsualInv' BY <1>1, <1>7, StringKeeps
<1>8. ASSUME NEW kind \in {"array", "object"}, Open(kind) PROVE UsualInv' BY <1>1, <1>8, OpenKeeps
<1>9. ASSUME NEW kind \in {"array", "object"}, Close(kind) PROVE UsualInv' BY <1>1, <1>9, CloseKeeps
<1>10. CASE Return BY <1>1, <1>10, ReturnKeeps
<1>11. CASE Raise BY <1>1, <1>11, RaiseKeeps
<1>12. ASSUME NEW on \in BOOLEAN, SetCreateId(on) \/ SetHashClass(on) \/ SetOmitNull(on) PROVE UsualInv'
  BY <1>1, <1>12, OptionsKeep
<1>13. CASE SetOther BY <1>1, <1>13, OtherKeeps
<1>14. CASE SetCapacity BY <1>1, <1>14, CapacityKeeps
<1>15. CASE UNCHANGED vars
  BY <1>1, <1>15 DEF vars, stacks, options, call, UsualInv, Types, Places, Room, InStep, Agreed, Answered,
                     Parsing, Pending, InObject
<1>. QED BY <1>1, <1>2, <1>3, <1>4, <1>5, <1>6, <1>7, <1>8, <1>9, <1>10, <1>11, <1>12, <1>13, <1>14, <1>15
         DEF Next

LEMMA InvBounds == UsualInv => InBounds
<1>1. SUFFICES ASSUME UsualInv PROVE InBounds OBVIOUS
<1>2. Types /\ InPlace(vstack, kstack, cstack) /\ RoomFor(caps, vstack, kstack, cstack)
  BY <1>1 DEF UsualInv, Places, Room
<1>3. closer \in {"plain", "class", "create"} BY <1>2 DEF Types, CloserOf, PlainOr
<1>4. TypeOK BY <1>2, <1>3 DEF TypeOK, Types, InPlace
<1>. QED BY <1>2, <1>4 DEF InBounds, RoomFor, Fits

LEMMA InvAligned == UsualInv => Aligned
<1>1. SUFFICES ASSUME UsualInv, Parsing
               PROVE  /\ Len(cstack) = Len(open)
                      /\ \A i \in DOMAIN open :
                            LET c == cstack[i] IN
                            IF open[i] = "array" THEN c.ki = -1
                            ELSE SlotsEnd(i) - (c.vi + 1) = 2 * (KeysEnd(i) - c.ki)
  BY DEF Aligned
<1>. DEFINE n == Len(vstack)
            m == Len(kstack)
            l == Len(open)
<1>2. /\ Stacks(vstack, kstack, cstack, open) /\ Len(cstack) = l /\ l \in Nat /\ n \in Nat /\ m \in Nat
      /\ DOMAIN open = 1..l
  BY <1>1, Facts, Lengths
<1>3. /\ \A i \in 1..l : Level(n, cstack, open, i)
      /\ KeysInOrder(n, cstack, m, open)
  BY <1>2 DEF Stacks, Shape
<1>4. \A i \in 1..l : /\ open[i] \in {"array", "object"}
                      /\ open[i] = "array" => cstack[i].ki = -1
                      /\ open[i] = "object" => cstack[i].ki \in Nat
  BY <1>3 DEF Level
<1>5. ASSUME NEW i \in 1..l, open[i] = "object"
      PROVE  SlotsEnd(i) - (cstack[i].vi + 1) = 2 * (KeysEnd(i) - cstack[i].ki)
  <2>. DEFINE inner == {j \in i + 1..Len(cstack) : cstack[j].ki # -1}
              h == Half(Count(n, cstack, i))
  <2>1. SlotsEnd(i) = End(n, cstack, i) BY DEF SlotsEnd, End
  <2>2. /\ cstack[i].vi \in Nat /\ cstack[i].ki \in Nat /\ Count(n, cstack, i) \in Nat
        /\ Count(n, cstack, i) = 2 * h
    BY <1>3, <1>5 DEF Level
  <2>3. h \in Nat BY <2>2, Halves
  <2>4. \A j \in i + 1..l : open[j] = "array" <=> j \notin inner BY <1>2, <1>4
  <2>5. KeysEnd(i) = KeyEnd(n, cstack, i)
    <3>1. CASE inner = {}
      <4>1. ArraysOnly(open, i + 1, l) BY <2>4, <3>1 DEF ArraysOnly
      <4>2. KeyEnd(n, cstack, i) = m BY <1>3, <1>5, <4>1 DEF KeysInOrder
      <4>. QED BY <3>1, <4>2 DEF KeysEnd
    <3>2. CASE inner # {}
      <4>. DEFINE j == Min(inner)
      <4>1. inner \subseteq Nat BY <1>2
      <4>2. j \in inner /\ \A y \in inner : j <= y BY <3>2, <4>1, Least
      <4>3. KeysEnd(i) = cstack[j].ki BY <3>2 DEF KeysEnd
      <4>. HIDE DEF j
      <4>4. j \in i + 1..l /\ open[j] = "object" BY <1>2, <1>4, <2>4, <4>2
      <4>5. ArraysOnly(open, i + 1, j - 1)
        <5>1. ASSUME NEW k \in i + 1..j - 1 PROVE open[k] = "array"
          <6>1. k \in i + 1..l /\ k < j BY <1>2, <4>4
          <6>2. k \notin inner BY <4>2, <6>1
          <6>. QED BY <2>4, <6>1, <6>2
        <5>. QED BY <5>1 DEF ArraysOnly
      <4>6. KeyEnd(n, cstack, i) = cstack[j].ki BY <1>3, <1>5, <4>4, <4>5 DEF KeysInOrder
      <4>. QED BY <4>3, <4>6
    <3>. QED BY <3>1, <3>2
  <2>6. KeysEnd(i) = cstack[i].ki + h BY <2>5 DEF KeyEnd
  <2>7. SlotsEnd(i) - (cstack[i].vi + 1) = Count(n, cstack, i) BY <2>1 DEF Count
  <2>. HIDE DEF h
  <2>. QED BY <2>2, <2>3, <2>6, <2>7
<1>. QED BY <1>2, <1>4, <1>5

LEMMA InvDocuments == UsualInv => BuildsDocuments
<1>1. SUFFICES ASSUME UsualInv PROVE BuildsDocuments OBVIOUS
<1>2. Aligned BY <1>1, InvAligned
<1>3. ASSUME ~stale, open = <<>>, Parsing PROVE yields \o vstack = ref.docs
  <2>1. /\ DocsHeld(yields, vstack, cstack, ref.docs) /\ Len(cstack) = 0
        /\ Sequence(yields) /\ Sequence(vstack) /\ Sequence(ref.docs)
    BY <1>1, <1>3, Facts, Empty
  <2>. QED BY <2>1, DocsApart
<1>4. Answered BY <1>1 DEF UsualInv
<1>. QED BY <1>2, <1>3, <1>4 DEF BuildsDocuments, Answered

-----------------------------------------------------------------------------
\* The invariant holds in every reachable state of the usual delegate.
THEOREM UsualInvariant == Spec => []UsualInv
BY FirstInv, NextInv, PTL DEF Spec

\* No function of usual.c writes past what it has allocated for values, containers
\* or keys, for every initial capacity of at least two and however capacity= is used.
THEOREM StaysInBounds == Spec => []InBounds
BY UsualInvariant, InvBounds, PTL

\* push_key, push2 and the functions that open and close containers keep the three
\* stacks in step, for documents of any depth and any options.
THEOREM StaysAligned == Spec => []Aligned
BY UsualInvariant, InvAligned, PTL

\* What a block is given and what a call returns are the documents that were read,
\* for every text, option, error and earlier call.
THEOREM DocumentsBuilt == Spec => []BuildsDocuments
BY UsualInvariant, InvDocuments, PTL

-----------------------------------------------------------------------------
(* The safe parser.  Its invariant adds to that of the usual delegate how    *)
(* what the checks work out of its stacks is tied to the document.           *)
(*                                                                           *)
(* What the checks count, for each open container: the items its slots are   *)
(* worth, and the items its frame has, with the one that is being read.      *)

Tally(n, cs, op, i) == IF op[i] = "array" THEN Count(n, cs, i) ELSE Half(Count(n, cs, i))
Asked(op, fr, i) == Len(fr[i].items) + (IF i < Len(op) THEN 1 ELSE 0)
InTally(tw, hk, limit, h, k) == /\ ~tw => h <= k
                                /\ hk => k <= h /\ (h = 0 \/ ~Over(limit, h))
Tallied(tw, hk, lim, vs, cs, op, fr) ==
    \A i \in 1..Len(op) : InTally(tw, hk, lim[op[i]], Tally(Len(vs), cs, op, i), Asked(op, fr, i))

\* A limit that is passed is passed by more.
LEMMA OverMore ==
    ASSUME NEW limit, limit \subseteq Int, NEW m \in Int, NEW n \in Int, m <= n, Over(limit, m)
    PROVE  Over(limit, n)
BY DEF Over

LEMMA TallyIs ==
    ASSUME NEW vs, NEW ks, NEW cs, NEW op, Stacks(vs, ks, cs, op), NEW i \in 1..Len(op)
    PROVE  Tally(Len(vs), cs, op, i) \in Nat
<1>1. Count(Len(vs), cs, i) \in Nat BY LevelFacts
<1>. QED BY <1>1, Halves DEF Tally

LEMMA AskedIs ==
    ASSUME NEW op, NEW fr, Frames(op, fr), Sequence(op), NEW i \in 1..Len(op)
    PROVE  Asked(op, fr, i) \in Nat /\ Len(fr[i].items) \in Nat /\ Sequence(fr[i].items)
<1>1. Sequence(fr[i].items) BY DEF Frames, Frame
<1>2. Len(fr[i].items) \in Nat BY <1>1, Lengths
<1>3. (IF i < Len(op) THEN 1 ELSE 0) \in Nat OBVIOUS
<1>4. Asked(op, fr, i) = Len(fr[i].items) + (IF i < Len(op) THEN 1 ELSE 0) BY DEF Asked
<1>5. \A a, b \in Nat : a + b \in Nat OBVIOUS
<1>6. Asked(op, fr, i) \in Nat BY ONLY <1>2, <1>3, <1>4, <1>5
<1>. QED BY <1>1, <1>2, <1>6

\* One more value, or one more key and value, in the innermost container.
Longer(vs, op, ws) == op # <<>> /\ Len(ws) = Len(vs) + (IF op[Len(op)] = "object" THEN 2 ELSE 1)

LEMMA TallyLonger ==
    ASSUME NEW vs, NEW ks, NEW cs, NEW op, Stacks(vs, ks, cs, op), NEW ws, Longer(vs, op, ws),
           NEW i \in 1..Len(op)
    PROVE  Tally(Len(ws), cs, op, i) = Tally(Len(vs), cs, op, i) + (IF i = Len(op) THEN 1 ELSE 0)
<1>. DEFINE l == Len(op)
            n == Len(vs)
            m == Len(ws)
<1>1. l \in Nat /\ Len(cs) = l /\ n \in Nat BY StackFacts
<1>2. m = n + (IF op[l] = "object" THEN 2 ELSE 1) BY DEF Longer
<1>3. op[i] \in {"array", "object"} /\ Count(n, cs, i) \in Nat /\ cs[i].vi \in Nat BY LevelFacts
<1>4. CASE i < l
  <2>1. Count(m, cs, i) = Count(n, cs, i) BY <1>1, <1>4 DEF Count, End
  <2>2. Tally(m, cs, op, i) = Tally(n, cs, op, i) BY <2>1 DEF Tally
  <2>3. Tally(n, cs, op, i) \in Nat BY TallyIs
  <2>. QED BY <1>1, <1>4, <2>2, <2>3
<1>5. CASE i = l
  <2>1. Count(n, cs, i) = n - (cs[i].vi + 1) /\ Count(m, cs, i) = m - (cs[i].vi + 1)
    BY <1>1, <1>5 DEF Count, End
  <2>2. CASE op[i] = "array"
    <3>1. m = n + 1 BY <1>2, <1>5, <2>2
    <3>2. Count(m, cs, i) = Count(n, cs, i) + 1 BY <1>1, <1>3, <2>1, <3>1
    <3>. QED BY <1>5, <2>2, <3>2 DEF Tally
  <2>3. CASE op[i] = "object"
    <3>1. m = n + 2 BY <1>2, <1>5, <2>3
    <3>2. Count(m, cs, i) = Count(n, cs, i) + 2 BY <1>1, <1>3, <2>1, <3>1
    <3>3. Half(Count(m, cs, i)) = Half(Count(n, cs, i)) + 1 BY <1>3, <3>2, Halves
    <3>. QED BY <1>5, <2>3, <3>3 DEF Tally
  <2>. QED BY <1>3, <2>2, <2>3
<1>. QED BY <1>1, <1>4, <1>5

\* The innermost frame has one more item.
Fuller(op, fr, gr) == /\ Len(gr) = Len(fr)
                      /\ \A i \in 1..Len(op) :
                            Len(gr[i].items) = Len(fr[i].items) + (IF i = Len(op) THEN 1 ELSE 0)

LEMMA AskedFuller ==
    ASSUME NEW op, NEW fr, NEW gr, Fuller(op, fr, gr), Frames(op, fr), Sequence(op), NEW i \in 1..Len(op)
    PROVE  Asked(op, gr, i) = Asked(op, fr, i) + (IF i = Len(op) THEN 1 ELSE 0)
<1>1. Len(fr[i].items) \in Nat BY AskedIs
<1>. DEFINE a == Len(fr[i].items)
            b == Len(gr[i].items)
            c == IF i = Len(op) THEN 1 ELSE 0
            d == IF i < Len(op) THEN 1 ELSE 0
<1>2. b = a + c BY DEF Fuller
<1>3. c \in Nat /\ d \in Nat OBVIOUS
<1>4. Asked(op, fr, i) = a + d /\ Asked(op, gr, i) = b + d BY DEF Asked
<1>. HIDE DEF a, b, c, d
<1>5. a + c + d = a + d + c BY <1>1, <1>3 DEF a
<1>6. Asked(op, gr, i) = Asked(op, fr, i) + c BY ONLY <1>2, <1>4, <1>5
<1>. QED BY <1>6 DEF c

\* A value that is added to the stacks and to the frames.
LEMMA TalliedMore ==
    ASSUME NEW vs, NEW ks, NEW cs, NEW op, Stacks(vs, ks, cs, op), NEW ws, Longer(vs, op, ws),
           NEW fr, Frames(op, fr), NEW gr, Fuller(op, fr, gr),
           NEW tw, NEW hk, NEW lim, Tallied(tw, hk, lim, vs, cs, op, fr),
           hk => ~Over(lim[op[Len(op)]], Tally(Len(vs), cs, op, Len(op)) + 1)
    PROVE  Tallied(tw, hk, lim, ws, cs, op, gr)
<1>1. SUFFICES ASSUME NEW i \in 1..Len(op)
               PROVE  InTally(tw, hk, lim[op[i]], Tally(Len(ws), cs, op, i), Asked(op, gr, i))
  BY DEF Tallied
<1>2. Sequence(op) BY StackFacts
<1>. DEFINE h == Tally(Len(vs), cs, op, i)
            k == Asked(op, fr, i)
<1>3. InTally(tw, hk, lim[op[i]], h, k) BY DEF Tallied
<1>4. h \in Nat /\ k \in Nat BY <1>2, TallyIs, AskedIs
<1>5. Tally(Len(ws), cs, op, i) = h + (IF i = Len(op) THEN 1 ELSE 0) BY TallyLonger
<1>6. Asked(op, gr, i) = k + (IF i = Len(op) THEN 1 ELSE 0) BY <1>2, AskedFuller
<1>7. i = Len(op) /\ hk => ~Over(lim[op[i]], h + 1) OBVIOUS
<1>. HIDE DEF h, k
<1>8. CASE i = Len(op)
  <2>1. Tally(Len(ws), cs, op, i) = h + 1 /\ Asked(op, gr, i) = k + 1 BY <1>5, <1>6, <1>8
  <2>2. InTally(tw, hk, lim[op[i]], h + 1, k + 1) BY <1>3, <1>4, <1>7, <1>8 DEF InTally
  <2>. QED BY <2>1, <2>2
<1>9. CASE i # Len(op)
  <2>1. Tally(Len(ws), cs, op, i) = h /\ Asked(op, gr, i) = k BY <1>4, <1>5, <1>6, <1>9
  <2>. QED BY <1>3, <2>1
<1>. QED BY <1>8, <1>9

\* A value that only the frames have: some function has lost its check.
LEMMA TalliedFuller ==
    ASSUME NEW vs, NEW ks, NEW cs, NEW op, Stacks(vs, ks, cs, op), NEW ws, Len(ws) = Len(vs),
           NEW fr, Frames(op, fr), NEW gr, Fuller(op, fr, gr),
           NEW tw, NEW lim, Tallied(tw, FALSE, lim, vs, cs, op, fr)
    PROVE  Tallied(tw, FALSE, lim, ws, cs, op, gr)
<1>1. SUFFICES ASSUME NEW i \in 1..Len(op)
               PROVE  InTally(tw, FALSE, lim[op[i]], Tally(Len(vs), cs, op, i), Asked(op, gr, i))
  BY DEF Tallied
<1>2. Sequence(op) BY StackFacts
<1>3. InTally(tw, FALSE, lim[op[i]], Tally(Len(vs), cs, op, i), Asked(op, fr, i)) BY DEF Tallied
<1>4. Tally(Len(vs), cs, op, i) \in Nat /\ Asked(op, fr, i) \in Nat BY <1>2, TallyIs, AskedIs
<1>5. Asked(op, gr, i) = Asked(op, fr, i) + (IF i = Len(op) THEN 1 ELSE 0) BY <1>2, AskedFuller
<1>. QED BY <1>3, <1>4, <1>5 DEF InTally

\* A member that only the stacks have: a key that was announced.
LEMMA TalliedLonger ==
    ASSUME NEW vs, NEW ks, NEW cs, NEW op, Stacks(vs, ks, cs, op), NEW ws, Longer(vs, op, ws),
           NEW fr, Frames(op, fr),
           NEW tw, NEW hk, NEW lim, Tallied(tw, hk, lim, vs, cs, op, fr),
           hk => ~Over(lim[op[Len(op)]], Tally(Len(vs), cs, op, Len(op)) + 1)
    PROVE  Tallied(TRUE, hk, lim, ws, cs, op, fr)
<1>1. SUFFICES ASSUME NEW i \in 1..Len(op)
               PROVE  InTally(TRUE, hk, lim[op[i]], Tally(Len(ws), cs, op, i), Asked(op, fr, i))
  BY DEF Tallied
<1>2. Sequence(op) BY StackFacts
<1>. DEFINE h == Tally(Len(vs), cs, op, i)
            k == Asked(op, fr, i)
<1>3. InTally(tw, hk, lim[op[i]], h, k) BY DEF Tallied
<1>4. h \in Nat /\ k \in Nat BY <1>2, TallyIs, AskedIs
<1>5. Tally(Len(ws), cs, op, i) = h + (IF i = Len(op) THEN 1 ELSE 0) BY TallyLonger
<1>6. i = Len(op) /\ hk => ~Over(lim[op[i]], h + 1) OBVIOUS
<1>. HIDE DEF h
<1>7. CASE i = Len(op)
  <2>1. Tally(Len(ws), cs, op, i) = h + 1 BY <1>5, <1>7
  <2>2. InTally(TRUE, hk, lim[op[i]], h + 1, k) BY <1>3, <1>4, <1>6, <1>7 DEF InTally
  <2>. QED BY <2>1, <2>2
<1>8. CASE i # Len(op)
  <2>1. Tally(Len(ws), cs, op, i) = h BY <1>4, <1>5, <1>8
  <2>. QED BY <1>3, <2>1 DEF InTally
<1>. QED BY <1>7, <1>8

\* A container that is opened: a value of the one it is in, and empty itself.
LEMMA TalliedOpened ==
    ASSUME NEW vs, NEW ks, NEW cs, NEW op, Stacks(vs, ks, cs, op), NEW ws, op # <<>> => Longer(vs, op, ws),
           NEW fr, Frames(op, fr), NEW kind \in {"array", "object"}, Len(ws) \in Nat,
           NEW e, e.vi = Len(ws) - 1, NEW f, f.items = <<>>,
           NEW tw, NEW hk, NEW lim, Tallied(tw, hk, lim, vs, cs, op, fr),
           op # <<>> /\ hk => ~Over(lim[op[Len(op)]], Tally(Len(vs), cs, op, Len(op)) + 1)
    PROVE  Tallied(tw, hk, lim, ws, Append(cs, e), Append(op, kind), Append(fr, f))
<1>. DEFINE l == Len(op)
            m == Len(ws)
            ds == Append(cs, e)
            dp == Append(op, kind)
            gr == Append(fr, f)
<1>1. /\ l \in Nat /\ Len(cs) = l /\ Len(vs) \in Nat /\ Sequence(cs) /\ Sequence(op)
      /\ op = <<>> => l = 0
  BY StackFacts
<1>2. Len(ds) = l + 1 /\ ds[l + 1] = e /\ \A i \in 1..l : ds[i] = cs[i] BY <1>1, Appended
<1>3. Len(dp) = l + 1 /\ dp[l + 1] = kind /\ \A i \in 1..l : dp[i] = op[i] BY <1>1, Appended
<1>4. Sequence(fr) /\ Len(fr) = l BY DEF Frames
<1>5. gr[l + 1] = f /\ \A i \in 1..l : gr[i] = fr[i] BY <1>4, Appended
<1>. HIDE DEF ds, dp, gr
<1>6. ASSUME NEW i \in 1..l + 1
      PROVE  InTally(tw, hk, lim[dp[i]], Tally(m, ds, dp, i), Asked(dp, gr, i))
  <2>1. CASE i \in 1..l
    <3>. DEFINE h == Tally(Len(vs), cs, op, i)
                k == Asked(op, fr, i)
    <3>1. op # <<>> /\ Longer(vs, op, ws) BY <1>1, <2>1
    <3>2. InTally(tw, hk, lim[op[i]], h, k) /\ dp[i] = op[i] BY <1>3, <2>1 DEF Tallied
    <3>3. h \in Nat /\ k \in Nat /\ Len(fr[i].items) \in Nat BY <1>1, <2>1, TallyIs, AskedIs
    <3>4. Tally(m, cs, op, i) = h + (IF i = l THEN 1 ELSE 0) BY <2>1, <3>1, TallyLonger
    <3>5. Tally(m, ds, dp, i) = Tally(m, cs, op, i)
      <4>1. End(m, ds, i) = End(m, cs, i)
        <5>1. CASE i < l BY <1>1, <1>2, <5>1 DEF End
        <5>2. CASE i = l BY <1>1, <1>2, <5>2 DEF End
        <5>. QED BY <1>1, <2>1, <5>1, <5>2
      <4>2. Count(m, ds, i) = Count(m, cs, i) BY <1>2, <2>1, <4>1 DEF Count
      <4>. QED BY <3>2, <4>2 DEF Tally
    <3>6. Asked(dp, gr, i) = Len(fr[i].items) + 1
      <4>1. i < Len(dp) /\ gr[i] = fr[i] BY <1>1, <1>3, <1>5, <2>1
      <4>. QED BY <4>1 DEF Asked
    <3>7. k = Len(fr[i].items) + (IF i < l THEN 1 ELSE 0) BY DEF Asked
    <3>8. i = l /\ hk => ~Over(lim[op[i]], h + 1) BY <3>1
    <3>. HIDE DEF h, k
    <3>9. CASE i = l
      <4>1. Tally(m, ds, dp, i) = h + 1 BY <3>4, <3>5, <3>9
      <4>2. ~(i < l) BY <1>1, <3>9
      <4>3. Asked(dp, gr, i) = k + 1 BY <3>3, <3>6, <3>7, <4>2
      <4>4. InTally(tw, hk, lim[op[i]], h + 1, k + 1) BY <3>2, <3>3, <3>8, <3>9 DEF InTally
      <4>. QED BY <3>2, <4>1, <4>3, <4>4
    <3>10. CASE i # l
      <4>1. i < l BY <1>1, <2>1, <3>10
      <4>2. Tally(m, ds, dp, i) = h /\ Asked(dp, gr, i) = k BY <3>3, <3>4, <3>5, <3>6, <3>7, <3>10, <4>1
      <4>. QED BY <3>2, <4>2
    <3>. QED BY <3>9, <3>10
  <2>2. CASE i = l + 1
    <3>1. Count(m, ds, i) = 0 BY <1>1, <1>2, <2>2 DEF Count, End
    <3>2. Tally(m, ds, dp, i) = 0 BY <3>1, Halves DEF Tally
    <3>3. Len(gr[i].items) = 0 BY <1>5, <2>2, Empty
    <3>4. ~(i < Len(dp)) BY <1>1, <1>3, <2>2
    <3>5. Asked(dp, gr, i) = 0 BY <3>3, <3>4 DEF Asked
    <3>. QED BY <3>2, <3>5 DEF InTally
  <2>. QED BY <1>1, <2>1, <2>2
<1>7. Tallied(tw, hk, lim, ws, ds, dp, gr) BY <1>3, <1>6 DEF Tallied
<1>. QED BY <1>7 DEF ds, dp, gr

\* A container that is closed: an item of the one it was in.
Taking(op, fr, gr) ==
    \A i \in 1..Len(op) - 1 :
        Len(gr[i].items) = Len(fr[i].items) + (IF i = Len(op) - 1 THEN 1 ELSE 0)

LEMMA TakenItems ==
    ASSUME NEW op, NEW fr, Frames(op, fr), Sequence(op), op # <<>>, NEW gr, NEW v, Taken(op, fr, gr, v)
    PROVE  Taking(op, fr, gr)
<1>. DEFINE l == Len(op)
            m == IF op[l - 1] = "array" THEN v ELSE <<fr[l].name, v>>
            t == Front(fr)
            g == Grew(fr[l - 1], m)
<1>1. l \in Nat /\ l > 0 BY Lengths, FrontCut
<1>2. Sequence(fr) /\ Len(fr) = l /\ \A i \in 1..l : Frame(fr[i], op[i]) BY DEF Frames
<1>3. fr # <<>> BY <1>1, <1>2, Empty
<1>4. Sequence(t) /\ Len(t) = l - 1 /\ \A i \in 1..l - 1 : t[i] = fr[i] BY <1>2, <1>3, FrontCut
<1>5. l # 1 => gr = [t EXCEPT ![l - 1] = g] BY DEF Taken
<1>6. l # 1 => Len(g.items) = Len(fr[l - 1].items) + 1
  <2>1. SUFFICES ASSUME l # 1 PROVE Len(g.items) = Len(fr[l - 1].items) + 1 OBVIOUS
  <2>2. Frame(fr[l - 1], op[l - 1]) BY <1>1, <1>2, <2>1
  <2>. HIDE DEF m
  <2>3. g.items = Append(fr[l - 1].items, m) BY <2>2, GrewHas DEF Frame
  <2>. QED BY <2>2, <2>3, Appended DEF Frame
<1>. HIDE DEF t, g, m
<1>7. SUFFICES ASSUME NEW i \in 1..l - 1
               PROVE  Len(gr[i].items) = Len(fr[i].items) + (IF i = l - 1 THEN 1 ELSE 0)
  BY DEF Taking
<1>8. l # 1 /\ l - 1 \in 1..l - 1
  <2>. HIDE DEF l
  <2>. QED BY <1>1, <1>7
<1>9. Instead(t, l - 1, g, gr) BY <1>4, <1>5, <1>8 DEF Instead
<1>10. \A j \in 1..l - 1 : gr[j] = IF j = l - 1 THEN g ELSE t[j] BY <1>4, <1>9, Replacing
<1>11. i # l - 1 => Len(fr[i].items) \in Nat
  <2>1. Frame(fr[i], op[i]) BY <1>1, <1>2, <1>7
  <2>. QED BY <2>1, Lengths DEF Frame
<1>12. CASE i = l - 1 BY <1>6, <1>8, <1>10, <1>12
<1>13. CASE i # l - 1
  <2>1. gr[i] = t[i] BY <1>10, <1>13
  <2>2. t[i] = fr[i] BY <1>4
  <2>3. Len(gr[i].items) = Len(fr[i].items) BY <2>1, <2>2
  <2>4. Len(fr[i].items) \in Nat BY <1>11, <1>13
  <2>5. \A a \in Nat : a + 0 = a OBVIOUS
  <2>6. Len(fr[i].items) + 0 = Len(fr[i].items) BY ONLY <2>4, <2>5
  <2>7. (IF i = l - 1 THEN 1 ELSE 0) = 0 BY <1>13
  <2>. QED BY ONLY <2>3, <2>6, <2>7
<1>. QED BY <1>12, <1>13

LEMMA TalliedClosed ==
    ASSUME NEW vs, NEW ks, NEW cs, NEW op, Stacks(vs, ks, cs, op), op # <<>>,
           NEW ws, Len(op) # 1 => Len(ws) = cs[Len(op)].vi + 1,
           NEW fr, Frames(op, fr), NEW gr, Taking(op, fr, gr),
           NEW tw, NEW hk, NEW lim, Tallied(tw, hk, lim, vs, cs, op, fr)
    PROVE  Tallied(tw, hk, lim, ws, Front(cs), Front(op), gr)
<1>. DEFINE l == Len(op)
            n == Len(vs)
            m == Len(ws)
            ds == Front(cs)
            dp == Front(op)
<1>1. l \in Nat /\ Len(cs) = l /\ l > 0 /\ Sequence(cs) /\ Sequence(op) BY StackFacts
<1>2. cs # <<>> BY <1>1, Empty
<1>3. Len(ds) = l - 1 /\ \A i \in 1..l - 1 : ds[i] = cs[i] BY <1>1, <1>2, FrontCut
<1>4. Len(dp) = l - 1 /\ \A i \in 1..l - 1 : dp[i] = op[i] BY <1>1, FrontCut
<1>. HIDE DEF ds, dp
<1>5. ASSUME NEW i \in 1..l - 1
      PROVE  InTally(tw, hk, lim[dp[i]], Tally(m, ds, dp, i), Asked(dp, gr, i))
  <2>1. i \in 1..l /\ l # 1 /\ dp[i] = op[i] /\ ds[i] = cs[i] /\ i < l BY <1>1, <1>3, <1>4
  <2>2. InTally(tw, hk, lim[op[i]], Tally(n, cs, op, i), Asked(op, fr, i)) BY <2>1 DEF Tallied
  <2>3. End(m, ds, i) = End(n, cs, i)
    <3>1. CASE i < l - 1
      <4>1. i + 1 \in 1..l - 1 BY <1>1, <3>1
      <4>2. ds[i + 1] = cs[i + 1] BY <1>3, <4>1
      <4>3. i # Len(ds) /\ i # Len(cs) BY <1>1, <1>3, <2>1, <3>1
      <4>. QED BY <4>2, <4>3 DEF End
    <3>2. CASE i = l - 1
      <4>1. i = Len(ds) /\ i # Len(cs) /\ i + 1 = l BY <1>1, <1>3, <2>1, <3>2
      <4>. QED BY <2>1, <4>1 DEF End
    <3>. QED BY <1>1, <3>1, <3>2
  <2>4. Count(m, ds, i) = Count(n, cs, i) BY <2>1, <2>3 DEF Count
  <2>5. Tally(m, ds, dp, i) = Tally(n, cs, op, i) BY <2>1, <2>4 DEF Tally
  <2>6. Asked(dp, gr, i) = Asked(op, fr, i)
    <3>1. Len(fr[i].items) \in Nat BY <1>1, <2>1, AskedIs
    <3>2. Len(gr[i].items) = Len(fr[i].items) + (IF i = l - 1 THEN 1 ELSE 0) BY DEF Taking
    <3>3. Asked(op, fr, i) = Len(fr[i].items) + 1 BY <2>1 DEF Asked
    <3>4. CASE i = l - 1
      <4>1. ~(i < Len(dp)) BY <1>1, <1>4, <3>4
      <4>2. Asked(dp, gr, i) = Len(gr[i].items) + 0 BY <4>1 DEF Asked
      <4>. QED BY <3>1, <3>2, <3>3, <3>4, <4>2
    <3>5. CASE i # l - 1
      <4>1. i < Len(dp) BY <1>1, <1>4, <3>5
      <4>2. Asked(dp, gr, i) = Len(gr[i].items) + 1 BY <4>1 DEF Asked
      <4>3. Len(gr[i].items) = Len(fr[i].items)
        <5>1. \A a \in Nat : a + 0 = a OBVIOUS
        <5>2. (IF i = l - 1 THEN 1 ELSE 0) = 0 BY <3>5
        <5>3. Len(gr[i].items) = Len(fr[i].items) + 0
          BY ONLY <3>2, <5>2
        <5>4. Len(fr[i].items) + 0 = Len(fr[i].items) BY ONLY <3>1, <5>1
        <5>. QED BY ONLY <5>3, <5>4
      <4>. QED BY <3>3, <4>2, <4>3
    <3>. QED BY <3>4, <3>5
  <2>. QED BY <2>1, <2>2, <2>5, <2>6
<1>6. Tallied(tw, hk, lim, ws, ds, dp, gr) BY <1>4, <1>5 DEF Tallied
<1>. QED BY <1>6 DEF ds, dp

-----------------------------------------------------------------------------
(* The invariant.                                                            *)

Checks == {"open", "add", "add_null", "add_str"}
AllHooked == hooked = Checks
Waits == IF member THEN 1 ELSE 0

SafeTypes ==
    /\ limits \in LimitSets /\ hooked \subseteq Checks
    /\ refused \in {"none", "size", "depth", "total"} /\ twice \in BOOLEAN
    /\ elements \in Nat /\ elements <= 2 * values + (IF Parsing THEN 0 ELSE 2)
    /\ seen \in Nat /\ seen <= 2 * values + Waits
\* A function that has its check has the options that would replace it unset.
Unreplaced == AllHooked => ~set.create /\ ~set.omit_null
\* elements and seen: what is counted and what is read.
Totals ==
    Parsing =>
        /\ Waits <= seen
        /\ ~twice => elements + Waits <= seen
        /\ AllHooked => seen <= elements + Waits /\ (elements = 0 \/ ~Over(Limit("total"), elements + 1))
Depths == AllHooked => Len(open) <= 1 \/ ~Over(Limit("depth"), Len(open))
Sizes == [kind \in {"array", "object"} |-> Limit(kind)]
Counts ==
    Parsing => refused = "none" /\ Tallied(twice, AllHooked, Sizes, vstack, cstack, open, ref.frames)
Ended == ~Parsing => LimitsKept /\ RefusesOnlyOver
SafeInv == UsualInv /\ SafeTypes /\ Unreplaced /\ Totals /\ Depths /\ Counts /\ Ended

-----------------------------------------------------------------------------
(* What it says.                                                             *)

LEMMA SizesAre ==
    ASSUME NEW kind \in {"array", "object"}
    PROVE  Sizes[kind] = Limit(kind)
BY DEF Sizes

LEMMA LimitIs ==
    ASSUME SafeTypes, NEW name \in {"object", "array", "depth", "total"}
    PROVE  Limit(name) \subseteq Int
BY LimitsAssumption DEF SafeTypes, Limit

\* Items is what the innermost container's slots are worth.
LEMMA ItemsAre ==
    ASSUME UsualInv, Parsing, open # <<>>
    PROVE  /\ Items = Tally(Len(vstack), cstack, open, Len(open)) /\ Items \in Nat
           /\ Last(open) = open[Len(open)] /\ Last(open) \in {"array", "object"}
           /\ Weight = IF open[Len(open)] = "object" THEN 2 ELSE 1
<1>. DEFINE l == Len(open)
<1>1. /\ Stacks(vstack, kstack, cstack, open) /\ Len(cstack) = l /\ l \in 1..l /\ open[l] \in {"array", "object"}
      /\ InObject <=> open[l] = "object"
  BY Facts
<1>2. Tally(Len(vstack), cstack, open, l) \in Nat BY <1>1, TallyIs
<1>3. /\ cstack[l].vi \in Nat /\ Len(vstack) \in Nat /\ Count(Len(vstack), cstack, l) = Len(vstack) - (cstack[l].vi + 1)
  BY <1>1, LevelFacts, StackFacts DEF Count, End
<1>4. Len(vstack) - col.vi - 1 = Count(Len(vstack), cstack, l)
  <2>1. col = cstack[l] BY <1>1 DEF col, Last
  <2>. QED BY <1>3, <2>1
<1>5. Items = Tally(Len(vstack), cstack, open, l)
  <2>1. Items = IF InObject THEN Half(Len(vstack) - col.vi - 1) ELSE Len(vstack) - col.vi - 1
    BY DEF Items, Half
  <2>2. open[l] = "array" <=> ~InObject BY <1>1
  <2>. QED BY <1>4, <2>1, <2>2 DEF Tally
<1>6. Weight = IF open[l] = "object" THEN 2 ELSE 1 BY <1>1 DEF Weight
<1>. QED BY <1>1, <1>2, <1>5, <1>6 DEF Last

\* While the parser is parsing, no limit is passed and nothing has been refused.
LEMMA ParsingWithin ==
    ASSUME UsualInv, SafeTypes, Totals, Depths, Counts, Parsing
    PROVE  LimitsKept /\ RefusesOnlyOver
<1>1. RefusesOnlyOver BY DEF Counts, RefusesOnlyOver
<1>2. SUFFICES ASSUME AllHooked PROVE Within BY <1>1 DEF LimitsKept, AllHooked, Checks
<1>3. /\ Stacks(vstack, kstack, cstack, open) /\ Frames(open, ref.frames) /\ Sequence(open)
      /\ Sequence(ref.frames) /\ Len(ref.frames) = Len(open)
  BY Facts DEF Frames
<1>4. ASSUME NEW i \in DOMAIN ref.frames
      PROVE  LET f == ref.frames[i] IN f.items = <<>> \/ ~Over(Limit(f.kind), Len(f.items))
  <2>. DEFINE f == ref.frames[i]
              h == Tally(Len(vstack), cstack, open, i)
              k == Asked(open, ref.frames, i)
              n == Len(f.items)
  <2>1. i \in 1..Len(open) BY <1>3, Lengths
  <2>2. f.kind = open[i] /\ open[i] \in {"array", "object"} BY <1>3, <2>1, LevelFacts DEF Frames, Frame
  <2>3. h \in Nat /\ k \in Nat /\ n \in Nat /\ Sequence(f.items) BY <1>3, <2>1, TallyIs, AskedIs
  <2>4. InTally(twice, AllHooked, Sizes[open[i]], h, k) BY <2>1 DEF Counts, Tallied
  <2>5. k <= h /\ (h = 0 \/ ~Over(Limit(f.kind), h)) BY <1>2, <2>2, <2>4, SizesAre DEF InTally
  <2>6. n <= k
    <3>1. k = n + (IF i < Len(open) THEN 1 ELSE 0) BY DEF Asked
    <3>. HIDE DEF k, n
    <3>. QED BY <2>3, <3>1
  <2>7. Limit(f.kind) \subseteq Int BY <2>2, LimitIs
  <2>8. n = 0 => f.items = <<>> BY <2>3, NoItems
  <2>. HIDE DEF h, k, n
  <2>9. CASE n = 0 BY <2>8, <2>9
  <2>10. CASE n # 0
    <3>1. h # 0 /\ n <= h BY <2>3, <2>5, <2>6, <2>10
    <3>2. ~Over(Limit(f.kind), n) BY <2>3, <2>5, <2>7, <3>1, OverMore
    <3>. QED BY <3>2 DEF n
  <2>. QED BY <2>9, <2>10
<1>5. seen = 0 \/ member \/ ~Over(Limit("total"), seen + 1)
  <2>1. SUFFICES ASSUME seen # 0, ~member PROVE ~Over(Limit("total"), seen + 1) OBVIOUS
  <2>2. seen \in Nat /\ elements \in Nat BY DEF SafeTypes
  <2>3. seen <= elements + 0 /\ (elements = 0 \/ ~Over(Limit("total"), elements + 1))
    BY <1>2, <2>1 DEF Totals, Waits
  <2>4. elements # 0 /\ seen + 1 <= elements + 1 BY <2>1, <2>2, <2>3
  <2>5. Limit("total") \subseteq Int BY LimitIs
  <2>. QED BY <2>2, <2>3, <2>4, <2>5, OverMore
<1>6. Len(open) <= 1 \/ ~Over(Limit("depth"), Len(open)) BY <1>2 DEF Depths
<1>. QED BY <1>4, <1>5, <1>6 DEF Within

-----------------------------------------------------------------------------
(* A call that its check lets pass.                                          *)

LEMMA PassedAll ==
    ASSUME NEW fun \in Checks, NEW read, Passes(fun, read), AllHooked, open # <<>>
    PROVE  /\ ~Over(Limit(Last(open)), Items + 1) /\ ~Over(Limit("total"), elements + Weight + 1)
           /\ fun = "open" => ~Over(Limit("depth"), Len(open) + 1)
           /\ elements' = elements + Weight
<1>1. Checked(fun) BY DEF Checked, AllHooked
<1>2. Refusal(fun) = "none" /\ elements' = elements + Weight BY <1>1 DEF Passes, Refuses
<1>3. "size" # "none" /\ "depth" # "none" /\ "total" # "none" OBVIOUS
<1>. QED BY <1>2, <1>3 DEF Refusal

LEMMA PassedOn ==
    ASSUME NEW fun, NEW read, Passes(fun, read)
    PROVE  /\ seen' = seen + read /\ limits' = limits /\ hooked' = hooked /\ refused' = refused
           /\ elements' = elements \/ (open # <<>> /\ elements' = elements + Weight)
           /\ open = <<>> => elements' = elements
BY DEF Passes, Checked

LEMMA SafeAssembled ==
    ASSUME UsualInv', SafeTypes', Unreplaced', Totals', Depths', Counts', phase' = "parsing"
    PROVE  SafeInv'
<1>1. Ended' BY DEF Ended, Parsing
<1>. QED BY <1>1 DEF SafeInv

\* What stays as it is when functions keep their checks, and limits and options
\* are as they were.
Settled == limits' = limits /\ hooked' = hooked /\ set' = set /\ refused' = refused

LEMMA SettledKeeps ==
    ASSUME Settled
    PROVE  /\ AllHooked' <=> AllHooked
           /\ Sizes' = Sizes /\ Limit("total")' = Limit("total") /\ Limit("depth")' = Limit("depth")
           /\ Unreplaced => Unreplaced'
<1>1. AllHooked' <=> AllHooked BY DEF Settled, AllHooked
<1>2. Limit("total")' = Limit("total") /\ Limit("depth")' = Limit("depth") BY DEF Settled, Limit
<1>3. Sizes' = Sizes BY DEF Settled, Sizes, Limit
<1>4. Unreplaced => Unreplaced' BY <1>1 DEF Settled, Unreplaced
<1>. QED BY <1>1, <1>2, <1>3, <1>4

LEMMA Numbers ==
    ASSUME SafeInv
    PROVE  /\ elements \in Nat /\ seen \in Nat /\ values \in Nat /\ Waits \in {0, 1}
           /\ seen <= 2 * values + Waits
           /\ Parsing => elements <= 2 * values
           /\ twice \in BOOLEAN /\ (member => Waits = 1) /\ (~member => Waits = 0)
<1>1. SafeTypes BY DEF SafeInv
<1>2. values \in Nat
  <2>1. values \in 0..MaxValues BY DEF SafeInv, UsualInv, Types
  <2>2. MaxValues \in Nat BY UsualAssumption
  <2>. QED BY <2>1, <2>2
<1>3. Parsing => elements <= 2 * values + 0 BY <1>1 DEF SafeTypes
<1>4. Waits \in {0, 1} /\ (member => Waits = 1) /\ (~member => Waits = 0) BY DEF Waits
<1>. QED BY <1>1, <1>2, <1>3, <1>4 DEF SafeTypes

\* A value, whether it is one or a container: two elements in an object, one in an
\* array, none by itself.
LEMMA ValueTotals ==
    ASSUME SafeInv, Parsing, InObject => member, NEW fun \in Checks, Passes(fun, Value), set' = set,
           phase' = "parsing", member' = FALSE, values' = values + 1, twice' = twice
    PROVE  SafeTypes' /\ Totals' /\ Settled
<1>1. /\ seen' = seen + Value /\ limits' = limits /\ hooked' = hooked /\ refused' = refused
      /\ elements' = elements \/ (open # <<>> /\ elements' = elements + Weight)
      /\ open = <<>> => elements' = elements
  BY PassedOn
<1>2. Settled BY <1>1 DEF Settled
<1>3. /\ elements \in Nat /\ seen \in Nat /\ values \in Nat /\ Waits \in {0, 1}
      /\ seen <= 2 * values + Waits /\ elements <= 2 * values
      /\ twice \in BOOLEAN /\ (member => Waits = 1) /\ (~member => Waits = 0)
  BY Numbers
<1>4. member <=> InObject BY Facts DEF SafeInv
<1>5. InObject => open # <<>> BY DEF InObject
<1>6. (open # <<>> => Value = 1 /\ Weight = 1 + Waits) /\ (open = <<>> => Value = 0 /\ Waits = 0)
  <2>1. InObject => Weight = 2 /\ Waits = 1 BY <1>3, <1>4 DEF Weight
  <2>2. ~InObject => Weight = 1 /\ Waits = 0 BY <1>3, <1>4 DEF Weight
  <2>3. (open # <<>> => Value = 1) /\ (open = <<>> => Value = 0) BY DEF Value
  <2>. QED BY <1>5, <2>1, <2>2, <2>3
<1>7. /\ elements' \in Nat /\ seen' \in Nat /\ elements' <= 2 * (values + 1) /\ seen' <= 2 * (values + 1)
  BY <1>1, <1>3, <1>6
<1>8. Waits' = 0 /\ Parsing' BY DEF Waits, Parsing
<1>9. SafeTypes'
  <2>1. SafeTypes BY DEF SafeInv
  <2>2. elements' <= 2 * values' + 0 /\ seen' <= 2 * values' + 0 BY <1>3, <1>7
  <2>. QED BY <1>1, <1>3, <1>7, <1>8, <2>1, <2>2 DEF SafeTypes
<1>10. /\ Waits <= seen
       /\ ~twice => elements + Waits <= seen
       /\ AllHooked => seen <= elements + Waits /\ (elements = 0 \/ ~Over(Limit("total"), elements + 1))
  BY DEF SafeInv, Totals
<1>11. ~twice => elements' <= seen' BY <1>1, <1>3, <1>6, <1>10
<1>12. ASSUME AllHooked
       PROVE  seen' <= elements' /\ (elements' = 0 \/ ~Over(Limit("total"), elements' + 1))
  <2>1. CASE open = <<>>
    <3>1. elements' = elements /\ seen' = seen + 0 /\ Waits = 0 BY <1>1, <1>6, <2>1
    <3>. QED BY <1>3, <1>10, <1>12, <3>1
  <2>2. CASE open # <<>>
    <3>1. ~Over(Limit("total"), elements + Weight + 1) /\ elements' = elements + Weight
      BY <1>12, <2>2, PassedAll
    <3>2. seen' = seen + 1 /\ Weight = 1 + Waits BY <1>1, <1>6, <2>2
    <3>3. seen' <= elements' BY <1>3, <1>10, <1>12, <3>1, <3>2
    <3>. QED BY <3>1, <3>3
  <2>. QED BY <2>1, <2>2
<1>13. Totals'
  <2>1. (AllHooked' <=> AllHooked) /\ Limit("total")' = Limit("total") BY <1>2, SettledKeeps
  <2>2. Waits' <= seen' BY <1>7, <1>8
  <2>3. elements' + Waits' = elements'
    <3>1. \A a \in Nat : a + 0 = a OBVIOUS
    <3>2. elements' \in Nat /\ Waits' = 0 BY <1>7, <1>8
    <3>. QED BY ONLY <3>1, <3>2
  <2>4. ~twice' => elements' + Waits' <= seen' BY <1>11, <2>3
  <2>5. AllHooked => seen' <= elements' + Waits' BY <1>12, <2>3
  <2>. QED BY <1>12, <2>1, <2>2, <2>4, <2>5 DEF Totals
<1>. QED BY <1>2, <1>9, <1>13

-----------------------------------------------------------------------------
(* Values.                                                                   *)

LEMMA GrownFuller ==
    ASSUME NEW r, NEW op, Frames(op, r.frames), Sequence(op), op # <<>>, NEW k, NEW v,
           NEW s, HasGrown(r, op, k, v, s)
    PROVE  Fuller(op, r.frames, s.frames)
<1>. DEFINE l == Len(op)
            m == IF op[l] = "array" THEN v ELSE <<k, v>>
            g == Grew(r.frames[l], m)
<1>1. l \in 1..l
  <2>1. l \in Nat /\ l # 0 BY Lengths, NoItems
  <2>. QED BY <2>1
<1>2. Sequence(r.frames) /\ Len(r.frames) = l /\ \A i \in 1..l : Frame(r.frames[i], op[i]) BY DEF Frames
<1>3. s.frames = [r.frames EXCEPT ![l] = g] BY DEF HasGrown
<1>4. Len(g.items) = Len(r.frames[l].items) + 1
  <2>1. Frame(r.frames[l], op[l]) BY <1>1, <1>2
  <2>. HIDE DEF m
  <2>2. g.items = Append(r.frames[l].items, m) BY <2>1, GrewHas DEF Frame
  <2>. QED BY <2>1, <2>2, Appended DEF Frame
<1>. HIDE DEF g
<1>5. Instead(r.frames, l, g, s.frames) BY <1>1, <1>2, <1>3 DEF Instead
<1>6. Len(s.frames) = Len(r.frames) /\ \A i \in 1..l : s.frames[i] = IF i = l THEN g ELSE r.frames[i]
  BY <1>2, <1>5, Replacing
<1>7. ASSUME NEW i \in 1..l
      PROVE  Len(s.frames[i].items) = Len(r.frames[i].items) + (IF i = l THEN 1 ELSE 0)
  <2>1. CASE i = l BY <1>4, <1>6, <2>1
  <2>2. CASE i # l
    <3>1. Len(r.frames[i].items) \in Nat BY AskedIs
    <3>2. s.frames[i] = r.frames[i] BY <1>6, <2>2
    <3>3. \A a \in Nat : a + 0 = a OBVIOUS
    <3>4. Len(r.frames[i].items) + 0 = Len(r.frames[i].items) BY ONLY <3>1, <3>3
    <3>5. (IF i = l THEN 1 ELSE 0) = 0 BY <2>2
    <3>. QED BY ONLY <3>2, <3>4, <3>5
  <2>. QED BY <2>1, <2>2
<1>. QED BY <1>6, <1>7 DEF Fuller

\* A value the usual delegate pushes, or leaves out because of an option.
LEMMA ValueSafe ==
    ASSUME SafeInv, UsualInv', CanAdd, NEW v, Placed(v), NEW fun \in Checks, Passes(fun, Value),
           twice' = twice,
           \/ Len(vstack') = Len(vstack) + Weight
           \/ Len(vstack') = Len(vstack) /\ ~AllHooked
    PROVE  SafeInv'
<1>1. /\ Parsing /\ (InObject => member) /\ open' = open /\ cstack' = cstack /\ set' = set /\ phase' = phase
      /\ member' = FALSE /\ values' = values + 1
  BY DEF CanAdd, Placed, options, call
<1>2. phase' = "parsing" /\ Parsing' BY <1>1 DEF Parsing
<1>3. SafeTypes' /\ Totals' /\ Settled BY <1>1, <1>2, ValueTotals
<1>4. (AllHooked' <=> AllHooked) /\ Sizes' = Sizes /\ Limit("depth")' = Limit("depth") /\ Unreplaced'
  BY <1>3, SettledKeeps DEF SafeInv
<1>5. Depths' BY <1>1, <1>4 DEF SafeInv, Depths
<1>6. HasGrown(ref, open, key, v, ref') BY Growing DEF SafeInv
<1>7. /\ Stacks(vstack, kstack, cstack, open) /\ Frames(open, ref.frames) /\ Sequence(open)
  BY <1>1, Facts DEF SafeInv
<1>8. Tallied(twice, AllHooked, Sizes, vstack, cstack, open, ref.frames) /\ refused = "none"
  BY <1>1 DEF SafeInv, Counts
<1>9. Tallied(twice, AllHooked, Sizes, vstack', cstack, open, ref'.frames)
  <2>1. CASE open = <<>>
    <3>1. 1..Len(open) = {} BY <2>1, Empty
    <3>. QED BY <3>1 DEF Tallied
  <2>2. CASE open # <<>>
    <3>1. Fuller(open, ref.frames, ref'.frames) BY <1>6, <1>7, <2>2, GrownFuller
    <3>2. /\ Items = Tally(Len(vstack), cstack, open, Len(open))
          /\ Last(open) = open[Len(open)] /\ Last(open) \in {"array", "object"}
          /\ Weight = IF open[Len(open)] = "object" THEN 2 ELSE 1
      BY <1>1, <2>2, ItemsAre DEF SafeInv
    <3>3. CASE Len(vstack') = Len(vstack) + Weight
      <4>1. Longer(vstack, open, vstack') BY <2>2, <3>2, <3>3 DEF Longer
      <4>2. AllHooked => ~Over(Sizes[open[Len(open)]], Tally(Len(vstack), cstack, open, Len(open)) + 1)
        <5>1. AllHooked => ~Over(Limit(Last(open)), Items + 1) BY <2>2, PassedAll
        <5>2. Sizes[open[Len(open)]] = Limit(Last(open)) BY <3>2, SizesAre
        <5>. QED BY <3>2, <5>1, <5>2
      <4>. QED BY <1>7, <1>8, <3>1, <4>1, <4>2, TalliedMore
    <3>4. CASE Len(vstack') = Len(vstack) /\ ~AllHooked
      <4>1. AllHooked = FALSE BY <3>4 DEF AllHooked
      <4>2. Tallied(twice, FALSE, Sizes, vstack, cstack, open, ref.frames) BY <1>8, <4>1
      <4>3. Tallied(twice, FALSE, Sizes, vstack', cstack, open, ref'.frames)
        BY <1>7, <3>1, <3>4, <4>2, TalliedFuller
      <4>. QED BY <4>1, <4>3
    <3>. QED BY <3>3, <3>4
  <2>. QED BY <2>1, <2>2
<1>10. Counts'
  <2>1. AllHooked' = AllHooked BY <1>4 DEF AllHooked
  <2>2. refused' = "none" BY <1>3, <1>8 DEF Settled
  <2>. QED BY <1>1, <1>4, <1>9, <2>1, <2>2 DEF Counts
<1>. QED BY <1>2, <1>3, <1>4, <1>5, <1>10, SafeAssembled

LEMMA AddLonger ==
    ASSUME UsualInv, Parsing, NEW v, Add(v)
    PROVE  Len(vstack') = Len(vstack) + Weight
<1>1. Sequence(vstack) BY Facts
<1>2. CASE InObject
  <2>1. vstack' = vstack \o <<Undef, v>> /\ Weight = 2 BY <1>2 DEF Add, PushMember, Weight
  <2>. QED BY <1>1, <2>1, Joined
<1>3. CASE ~InObject
  <2>1. vstack' = Append(vstack, v) /\ Weight = 1 BY <1>3 DEF Add, Push, Weight
  <2>. QED BY <1>1, <2>1, Appended
<1>. QED BY <1>2, <1>3

LEMMA ScalarSafe ==
    ASSUME SafeInv, ReadScalar, Passes("add", Value), twice' = twice
    PROVE  SafeInv'
<1>1. CanAdd /\ Add(Num) /\ Placed(Num) BY DEF ReadScalar
<1>2. UsualInv /\ UsualInv' BY ScalarKeeps DEF SafeInv
<1>3. Len(vstack') = Len(vstack) + Weight BY <1>1, <1>2, AddLonger DEF CanAdd
<1>4. "add" \in Checks BY DEF Checks
<1>. QED BY <1>1, <1>2, <1>3, <1>4, ValueSafe

LEMMA NullSafe ==
    ASSUME SafeInv, ReadNull, Passes("add_null", Value), twice' = twice
    PROVE  SafeInv'
<1>1. CanAdd /\ AddNull /\ Placed(Nil) BY DEF ReadNull
<1>2. UsualInv /\ UsualInv' BY NullKeeps DEF SafeInv
<1>3. \/ Len(vstack') = Len(vstack) + Weight
      \/ Len(vstack') = Len(vstack) /\ ~AllHooked
  <2>1. CASE InObject /\ set.omit_null
    <3>1. vstack' = vstack BY <1>1, <2>1 DEF AddNull
    <3>2. ~AllHooked BY <2>1 DEF SafeInv, Unreplaced
    <3>. QED BY <3>1, <3>2
  <2>2. CASE ~(InObject /\ set.omit_null)
    <3>1. Add(Nil) BY <1>1, <2>2 DEF AddNull
    <3>. QED BY <1>1, <1>2, <3>1, AddLonger DEF CanAdd
  <2>. QED BY <2>1, <2>2
<1>4. "add_null" \in Checks BY DEF Checks
<1>. QED BY <1>1, <1>2, <1>3, <1>4, ValueSafe

\* A class in the place of the innermost object's value.
LEMMA ClassKept ==
    ASSUME UsualInv, Parsing, InObject, NEW c, vstack' = [vstack EXCEPT ![col.vi + 1] = c]
    PROVE  Len(vstack') = Len(vstack)
<1>1. /\ Stacks(vstack, kstack, cstack, open) /\ open # <<>> /\ Len(cstack) = Len(open)
      /\ Len(open) \in 1..Len(open) /\ Sequence(vstack)
  BY Facts
<1>2. cstack[Len(open)].vi \in Nat /\ cstack[Len(open)].vi + 1 <= Len(vstack) BY <1>1, LevelFacts
<1>3. col.vi = cstack[Len(open)].vi BY <1>1 DEF col, Last
<1>4. Len(vstack) \in Nat BY <1>1, Lengths
<1>5. col.vi + 1 \in 1..Len(vstack) BY <1>2, <1>3, <1>4
<1>. QED BY <1>1, <1>5, Replaced

LEMMA StringSafe ==
    ASSUME SafeInv, NEW s \in Texts, ReadString(s), Passes("add_str", Value), twice' = twice
    PROVE  SafeInv'
<1>1. CanAdd /\ AddStr(s) /\ Placed(Str(s)) BY DEF ReadString
<1>2. UsualInv /\ UsualInv' BY StringKeeps DEF SafeInv
<1>3. \/ Len(vstack') = Len(vstack) + Weight
      \/ Len(vstack') = Len(vstack) /\ ~AllHooked
  <2>1. CASE IsClassName /\ Resolves(s)
    <3>1. vstack' = [vstack EXCEPT ![Last(cstack).vi + 1] = Class(s)] BY <1>1, <2>1 DEF AddStr
    <3>2. InObject /\ set.create BY <2>1 DEF IsClassName
    <3>3. Len(vstack') = Len(vstack) BY <1>1, <1>2, <3>1, <3>2, ClassKept DEF CanAdd, col
    <3>4. ~AllHooked BY <3>2 DEF SafeInv, Unreplaced
    <3>. QED BY <3>3, <3>4
  <2>2. CASE ~(IsClassName /\ Resolves(s))
    <3>1. Add(Str(s)) BY <1>1, <2>2 DEF AddStr
    <3>. QED BY <1>1, <1>2, <3>1, AddLonger DEF CanAdd
  <2>. QED BY <2>1, <2>2
<1>4. "add_str" \in Checks BY DEF Checks
<1>. QED BY <1>1, <1>2, <1>3, <1>4, ValueSafe

-----------------------------------------------------------------------------
(* Keys.                                                                     *)

LEMMA KeySafe ==
    ASSUME SafeInv, NEW k \in Keys, ReadKey(k), seen' = seen + 1,
           UNCHANGED <<limits, elements, hooked, refused, twice>>
    PROVE  SafeInv'
<1>1. /\ Parsing /\ ~member /\ member' = TRUE /\ open' = open /\ vstack' = vstack /\ cstack' = cstack
      /\ ref' = ref /\ set' = set /\ phase' = phase /\ values' = values
      /\ limits' = limits /\ elements' = elements /\ hooked' = hooked /\ refused' = refused /\ twice' = twice
  BY DEF ReadKey, stacks, options, call
<1>2. UsualInv' BY KeyKeeps DEF SafeInv
<1>3. Settled BY <1>1 DEF Settled
<1>4. /\ AllHooked' = AllHooked /\ Sizes' = Sizes /\ Limit("total")' = Limit("total")
      /\ Limit("depth")' = Limit("depth") /\ Unreplaced'
  BY <1>3, SettledKeeps DEF SafeInv, AllHooked
<1>5. /\ elements \in Nat /\ seen \in Nat /\ values \in Nat /\ Waits = 0
      /\ seen <= 2 * values + Waits /\ elements <= 2 * values
  BY <1>1, Numbers
<1>6. Waits' = 1 /\ (Parsing' <=> Parsing) /\ phase' = "parsing" BY <1>1 DEF Waits, Parsing
<1>7. SafeTypes'
  <2>1. SafeTypes BY DEF SafeInv
  <2>2. seen + 1 \in Nat /\ seen + 1 <= 2 * values + 1 BY <1>5
  <2>. QED BY <1>1, <1>6, <2>1, <2>2 DEF SafeTypes
<1>8. Totals'
  <2>1. /\ ~twice => elements + 0 <= seen
        /\ AllHooked => seen <= elements + 0 /\ (elements = 0 \/ ~Over(Limit("total"), elements + 1))
    BY <1>1, <1>5 DEF SafeInv, Totals
  <2>2. /\ 1 <= seen + 1 /\ (~twice => elements + 1 <= seen + 1) /\ (AllHooked => seen + 1 <= elements + 1)
    BY <1>5, <2>1
  <2>. QED BY <1>1, <1>4, <1>6, <2>1, <2>2 DEF Totals
<1>9. Depths' BY <1>1, <1>4 DEF SafeInv, Depths
<1>10. Counts' BY <1>1, <1>4 DEF SafeInv, Counts
<1>. QED BY <1>2, <1>4, <1>6, <1>7, <1>8, <1>9, <1>10, SafeAssembled

LEMMA AnnounceSafe ==
    ASSUME SafeInv, NEW k \in Keys, Announce(k), Passes("add_str", 1), twice' = TRUE
    PROVE  SafeInv'
<1>1. /\ Parsing /\ InObject /\ ~member /\ member' = TRUE /\ open' = open /\ cstack' = cstack
      /\ ref' = ref /\ set' = set /\ phase' = phase /\ values' = values + 1
  BY DEF Announce, options, call
<1>2. UsualInv /\ UsualInv' BY AnnounceKeeps DEF SafeInv
<1>3. /\ seen' = seen + 1 /\ limits' = limits /\ hooked' = hooked /\ refused' = refused
      /\ elements' = elements \/ elements' = elements + Weight
  BY PassedOn
<1>4. Settled BY <1>1, <1>3 DEF Settled
<1>5. /\ AllHooked' = AllHooked /\ Sizes' = Sizes /\ Limit("total")' = Limit("total")
      /\ Limit("depth")' = Limit("depth") /\ Unreplaced'
  BY <1>4, SettledKeeps DEF SafeInv, AllHooked
<1>6. /\ elements \in Nat /\ seen \in Nat /\ values \in Nat /\ Waits = 0 /\ Weight = 2
      /\ seen <= 2 * values + Waits /\ elements <= 2 * values
  BY <1>1, Numbers DEF Weight
<1>7. Waits' = 1 /\ (Parsing' <=> Parsing) /\ phase' = "parsing" BY <1>1 DEF Waits, Parsing
<1>8. /\ Stacks(vstack, kstack, cstack, open) /\ Frames(open, ref.frames)
      /\ open # <<>> /\ open[Len(open)] = "object"
  BY <1>1, <1>2, Facts
<1>9. SafeTypes'
  <2>1. SafeTypes BY DEF SafeInv
  <2>2. /\ seen' \in Nat /\ seen' <= 2 * values' + 1
        /\ elements' \in Nat /\ elements' <= 2 * values' + 0
    BY <1>1, <1>3, <1>6
  <2>3. twice' \in BOOLEAN OBVIOUS
  <2>. QED BY <1>1, <1>3, <1>7, <2>1, <2>2, <2>3 DEF SafeTypes
<1>10. AllHooked => /\ ~Over(Limit(Last(open)), Items + 1) /\ ~Over(Limit("total"), elements + Weight + 1)
                    /\ elements' = elements + Weight
  <2>1. "add_str" \in Checks BY DEF Checks
  <2>. QED BY <1>8, <2>1, PassedAll
<1>11. Totals'
  <2>1. AllHooked => seen <= elements + 0 BY <1>1, <1>6 DEF SafeInv, Totals
  <2>2. 1 <= seen' BY <1>3, <1>6
  <2>3. AllHooked => seen' <= elements' + 1 BY <1>3, <1>6, <1>10, <2>1
  <2>4. AllHooked => ~Over(Limit("total"), elements' + 1) BY <1>10
  <2>. QED BY <1>5, <1>7, <2>2, <2>3, <2>4 DEF Totals
<1>12. Depths' BY <1>1, <1>5 DEF SafeInv, Depths
<1>13. Tallied(TRUE, AllHooked, Sizes, vstack', cstack, open, ref.frames)
  <2>1. Tallied(twice, AllHooked, Sizes, vstack, cstack, open, ref.frames) BY <1>1 DEF SafeInv, Counts
  <2>2. CASE set.create /\ k = CreateId /\ Resolves(buf)
    <3>1. vstack' = [vstack EXCEPT ![col.vi + 1] = Class(buf)] BY <2>2 DEF Announce
    <3>2. Len(vstack') = Len(vstack) BY <1>1, <1>2, <3>1, ClassKept
    <3>3. AllHooked = FALSE BY <2>2 DEF SafeInv, Unreplaced, AllHooked
    <3>4. ASSUME NEW i \in 1..Len(open)
          PROVE  InTally(TRUE, FALSE, Sizes[open[i]], Tally(Len(vstack'), cstack, open, i), Asked(open, ref.frames, i))
      BY DEF InTally
    <3>. QED BY <3>3, <3>4 DEF Tallied
  <2>3. CASE ~(set.create /\ k = CreateId /\ Resolves(buf))
    <3>1. vstack' = vstack \o <<Undef, Str(buf)>> BY <2>3 DEF Announce
    <3>2. Sequence(vstack) BY <1>8, StackFacts
    <3>3. Len(vstack') = Len(vstack) + 2 BY <3>1, <3>2, Joined
    <3>4. Longer(vstack, open, vstack') BY <1>8, <3>3 DEF Longer
    <3>5. AllHooked => ~Over(Sizes[open[Len(open)]], Tally(Len(vstack), cstack, open, Len(open)) + 1)
      <4>1. /\ Items = Tally(Len(vstack), cstack, open, Len(open))
            /\ Last(open) = open[Len(open)] /\ Last(open) \in {"array", "object"}
        BY <1>1, <1>2, <1>8, ItemsAre
      <4>2. Sizes[open[Len(open)]] = Limit(Last(open)) BY <4>1, SizesAre
      <4>. QED BY <1>10, <4>1, <4>2
    <3>. QED BY <1>8, <2>1, <3>4, <3>5, TalliedLonger
  <2>. QED BY <2>2, <2>3
<1>14. Counts'
  <2>1. refused' = "none" BY <1>1, <1>3 DEF SafeInv, Counts
  <2>. QED BY <1>1, <1>5, <1>13, <2>1 DEF Counts
<1>. QED BY <1>2, <1>5, <1>7, <1>9, <1>11, <1>12, <1>14, SafeAssembled

-----------------------------------------------------------------------------
(* Containers.                                                               *)

LEMMA OpenSafe ==
    ASSUME SafeInv, NEW kind \in {"array", "object"}, Open(kind), Passes("open", Value), twice' = twice
    PROVE  SafeInv'
<1>1. /\ Parsing /\ (InObject => member) /\ open' = Append(open, kind) /\ ref' = RefOpen(kind)
      /\ set' = set /\ phase' = phase /\ member' = FALSE /\ values' = values + 1 /\ OpenCol(kind)
  BY DEF Open, CanAdd, options, call
<1>2. UsualInv /\ UsualInv' BY OpenKeeps DEF SafeInv
<1>3. phase' = "parsing" /\ Parsing' /\ "open" \in Checks BY <1>1 DEF Parsing, Checks
<1>4. SafeTypes' /\ Totals' /\ Settled BY <1>1, <1>3, ValueTotals
<1>5. AllHooked' = AllHooked /\ Sizes' = Sizes /\ Limit("depth")' = Limit("depth") /\ Unreplaced'
  BY <1>4, SettledKeeps DEF SafeInv, AllHooked
<1>6. /\ Stacks(vstack, kstack, cstack, open) /\ Frames(open, ref.frames) /\ Sequence(open)
      /\ Sequence(vstack) /\ Len(vstack) \in Nat /\ Len(open) \in Nat /\ (open = <<>> <=> Len(open) = 0)
  BY <1>1, <1>2, Facts
<1>7. open # <<>> =>
          /\ AllHooked => /\ ~Over(Limit(Last(open)), Items + 1) /\ ~Over(Limit("depth"), Len(open) + 1)
          /\ Items = Tally(Len(vstack), cstack, open, Len(open))
          /\ Last(open) = open[Len(open)] /\ Last(open) \in {"array", "object"}
          /\ Weight = IF open[Len(open)] = "object" THEN 2 ELSE 1
  BY <1>1, <1>2, <1>3, PassedAll, ItemsAre
<1>8. Depths'
  <2>1. Len(open') = Len(open) + 1 BY <1>1, <1>6, Appended
  <2>2. CASE open = <<>> BY <1>6, <2>1, <2>2 DEF Depths
  <2>3. CASE open # <<>> BY <1>5, <1>7, <2>1, <2>3 DEF Depths
  <2>. QED BY <2>2, <2>3
<1>. DEFINE e == [vi |-> ValueIndex, ki |-> IF kind = "array" THEN -1 ELSE Len(kstack')]
            f == [kind |-> kind, name |-> key, items |-> <<>>]
<1>9. cstack' = Append(cstack, e) /\ e.vi = ValueIndex BY <1>1 DEF OpenCol
<1>10. ref'.frames = Append(ref.frames, f) /\ f.items = <<>>
  <2>1. Reference(ref, open) BY <1>2 DEF UsualInv, Types
  <2>. QED BY <1>1, <1>6, <2>1, OpenHas
<1>. HIDE DEF e, f
<1>11. Len(vstack') = Len(vstack) + Weight /\ ValueIndex = Len(vstack') - 1 /\ Len(vstack') \in Nat
  <2>1. CASE InObject
    <3>1. vstack' = vstack \o <<Undef, Undef>> /\ Weight = 2 /\ ValueIndex = Len(vstack) + 1
      BY <1>1, <2>1 DEF OpenCol, Weight, ValueIndex
    <3>2. Len(vstack') = Len(vstack) + 2 BY <1>6, <3>1, Joined
    <3>. QED BY <1>6, <3>1, <3>2
  <2>2. CASE ~InObject
    <3>1. vstack' = Append(vstack, Undef) /\ Weight = 1 /\ ValueIndex = Len(vstack) + 0
      BY <1>1, <2>2 DEF OpenCol, Weight, ValueIndex
    <3>2. Len(vstack') = Len(vstack) + 1 BY <1>6, <3>1, Appended
    <3>. QED BY <1>6, <3>1, <3>2
  <2>. QED BY <2>1, <2>2
<1>12. open # <<>> => Longer(vstack, open, vstack') BY <1>7, <1>11 DEF Longer
<1>13. Tallied(twice, AllHooked, Sizes, vstack, cstack, open, ref.frames) /\ refused = "none"
  BY <1>1 DEF SafeInv, Counts
<1>14. open # <<>> /\ AllHooked =>
           ~Over(Sizes[open[Len(open)]], Tally(Len(vstack), cstack, open, Len(open)) + 1)
  <2>1. open # <<>> => Sizes[open[Len(open)]] = Limit(Last(open)) BY <1>7, SizesAre
  <2>. QED BY <1>7, <2>1
<1>15. e.vi = Len(vstack') - 1 BY <1>9, <1>11
<1>16. Tallied(twice, AllHooked, Sizes, vstack', Append(cstack, e), Append(open, kind), Append(ref.frames, f))
  BY <1>6, <1>10, <1>11, <1>12, <1>13, <1>14, <1>15, TalliedOpened
<1>17. Counts'
  <2>1. refused' = "none" BY <1>4, <1>13 DEF Settled
  <2>. QED BY <1>1, <1>5, <1>9, <1>10, <1>16, <2>1 DEF Counts
<1>. QED BY <1>2, <1>3, <1>4, <1>5, <1>8, <1>17, SafeAssembled

LEMMA CloseSafe ==
    ASSUME SafeInv, NEW kind \in {"array", "object"}, Close(kind),
           seen' = IF member THEN seen - 1 ELSE seen,
           UNCHANGED <<limits, elements, hooked, refused, twice>>
    PROVE  SafeInv'
<1>. DEFINE v == ClosedValue(kind)
            l == Len(open)
            ws == Dropped(v)
<1>1. /\ Parsing /\ open' = Front(open) /\ member' = FALSE /\ ref' = RefClose
      /\ set' = set /\ phase' = phase /\ values' = values
      /\ limits' = limits /\ elements' = elements /\ hooked' = hooked /\ refused' = refused /\ twice' = twice
  BY DEF Close, options
<1>2. UsualInv /\ UsualInv' BY CloseKeeps DEF SafeInv
<1>3. Settled BY <1>1 DEF Settled
<1>4. /\ AllHooked' = AllHooked /\ Sizes' = Sizes /\ Limit("total")' = Limit("total")
      /\ Limit("depth")' = Limit("depth") /\ Unreplaced'
  BY <1>3, SettledKeeps DEF SafeInv, AllHooked
<1>5. /\ elements \in Nat /\ seen \in Nat /\ values \in Nat /\ Waits \in {0, 1}
      /\ seen <= 2 * values + Waits /\ elements <= 2 * values
      /\ (member => Waits = 1) /\ (~member => Waits = 0) /\ twice \in BOOLEAN
  BY <1>1, Numbers
<1>6. Waits' = 0 /\ (Parsing' <=> Parsing) /\ phase' = "parsing" BY <1>1 DEF Waits, Parsing
<1>7. /\ Waits <= seen
      /\ ~twice => elements + Waits <= seen
      /\ AllHooked => seen <= elements + Waits /\ (elements = 0 \/ ~Over(Limit("total"), elements + 1))
  BY <1>1 DEF SafeInv, Totals
<1>8. seen' = seen - Waits BY <1>5
<1>9. SafeTypes'
  <2>1. SafeTypes BY DEF SafeInv
  <2>2. seen' \in Nat /\ seen' <= 2 * values + 0 BY <1>5, <1>7, <1>8
  <2>. QED BY <1>1, <1>6, <2>1, <2>2 DEF SafeTypes
<1>10. Totals'
  <2>1. 0 <= seen' /\ (~twice => elements + 0 <= seen') /\ (AllHooked => seen' <= elements + 0)
    BY <1>5, <1>7, <1>8
  <2>. QED BY <1>1, <1>4, <1>6, <1>7, <2>1 DEF Totals
<1>11. /\ Stacks(vstack, kstack, cstack, open) /\ Frames(open, ref.frames) /\ Sequence(open)
       /\ Len(cstack) = l /\ l \in Nat
  BY <1>1, <1>2, Facts
<1>12. /\ open # <<>> /\ open[l] = kind
       /\ Closing(vstack, kstack, cstack, open, ws, kstack', v)
       /\ cstack' = Front(cstack)
       /\ ~Yielding(v) => vstack' = ws
       /\ Yielding(v) => Len(ws) = 1
  BY <1>2, ClosingSteps
<1>. HIDE DEF v, ws
<1>13. Len(ws) = cstack[l].vi + 1 BY <1>11, <1>12, CloseStacks
<1>14. l \in 1..l /\ 1 \in 1..l BY <1>11, <1>12, StackFacts
<1>15. Len(open) # 1 => Len(vstack') = cstack[Len(open)].vi + 1
  <2>1. SUFFICES ASSUME l # 1 PROVE ~Yielding(v) BY <1>12, <1>13
  <2>2. cstack[1].vi < cstack[l].vi BY <1>11, <1>14, <2>1 DEF Stacks, Rising
  <2>3. cstack[1].vi \in Nat /\ cstack[l].vi \in Nat BY <1>11, <1>14, LevelFacts
  <2>4. Len(ws) # 1 BY ONLY <1>13, <2>2, <2>3
  <2>. QED BY <1>12, <2>4
<1>16. Depths'
  <2>1. Len(open') = l - 1 BY <1>1, <1>11, <1>12, FrontCut
  <2>2. AllHooked => l <= 1 \/ ~Over(Limit("depth"), l) BY DEF SafeInv, Depths
  <2>3. Limit("depth") \subseteq Int BY LimitIs DEF SafeInv
  <2>4. l \in Int /\ l - 1 \in Int /\ l - 1 <= l BY <1>11
  <2>5. Over(Limit("depth"), l - 1) => Over(Limit("depth"), l) BY <2>3, <2>4, OverMore
  <2>6. AllHooked => l - 1 <= 1 \/ ~Over(Limit("depth"), l - 1) BY <1>11, <2>2, <2>5
  <2>. QED BY <1>4, <2>1, <2>6 DEF Depths
<1>17. Taking(open, ref.frames, ref'.frames)
  <2>. DEFINE f == Last(ref.frames)
              t == Tree(f.kind, f.items)
  <2>1. Reference(ref, open) BY <1>2 DEF UsualInv, Types
  <2>2. Taken(open, ref.frames, RefClose.frames, t) BY <1>11, <1>12, <2>1, CloseHas
  <2>. HIDE DEF t
  <2>. QED BY <1>1, <1>11, <1>12, <2>2, TakenItems
<1>18. Tallied(twice, AllHooked, Sizes, vstack, cstack, open, ref.frames) /\ refused = "none"
  BY <1>1 DEF SafeInv, Counts
<1>19. Tallied(twice, AllHooked, Sizes, vstack', Front(cstack), Front(open), ref'.frames)
  BY <1>11, <1>12, <1>15, <1>17, <1>18, TalliedClosed
<1>20. Counts' BY <1>1, <1>4, <1>12, <1>18, <1>19 DEF Counts
<1>. QED BY <1>2, <1>4, <1>6, <1>9, <1>10, <1>16, <1>20, SafeAssembled

-----------------------------------------------------------------------------
(* Where a call begins and ends, and between calls.                          *)

LEMMA BeginSafe ==
    ASSUME SafeInv, NEW b \in BOOLEAN, Begin(b), elements' = NoElements, refused' = "none", seen' = 0,
           twice' = FALSE, UNCHANGED <<limits, hooked>>
    PROVE  SafeInv'
<1>1. /\ vstack' = <<>> /\ cstack' = <<>> /\ open' = <<>> /\ member' = FALSE /\ phase' = "parsing"
      /\ values' = 0 /\ set' = set /\ limits' = limits /\ hooked' = hooked /\ elements' = 0
  BY DEF Begin, Start, options, NoElements
<1>2. UsualInv' BY BeginKeeps DEF SafeInv
<1>3. Waits' = 0 /\ Parsing' BY <1>1 DEF Waits, Parsing
<1>4. SafeTypes'
  <2>1. limits' \in LimitSets /\ hooked' \subseteq Checks BY <1>1 DEF SafeInv, SafeTypes
  <2>2. refused' \in {"none", "size", "depth", "total"} /\ twice' \in BOOLEAN OBVIOUS
  <2>3. elements' \in Nat /\ elements' <= 2 * values' + (IF Parsing' THEN 0 ELSE 2) BY <1>1, <1>3
  <2>4. seen' \in Nat /\ seen' <= 2 * values' + Waits' BY <1>1, <1>3
  <2>. QED BY <2>1, <2>2, <2>3, <2>4 DEF SafeTypes
<1>5. Unreplaced' BY <1>1 DEF SafeInv, Unreplaced, AllHooked
<1>6. Totals' BY <1>1, <1>3 DEF Totals
<1>7. Len(<<>>) = 0 /\ 1..Len(<<>>) = {} BY Empty
<1>8. Depths' BY <1>1, <1>7 DEF Depths
<1>9. Counts' BY <1>1, <1>7 DEF Counts, Tallied
<1>. QED BY <1>1, <1>2, <1>4, <1>5, <1>6, <1>8, <1>9, SafeAssembled

\* Nothing that has been read changes any more.
LEMMA EndedKeeps ==
    ASSUME SafeInv, UsualInv', SafeTypes', Unreplaced', phase' # "parsing", RefusesOnlyOver',
           limits' = limits, hooked' \subseteq hooked, open' = open, member' = member, ref' = ref, seen' = seen
    PROVE  SafeInv'
<1>1. LimitsKept
  <2>1. CASE Parsing BY <2>1, ParsingWithin DEF SafeInv
  <2>2. CASE ~Parsing BY <2>2 DEF SafeInv, Ended
  <2>. QED BY <2>1, <2>2
<1>2. AllHooked' => AllHooked BY DEF SafeInv, SafeTypes, AllHooked
<1>3. Depths' BY <1>2 DEF SafeInv, Depths, Limit
<1>4. LimitsKept'
  <2>1. AllHooked => Within BY <1>1 DEF LimitsKept, AllHooked, Checks
  <2>2. Within => Within' BY DEF Within, Limit
  <2>3. AllHooked' => Within' BY <1>2, <2>1, <2>2
  <2>. QED BY <2>3 DEF LimitsKept, AllHooked, Checks
<1>5. Totals' /\ Counts' BY DEF Totals, Counts, Parsing
<1>6. Ended' BY <1>4 DEF Ended
<1>. QED BY <1>3, <1>5, <1>6 DEF SafeInv

\* A call that ends, or an option that leaves every function its check.
LEMMA SameSafe ==
    ASSUME SafeInv, UsualInv', phase' # "parsing", UNCHANGED safe,
           open' = open, member' = member, ref' = ref, values' = values,
           set'.create = set.create, set'.omit_null = set.omit_null
    PROVE  SafeInv'
<1>1. /\ limits' = limits /\ elements' = elements /\ hooked' = hooked /\ refused' = refused
      /\ seen' = seen /\ twice' = twice
  BY DEF safe
<1>2. ~Parsing' /\ Waits' = Waits BY DEF Parsing, Waits
<1>3. SafeTypes'
  <2>1. SafeTypes BY DEF SafeInv
  <2>2. elements <= 2 * values + 2
    <3>1. elements \in Nat /\ values \in Nat BY Numbers
    <3>2. elements <= 2 * values + 0 \/ elements <= 2 * values + 2 BY <2>1 DEF SafeTypes
    <3>. QED BY <3>1, <3>2
  <2>. QED BY <1>1, <1>2, <2>1, <2>2 DEF SafeTypes
<1>4. Unreplaced' BY <1>1 DEF SafeInv, Unreplaced, AllHooked
<1>5. RefusesOnlyOver'
  <2>1. RefusesOnlyOver
    <3>1. CASE Parsing BY <3>1, ParsingWithin DEF SafeInv
    <3>2. CASE ~Parsing BY <3>2 DEF SafeInv, Ended
    <3>. QED BY <3>1, <3>2
  <2>. QED BY <1>1, <2>1 DEF RefusesOnlyOver, Limit
<1>. QED BY <1>1, <1>3, <1>4, <1>5, EndedKeeps

LEMMA ReturnSafe ==
    ASSUME SafeInv, Return, UNCHANGED safe
    PROVE  SafeInv'
<1>1. /\ open' = open /\ member' = member /\ ref' = ref /\ values' = values /\ set' = set
      /\ phase' = (IF vstack = <<>> /\ set.raise_on_empty THEN "raised" ELSE "returned")
  BY DEF Return, options
<1>2. UsualInv' BY ReturnKeeps DEF SafeInv
<1>3. phase' # "parsing" BY <1>1
<1>. QED BY <1>1, <1>2, <1>3, SameSafe

LEMMA RaiseSafe ==
    ASSUME SafeInv, Raise, UNCHANGED safe
    PROVE  SafeInv'
<1>1. open' = open /\ member' = member /\ ref' = ref /\ values' = values /\ set' = set /\ phase' = "raised"
  BY DEF Raise, options
<1>2. UsualInv' BY RaiseKeeps DEF SafeInv
<1>. QED BY <1>1, <1>2, SameSafe

LEMMA OptionLeaves ==
    ASSUME NEW s, Option(s)
    PROVE  /\ open' = open /\ member' = member /\ ref' = ref /\ values' = values
           /\ phase' # "parsing" /\ set' = s
BY DEF Option, call, Idle

LEMMA HashClassSafe ==
    ASSUME SafeInv, NEW on \in BOOLEAN, SetHashClass(on), UNCHANGED safe
    PROVE  SafeInv'
<1>. DEFINE s == [set EXCEPT !.hash_class = on]
<1>1. s.create = set.create /\ s.omit_null = set.omit_null BY Chosen DEF SafeInv
<1>2. Option(s) BY DEF SetHashClass
<1>. HIDE DEF s
<1>3. UsualInv' BY OptionsKeep DEF SafeInv
<1>4. /\ open' = open /\ member' = member /\ ref' = ref /\ values' = values
      /\ phase' # "parsing" /\ set' = s
  BY <1>2, OptionLeaves
<1>. QED BY <1>1, <1>3, <1>4, SameSafe

LEMMA OtherSafe ==
    ASSUME SafeInv, SetOther, UNCHANGED safe
    PROVE  SafeInv'
<1>1. PICK s : Option(s) /\ s.create = set.create /\ s.omit_null = set.omit_null
  <2>1. CASE \E on \in BOOLEAN : SetArrayClass(on) \/ SetIgnoreJsonCreate(on) \/ SetRaiseOnEmpty(on)
    <3>1. PICK on \in BOOLEAN : SetArrayClass(on) \/ SetIgnoreJsonCreate(on) \/ SetRaiseOnEmpty(on) BY <2>1
    <3>2. CASE SetArrayClass(on)
      <4>. DEFINE t == [set EXCEPT !.array_class = on]
      <4>1. t.create = set.create /\ t.omit_null = set.omit_null BY Chosen DEF SafeInv
      <4>2. Option(t) BY <3>2 DEF SetArrayClass
      <4>. HIDE DEF t
      <4>. QED BY <4>1, <4>2
    <3>3. CASE SetIgnoreJsonCreate(on)
      <4>. DEFINE t == [set EXCEPT !.ignore_json_create = on]
      <4>1. t.create = set.create /\ t.omit_null = set.omit_null BY Chosen DEF SafeInv
      <4>2. Option(t) BY <3>3 DEF SetIgnoreJsonCreate
      <4>. HIDE DEF t
      <4>. QED BY <4>1, <4>2
    <3>4. CASE SetRaiseOnEmpty(on)
      <4>. DEFINE t == [set EXCEPT !.raise_on_empty = on]
      <4>1. t.create = set.create /\ t.omit_null = set.omit_null BY Chosen DEF SafeInv
      <4>2. Option(t) BY <3>4 DEF SetRaiseOnEmpty
      <4>. HIDE DEF t
      <4>. QED BY <4>1, <4>2
    <3>. QED BY <3>1, <3>2, <3>3, <3>4
  <2>2. CASE \E mode \in {"auto", "ignore", "raise"} : SetMissingClass(mode)
    <3>1. PICK mode \in {"auto", "ignore", "raise"} : SetMissingClass(mode) BY <2>2
    <3>. DEFINE t == [set EXCEPT !.missing_class = mode]
    <3>2. t.create = set.create /\ t.omit_null = set.omit_null BY Chosen DEF SafeInv
    <3>3. Option(t) BY <3>1 DEF SetMissingClass
    <3>. HIDE DEF t
    <3>. QED BY <3>2, <3>3
  <2>. QED BY <2>1, <2>2 DEF SetOther
<1>2. UsualInv' BY OtherKeeps DEF SafeInv
<1>3. /\ open' = open /\ member' = member /\ ref' = ref /\ values' = values
      /\ phase' # "parsing" /\ set' = s
  BY <1>1, OptionLeaves
<1>. QED BY <1>1, <1>2, <1>3, SameSafe

LEMMA CapacitySafe ==
    ASSUME SafeInv, SetCapacity, UNCHANGED safe
    PROVE  SafeInv'
<1>1. open' = open /\ member' = member /\ ref' = ref /\ values' = values /\ set' = set /\ phase' # "parsing"
  BY DEF SetCapacity, options, call, Idle
<1>2. UsualInv' BY CapacityKeeps DEF SafeInv
<1>. QED BY <1>1, <1>2, SameSafe

\* An option that puts functions in the place of those with a check.
LEMMA ReplacingSafe ==
    ASSUME SafeInv, NEW on \in BOOLEAN, NEW fun \in Checks, SetOmitNull(on) \/ SetCreateId(on),
           hooked' = hooked \ {fun}, UNCHANGED <<limits, elements, refused, seen, twice>>
    PROVE  SafeInv'
<1>1. PICK s : Option(s) BY DEF SetOmitNull, SetCreateId
<1>2. UsualInv' BY OptionsKeep DEF SafeInv
<1>3. /\ open' = open /\ member' = member /\ ref' = ref /\ values' = values
      /\ phase' # "parsing" /\ phase' = phase
  BY <1>1, OptionLeaves DEF Option, call
<1>4. ~AllHooked' BY DEF AllHooked
<1>5. SafeTypes' BY <1>3 DEF SafeInv, SafeTypes, Waits, Parsing
<1>6. Unreplaced' BY <1>4 DEF Unreplaced
<1>7. RefusesOnlyOver'
  <2>1. RefusesOnlyOver
    <3>1. CASE Parsing BY <3>1, ParsingWithin DEF SafeInv
    <3>2. CASE ~Parsing BY <3>2 DEF SafeInv, Ended
    <3>. QED BY <3>1, <3>2
  <2>. QED BY <1>3, <2>1 DEF RefusesOnlyOver, Limit
<1>. QED BY <1>2, <1>3, <1>5, <1>6, <1>7, EndedKeeps

-----------------------------------------------------------------------------
(* Checks that refuse.                                                       *)

\* A refused value leaves the usual delegate where an error leaves it.
LEMMA RefuseRaises ==
    ASSUME NEW fun, Refuse(fun) \/ RefuseAnnounced
    PROVE  Raise
<1>1. CASE Refuse(fun)
  BY <1>1 DEF Refuse, Stopped, Raise, CanAdd, stacks
<1>2. CASE RefuseAnnounced
  BY <1>2 DEF RefuseAnnounced, Raise
<1>. QED BY <1>1, <1>2

LEMMA StoppedTypes ==
    ASSUME SafeInv, Parsing, NEW fun, Refuses(fun), refused' = Refusal(fun), elements' = elements + Weight,
           phase' = "raised", member' = member, values' = values, twice' \in BOOLEAN,
           limits' = limits, hooked' = hooked, seen' = seen
    PROVE  SafeTypes'
<1>1. SafeTypes /\ elements \in Nat /\ values \in Nat /\ elements <= 2 * values BY Numbers DEF SafeInv
<1>2. Weight \in {1, 2} BY DEF Weight
<1>3. elements' \in Nat /\ elements' <= 2 * values + 2 BY <1>1, <1>2
<1>4. refused' \in {"none", "size", "depth", "total"} BY DEF Refusal
<1>5. ~Parsing' /\ Waits' = Waits BY DEF Parsing, Waits
<1>. QED BY <1>1, <1>3, <1>4, <1>5 DEF SafeTypes

LEMMA RefuseSafe ==
    ASSUME SafeInv, NEW fun \in Checks, Refuse(fun)
    PROVE  SafeInv'
<1>1. /\ CanAdd /\ Refuses(fun) /\ refused' = Refusal(fun) /\ elements' = elements + Weight
      /\ phase' = "raised" /\ open' = open /\ member' = member /\ ref' = ref /\ values' = values
      /\ set' = set /\ limits' = limits /\ hooked' = hooked /\ seen' = seen /\ twice' = twice
  BY DEF Refuse, Stopped, options
<1>2. Parsing /\ (InObject => member) BY <1>1 DEF CanAdd
<1>3. Raise BY RefuseRaises
<1>4. UsualInv' BY <1>3, RaiseKeeps DEF SafeInv
<1>5. twice' \in BOOLEAN BY <1>1 DEF SafeInv, SafeTypes
<1>6. SafeTypes' BY <1>1, <1>2, <1>5, StoppedTypes
<1>7. Unreplaced' BY <1>1 DEF SafeInv, Unreplaced, AllHooked
<1>8. open # <<>> BY <1>1 DEF Refuses, Checked
<1>. DEFINE l == Len(open)
            f == ref.frames[l]
<1>9. /\ Items = Tally(Len(vstack), cstack, open, l) /\ Items \in Nat
      /\ Last(open) = open[l] /\ Last(open) \in {"array", "object"}
      /\ Weight = IF open[l] = "object" THEN 2 ELSE 1
  BY <1>2, <1>8, ItemsAre DEF SafeInv
<1>10. /\ Stacks(vstack, kstack, cstack, open) /\ Frames(open, ref.frames) /\ Sequence(open)
       /\ l \in 1..l /\ (InObject <=> open[l] = "object") /\ (member => InObject)
  BY <1>2, <1>8, Facts DEF SafeInv
<1>11. Last(ref.frames) = f BY <1>10 DEF Last, Frames
<1>12. ~twice => Items <= Len(f.items)
  <2>1. InTally(twice, AllHooked, Sizes[open[l]], Items, Asked(open, ref.frames, l))
    BY <1>2, <1>9, <1>10 DEF SafeInv, Counts, Tallied
  <2>2. Len(f.items) \in Nat BY <1>10, AskedIs
  <2>3. Asked(open, ref.frames, l) = Len(f.items) + 0
    <3>1. ~(l < l) BY <1>10
    <3>. QED BY <3>1 DEF Asked
  <2>4. \A a \in Nat : a + 0 = a OBVIOUS
  <2>5. Asked(open, ref.frames, l) = Len(f.items) BY ONLY <2>2, <2>3, <2>4
  <2>. QED BY <2>1, <2>5 DEF InTally
<1>13. /\ elements \in Nat /\ seen \in Nat /\ (member => Waits = 1) /\ (~member => Waits = 0)
  BY Numbers
<1>14. ~twice => elements + Weight + 1 <= seen + 2
  <2>1. Weight = 1 + Waits BY <1>2, <1>9, <1>10, <1>13
  <2>2. Waits \in {0, 1} BY DEF Waits
  <2>3. ~twice => elements + Waits <= seen BY <1>2 DEF SafeInv, Totals
  <2>. QED BY <1>13, <2>1, <2>2, <2>3
<1>15. \A name \in {"object", "array", "depth", "total"} : Limit(name) \subseteq Int
  BY LimitIs DEF SafeInv
<1>16. ASSUME refused' # "none", ~twice
       PROVE  \/ refused' = "size" /\ Over(Limit(Last(open)), Len(Last(ref.frames).items) + 1)
              \/ refused' = "depth" /\ Over(Limit("depth"), Len(open) + 1)
              \/ refused' = "total" /\ Over(Limit("total"), seen + 2)
  <2>1. Refusal(fun) # "none" BY <1>1, <1>16
  <2>2. CASE Over(Limit(Last(open)), Items + 1)
    <3>1. Len(f.items) \in Nat BY <1>10, AskedIs
    <3>2. Items + 1 <= Len(f.items) + 1 /\ Items + 1 \in Int /\ Len(f.items) + 1 \in Int
      BY <1>9, <1>12, <1>16, <3>1
    <3>3. Limit(Last(open)) \subseteq Int BY <1>9, <1>15
    <3>4. Over(Limit(Last(open)), Len(f.items) + 1) BY <2>2, <3>2, <3>3, OverMore
    <3>5. refused' = "size" BY <1>1, <2>2 DEF Refusal
    <3>. QED BY <1>11, <3>4, <3>5
  <2>3. CASE ~Over(Limit(Last(open)), Items + 1) /\ fun = "open" /\ Over(Limit("depth"), Len(open) + 1)
    <3>1. refused' = "depth" BY <1>1, <2>3 DEF Refusal
    <3>. QED BY <2>3, <3>1
  <2>4. CASE ~Over(Limit(Last(open)), Items + 1) /\ ~(fun = "open" /\ Over(Limit("depth"), Len(open) + 1))
    <3>1. Refusal(fun) = IF Over(Limit("total"), elements + Weight + 1) THEN "total" ELSE "none"
      BY <2>4 DEF Refusal
    <3>2. Over(Limit("total"), elements + Weight + 1) /\ refused' = "total" BY <1>1, <2>1, <3>1
    <3>3. Weight \in {1, 2} BY DEF Weight
    <3>4. elements + Weight + 1 \in Int /\ seen + 2 \in Int BY <1>13, <3>3
    <3>5. Over(Limit("total"), seen + 2) BY <1>14, <1>15, <1>16, <3>2, <3>4, OverMore
    <3>. QED BY <3>2, <3>5
  <2>. QED BY <2>2, <2>3, <2>4
<1>17. RefusesOnlyOver' BY <1>1, <1>16 DEF RefusesOnlyOver, Limit
<1>. QED BY <1>1, <1>4, <1>6, <1>7, <1>17, EndedKeeps

LEMMA RefuseAnnouncedSafe ==
    ASSUME SafeInv, RefuseAnnounced
    PROVE  SafeInv'
<1>1. /\ Parsing /\ Refuses("add_str") /\ refused' = Refusal("add_str") /\ elements' = elements + Weight
      /\ phase' = "raised" /\ open' = open /\ member' = member /\ ref' = ref /\ values' = values
      /\ set' = set /\ limits' = limits /\ hooked' = hooked /\ seen' = seen /\ twice' = TRUE
  BY DEF RefuseAnnounced, options
<1>2. Raise BY RefuseRaises
<1>3. UsualInv' BY <1>2, RaiseKeeps DEF SafeInv
<1>4. SafeTypes' BY <1>1, StoppedTypes
<1>5. Unreplaced' BY <1>1 DEF SafeInv, Unreplaced, AllHooked
<1>6. RefusesOnlyOver' BY <1>1 DEF RefusesOnlyOver
<1>. QED BY <1>1, <1>3, <1>4, <1>5, <1>6, EndedKeeps

-----------------------------------------------------------------------------
LEMMA FirstSafe == SafeInit => SafeInv
<1>1. SUFFICES ASSUME SafeInit PROVE SafeInv OBVIOUS
<1>2. /\ Init /\ limits \in LimitSets /\ elements = 0 /\ hooked = Checks
      /\ refused = "none" /\ seen = 0 /\ twice = FALSE
  BY <1>1 DEF SafeInit, Checks
<1>3. UsualInv BY <1>2, FirstInv
<1>4. open = <<>> /\ member = FALSE /\ set = Defaults /\ phase = "idle" /\ values = 0
      /\ ref = [frames |-> <<>>, docs |-> <<>>]
  BY <1>2 DEF Init
<1>5. Waits = 0 /\ ~Parsing BY <1>4 DEF Waits, Parsing
<1>6. SafeTypes
  <2>1. limits \in LimitSets /\ hooked \subseteq Checks BY <1>2
  <2>2. refused \in {"none", "size", "depth", "total"} /\ twice \in BOOLEAN BY <1>2
  <2>3. elements \in Nat /\ elements <= 2 * values + (IF Parsing THEN 0 ELSE 2) BY <1>2, <1>4, <1>5
  <2>4. seen \in Nat /\ seen <= 2 * values + Waits BY <1>2, <1>4, <1>5
  <2>. QED BY <2>1, <2>2, <2>3, <2>4 DEF SafeTypes
<1>7. Unreplaced BY <1>4 DEF Unreplaced, Defaults
<1>8. Totals /\ Counts BY <1>5 DEF Totals, Counts
<1>9. Len(<<>>) = 0 /\ DOMAIN <<>> = {} BY Empty, Lengths
<1>10. Depths BY <1>4, <1>9 DEF Depths
<1>11. Within BY <1>2, <1>4, <1>9 DEF Within
<1>12. Ended BY <1>2, <1>11 DEF Ended, LimitsKept, RefusesOnlyOver
<1>. QED BY <1>3, <1>6, <1>7, <1>8, <1>10, <1>12 DEF SafeInv

LEMMA NextSafe == SafeInv /\ [SafeNext]_safeVars => SafeInv'
<1>1. SUFFICES ASSUME SafeInv, [SafeNext]_safeVars PROVE SafeInv' OBVIOUS
<1>2. CASE /\ \E b \in BOOLEAN : Begin(b)
           /\ elements' = NoElements /\ refused' = "none" /\ seen' = 0 /\ twice' = FALSE
           /\ UNCHANGED <<limits, hooked>>
  BY <1>1, <1>2, BeginSafe
<1>3. ASSUME NEW k \in Keys, ReadKey(k), seen' = seen + 1, UNCHANGED <<limits, elements, hooked, refused, twice>>
      PROVE  SafeInv'
  BY <1>1, <1>3, KeySafe
<1>4. ASSUME NEW k \in Keys, Announce(k), Passes("add_str", 1), twice' = TRUE PROVE SafeInv'
  BY <1>1, <1>4, AnnounceSafe
<1>5. CASE ReadNull /\ Passes("add_null", Value) /\ UNCHANGED twice BY <1>1, <1>5, NullSafe
<1>6. CASE ReadScalar /\ Passes("add", Value) /\ UNCHANGED twice BY <1>1, <1>6, ScalarSafe
<1>7. ASSUME NEW s \in Texts, ReadString(s), Passes("add_str", Value), UNCHANGED twice PROVE SafeInv'
  BY <1>1, <1>7, StringSafe
<1>8. ASSUME NEW kind \in {"array", "object"}, Open(kind), Passes("open", Value), UNCHANGED twice PROVE SafeInv'
  BY <1>1, <1>8, OpenSafe
<1>9. ASSUME NEW fun \in {"open", "add", "add_null", "add_str"}, Refuse(fun) PROVE SafeInv'
  BY <1>1, <1>9, RefuseSafe DEF Checks
<1>10. CASE RefuseAnnounced BY <1>1, <1>10, RefuseAnnouncedSafe
<1>11. CASE /\ \E kind \in {"array", "object"} : Close(kind)
            /\ seen' = IF member THEN seen - 1 ELSE seen
            /\ UNCHANGED <<limits, elements, hooked, refused, twice>>
  BY <1>1, <1>11, CloseSafe
<1>12. CASE (Return \/ Raise \/ SetOther \/ SetCapacity) /\ UNCHANGED safe
  BY <1>1, <1>12, ReturnSafe, RaiseSafe, OtherSafe, CapacitySafe
<1>13. CASE (\E on \in BOOLEAN : SetHashClass(on)) /\ UNCHANGED safe BY <1>1, <1>13, HashClassSafe
<1>14. CASE /\ \E on \in BOOLEAN : SetOmitNull(on)
            /\ hooked' = hooked \ {"add_null"}
            /\ UNCHANGED <<limits, elements, refused, seen, twice>>
  BY <1>1, <1>14, ReplacingSafe DEF Checks
<1>15. CASE /\ \E on \in BOOLEAN : SetCreateId(on)
            /\ hooked' = hooked \ {"add_str"}
            /\ UNCHANGED <<limits, elements, refused, seen, twice>>
  BY <1>1, <1>15, ReplacingSafe DEF Checks
<1>16. CASE UNCHANGED safeVars
  <2>1. UNCHANGED vars /\ UNCHANGED safe BY <1>16 DEF safeVars
  <2>2. UsualInv' BY <1>1, <2>1, NextInv DEF SafeInv
  <2>. QED BY <1>1, <2>1, <2>2
       DEF vars, stacks, options, call, safe, SafeInv, SafeTypes, Unreplaced, Totals, Depths, Counts, Ended,
           AllHooked, Waits, Sizes, Limit, Parsing, LimitsKept, RefusesOnlyOver, Within
<1>. QED BY <1>1, <1>2, <1>3, <1>4, <1>5, <1>6, <1>7, <1>8, <1>9, <1>10, <1>11, <1>12, <1>13, <1>14, <1>15, <1>16
         DEF SafeNext

LEMMA SafeInvTypes == SafeInv => SafeTypeOK
<1>1. SUFFICES ASSUME SafeInv PROVE SafeTypeOK OBVIOUS
<1>2. InBounds BY <1>1, InvBounds DEF SafeInv
<1>3. values \in 0..MaxValues /\ MaxValues \in Nat BY <1>1, UsualAssumption DEF SafeInv, UsualInv, Types
<1>4. SafeTypes BY <1>1 DEF SafeInv
<1>5. elements \in 0..2 * (MaxValues + 1)
  <2>1. elements \in Nat /\ elements <= 2 * values + (IF Parsing THEN 0 ELSE 2) BY <1>4 DEF SafeTypes
  <2>2. elements <= 2 * values + 2 BY <1>3, <2>1
  <2>. QED BY <1>3, <2>1, <2>2
<1>6. seen \in 0..2 * MaxValues + 1
  <2>1. seen \in Nat /\ seen <= 2 * values + Waits /\ Waits \in {0, 1} BY <1>4 DEF SafeTypes, Waits
  <2>. QED BY <1>3, <2>1
<1>. QED BY <1>2, <1>4, <1>5, <1>6 DEF SafeTypes, SafeTypeOK, Checks

LEMMA SafeInvLimits == SafeInv => LimitsKept /\ RefusesOnlyOver
<1>1. SUFFICES ASSUME SafeInv PROVE LimitsKept /\ RefusesOnlyOver OBVIOUS
<1>2. CASE Parsing BY <1>1, <1>2, ParsingWithin DEF SafeInv
<1>3. CASE ~Parsing BY <1>1, <1>3 DEF SafeInv, Ended
<1>. QED BY <1>2, <1>3

-----------------------------------------------------------------------------
\* The invariant holds in every reachable state of the safe parser.
THEOREM SafeInvariant == SafeSpec => []SafeInv
BY FirstSafe, NextSafe, PTL DEF SafeSpec

\* The safe parser's counter and its history stay within what was read, and no
\* function it calls writes past what is allocated.
THEOREM SafeTyped == SafeSpec => []SafeTypeOK
BY SafeInvariant, SafeInvTypes, PTL

\* As long as no option has replaced a function with a check, no document the safe
\* parser takes has a container, a depth or a total past its limit.
THEOREM KeepsLimits == SafeSpec => []LimitsKept
BY SafeInvariant, SafeInvLimits, PTL

\* A check stops a document only if its next value is past a limit, with any options
\* and whichever functions have lost their check.
THEOREM RefusesRightly == SafeSpec => []RefusesOnlyOver
BY SafeInvariant, SafeInvLimits, PTL

\* What the safe parser builds are the documents that were read.
THEOREM SafeBuilds == SafeSpec => []BuildsDocuments
<1>1. SafeInv => BuildsDocuments BY InvDocuments DEF SafeInv
<1>. QED BY <1>1, SafeInvariant, PTL

\* Every step of the safe parser is a step of the usual one.
LEMMA SafeStep ==
    ASSUME [SafeNext]_safeVars
    PROVE  [Next]_vars
<1>1. CASE UNCHANGED safeVars
  BY <1>1 DEF safeVars
<1>2. CASE \/ \E fun \in {"open", "add", "add_null", "add_str"} : Refuse(fun)
           \/ RefuseAnnounced
  BY <1>2, RefuseRaises DEF Next
<1>3. CASE \/ \E b \in BOOLEAN : Begin(b)
           \/ \E k \in Keys : ReadKey(k) \/ Announce(k)
           \/ ReadNull \/ ReadScalar \/ \E s \in Texts : ReadString(s)
           \/ \E kind \in {"array", "object"} : Open(kind) \/ Close(kind)
           \/ Return \/ Raise \/ SetOther \/ SetCapacity
           \/ \E on \in BOOLEAN : SetHashClass(on) \/ SetOmitNull(on) \/ SetCreateId(on)
  BY <1>3 DEF Next
<1>. QED BY <1>1, <1>2, <1>3 DEF SafeNext

\* Whatever the limits, and whether they are reached or not, the safe parser does
\* what the usual delegate may do: a check that stops a document is one of the
\* errors it is prepared for.
THEOREM SafeIsUsual == SafeSpec => IsUsual
<1>1. SafeInit => Init BY DEF SafeInit
<1>2. [SafeNext]_safeVars => [Next]_vars BY SafeStep
<1>. QED BY <1>1, <1>2, PTL DEF SafeSpec, IsUsual, Spec
=============================================================================
