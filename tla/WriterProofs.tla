---------------------------- MODULE WriterProofs ----------------------------
(***************************************************************************)
(* What the writers write is JSON, pop_all completes it and no token is      *)
(* lost.  The invariant WriterInv has three parts: types[] is a stack in its *)
(* block (Typed), every token is held or sent (Told), and types[] says where *)
(* in the text the reader stands (Written).                                  *)
(***************************************************************************)
EXTENDS Writer, SequenceTheorems, WellFoundedInduction, TLAPS

-----------------------------------------------------------------------------
(* What ReadAll computes: any account of the reader's states, one per token, *)
(* ends where it does.                                                       *)

Account(f, d, tokens) == f[0] = d /\ \A n \in 1..Len(tokens) : f[n] = Read(f[n - 1], tokens[n])

\* Where two accounts differ first is nowhere.
LEMMA OneAccount ==
    ASSUME NEW f, NEW g, NEW d, NEW tokens, Len(tokens) \in Nat,
           Account(f, d, tokens), Account(g, d, tokens)
    PROVE  \A n \in 0..Len(tokens) : f[n] = g[n]
<1>. DEFINE S == {n \in 0..Len(tokens) : f[n] # g[n]}
            R == OpToRel(<, Nat)
<1>1. IsWellFoundedOn(R, Nat) BY NatLessThanWellFounded
<1>2. \A x, y \in Nat : y < x => <<y, x>> \in R BY DEF OpToRel
<1>. HIDE DEF R
<1>3. SUFFICES ASSUME S # {} PROVE FALSE OBVIOUS
<1>4. S \subseteq Nat OBVIOUS
<1>5. PICK n \in S : \A m \in S : ~(<<m, n>> \in R) BY <1>1, <1>3, <1>4, WFMin
<1>6. n \in Nat /\ n <= Len(tokens) /\ f[n] # g[n] OBVIOUS
<1>7. n # 0 BY <1>6 DEF Account
<1>8. n - 1 \in Nat /\ n - 1 \in 0..Len(tokens) /\ n - 1 < n /\ n \in 1..Len(tokens) BY <1>6, <1>7
<1>9. f[n - 1] = g[n - 1]
  <2>1. SUFFICES ASSUME n - 1 \in S PROVE FALSE BY <1>8
  <2>2. <<n - 1, n>> \in R BY <1>2, <1>6, <1>8, Zenon
  <2>. QED BY <1>5, <2>1, <2>2, Zenon
<1>10. f[n] = Read(f[n - 1], tokens[n]) /\ g[n] = Read(g[n - 1], tokens[n]) BY <1>8 DEF Account
<1>. QED BY <1>6, <1>9, <1>10

LEMMA ReadsAs ==
    ASSUME NEW f, NEW d, NEW tokens, Len(tokens) \in Nat, Account(f, d, tokens)
    PROVE  ReadAll(d, tokens) = f[Len(tokens)]
<1>. DEFINE after[n \in 0..Len(tokens)] == IF n = 0 THEN d ELSE Read(after[n - 1], tokens[n])
            g == [n \in 0..Len(tokens) |-> f[n]]
<1>1. g = [n \in 0..Len(tokens) |-> IF n = 0 THEN d ELSE Read(g[n - 1], tokens[n])]
  <2>1. ASSUME NEW n \in 0..Len(tokens) PROVE f[n] = IF n = 0 THEN d ELSE Read(g[n - 1], tokens[n])
    <3>1. CASE n = 0 BY <3>1 DEF Account
    <3>2. CASE n # 0
      <4>1. n \in 1..Len(tokens) /\ n - 1 \in 0..Len(tokens) BY <3>2
      <4>2. g[n - 1] = f[n - 1] BY <4>1
      <4>. QED BY <3>2, <4>1, <4>2 DEF Account
    <3>. QED BY <3>1, <3>2
  <2>. QED BY <2>1
<1>2. after = [n \in 0..Len(tokens) |-> IF n = 0 THEN d ELSE Read(after[n - 1], tokens[n])]
  BY <1>1
<1>. HIDE DEF after, g
<1>3. Account(after, d, tokens)
  <2>1. ASSUME NEW n \in 1..Len(tokens) PROVE after[n] = Read(after[n - 1], tokens[n])
    <3>1. n \in 0..Len(tokens) /\ n # 0 OBVIOUS
    <3>. QED BY <1>2, <3>1
  <2>2. after[0] = d
    <3>1. 0 \in 0..Len(tokens) OBVIOUS
    <3>. QED BY <1>2, <3>1
  <2>. QED BY <2>1, <2>2 DEF Account
<1>4. after[Len(tokens)] = f[Len(tokens)]
  <2>1. Len(tokens) \in 0..Len(tokens) OBVIOUS
  <2>. QED BY <1>3, <2>1, OneAccount
<1>5. ReadAll(d, tokens) = after[Len(tokens)] BY DEF ReadAll, after
<1>. QED BY <1>4, <1>5

\* One token more.
Gets(d, tokens, e) == Len(tokens) \in Nat /\ \E f : Account(f, d, tokens) /\ f[Len(tokens)] = e

LEMMA GetsIs ==
    ASSUME NEW d, NEW tokens, NEW e, Gets(d, tokens, e)
    PROVE  ReadAll(d, tokens) = e
BY ReadsAs DEF Gets

LEMMA GetsNone ==
    ASSUME NEW d
    PROVE  Gets(d, <<>>, d)
<1>1. Len(<<>>) = 0 OBVIOUS
<1>2. Account([n \in {0} |-> d], d, <<>>) BY <1>1 DEF Account
<1>. QED BY <1>1, <1>2 DEF Gets

LEMMA Appended ==
    ASSUME NEW S, NEW s \in Seq(S), NEW x \in S
    PROVE  /\ Append(s, x) \in Seq(S) /\ Len(s) \in Nat /\ Len(Append(s, x)) = Len(s) + 1
           /\ \A i \in 1..Len(s) : Append(s, x)[i] = s[i]
           /\ Append(s, x)[Len(s) + 1] = x
BY AppendProperties, LenProperties

LEMMA GetsMore ==
    ASSUME NEW d, NEW tokens \in Seq(Token), NEW e, Gets(d, tokens, e), NEW x \in Token
    PROVE  Gets(d, Append(tokens, x), Read(e, x))
<1>. DEFINE l == Len(tokens)
            more == Append(tokens, x)
<1>1. l \in Nat /\ Len(more) = l + 1 /\ more[l + 1] = x /\ \A n \in 1..l : more[n] = tokens[n] BY Appended
<1>2. PICK f : Account(f, d, tokens) /\ f[l] = e BY DEF Gets
<1>. DEFINE g == [n \in 0..l + 1 |-> IF n = l + 1 THEN Read(e, x) ELSE f[n]]
<1>. HIDE DEF l, more
<1>3. \A n \in 0..l : g[n] = f[n] BY <1>1
<1>4. g[l + 1] = Read(e, x) BY <1>1
<1>. HIDE DEF g
<1>5. ASSUME NEW n \in 1..l + 1 PROVE g[n] = Read(g[n - 1], more[n])
  <2>1. CASE n = l + 1
    <3>1. n - 1 = l /\ l \in 0..l BY <1>1, <2>1
    <3>. QED BY <1>1, <1>2, <1>3, <1>4, <2>1, <3>1
  <2>2. CASE n # l + 1
    <3>1. n \in 1..l /\ n \in 0..l /\ n - 1 \in 0..l BY <1>1, <2>2
    <3>2. f[n] = Read(f[n - 1], tokens[n]) BY <1>2, <3>1 DEF Account, l
    <3>. QED BY <1>1, <1>3, <3>1, <3>2
  <2>. QED BY <2>1, <2>2
<1>6. g[0] = d
  <2>1. 0 \in 0..l BY <1>1
  <2>. QED BY <1>2, <1>3, <2>1 DEF Account
<1>7. Account(g, d, more) BY <1>1, <1>5, <1>6 DEF Account
<1>8. Len(more) \in Nat /\ g[Len(more)] = Read(e, x) BY <1>1, <1>4
<1>. QED BY <1>7, <1>8 DEF Gets, more

-----------------------------------------------------------------------------
(* What types[] knows of the text.                                           *)

Places == {"start", "bad", "comma", "colon", "member", "name", "name or }", "element", "element or ]"}
Reader(d) == d \in [at : Places, open : Seq({"array", "object"})]
Stack(ts) == ts \in Seq(Kinds) /\ Len(ts) > 0 /\ \A i \in 2..Len(ts) : ts[i] # "nul"
\* The first n open containers have members, and one is being written.
Enclosed(ts, op, n) ==
    \A i \in 1..n : \/ ts[i + 1] = "ObjectType" /\ op[i] = "object"
                    \/ ts[i + 1] = "ArrayType" /\ op[i] = "array"
InStep(ts, op) == Len(ts) = Len(op) + 1 /\ ts[1] = "nul"
\* Between calls.
Stands(ts, key, d) ==
    /\ InStep(ts, d.open) /\ (key <=> d.at = "member")
    /\ IF d.open = <<>> THEN d.at = "start"
       ELSE /\ Enclosed(ts, d.open, Len(d.open) - 1)
            /\ Agree(ts[Len(ts)], d.open[Len(d.open)], d.at)
\* In a call, where a value or a container begins.
Ready(ts, d) == InStep(ts, d.open) /\ TakesValue(d) /\ Enclosed(ts, d.open, Len(d.open))

LEMMA ReaderHas ==
    ASSUME NEW d, Reader(d)
    PROVE  /\ d.open \in Seq({"array", "object"}) /\ Len(d.open) \in Nat
           /\ d = [at |-> d.at, open |-> d.open] /\ d.at \in Places
           /\ d.open = <<>> <=> Len(d.open) = 0
BY DEF Reader

LEMMA ReaderMade ==
    ASSUME NEW at \in Places, NEW op \in Seq({"array", "object"})
    PROVE  Reader([at |-> at, open |-> op])
BY DEF Reader

LEMMA PastIs ==
    ASSUME NEW op \in Seq({"array", "object"})
    PROVE  Reader(Past(op)) /\ Past(op).open = op /\ Past(op).at = (IF op = <<>> THEN "start" ELSE "comma")
<1>. DEFINE at == IF op = <<>> THEN "start" ELSE "comma"
<1>1. at \in Places BY DEF Places
<1>2. Past(op) = [at |-> at, open |-> op] BY DEF Past
<1>. HIDE DEF at
<1>3. Reader(Past(op)) /\ Past(op).open = op /\ Past(op).at = at BY <1>1, <1>2, ReaderMade
<1>. QED BY <1>3 DEF at

\* A key that waits is all that a value needs.
LEMMA WaitingReady ==
    ASSUME NEW ts, Stack(ts), NEW d, Reader(d), Stands(ts, TRUE, d)
    PROVE  Ready(ts, d)
<1>. DEFINE l == Len(d.open)
<1>1. l \in Nat /\ Len(ts) = l + 1 /\ ts[1] = "nul" /\ d.at = "member" /\ d.open # <<>> /\ l # 0
  BY ReaderHas DEF Stands, InStep
<1>2. Enclosed(ts, d.open, l - 1) /\ Agree(ts[l + 1], d.open[l], "member") BY <1>1 DEF Stands
<1>3. ts[l + 1] = "ObjectType" /\ d.open[l] = "object" BY <1>2 DEF Agree
<1>. HIDE DEF l
<1>4. Enclosed(ts, d.open, l)
  <2>1. SUFFICES ASSUME NEW i \in 1..l
                 PROVE  \/ ts[i + 1] = "ObjectType" /\ d.open[i] = "object"
                        \/ ts[i + 1] = "ArrayType" /\ d.open[i] = "array"
    BY DEF Enclosed
  <2>2. CASE i = l BY <1>3, <2>2
  <2>3. CASE i # l
    <3>1. i \in 1..l - 1 BY <1>1, <2>3
    <3>. QED BY <1>2, <3>1 DEF Enclosed
  <2>. QED BY <2>2, <2>3
<1>5. TakesValue(d) BY <1>1 DEF TakesValue
<1>. QED BY <1>1, <1>4, <1>5 DEF Ready, InStep, l

\* After a value.
LEMMA ValueStands ==
    ASSUME NEW ts, Stack(ts), NEW d, Reader(d), Ready(ts, d)
    PROVE  /\ Read(d, "value") = Past(d.open) /\ Reader(Past(d.open))
           /\ Stands(ts, FALSE, Past(d.open))
<1>. DEFINE l == Len(d.open)
            e == Past(d.open)
<1>1. /\ l \in Nat /\ Len(ts) = l + 1 /\ ts[1] = "nul" /\ TakesValue(d) /\ Enclosed(ts, d.open, l)
      /\ d.open \in Seq({"array", "object"}) /\ (d.open = <<>> <=> l = 0)
  BY ReaderHas DEF Ready, InStep
<1>2. Read(d, "value") = e BY <1>1 DEF Read
<1>3. Reader(e) /\ e.open = d.open /\ e.at = IF d.open = <<>> THEN "start" ELSE "comma" BY <1>1, PastIs
<1>. HIDE DEF e
<1>4. CASE d.open = <<>>
  <2>1. e.at = "start" BY <1>3, <1>4
  <2>. QED BY <1>1, <1>2, <1>3, <1>4, <2>1 DEF Stands, InStep, e
<1>5. CASE d.open # <<>>
  <2>1. e.at = "comma" /\ l # 0 /\ l \in 1..l BY <1>1, <1>3, <1>5
  <2>2. Enclosed(ts, d.open, l - 1) BY <1>1 DEF Enclosed
  <2>3. Agree(ts[l + 1], d.open[l], "comma") BY <1>1, <2>1 DEF Enclosed, Agree
  <2>. QED BY <1>1, <1>2, <1>3, <1>5, <2>1, <2>2, <2>3 DEF Stands, InStep, e
<1>. QED BY <1>4, <1>5

\* After the start of a container.
LEMMA OpenStands ==
    ASSUME NEW ts, Stack(ts), NEW d, Reader(d), Ready(ts, d), NEW type \in {"ObjectNew", "ArrayNew"}
    PROVE  LET e == Read(d, IF type = "ObjectNew" THEN "{" ELSE "[")
           IN  Reader(e) /\ Stands(Append(ts, type), FALSE, e)
<1>. DEFINE l == Len(d.open)
            kind == IF type = "ObjectNew" THEN "object" ELSE "array"
            at == IF type = "ObjectNew" THEN "name or }" ELSE "element or ]"
            op == Append(d.open, kind)
            us == Append(ts, type)
            e == [at |-> at, open |-> op]
<1>1. /\ l \in Nat /\ Len(ts) = l + 1 /\ ts[1] = "nul" /\ TakesValue(d) /\ Enclosed(ts, d.open, l)
      /\ d.open \in Seq({"array", "object"}) /\ ts \in Seq(Kinds)
  BY ReaderHas DEF Ready, InStep, Stack
<1>2. Read(d, IF type = "ObjectNew" THEN "{" ELSE "[") = e BY <1>1 DEF Read
<1>3. kind \in {"array", "object"} /\ type \in Kinds BY DEF Kinds
<1>4. /\ op \in Seq({"array", "object"}) /\ Len(op) = l + 1 /\ op[l + 1] = kind
      /\ \A i \in 1..l : op[i] = d.open[i]
  BY <1>1, <1>3, Appended
<1>5. Len(us) = l + 2 /\ us[l + 2] = type /\ \A i \in 1..l + 1 : us[i] = ts[i]
  <2>1. Len(us) = Len(ts) + 1 /\ us[Len(ts) + 1] = type /\ \A i \in 1..Len(ts) : us[i] = ts[i]
    BY <1>1, <1>3, Appended
  <2>. HIDE DEF us, l
  <2>. QED BY <1>1, <2>1
<1>6. Agree(type, kind, at) /\ at # "member" BY DEF Agree
<1>7. Reader(e)
  <2>1. at \in Places BY DEF Places
  <2>. HIDE DEF at, op
  <2>. QED BY <1>4, <2>1, ReaderMade
<1>8. e.open = op /\ e.at = at OBVIOUS
<1>. HIDE DEF e, us, op, l, kind, at
<1>9. Enclosed(us, op, l) BY <1>1, <1>4, <1>5 DEF Enclosed
<1>10. op # <<>> /\ Len(op) - 1 = l /\ Len(us) = Len(op) + 1 /\ us[1] = "nul" /\ Len(op) = l + 1 /\ Len(us) = l + 2
  BY <1>1, <1>4, <1>5
<1>11. Agree(us[Len(us)], op[Len(op)], at) BY <1>4, <1>5, <1>6, <1>10
<1>12. Stands(us, FALSE, e) BY <1>6, <1>8, <1>9, <1>10, <1>11 DEF Stands, InStep
<1>. QED BY <1>2, <1>7, <1>12 DEF us

\* After the end of a container.
LEMMA Cut ==
    ASSUME NEW S, NEW s \in Seq(S), NEW n \in 0..Len(s)
    PROVE  /\ SubSeq(s, 1, n) \in Seq(S) /\ Len(SubSeq(s, 1, n)) = n
           /\ \A i \in 1..n : SubSeq(s, 1, n)[i] = s[i]
<1>1. Len(s) \in Nat /\ n \in Nat BY LenProperties
<1>. QED BY <1>1, SubSeqProperties

LEMMA Frontal ==
    ASSUME NEW S, NEW s \in Seq(S), Len(s) # 0
    PROVE  /\ Front(s) \in Seq(S) /\ Len(s) \in Nat /\ Len(Front(s)) = Len(s) - 1
           /\ \A i \in 1..Len(s) - 1 : Front(s)[i] = s[i]
           /\ Last(s) = s[Len(s)]
<1>1. Len(s) \in Nat /\ Len(s) - 1 \in 0..Len(s) BY LenProperties
<1>. QED BY <1>1, Cut DEF Front, Last

LEMMA CloseStands ==
    ASSUME NEW ts, Stack(ts), NEW d, Reader(d), Stands(ts, FALSE, d), Len(ts) > 1
    PROVE  /\ Read(d, Bracket(ts[Len(ts)])) = Past(Front(d.open)) /\ Reader(Past(Front(d.open)))
           /\ Stands(Front(ts), FALSE, Past(Front(d.open)))
<1>. DEFINE l == Len(d.open)
            op == Front(d.open)
            us == Front(ts)
            e == Past(op)
<1>1. /\ l \in Nat /\ Len(ts) = l + 1 /\ ts[1] = "nul" /\ l # 0 /\ d.open # <<>> /\ l \in 1..l
      /\ d.open \in Seq({"array", "object"}) /\ ts \in Seq(Kinds)
      /\ Enclosed(ts, d.open, l - 1) /\ Agree(ts[l + 1], d.open[l], d.at) /\ d.at # "member"
  BY ReaderHas DEF Stands, InStep, Stack
<1>2. /\ op \in Seq({"array", "object"}) /\ Len(op) = l - 1 /\ Last(d.open) = d.open[l]
      /\ \A i \in 1..l - 1 : op[i] = d.open[i]
  BY <1>1, Frontal
<1>3. Len(us) = l /\ \A i \in 1..l : us[i] = ts[i]
  <2>1. Len(ts) # 0 BY <1>1
  <2>2. Len(us) = Len(ts) - 1 /\ \A i \in 1..Len(ts) - 1 : us[i] = ts[i] BY <1>1, <2>1, Frontal
  <2>. HIDE DEF us, l
  <2>. QED BY <1>1, <2>2
<1>4. Read(d, Bracket(ts[Len(ts)])) = e
  <2>1. \/ /\ ts[l + 1] \in {"ObjectNew", "ObjectType"} /\ d.open[l] = "object" /\ d.at \in {"comma", "name or }"}
        \/ /\ ts[l + 1] \in {"ArrayNew", "ArrayType"} /\ d.open[l] = "array" /\ d.at \in {"comma", "element or ]"}
    BY <1>1 DEF Agree
  <2>. QED BY <1>1, <1>2, <2>1 DEF Read, Bracket, IsObject, Inside
<1>5. Reader(e) /\ e.open = op /\ e.at = IF op = <<>> THEN "start" ELSE "comma" BY <1>2, PastIs
<1>. HIDE DEF e, us, op, l
<1>6. CASE op = <<>>
  <2>1. e.at = "start" /\ l = 1 BY <1>1, <1>2, <1>5, <1>6
  <2>2. us[1] = "nul" /\ Len(us) = Len(op) + 1 BY <1>1, <1>2, <1>3, <2>1
  <2>3. Stands(us, FALSE, e) BY <1>5, <1>6, <2>1, <2>2 DEF Stands, InStep
  <2>. QED BY <1>4, <1>5, <2>3 DEF us, e, op
<1>7. CASE op # <<>>
  <2>1. e.at = "comma" /\ l - 1 \in 1..l - 1 /\ l - 1 \in Nat
    <3>1. Len(op) # 0 BY <1>2, <1>7
    <3>. QED BY <1>1, <1>2, <1>5, <1>7, <3>1
  <2>2. Enclosed(us, op, l - 1)
    <3>1. ASSUME NEW i \in 1..l - 1 PROVE us[i + 1] = ts[i + 1] /\ op[i] = d.open[i]
      <4>1. i + 1 \in 1..l BY <1>1
      <4>. QED BY <1>2, <1>3, <4>1
    <3>. QED BY <1>1, <3>1 DEF Enclosed
  <2>3. Agree(us[l], op[l - 1], "comma")
    <3>1. l - 1 + 1 = l BY <1>1
    <3>2. \/ us[l] = "ObjectType" /\ op[l - 1] = "object"
          \/ us[l] = "ArrayType" /\ op[l - 1] = "array"
      BY <2>1, <2>2, <3>1 DEF Enclosed
    <3>. QED BY <3>2 DEF Agree
  <2>4. Enclosed(us, op, l - 1 - 1)
    <3>1. \A i \in 1..l - 1 - 1 : i \in 1..l - 1 BY <2>1
    <3>. QED BY <2>2, <3>1 DEF Enclosed
  <2>5. us[1] = "nul" /\ Len(us) = Len(op) + 1 BY <1>1, <1>2, <1>3
  <2>6. Stands(us, FALSE, e) BY <1>2, <1>3, <1>5, <1>7, <2>1, <2>3, <2>4, <2>5 DEF Stands, InStep
  <2>. QED BY <1>4, <1>5, <2>6 DEF us, e, op
<1>. QED BY <1>6, <1>7

-----------------------------------------------------------------------------
(* What a push begins with.                                                  *)

LEMMA Rows ==
    /\ \A x : <<x>> = Append(<<>>, x)
    /\ \A x, y : <<x, y>> = Append(<<x>>, y)
    /\ \A x, y, z : <<x, y, z>> = Append(<<x, y>>, z)
    /\ \A x, y : <<>> \o <<x, y>> = <<x, y>>
    /\ \A x : <<x>> \o <<>> = <<x>>
    /\ <<>> \o <<>> = <<>>
    /\ \A x, y, z : <<x>> \o <<y, z>> = <<x, y, z>>
    /\ \A x, y, z : <<x, y, z>> = Append(Append(<<x>>, y), z)
<1>1. \A x : <<x>> = Append(<<>>, x) OBVIOUS
<1>2. \A x, y : <<x, y>> = Append(<<x>>, y) OBVIOUS
<1>3. \A x, y, z : <<x, y, z>> = Append(<<x, y>>, z) OBVIOUS
<1>4. \A x, y : <<>> \o <<x, y>> = <<x, y>> OBVIOUS
<1>5. \A x : <<x>> \o <<>> = <<x>> OBVIOUS
<1>6. <<>> \o <<>> = <<>> OBVIOUS
<1>7. ASSUME NEW x, NEW y, NEW z PROVE <<x>> \o <<y, z>> = <<x, y, z>>
  <2>. DEFINE s == <<x>> \o <<y, z>>
              r == <<x, y, z>>
  <2>1. <<x>> \in Seq({x, y, z}) /\ <<y, z>> \in Seq({x, y, z}) /\ r \in Seq({x, y, z}) OBVIOUS
  <2>2. s \in Seq({x, y, z}) /\ Len(s) = 3 BY <2>1
  <2>3. Len(r) = 3 /\ r[1] = x /\ r[2] = y /\ r[3] = z OBVIOUS
  <2>4. s[1] = x /\ s[2] = y /\ s[3] = z OBVIOUS
  <2>. HIDE DEF s, r
  <2>5. \A i \in 1..Len(s) : s[i] = r[i] BY <2>2, <2>3, <2>4
  <2>6. s = r BY <2>1, <2>2, <2>3, <2>5, SeqEqual
  <2>. QED BY <2>6 DEF s, r
<1>8. \A x, y, z : <<x, y, z>> = Append(Append(<<x>>, y), z)
  <2>1. SUFFICES ASSUME NEW x, NEW y, NEW z PROVE <<x, y, z>> = Append(Append(<<x>>, y), z) OBVIOUS
  <2>2. <<x, y>> = Append(<<x>>, y) /\ <<x, y, z>> = Append(<<x, y>>, z) BY <1>2, <1>3
  <2>. QED BY ONLY <2>2, Zenon
<1>. QED BY ONLY <1>1, <1>2, <1>3, <1>4, <1>5, <1>6, <1>7, <1>8

LEMMA RowsTyped ==
    /\ <<>> \in Seq(Token)
    /\ \A x \in Token : <<x>> \in Seq(Token)
    /\ \A x, y \in Token : <<x, y>> \in Seq(Token)
    /\ \A x, y, z \in Token : <<x, y, z>> \in Seq(Token)
OBVIOUS

LEMMA GetsOne ==
    ASSUME NEW d, NEW x \in Token
    PROVE  Gets(d, <<x>>, Read(d, x))
<1>1. <<x>> = Append(<<>>, x) /\ <<>> \in Seq(Token) BY Rows, RowsTyped
<1>. QED BY <1>1, GetsNone, GetsMore

\* The state a comma and a key lead to.
After(d, at) == [at |-> at, open |-> d.open]

LEMMA CommaRead ==
    ASSUME NEW d, Reader(d), d.at = "comma"
    PROVE  Gets(d, <<",">>, After(d, IF Inside(d, "object") THEN "name" ELSE "element"))
<1>1. Read(d, ",") = After(d, IF Inside(d, "object") THEN "name" ELSE "element")
  BY ReaderHas DEF Read, TakesValue, TakesName, After, Reader
<1>2. "," \in Token BY DEF Token
<1>. QED BY <1>1, <1>2, GetsOne

LEMMA KeyRead ==
    ASSUME NEW d, Reader(d), TakesName(d), NEW tokens \in Seq(Token), NEW b, Gets(b, tokens, d)
    PROVE  Gets(b, Append(Append(tokens, "string"), ":"), After(d, "member"))
<1>1. Read(d, "string") = After(d, "colon")
  BY ReaderHas DEF Read, TakesValue, TakesName, After, Reader
<1>2. Read(After(d, "colon"), ":") = After(d, "member")
  BY DEF Read, TakesValue, TakesName, After
<1>3. "string" \in Token /\ ":" \in Token BY DEF Token
<1>4. Gets(b, Append(tokens, "string"), After(d, "colon")) BY <1>1, <1>3, GetsMore
<1>5. Append(tokens, "string") \in Seq(Token) BY <1>3, Appended
<1>. QED BY <1>2, <1>3, <1>4, <1>5, GetsMore

LEMMA IntroReady ==
    ASSUME NEW ts, Stack(ts), NEW d, Reader(d), Stands(ts, FALSE, d), NEW key \in BOOLEAN,
           key <=> IsObject(ts[Len(ts)])
    PROVE  LET us == [ts EXCEPT ![Len(ts)] = Used(ts[Len(ts)])]
           IN  /\ Stack(us)
               /\ Intro(ts[Len(ts)], key) \in Seq(Token)
               /\ \E e : /\ Gets(d, Intro(ts[Len(ts)], key), e) /\ Reader(e) /\ Ready(us, e)
                         /\ key => Stands(us, TRUE, e)
<1>. DEFINE l == Len(d.open)
            type == ts[Len(ts)]
            us == [ts EXCEPT ![Len(ts)] = Used(type)]
<1>1. /\ l \in Nat /\ Len(ts) = l + 1 /\ ts[1] = "nul" /\ d.at # "member"
      /\ d.open \in Seq({"array", "object"}) /\ ts \in Seq(Kinds) /\ (d.open = <<>> <=> l = 0)
      /\ \A i \in 2..l + 1 : ts[i] # "nul"
  BY ReaderHas DEF Stands, InStep, Stack
<1>2. type \in Kinds BY <1>1
<1>3. Used(type) \in Kinds /\ (Used(type) = "nul" <=> type = "nul") BY <1>2 DEF Used, Kinds
<1>4. /\ us \in Seq(Kinds) /\ Len(us) = l + 1 /\ us[l + 1] = Used(type)
      /\ \A i \in 1..l : us[i] = ts[i]
  BY <1>1, <1>2, <1>3
<1>. HIDE DEF us, type, l
<1>5. Stack(us) BY <1>1, <1>3, <1>4 DEF Stack, type
<1>6. us[1] = "nul"
  <2>1. CASE l = 0 BY <1>1, <1>3, <1>4, <2>1 DEF type
  <2>2. CASE l # 0 BY <1>1, <1>4, <2>2
  <2>. QED BY <2>1, <2>2
<1>7. ASSUME NEW at \in Places, at # "bad", TakesValue(After(d, at)), at = "member" <=> key,
             Gets(d, Intro(type, key), After(d, at)),
             l # 0 => type = (IF d.open[l] = "object" THEN "ObjectType" ELSE "ArrayType")
                      \/ type = (IF d.open[l] = "object" THEN "ObjectNew" ELSE "ArrayNew")
      PROVE  \E e : /\ Gets(d, Intro(type, key), e) /\ Reader(e) /\ Ready(us, e)
                    /\ key => Stands(us, TRUE, e)
  <2>. DEFINE e == After(d, at)
  <2>1. Reader(e) /\ e.open = d.open /\ e.at = at BY <1>1, <1>7, ReaderMade DEF After
  <2>. HIDE DEF e
  <2>2. ASSUME NEW i \in 1..l
        PROVE  \/ us[i + 1] = "ObjectType" /\ d.open[i] = "object"
               \/ us[i + 1] = "ArrayType" /\ d.open[i] = "array"
    <3>1. l # 0 /\ d.open # <<>> BY <1>1
    <3>2. CASE i = l
      <4>1. d.open[l] \in {"array", "object"} BY <1>1, <3>2 DEF l
      <4>2. us[l + 1] = IF d.open[l] = "object" THEN "ObjectType" ELSE "ArrayType"
        BY <1>4, <1>7, <3>1 DEF Used
      <4>. QED BY <3>2, <4>1, <4>2
    <3>3. CASE i # l
      <4>1. i \in 1..l - 1 /\ i + 1 \in 1..l BY <1>1, <3>3
      <4>2. Enclosed(ts, d.open, l - 1) BY <3>1 DEF Stands, l
      <4>. QED BY <1>4, <4>1, <4>2 DEF Enclosed
    <3>. QED BY <3>2, <3>3
  <2>3. Enclosed(us, d.open, l) BY <2>2 DEF Enclosed
  <2>4. Ready(us, e) BY <1>4, <1>6, <1>7, <2>1, <2>3 DEF Ready, InStep, l, e
  <2>5. ASSUME key PROVE Stands(us, TRUE, e)
    <3>1. l # 0
      <4>1. SUFFICES ASSUME l = 0 PROVE FALSE OBVIOUS
      <4>2. type = "nul" BY <1>1, <4>1 DEF type
      <4>. QED BY <2>5, <4>2 DEF IsObject, type
    <3>2. Enclosed(us, d.open, l - 1) /\ l \in 1..l BY <1>1, <2>3, <3>1 DEF Enclosed
    <3>3. us[l + 1] = "ObjectType" /\ d.open[l] = "object"
      <4>1. us[l + 1] # "ArrayType" BY <1>4, <2>5 DEF Used, IsObject, type
      <4>. QED BY <2>2, <3>2, <4>1
    <3>4. Agree(us[l + 1], d.open[l], "member") BY <3>3 DEF Agree
    <3>. QED BY <1>1, <1>4, <1>6, <1>7, <2>1, <2>5, <3>1, <3>2, <3>4 DEF Stands, InStep, l
  <2>. QED BY <1>7, <2>1, <2>4, <2>5 DEF e
<1>8. d = After(d, d.at) /\ d.at \in Places BY ReaderHas DEF After
<1>9. Gets(d, <<>>, d) /\ <<>> \in Seq(Token) BY GetsNone, RowsTyped
<1>10. d.open # <<>> => /\ l # 0 /\ l \in 1..l /\ Agree(type, d.open[l], d.at)
                        /\ d.open[l] \in {"array", "object"} /\ Last(d.open) = d.open[l]
  BY <1>1 DEF Stands, type, l, Last
<1>11. {",", "string", ":"} \subseteq Token BY DEF Token
<1>12. CASE d.open = <<>>
  <2>1. type = "nul" /\ ~key /\ d.at = "start" /\ l = 0 BY <1>1, <1>12 DEF type, IsObject, Stands
  <2>2. Intro(type, key) = <<>> BY <2>1, Rows DEF Intro, CommaDue
  <2>3. TakesValue(After(d, d.at)) BY <2>1 DEF After, TakesValue
  <2>. QED BY <1>5, <1>7, <1>8, <1>9, <2>1, <2>2, <2>3 DEF us, type
<1>13. CASE d.open # <<>> /\ type = "ArrayNew"
  <2>1. ~key /\ d.at = "element or ]" /\ d.open[l] = "array" BY <1>10, <1>13 DEF Agree, type, IsObject
  <2>2. Intro(type, key) = <<>> BY <1>13, <2>1, Rows DEF Intro, CommaDue
  <2>3. TakesValue(After(d, d.at)) BY <2>1 DEF After, TakesValue
  <2>. QED BY <1>5, <1>7, <1>8, <1>9, <1>13, <2>1, <2>2, <2>3 DEF us, type
<1>14. CASE d.open # <<>> /\ type = "ArrayType"
  <2>1. ~key /\ d.at = "comma" /\ d.open[l] = "array" BY <1>10, <1>14 DEF Agree, type, IsObject
  <2>2. Intro(type, key) = <<",">> BY <1>14, <2>1, Rows DEF Intro, CommaDue
  <2>3. ~Inside(d, "object") BY <1>10, <1>14, <2>1 DEF Inside
  <2>4. Gets(d, <<",">>, After(d, "element")) BY <2>1, <2>3, CommaRead
  <2>5. TakesValue(After(d, "element")) /\ "element" \in Places BY DEF After, TakesValue, Places
  <2>6. <<",">> \in Seq(Token) BY <1>11, RowsTyped
  <2>. QED BY <1>5, <1>7, <1>14, <2>1, <2>2, <2>4, <2>5, <2>6 DEF us, type
<1>15. TakesValue(After(d, "member")) /\ "member" \in Places BY DEF After, TakesValue, Places
<1>16. CASE d.open # <<>> /\ type = "ObjectNew"
  <2>1. key /\ d.at = "name or }" /\ d.open[l] = "object" BY <1>10, <1>16 DEF Agree, type, IsObject
  <2>2. Intro(type, key) = <<"string", ":">> BY <1>16, <2>1, Rows DEF Intro, CommaDue
  <2>3. <<"string", ":">> = Append(Append(<<>>, "string"), ":") BY Rows
  <2>4. TakesName(d) BY <2>1 DEF TakesName
  <2>5. Gets(d, <<"string", ":">>, After(d, "member")) BY <1>9, <2>3, <2>4, KeyRead
  <2>6. <<"string", ":">> \in Seq(Token) BY <1>11, RowsTyped
  <2>. QED BY <1>5, <1>7, <1>15, <1>16, <2>1, <2>2, <2>5, <2>6 DEF us, type
<1>17. CASE d.open # <<>> /\ type = "ObjectType"
  <2>1. key /\ d.at = "comma" /\ d.open[l] = "object" BY <1>1, <1>10, <1>17 DEF Agree, type, IsObject
  <2>2. Intro(type, key) = <<",", "string", ":">>
    <3>1. CommaDue(type) = <<",">> BY <1>17 DEF CommaDue
    <3>2. Intro(type, key) = <<",">> \o <<"string", ":">> BY <2>1, <3>1 DEF Intro
    <3>3. \A x, y, z : <<x>> \o <<y, z>> = <<x, y, z>> BY Rows
    <3>. QED BY ONLY <3>2, <3>3
  <2>3. <<",", "string", ":">> = Append(Append(<<",">>, "string"), ":")
    <3>. DEFINE c == ","  n == "string"  o == ":"
    <3>. HIDE DEF c, n, o
    <3>1. <<c, n, o>> = Append(Append(<<c>>, n), o) BY Rows
    <3>. QED BY ONLY <3>1, Zenon DEF c, n, o
  <2>4. Inside(d, "object") BY <1>10, <1>17, <2>1 DEF Inside
  <2>. DEFINE m == After(d, "name")
  <2>5. Gets(d, <<",">>, m) BY <2>1, <2>4, CommaRead
  <2>6. TakesName(m) /\ After(m, "member") = After(d, "member") BY DEF TakesName, After
  <2>7. Reader(m) BY <1>1, ReaderMade DEF After, Places
  <2>8. <<",">> \in Seq(Token) /\ <<",", "string", ":">> \in Seq(Token) BY <1>11, RowsTyped
  <2>. HIDE DEF m
  <2>9. Gets(d, <<",", "string", ":">>, After(d, "member")) BY <2>3, <2>5, <2>6, <2>7, <2>8, KeyRead
  <2>. QED BY <1>5, <1>7, <1>15, <1>17, <2>1, <2>2, <2>8, <2>9 DEF us, type
<1>18. d.open # <<>> => type # "nul" BY <1>1 DEF type
<1>. QED BY <1>2, <1>12, <1>13, <1>14, <1>16, <1>17, <1>18 DEF Kinds

-----------------------------------------------------------------------------
(* pop_all: after k pops the outer containers are left, each after a member.  *)

Closers(ts) == [i \in 1..Len(ts) - 1 |-> Bracket(ts[Len(ts) + 1 - i])]

LEMMA AllClosed ==
    ASSUME NEW ts, Stack(ts), NEW d, Reader(d), Stands(ts, FALSE, d)
    PROVE  Gets(d, Closers(ts), Fresh)
<1>. DEFINE l == Len(d.open)
            tokens == Closers(ts)
            left(k) == SubSeq(d.open, 1, l - k)
            f == [k \in 0..l |-> IF k = 0 THEN d ELSE Past(left(k))]
<1>1. /\ l \in Nat /\ Len(ts) = l + 1 /\ ts[1] = "nul" /\ d.at # "member"
      /\ d.open \in Seq({"array", "object"}) /\ (d.open = <<>> <=> l = 0)
      /\ (d.open = <<>> => d.at = "start")
      /\ (d.open # <<>> => Enclosed(ts, d.open, l - 1) /\ Agree(ts[l + 1], d.open[l], d.at))
      /\ d = [at |-> d.at, open |-> d.open]
  BY ReaderHas DEF Stands, InStep
<1>. HIDE DEF l
<1>2. Len(tokens) = l /\ \A k \in 1..l : tokens[k] = Bracket(ts[l + 2 - k])
  <2>1. tokens = [i \in 1..l |-> Bracket(ts[l + 1 + 1 - i])] BY <1>1 DEF Closers
  <2>2. \A k \in 1..l : l + 1 + 1 - k = l + 2 - k BY <1>1
  <2>. HIDE DEF tokens
  <2>3. tokens \in Seq({Bracket(ts[l + 1 + 1 - i]) : i \in 1..l}) BY <1>1, <2>1
  <2>4. Len(tokens) = l BY <1>1, <2>1, <2>3
  <2>. QED BY <2>1, <2>2, <2>4
<1>3. ASSUME NEW k \in 0..l
      PROVE  /\ left(k) \in Seq({"array", "object"}) /\ Len(left(k)) = l - k
             /\ \A i \in 1..l - k : left(k)[i] = d.open[i]
             /\ Past(left(k)) = [at |-> IF l = k THEN "start" ELSE "comma", open |-> left(k)]
  <2>1. l - k \in 0..Len(d.open) BY <1>1 DEF l
  <2>2. /\ left(k) \in Seq({"array", "object"}) /\ Len(left(k)) = l - k
        /\ \A i \in 1..l - k : left(k)[i] = d.open[i]
    BY <1>1, <2>1, Cut
  <2>3. left(k) = <<>> <=> l = k
    <3>1. left(k) = <<>> <=> Len(left(k)) = 0 BY <2>2, EmptySeq
    <3>. QED BY <1>1, <2>2, <3>1
  <2>. QED BY <2>2, <2>3 DEF Past
<1>. HIDE DEF tokens
<1>4. ASSUME NEW k \in 1..l
      PROVE  /\ Inside(f[k - 1], "object") <=> d.open[l + 1 - k] = "object"
             /\ Inside(f[k - 1], "array") <=> d.open[l + 1 - k] = "array"
             /\ Front(f[k - 1].open) = left(k)
             /\ Agree(ts[l + 2 - k], d.open[l + 1 - k], f[k - 1].at) /\ f[k - 1].at # "member"
  <2>1. CASE k = 1
    <3>1. f[k - 1] = d /\ l + 1 - k = l /\ l + 2 - k = l + 1 /\ l # 0 /\ l \in 1..l BY <1>1, <2>1
    <3>2. Last(d.open) = d.open[l] /\ Front(d.open) = left(k) /\ d.open # <<>> BY <1>1, <2>1, <3>1 DEF l, Last, Front
    <3>. HIDE DEF f, left
    <3>. QED BY <1>1, <3>1, <3>2 DEF Inside
  <2>2. CASE k # 1
    <3>1. k - 1 \in 0..l /\ k - 1 # 0 /\ l # k - 1 /\ l + 1 - k \in 1..l - 1 /\ l + 1 - k = l - (k - 1) /\ l # 0
      BY <1>1, <2>2
    <3>2. f[k - 1] = [at |-> "comma", open |-> left(k - 1)] BY <1>3, <3>1
    <3>3. Len(left(k - 1)) = l + 1 - k /\ left(k - 1) \in Seq({"array", "object"})
          /\ left(k - 1)[l + 1 - k] = d.open[l + 1 - k]
      <4>1. l + 1 - k \in 1..l - (k - 1) BY <3>1
      <4>. QED BY <1>3, <3>1, <4>1
    <3>4. left(k - 1) # <<>>
      <4>1. Len(left(k - 1)) # 0 BY <3>1, <3>3
      <4>. HIDE DEF left
      <4>. QED BY <4>1
    <3>5. Last(left(k - 1)) = d.open[l + 1 - k] BY <3>3 DEF Last
    <3>6. Front(left(k - 1)) = left(k)
      <4>. DEFINE a == Front(left(k - 1))
                  b == left(k)
      <4>1. l \in Nat /\ k \in Nat /\ k \in 0..l /\ l - k \in Nat /\ l + 1 - k - 1 = l - k /\ l + 1 - k # 0 BY <1>1, <3>1
      <4>2. a \in Seq({"array", "object"}) /\ Len(a) = l - k /\ \A i \in 1..l - k : a[i] = left(k - 1)[i]
        <5>. DEFINE whole == left(k - 1)
        <5>1. whole \in Seq({"array", "object"}) /\ Len(whole) = l + 1 - k BY <3>3
        <5>. HIDE DEF whole
        <5>2. Len(whole) # 0 /\ Len(whole) - 1 = l - k BY ONLY <4>1, <5>1
        <5>3. /\ Front(whole) \in Seq({"array", "object"}) /\ Len(Front(whole)) = Len(whole) - 1
              /\ \A i \in 1..Len(whole) - 1 : Front(whole)[i] = whole[i]
          BY <5>1, <5>2, Frontal
        <5>4. /\ Front(whole) \in Seq({"array", "object"}) /\ Len(Front(whole)) = l - k
              /\ \A i \in 1..l - k : Front(whole)[i] = whole[i]
          BY ONLY <5>2, <5>3, Zenon
        <5>. QED BY <5>4 DEF whole
      <4>3. b \in Seq({"array", "object"}) /\ Len(b) = l - k /\ \A i \in 1..l - k : b[i] = d.open[i]
        BY <1>3, <4>1
      <4>4. \A i \in 1..l - k : left(k - 1)[i] = d.open[i]
        <5>1. \A i \in 1..l - k : i \in 1..l - (k - 1) BY <1>1, <4>1
        <5>. QED BY <1>3, <3>1, <5>1
      <4>. HIDE DEF a, b, left
      <4>5. \A i \in 1..Len(a) : a[i] = b[i] BY <4>2, <4>3, <4>4
      <4>6. a = b BY <4>2, <4>3, <4>5, SeqEqual
      <4>. QED BY <4>6 DEF a, b
    <3>7. Agree(ts[l + 2 - k], d.open[l + 1 - k], "comma")
      <4>1. l + 1 - k + 1 = l + 2 - k BY <1>1
      <4>2. \/ ts[l + 2 - k] = "ObjectType" /\ d.open[l + 1 - k] = "object"
            \/ ts[l + 2 - k] = "ArrayType" /\ d.open[l + 1 - k] = "array"
        BY <1>1, <3>1, <4>1 DEF Enclosed
      <4>. QED BY <4>2 DEF Agree
    <3>. HIDE DEF f, left
    <3>. QED BY <3>2, <3>4, <3>5, <3>6, <3>7 DEF Inside
  <2>. QED BY <2>1, <2>2
<1>5. ASSUME NEW k \in 1..l PROVE f[k] = Read(f[k - 1], tokens[k])
  <2>1. tokens[k] = Bracket(ts[l + 2 - k]) BY <1>2
  <2>2. \/ /\ ts[l + 2 - k] \in {"ObjectNew", "ObjectType"} /\ d.open[l + 1 - k] = "object"
           /\ f[k - 1].at \in {"comma", "name or }"}
        \/ /\ ts[l + 2 - k] \in {"ArrayNew", "ArrayType"} /\ d.open[l + 1 - k] = "array"
           /\ f[k - 1].at \in {"comma", "element or ]"}
    BY <1>4 DEF Agree
  <2>3. f[k] = Past(left(k)) BY <1>1
  <2>. HIDE DEF f, left
  <2>. QED BY <1>4, <2>1, <2>2, <2>3 DEF Read, Bracket, IsObject
<1>6. f[0] = d /\ f[l] = Fresh
  <2>1. f[0] = d BY <1>1
  <2>2. CASE l = 0
    <3>1. d.open = <<>> /\ d.at = "start" BY <1>1, <2>2
    <3>. HIDE DEF f
    <3>. QED BY <1>1, <2>1, <2>2, <3>1 DEF Fresh
  <2>3. CASE l # 0
    <3>1. f[l] = Past(left(l)) /\ l \in 0..l BY <1>1, <2>3
    <3>2. left(l) = <<>>
      <4>1. Len(left(l)) = 0 /\ left(l) \in Seq({"array", "object"}) BY <1>1, <1>3, <3>1
      <4>. HIDE DEF left
      <4>. QED BY <4>1, EmptySeq
    <3>. QED BY <3>1, <3>2 DEF Past, Fresh
  <2>. QED BY <2>1, <2>2, <2>3
<1>. HIDE DEF f
<1>7. Account(f, d, tokens) BY <1>2, <1>5, <1>6 DEF Account
<1>8. Len(tokens) = l /\ l \in Nat BY <1>1, <1>2
<1>. QED BY <1>6, <1>7, <1>8 DEF tokens, Gets

-----------------------------------------------------------------------------
(* What the calls do to types[].                                             *)

LEMMA StackTop ==
    ASSUME NEW ts, Stack(ts)
    PROVE  LET us == [ts EXCEPT ![Len(ts)] = Used(ts[Len(ts)])] IN Stack(us) /\ Len(us) = Len(ts)
<1>. DEFINE l == Len(ts)
            u == Used(ts[l])
            us == [ts EXCEPT ![l] = u]
<1>1. l \in Nat /\ l # 0 /\ l \in 1..l /\ ts \in Seq(Kinds) /\ \A i \in 2..l : ts[i] # "nul" BY DEF Stack
<1>2. ts[l] \in Kinds BY <1>1
<1>3. u \in Kinds /\ (u = "nul" <=> ts[l] = "nul") BY <1>2 DEF Used, Kinds
<1>. HIDE DEF u
<1>4. us \in Seq(Kinds) /\ Len(us) = l /\ us[l] = u /\ \A i \in 1..l : i # l => us[i] = ts[i] BY <1>1, <1>3
<1>. HIDE DEF us, l
<1>5. ASSUME NEW i \in 2..l PROVE us[i] # "nul"
  <2>1. CASE i = l BY <1>1, <1>3, <1>4, <1>5, <2>1
  <2>2. CASE i # l BY <1>1, <1>4, <1>5, <2>2
  <2>. QED BY <2>1, <2>2
<1>6. Stack(us) BY <1>1, <1>4, <1>5 DEF Stack
<1>. QED BY <1>4, <1>6 DEF us, l, u

LEMMA StackPush ==
    ASSUME NEW ts, Stack(ts), NEW kind \in {"ObjectNew", "ArrayNew"}
    PROVE  /\ Stack(Append(ts, kind)) /\ Len(Append(ts, kind)) = Len(ts) + 1 /\ Len(ts) \in Nat
           /\ Stack(<<kind>>) /\ Len(<<kind>>) = 1
<1>. DEFINE l == Len(ts)
            us == Append(ts, kind)
<1>1. l \in Nat /\ ts \in Seq(Kinds) /\ (\A i \in 2..l : ts[i] # "nul") /\ kind \in Kinds /\ kind # "nul"
  BY DEF Stack, Kinds
<1>2. us \in Seq(Kinds) /\ Len(us) = l + 1 /\ us[l + 1] = kind /\ \A i \in 1..l : us[i] = ts[i]
  BY <1>1, Appended
<1>. HIDE DEF us, l
<1>3. ASSUME NEW i \in 2..l + 1 PROVE us[i] # "nul"
  <2>1. CASE i = l + 1 BY <1>1, <1>2, <2>1
  <2>2. CASE i # l + 1 BY <1>1, <1>2, <2>2
  <2>. QED BY <2>1, <2>2
<1>4. Stack(us) BY <1>1, <1>2, <1>3 DEF Stack
<1>5. <<kind>> \in Seq(Kinds) /\ Len(<<kind>>) = 1 BY <1>1
<1>6. Stack(<<kind>>) BY <1>5 DEF Stack
<1>. QED BY <1>1, <1>2, <1>4, <1>5, <1>6 DEF us, l

LEMMA StackPop ==
    ASSUME NEW ts, Stack(ts), Len(ts) > 1
    PROVE  Stack(Front(ts)) /\ Len(Front(ts)) = Len(ts) - 1
<1>. DEFINE l == Len(ts)
            us == Front(ts)
<1>1. l \in Nat /\ l > 1 /\ l # 0 /\ ts \in Seq(Kinds) /\ (\A i \in 2..l : ts[i] # "nul") BY DEF Stack
<1>2. us \in Seq(Kinds) /\ Len(us) = l - 1 /\ \A i \in 1..l - 1 : us[i] = ts[i] BY <1>1, Frontal
<1>. HIDE DEF us, l
<1>3. ASSUME NEW i \in 2..l - 1 PROVE us[i] # "nul" BY <1>1, <1>2
<1>4. Stack(us) BY <1>1, <1>2, <1>3 DEF Stack
<1>. QED BY <1>2, <1>4 DEF us, l

LEMMA StackBase ==
    ASSUME NEW ts, Stack(ts)
    PROVE  Stack(<<ts[1]>>) /\ Len(<<ts[1]>>) = 1
<1>1. ts[1] \in Kinds BY DEF Stack
<1>2. <<ts[1]>> \in Seq(Kinds) /\ Len(<<ts[1]>>) = 1 BY <1>1
<1>. QED BY <1>2 DEF Stack

\* The tokens of the calls.
LEMMA IntroTokens ==
    ASSUME NEW type, NEW key
    PROVE  Intro(type, key) \in Seq(Token)
<1>1. {",", "string", ":"} \subseteq Token BY DEF Token
<1>2. CommaDue(type) \in Seq(Token) BY <1>1, RowsTyped DEF CommaDue
<1>3. (IF key THEN <<"string", ":">> ELSE <<>>) \in Seq(Token) BY <1>1, RowsTyped
<1>. QED BY <1>2, <1>3, ConcatProperties DEF Intro

LEMMA ClosersTokens ==
    ASSUME NEW ts, Stack(ts)
    PROVE  Closers(ts) \in Seq(Token) /\ Len(Closers(ts)) = Len(ts) - 1
<1>. DEFINE n == Len(ts) - 1
<1>1. n \in Nat BY DEF Stack
<1>2. \A type : Bracket(type) \in Token BY DEF Bracket, Token
<1>3. Closers(ts) = [i \in 1..n |-> Bracket(ts[Len(ts) + 1 - i])] BY DEF Closers
<1>. HIDE DEF n
<1>. DEFINE b(i) == Bracket(ts[Len(ts) + 1 - i])
<1>4. \A i \in 1..n : b(i) \in Token BY <1>2
<1>. HIDE DEF b
<1>5. [i \in 1..n |-> b(i)] \in Seq(Token) /\ Len([i \in 1..n |-> b(i)]) = n BY <1>1, <1>4
<1>. QED BY <1>3, <1>5 DEF b, n

-----------------------------------------------------------------------------
(* The invariant, in three parts.                                            *)

Typed ==
    /\ Stack(types) /\ below \in 0..MaxBelow /\ cap \in Nat
    /\ keyWritten \in BOOLEAN /\ stream \in BOOLEAN /\ spoilt \in BOOLEAN /\ torn \in BOOLEAN
    /\ InBounds
Told ==
    /\ held \in Nat /\ sent \in Nat /\ made \in 0..MaxTokens
    /\ ~torn => sent + held = made
    /\ stream /\ answer = "ok" => held <= FlushLimit
    /\ ~stream => sent = 0
Written == Reader(doc) /\ (~spoilt => below = 0 /\ Stands(types, keyWritten, doc))
WriterInv == Typed /\ Told /\ Written

LEMMA FreshStands == Reader(Fresh) /\ Stands(<<"nul">>, FALSE, Fresh)
<1>1. Fresh.open = <<>> /\ Fresh.at = "start" /\ <<>> \in Seq({"array", "object"}) /\ Len(<<>>) = 0 BY DEF Fresh
<1>2. "start" \in Places BY DEF Places
<1>3. Reader(Fresh) BY <1>1, <1>2, ReaderMade DEF Fresh
<1>4. Len(<<"nul">>) = 1 /\ <<"nul">>[1] = "nul" OBVIOUS
<1>5. InStep(<<"nul">>, <<>>) BY <1>1, <1>4 DEF InStep
<1>. QED BY <1>1, <1>3, <1>5 DEF Stands

LEMMA Started == ASSUME Init PROVE WriterInv
<1>. USE WriterAssumption
<1>1. Stack(<<"nul">>) /\ Len(<<"nul">>) = 1
  <2>1. "nul" \in Kinds BY DEF Kinds
  <2>2. <<"nul">> \in Seq(Kinds) /\ Len(<<"nul">>) = 1 BY <2>1
  <2>. QED BY <2>2 DEF Stack
<1>2. Typed
  <2>1. 0 \in 0..MaxBelow BY DEF WriterAssumption
  <2>2. stream \in BOOLEAN /\ cap \in Nat /\ cap >= 1 BY DEF Init, WriterAssumption
  <2>3. Stack(types) /\ Len(types) = 1 BY <1>1 DEF Init
  <2>4. InBounds BY ONLY <2>2, <2>3 DEF InBounds
  <2>. QED BY <2>1, <2>2, <2>3, <2>4 DEF Init, Typed
<1>3. Told BY DEF Init, Told, WriterAssumption
<1>4. Reader(Fresh) /\ Stands(<<"nul">>, FALSE, Fresh) BY FreshStands
<1>5. Written BY <1>4 DEF Init, Written
<1>. QED BY <1>2, <1>3, <1>5 DEF WriterInv

-----------------------------------------------------------------------------
(* types[] stays a stack inside its block.                                   *)

LEMMA TopIs ==
    ASSUME Typed, NEW type \in TopTypes
    PROVE  /\ Stack(WithTop(Used(type))) /\ Len(WithTop(Used(type))) = Len(types)
           /\ below = 0 => /\ type = types[Len(types)]
                           /\ WithTop(Used(type)) = [types EXCEPT ![Len(types)] = Used(types[Len(types)])]
<1>1. CASE below = 0
  <2>1. type = types[Len(types)] BY <1>1 DEF TopTypes, Last
  <2>2. WithTop(Used(type)) = [types EXCEPT ![Len(types)] = Used(types[Len(types)])] BY <1>1, <2>1 DEF WithTop
  <2>. QED BY <2>1, <2>2, StackTop DEF Typed
<1>2. CASE below # 0 BY <1>2 DEF WithTop, Typed
<1>. QED BY <1>1, <1>2

LEMMA Pushed ==
    ASSUME Typed, NEW ts, Stack(ts), Len(ts) = Len(types), NEW kind \in {"ObjectNew", "ArrayNew"}, PushType(ts, kind)
    PROVE  /\ Stack(types') /\ below' \in 0..MaxBelow /\ cap' \in Nat /\ InBounds'
           /\ below = 0 => types' = Append(ts, kind) /\ below' = 0
<1>. DEFINE l == Len(types)
<1>1. l \in Nat /\ l > 0 /\ cap \in Nat /\ l <= cap /\ below \in Nat /\ below <= MaxBelow /\ MaxBelow \in Nat
  BY WriterAssumption DEF Typed, Stack, InBounds, WriterAssumption
<1>2. /\ types' = IF below > 0 THEN IF below = 1 THEN <<kind>> ELSE ts ELSE Append(ts, kind)
      /\ below' = IF below > 0 THEN below - 1 ELSE 0
      /\ cap' = IF cap <= l - 1 - below + 1 THEN 2 * cap ELSE cap
  BY DEF PushType, depth
<1>3. /\ Stack(Append(ts, kind)) /\ Len(Append(ts, kind)) = l + 1
      /\ Stack(<<kind>>) /\ Len(<<kind>>) = 1
  BY StackPush
<1>4. Len(ts) = l OBVIOUS
<1>. HIDE DEF l
<1>5. below' \in 0..MaxBelow /\ cap' \in Nat /\ cap' >= cap BY <1>1, <1>2
<1>6. CASE below > 0
  <2>1. types' = (IF below = 1 THEN <<kind>> ELSE ts) BY <1>2, <1>6
  <2>2. Stack(types') /\ Len(types') <= l BY <1>1, <1>3, <1>4, <2>1
  <2>3. Len(types') \in Nat BY <2>2 DEF Stack
  <2>4. Len(types') <= cap' BY ONLY <1>1, <1>5, <2>2, <2>3
  <2>. QED BY <1>5, <1>6, <2>2, <2>4 DEF InBounds
<1>7. CASE ~(below > 0)
  <2>1. below = 0 /\ types' = Append(ts, kind) /\ below' = 0 BY <1>1, <1>2, <1>7
  <2>2. Len(types') = l + 1 BY <1>3, <2>1
  <2>3. l - 1 - below + 1 = l BY ONLY <1>1, <2>1
  <2>4. l + 1 <= cap' BY ONLY <1>1, <1>2, <2>3
  <2>. QED BY <1>3, <1>5, <2>1, <2>2, <2>4 DEF InBounds
<1>. QED BY <1>6, <1>7

LEMMA SpoiltStays ==
    ASSUME Typed, NEW tokens, NEW spoils \in BOOLEAN, Emitted(tokens, spoils)
    PROVE  spoilt' \in BOOLEAN
BY DEF Emitted, Typed

LEMMA TornStays ==
    ASSUME Typed
    PROVE  /\ \A n : WriteTo(n) => torn' \in BOOLEAN
           /\ \A n : Keep(n) => torn' \in BOOLEAN
BY DEF WriteTo, Keep, Typed

LEMMA FinishStays ==
    ASSUME Typed, NEW tokens, NEW spoils \in BOOLEAN, Finish(tokens, spoils)
    PROVE  spoilt' \in BOOLEAN /\ torn' \in BOOLEAN
<1>1. Emitted(tokens, spoils) BY DEF Finish
<1>2. (\E n : WriteTo(n)) \/ (\E n : Keep(n)) BY DEF Finish
<1>. QED BY <1>1, <1>2, SpoiltStays, TornStays

LEMMA TypedNext == ASSUME Typed, Next PROVE Typed'
<1>1. stream' \in BOOLEAN BY DEF Next, Typed
<1>2. ASSUME NEW why, Refuse(why) PROVE Typed'
  BY <1>1, <1>2 DEF Refuse, writer, output, flaws, Typed, InBounds
<1>3. ASSUME PushKey PROVE Typed'
  <2>1. PICK type \in TopTypes :
          \/ keyWritten /\ Refuse("two keys")
          \/ ~keyWritten /\ ~IsObject(type) /\ Refuse("not an object")
          \/ /\ ~keyWritten /\ IsObject(type)
             /\ types' = WithTop(Used(type)) /\ keyWritten' = TRUE
             /\ Finish(Intro(type, TRUE), FALSE)
             /\ UNCHANGED <<below, cap>>
    BY <1>3 DEF PushKey
  <2>2. CASE types' = WithTop(Used(type)) /\ keyWritten' = TRUE /\ Finish(Intro(type, TRUE), FALSE) /\ UNCHANGED <<below, cap>>
    <3>1. spoilt' \in BOOLEAN /\ torn' \in BOOLEAN BY <2>2, FinishStays
    <3>2. Stack(types') /\ Len(types') = Len(types) BY <2>2, TopIs
    <3>. QED BY <1>1, <2>2, <3>1, <3>2 DEF Typed, InBounds
  <2>. QED BY <1>2, <2>1, <2>2
<1>4. ASSUME NEW kind \in {"ObjectNew", "ArrayNew"}, NEW key \in BOOLEAN, PushContainer(kind, key) PROVE Typed'
  <2>. DEFINE token == IF kind = "ObjectNew" THEN "{" ELSE "["
  <2>1. PICK type \in TopTypes :
          IF keyWritten
           THEN PushType(types, kind) /\ Finish(<<token>>, FALSE) /\ keyWritten' = FALSE
           ELSE IF KeyMissing(type, key) THEN Refuse("no key")
           ELSE /\ PushType(WithTop(Used(type)), kind)
                /\ Finish(Append(Intro(type, key), token), Spoils(type, key))
                /\ UNCHANGED keyWritten
    BY <1>4 DEF PushContainer
  <2>. HIDE DEF token
  <2>2. CASE keyWritten
    <3>1. PushType(types, kind) /\ Finish(<<token>>, FALSE) /\ keyWritten' = FALSE BY <2>1, <2>2
    <3>2. spoilt' \in BOOLEAN /\ torn' \in BOOLEAN BY <3>1, FinishStays
    <3>3. Stack(types') /\ below' \in 0..MaxBelow /\ cap' \in Nat /\ InBounds' BY <3>1, Pushed DEF Typed
    <3>. QED BY <1>1, <3>1, <3>2, <3>3 DEF Typed
  <2>3. CASE ~keyWritten /\ ~KeyMissing(type, key)
    <3>1. /\ PushType(WithTop(Used(type)), kind)
          /\ Finish(Append(Intro(type, key), token), Spoils(type, key))
          /\ UNCHANGED keyWritten
      BY <2>1, <2>3
    <3>2. Spoils(type, key) \in BOOLEAN BY DEF Spoils
    <3>3. spoilt' \in BOOLEAN /\ torn' \in BOOLEAN BY <3>1, <3>2, FinishStays
    <3>4. Stack(types') /\ below' \in 0..MaxBelow /\ cap' \in Nat /\ InBounds' BY <3>1, TopIs, Pushed
    <3>. QED BY <1>1, <3>1, <3>3, <3>4 DEF Typed
  <2>. QED BY <1>2, <2>1, <2>2, <2>3
<1>5. ASSUME NEW key \in BOOLEAN, PushValue(key) PROVE Typed'
  <2>1. PICK type \in TopTypes :
          IF keyWritten
          THEN Finish(<<"value">>, FALSE) /\ keyWritten' = FALSE /\ UNCHANGED <<types, below, cap>>
          ELSE IF KeyMissing(type, key) THEN Refuse("no key")
          ELSE /\ types' = WithTop(Used(type))
               /\ Finish(Append(Intro(type, key), "value"), Spoils(type, key))
               /\ UNCHANGED <<below, cap, keyWritten>>
    BY <1>5 DEF PushValue
  <2>2. CASE keyWritten
    <3>1. Finish(<<"value">>, FALSE) /\ keyWritten' = FALSE /\ UNCHANGED <<types, below, cap>> BY <2>1, <2>2
    <3>2. spoilt' \in BOOLEAN /\ torn' \in BOOLEAN BY <3>1, FinishStays
    <3>. QED BY <1>1, <3>1, <3>2 DEF Typed, InBounds
  <2>3. CASE ~keyWritten /\ ~KeyMissing(type, key)
    <3>1. /\ types' = WithTop(Used(type))
          /\ Finish(Append(Intro(type, key), "value"), Spoils(type, key))
          /\ UNCHANGED <<below, cap, keyWritten>>
      BY <2>1, <2>3
    <3>2. Spoils(type, key) \in BOOLEAN BY DEF Spoils
    <3>3. spoilt' \in BOOLEAN /\ torn' \in BOOLEAN BY <3>1, <3>2, FinishStays
    <3>4. Stack(types') /\ Len(types') = Len(types) BY <3>1, TopIs
    <3>. QED BY <1>1, <3>1, <3>3, <3>4 DEF Typed, InBounds
  <2>. QED BY <1>2, <2>1, <2>2, <2>3
<1>6. ASSUME NEW key \in BOOLEAN, PushRaises(key) PROVE Typed'
  <2>1. PICK type \in TopTypes :
          /\ \E tokens : Emitted(tokens, TRUE)
          /\ types' = IF keyWritten THEN types ELSE WithTop(Used(type))
          /\ keyWritten' = FALSE
          /\ UNCHANGED <<below, cap, torn>>
    BY <1>6 DEF PushRaises
  <2>2. spoilt' \in BOOLEAN BY <2>1, SpoiltStays
  <2>3. Stack(types') /\ Len(types') = Len(types) BY <2>1, TopIs DEF Typed
  <2>. QED BY <1>1, <2>1, <2>2, <2>3 DEF Typed, InBounds
<1>7. ASSUME Pop PROVE Typed'
  <2>1. CASE types' = types /\ cap' = cap /\ torn' = torn /\ keyWritten' \in BOOLEAN /\ below' \in 0..MaxBelow /\ spoilt' = TRUE
    BY <1>1, <2>1 DEF Typed, InBounds
  <2>2. CASE /\ ~keyWritten /\ depth > 0 /\ types' = Front(types)
             /\ Finish(<<Bracket(Last(types))>>, FALSE) /\ UNCHANGED <<below, cap, keyWritten>>
    <3>1. Len(types) \in Nat /\ below \in Nat /\ cap \in Nat /\ Len(types) <= cap BY DEF Typed, Stack, InBounds
    <3>2. Len(types) > 1 BY <2>2, <3>1 DEF depth
    <3>3. Stack(types') /\ Len(types') = Len(types) - 1 BY <2>2, <3>2, StackPop DEF Typed
    <3>4. Len(types') <= cap BY ONLY <3>1, <3>3
    <3>5. spoilt' \in BOOLEAN /\ torn' \in BOOLEAN BY <2>2, FinishStays
    <3>. QED BY <1>1, <2>2, <3>3, <3>4, <3>5 DEF Typed, InBounds
  <2>3. below < MaxBelow => below + 1 \in 0..MaxBelow BY WriterAssumption DEF Typed, WriterAssumption
  <2>4. below \in 0..MaxBelow /\ keyWritten \in BOOLEAN BY DEF Typed
  <2>. QED BY <1>7, <2>1, <2>2, <2>3, <2>4 DEF Pop
<1>8. ASSUME PopAll PROVE Typed'
  <2>1. CASE Pop BY <1>7, <2>1
  <2>2. CASE UNCHANGED <<writer, output, flaws>>
    BY <1>1, <2>2 DEF writer, output, flaws, Typed, InBounds
  <2>3. CASE /\ types' = IF depth > 0 THEN <<types[1]>> ELSE types
             /\ \E tokens : Emitted(tokens, FALSE)
             /\ (\E n : WriteTo(n)) \/ (\E n : Keep(n))
             /\ UNCHANGED <<below, cap, keyWritten>>
    <3>1. spoilt' \in BOOLEAN /\ torn' \in BOOLEAN BY <2>3, SpoiltStays, TornStays
    <3>2. Len(types) \in Nat /\ Len(types) > 0 /\ cap \in Nat /\ Len(types) <= cap BY DEF Typed, Stack, InBounds
    <3>3. Stack(types') /\ (Len(types') = 1 \/ Len(types') = Len(types)) BY <2>3, StackBase DEF Typed
    <3>4. Len(types') <= cap BY ONLY <3>2, <3>3
    <3>. QED BY <1>1, <2>3, <3>1, <3>3, <3>4 DEF Typed, InBounds
  <2>. QED BY <1>8, <2>1, <2>2, <2>3 DEF PopAll
<1>9. ASSUME Flush PROVE Typed'
  <2>1. torn' \in BOOLEAN BY <1>9, TornStays DEF Flush
  <2>. QED BY <1>1, <1>9, <2>1 DEF Flush, writer, Typed, InBounds
<1>10. ASSUME Reset PROVE Typed'
  <2>1. "nul" \in Kinds BY DEF Kinds
  <2>2. <<"nul">> \in Seq(Kinds) /\ Len(<<"nul">>) = 1 BY <2>1
  <2>3. Stack(<<"nul">>) BY <2>2 DEF Stack
  <2>4. 1 <= cap /\ 0 \in 0..MaxBelow BY WriterAssumption DEF Typed, Stack, InBounds, WriterAssumption
  <2>. QED BY <1>1, <1>10, <2>2, <2>3, <2>4 DEF Reset, Typed, InBounds
<1>. QED BY <1>3, <1>4, <1>5, <1>6, <1>7, <1>8, <1>9, <1>10 DEF Next

-----------------------------------------------------------------------------
(* Every token is held or sent.                                              *)

LEMMA WriteTold ==
    ASSUME Told, stream, stream' = stream, NEW k \in Nat, made' = made + k, made' \in 0..MaxTokens,
           WriteTo(held + k)
    PROVE  Told'
<1>1. held \in Nat /\ sent \in Nat /\ made \in Nat /\ (~torn => sent + held = made) /\ FlushLimit \in Nat
  BY WriterAssumption DEF Told, WriterAssumption
<1>2. CASE sent' = sent + (held + k) /\ held' = 0 /\ answer' = "ok" /\ UNCHANGED torn
  <2>1. held' \in Nat /\ sent' \in Nat /\ held' <= FlushLimit /\ (~torn' => sent' + held' = made')
    BY ONLY <1>1, <1>2, made' = made + k, k \in Nat
  <2>. QED BY <2>1 DEF Told
<1>3. CASE sent' = sent /\ held' = held + k /\ answer' = "write raised" /\ UNCHANGED torn
  <2>0. sent' = sent /\ held' = held + k /\ torn' = torn BY <1>3
  <2>1. held' \in Nat /\ sent' \in Nat /\ (~torn' => sent' + held' = made')
    BY ONLY <1>1, <2>0, made' = made + k, k \in Nat
  <2>. QED BY <1>3, <2>1 DEF Told
<1>4. CASE sent' = sent + (held + k) /\ held' = held + k /\ answer' = "write raised" /\ torn' = TRUE
  <2>0. sent' = sent + (held + k) /\ held' = held + k BY <1>4
  <2>1. held' \in Nat /\ sent' \in Nat BY ONLY <1>1, <2>0, k \in Nat
  <2>. QED BY <1>4, <2>1 DEF Told
<1>. QED BY <1>2, <1>3, <1>4 DEF WriteTo

LEMMA KeepTold ==
    ASSUME Told, stream \in BOOLEAN, stream' = stream, NEW k \in Nat, made' = made + k, made' \in 0..MaxTokens,
           Keep(held + k), stream => ~OverLimit(held + k)
    PROVE  Told'
<1>1. held \in Nat /\ sent \in Nat /\ made \in Nat /\ (~torn => sent + held = made) /\ FlushLimit \in Nat
      /\ (~stream => sent = 0)
  BY WriterAssumption DEF Told, WriterAssumption
<1>2. held' = held + k /\ sent' = sent /\ torn' = torn BY DEF Keep
<1>3. stream => held + k <= FlushLimit BY <1>1 DEF OverLimit
<1>4. held' \in Nat /\ sent' \in Nat /\ (~torn' => sent' + held' = made') /\ (stream => held' <= FlushLimit)
  BY ONLY <1>1, <1>2, <1>3, made' = made + k, k \in Nat
<1>. QED BY <1>1, <1>2, <1>4 DEF Told

LEMMA EmittedMade ==
    ASSUME Told, NEW tokens, Len(tokens) \in Nat, NEW spoils, Emitted(tokens, spoils)
    PROVE  made' = made + Len(tokens) /\ made' \in 0..MaxTokens
BY WriterAssumption DEF Told, Emitted, WriterAssumption

LEMMA FinishTold ==
    ASSUME Typed, Told, stream' = stream, NEW tokens, Len(tokens) \in Nat, NEW spoils, Finish(tokens, spoils)
    PROVE  Told'
<1>1. made' = made + Len(tokens) /\ made' \in 0..MaxTokens BY EmittedMade DEF Finish
<1>2. IF stream /\ OverLimit(held + Len(tokens)) THEN WriteTo(held + Len(tokens)) ELSE Keep(held + Len(tokens))
  BY DEF Finish
<1>3. stream \in BOOLEAN BY DEF Typed
<1>. QED BY <1>1, <1>2, <1>3, WriteTold, KeepTold

LEMMA OneToken == \A x : Len(<<x>>) \in Nat
OBVIOUS

LEMMA IntroLength ==
    ASSUME NEW type, NEW key, NEW x \in Token
    PROVE  Len(Intro(type, key)) \in Nat /\ Len(Append(Intro(type, key), x)) \in Nat
<1>1. Intro(type, key) \in Seq(Token) BY IntroTokens
<1>2. Append(Intro(type, key), x) \in Seq(Token) BY <1>1, Appended
<1>. QED BY <1>1, <1>2, LenProperties

LEMMA ToldNext == ASSUME Typed, Told, Next PROVE Told'
<1>1. stream' = stream /\ stream \in BOOLEAN BY DEF Next, Typed
<1>2. ASSUME NEW why, why # "ok", Refuse(why) PROVE Told'
  BY <1>1, <1>2 DEF Refuse, writer, output, flaws, Told
<1>3. ASSUME PushKey PROVE Told'
  <2>1. PICK type \in TopTypes :
          Refuse("two keys") \/ Refuse("not an object") \/ Finish(Intro(type, TRUE), FALSE)
    BY <1>3 DEF PushKey
  <2>2. CASE Finish(Intro(type, TRUE), FALSE)
    <3>1. ":" \in Token BY DEF Token
    <3>. QED BY <1>1, <2>2, <3>1, IntroLength, FinishTold
  <2>3. "two keys" # "ok" /\ "not an object" # "ok" OBVIOUS
  <2>. QED BY <1>2, <2>1, <2>2, <2>3
<1>4. "no key" # "ok" OBVIOUS
<1>5. ASSUME NEW kind \in {"ObjectNew", "ArrayNew"}, NEW key \in BOOLEAN, PushContainer(kind, key) PROVE Told'
  <2>. DEFINE token == IF kind = "ObjectNew" THEN "{" ELSE "["
  <2>1. PICK type \in TopTypes :
          \/ Finish(<<token>>, FALSE)
          \/ Refuse("no key")
          \/ Finish(Append(Intro(type, key), token), Spoils(type, key))
    BY <1>5 DEF PushContainer
  <2>2. token \in Token BY DEF Token
  <2>. HIDE DEF token
  <2>3. CASE Finish(<<token>>, FALSE) BY <1>1, <2>3, OneToken, FinishTold
  <2>4. CASE Finish(Append(Intro(type, key), token), Spoils(type, key)) BY <1>1, <2>2, <2>4, IntroLength, FinishTold
  <2>. QED BY <1>2, <1>4, <2>1, <2>3, <2>4
<1>6. "value" \in Token BY DEF Token
<1>7. ASSUME NEW key \in BOOLEAN, PushValue(key) PROVE Told'
  <2>1. PICK type \in TopTypes :
          \/ Finish(<<"value">>, FALSE)
          \/ Refuse("no key")
          \/ Finish(Append(Intro(type, key), "value"), Spoils(type, key))
    BY <1>7 DEF PushValue
  <2>3. CASE Finish(<<"value">>, FALSE) BY <1>1, <2>3, OneToken, FinishTold
  <2>4. CASE Finish(Append(Intro(type, key), "value"), Spoils(type, key)) BY <1>1, <1>6, <2>4, IntroLength, FinishTold
  <2>. QED BY <1>2, <1>4, <2>1, <2>3, <2>4
<1>8. ASSUME NEW key \in BOOLEAN, PushRaises(key) PROVE Told'
  <2>. DEFINE tokens(type) == IF keyWritten THEN <<>> ELSE Intro(type, key)
  <2>1. PICK type \in TopTypes :
          /\ Emitted(tokens(type), TRUE)
          /\ held' = held + Len(tokens(type)) /\ sent' = sent
          /\ answer' = "value raised" /\ torn' = torn
    BY <1>8 DEF PushRaises
  <2>. DEFINE k == Len(tokens(type))
  <2>2. k \in Nat BY <1>6, IntroLength
  <2>. HIDE DEF tokens
  <2>3. made' = made + k /\ made' \in 0..MaxTokens BY <2>1, <2>2, EmittedMade
  <2>. HIDE DEF k
  <2>4. held \in Nat /\ sent \in Nat /\ made \in Nat /\ (~torn => sent + held = made) /\ (~stream => sent = 0)
    BY DEF Told
  <2>5. held' = held + k /\ sent' = sent /\ torn' = torn /\ answer' # "ok" BY <2>1 DEF k
  <2>6. held' \in Nat /\ sent' \in Nat /\ (~torn' => sent' + held' = made') BY ONLY <2>2, <2>3, <2>4, <2>5
  <2>. QED BY <1>1, <2>3, <2>4, <2>5, <2>6 DEF Told
<1>9. ASSUME Pop PROVE Told'
  <2>1. CASE UNCHANGED <<held, sent, made, torn>> /\ answer' # "ok" BY <1>1, <2>1 DEF Told
  <2>2. CASE Finish(<<Bracket(Last(types))>>, FALSE) BY <1>1, <2>2, OneToken, FinishTold
  <2>. QED BY <1>9, <2>1, <2>2 DEF Pop
<1>10. ASSUME PopAll PROVE Told'
  <2>1. CASE Pop BY <1>9, <2>1
  <2>2. CASE ~stream /\ UNCHANGED <<writer, output, flaws>>
    BY <1>1, <2>2 DEF writer, output, flaws, Told
  <2>. DEFINE tokens == IF depth > 0 THEN Brackets ELSE <<>>
  <2>3. CASE /\ Emitted(tokens, FALSE)
             /\ IF stream THEN WriteTo(held + Len(tokens)) ELSE Keep(held + Len(tokens))
    <3>1. Brackets = Closers(types) BY DEF Brackets, Closers
    <3>2. Len(Brackets) \in Nat BY <3>1, ClosersTokens, LenProperties DEF Typed
    <3>3. Len(tokens) \in Nat BY <3>2
    <3>. HIDE DEF tokens
    <3>4. made' = made + Len(tokens) /\ made' \in 0..MaxTokens BY <2>3, <3>3, EmittedMade
    <3>. QED BY <1>1, <2>3, <3>3, <3>4, WriteTold, KeepTold
  <2>. QED BY <1>10, <2>1, <2>2, <2>3 DEF PopAll
<1>11. ASSUME Flush PROVE Told'
  <2>1. held \in Nat /\ made \in 0..MaxTokens BY DEF Told
  <2>2. held + 0 = held /\ made' = made + 0 /\ made' \in 0..MaxTokens BY <1>11, <2>1 DEF Flush
  <2>3. WriteTo(held + 0) /\ stream BY <1>11, <2>2 DEF Flush
  <2>4. 0 \in Nat OBVIOUS
  <2>. QED BY ONLY <1>1, <2>2, <2>3, <2>4, Told, WriteTold
<1>12. ASSUME Reset PROVE Told'
  <2>1. MaxTokens \in Nat /\ sent = 0 BY <1>12, WriterAssumption DEF Reset, Told, WriterAssumption
  <2>. QED BY <1>1, <1>12, <2>1 DEF Reset, Told
<1>. QED BY <1>3, <1>5, <1>7, <1>8, <1>9, <1>10, <1>11, <1>12 DEF Next

-----------------------------------------------------------------------------
(* types[] says where the text stands.                                       *)

LEMMA SpoiltReader == ASSUME doc' = Bad, spoilt' = TRUE PROVE Written'
<1>1. "bad" \in Places /\ <<>> \in Seq({"array", "object"}) BY DEF Places
<1>2. Reader(Bad) BY <1>1, ReaderMade DEF Bad
<1>. QED BY <1>2 DEF Written

\* A call that leaves the reader at e, unless the text is spoilt.
LEMMA EmittedWritten ==
    ASSUME NEW tokens, NEW spoils \in BOOLEAN, Emitted(tokens, spoils), Typed,
           ~spoilt /\ ~spoils =>
               /\ below' = 0
               /\ \E e : Gets(doc, tokens, e) /\ Reader(e) /\ Stands(types', keyWritten', e)
    PROVE  Written'
<1>1. spoilt' = (spoilt \/ spoils) /\ doc' = (IF spoilt' THEN Bad ELSE ReadAll(doc, tokens)) /\ spoilt \in BOOLEAN
  BY DEF Emitted, Typed
<1>2. CASE spoilt'
  <2>1. spoilt' = TRUE /\ doc' = Bad BY <1>1, <1>2
  <2>. QED BY <2>1, SpoiltReader
<1>3. CASE ~spoilt'
  <2>1. ~spoilt /\ ~spoils /\ doc' = ReadAll(doc, tokens) BY <1>1, <1>3
  <2>2. PICK e : Gets(doc, tokens, e) /\ Reader(e) /\ Stands(types', keyWritten', e) BY <2>1
  <2>3. doc' = e BY <2>1, <2>2, GetsIs
  <2>. QED BY <2>1, <2>2, <2>3 DEF Written
<1>. QED BY <1>2, <1>3

LEMMA SameWritten == ASSUME Written, UNCHANGED <<types, below, keyWritten, doc, spoilt>> PROVE Written'
BY DEF Written

LEMMA BracketToken == ASSUME NEW kind PROVE (IF kind = "ObjectNew" THEN "{" ELSE "[") \in Token
BY DEF Token

\* A container begins where a value is due.
LEMMA BeginWritten ==
    ASSUME Typed, NEW ts, Stack(ts), Len(ts) = Len(types), NEW kind \in {"ObjectNew", "ArrayNew"}, below = 0,
           PushType(ts, kind), keyWritten' = FALSE,
           NEW tokens \in Seq(Token), NEW e, Gets(doc, tokens, e), Reader(e), Ready(ts, e)
    PROVE  LET token == IF kind = "ObjectNew" THEN "{" ELSE "["
           IN  /\ below' = 0
               /\ \E r : Gets(doc, Append(tokens, token), r) /\ Reader(r) /\ Stands(types', keyWritten', r)
<1>. DEFINE token == IF kind = "ObjectNew" THEN "{" ELSE "["
            r == Read(e, token)
<1>1. token \in Token BY BracketToken
<1>2. Reader(r) /\ Stands(Append(ts, kind), FALSE, r) BY OpenStands
<1>. HIDE DEF token
<1>3. Gets(doc, Append(tokens, token), r) BY <1>1, GetsMore
<1>4. types' = Append(ts, kind) /\ below' = 0 BY Pushed
<1>. QED BY <1>2, <1>3, <1>4 DEF token

\* A value, likewise.
LEMMA PutWritten ==
    ASSUME NEW ts, Stack(ts), types' = ts, keyWritten' = FALSE,
           NEW tokens \in Seq(Token), NEW e, Gets(doc, tokens, e), Reader(e), Ready(ts, e)
    PROVE  \E r : Gets(doc, Append(tokens, "value"), r) /\ Reader(r) /\ Stands(types', keyWritten', r)
<1>. DEFINE r == Past(e.open)
<1>1. Read(e, "value") = r /\ Reader(r) /\ Stands(ts, FALSE, r) BY ValueStands
<1>2. "value" \in Token BY DEF Token
<1>. HIDE DEF r
<1>3. Gets(doc, Append(tokens, "value"), r) BY <1>1, <1>2, GetsMore
<1>. QED BY <1>1, <1>3

LEMMA PushKeyWritten == ASSUME Typed, Written, PushKey PROVE Written'
<1>1. PICK type \in TopTypes :
        \/ Refuse("two keys")
        \/ Refuse("not an object")
        \/ /\ ~keyWritten /\ IsObject(type)
           /\ types' = WithTop(Used(type)) /\ keyWritten' = TRUE
           /\ Finish(Intro(type, TRUE), FALSE)
           /\ UNCHANGED <<below, cap>>
  BY DEF PushKey
<1>2. CASE \E why : Refuse(why) BY <1>2, SameWritten DEF Refuse, writer, output, flaws
<1>3. CASE /\ ~keyWritten /\ IsObject(type)
           /\ types' = WithTop(Used(type)) /\ keyWritten' = TRUE
           /\ Finish(Intro(type, TRUE), FALSE)
           /\ UNCHANGED <<below, cap>>
  <2>1. Emitted(Intro(type, TRUE), FALSE) BY <1>3 DEF Finish
  <2>2. ASSUME ~spoilt
        PROVE  /\ below' = 0
               /\ \E e : Gets(doc, Intro(type, TRUE), e) /\ Reader(e) /\ Stands(types', keyWritten', e)
    <3>1. below = 0 /\ Reader(doc) /\ Stands(types, FALSE, doc) BY <1>3, <2>2 DEF Written, Typed
    <3>2. /\ type = types[Len(types)] /\ types' = [types EXCEPT ![Len(types)] = Used(types[Len(types)])]
          /\ Stack(types)
      BY <1>3, <3>1, TopIs DEF Typed
    <3>3. PICK e : Gets(doc, Intro(type, TRUE), e) /\ Reader(e) /\ Stands(types', TRUE, e)
      BY <1>3, <3>1, <3>2, IntroReady
    <3>. QED BY <1>3, <3>1, <3>3
  <2>. QED BY <2>1, <2>2, EmittedWritten
<1>. QED BY <1>1, <1>2, <1>3

\* What push_object, push_array and push_value begin with, where it spoils nothing.
LEMMA Begun ==
    ASSUME Typed, Written, ~spoilt, ~keyWritten, NEW key \in BOOLEAN, NEW type \in TopTypes,
           ~KeyMissing(type, key), ~Spoils(type, key)
    PROVE  /\ below = 0 /\ Stack(WithTop(Used(type))) /\ Len(WithTop(Used(type))) = Len(types)
           /\ Intro(type, key) \in Seq(Token)
           /\ \E e : Gets(doc, Intro(type, key), e) /\ Reader(e) /\ Ready(WithTop(Used(type)), e)
<1>1. below = 0 /\ Reader(doc) /\ Stands(types, FALSE, doc) BY DEF Written, Typed
<1>2. /\ type = types[Len(types)] /\ WithTop(Used(type)) = [types EXCEPT ![Len(types)] = Used(types[Len(types)])]
      /\ Stack(types) /\ Stack(WithTop(Used(type))) /\ Len(WithTop(Used(type))) = Len(types)
  BY <1>1, TopIs DEF Typed
<1>3. key <=> IsObject(types[Len(types)]) BY <1>2 DEF KeyMissing, Spoils
<1>4. /\ Intro(type, key) \in Seq(Token)
      /\ \E e : Gets(doc, Intro(type, key), e) /\ Reader(e) /\ Ready(WithTop(Used(type)), e)
  <2>. DEFINE top == types[Len(types)]
              us == [types EXCEPT ![Len(types)] = Used(top)]
  <2>1. Stack(types) /\ type = top /\ WithTop(Used(type)) = us BY <1>2
  <2>2. /\ Intro(top, key) \in Seq(Token)
        /\ \E e : Gets(doc, Intro(top, key), e) /\ Reader(e) /\ Ready(us, e)
    BY <1>1, <1>3, <2>1, IntroReady
  <2>. HIDE DEF top, us
  <2>. QED BY <2>1, <2>2
<1>. QED BY <1>1, <1>2, <1>4

LEMMA Waited ==
    ASSUME Typed, Written, ~spoilt, keyWritten
    PROVE  below = 0 /\ Stack(types) /\ Reader(doc) /\ Ready(types, doc) /\ Gets(doc, <<>>, doc) /\ <<>> \in Seq(Token)
<1>1. below = 0 /\ Stack(types) /\ Reader(doc) /\ Stands(types, TRUE, doc) BY DEF Written, Typed
<1>. QED BY <1>1, WaitingReady, GetsNone, RowsTyped

LEMMA PushContainerWritten ==
    ASSUME Typed, Written, NEW kind \in {"ObjectNew", "ArrayNew"}, NEW key \in BOOLEAN, PushContainer(kind, key)
    PROVE  Written'
<1>. DEFINE token == IF kind = "ObjectNew" THEN "{" ELSE "["
<1>1. PICK type \in TopTypes :
        IF keyWritten
         THEN PushType(types, kind) /\ Finish(<<token>>, FALSE) /\ keyWritten' = FALSE
         ELSE IF KeyMissing(type, key) THEN Refuse("no key")
         ELSE /\ PushType(WithTop(Used(type)), kind)
              /\ Finish(Append(Intro(type, key), token), Spoils(type, key))
              /\ UNCHANGED keyWritten
  BY DEF PushContainer
<1>2. keyWritten \in BOOLEAN BY DEF Typed
<1>3. CASE keyWritten
  <2>1. PushType(types, kind) /\ Emitted(<<token>>, FALSE) /\ keyWritten' = FALSE BY <1>1, <1>3 DEF Finish
  <2>2. ASSUME ~spoilt
        PROVE  /\ below' = 0
               /\ \E r : Gets(doc, <<token>>, r) /\ Reader(r) /\ Stands(types', keyWritten', r)
    <3>1. /\ below = 0 /\ Stack(types) /\ Reader(doc) /\ Ready(types, doc) /\ Gets(doc, <<>>, doc)
          /\ <<>> \in Seq(Token)
      BY <1>3, <2>2, Waited
    <3>2. below' = 0 /\ \E r : Gets(doc, Append(<<>>, token), r) /\ Reader(r) /\ Stands(types', keyWritten', r)
      BY <2>1, <3>1, BeginWritten
    <3>. HIDE DEF token
    <3>. QED BY <3>2, Rows
  <2>. HIDE DEF token
  <2>. QED BY <2>1, <2>2, EmittedWritten
<1>4. CASE ~keyWritten /\ KeyMissing(type, key)
  BY <1>1, <1>4, SameWritten DEF Refuse, writer, output, flaws
<1>5. CASE ~keyWritten /\ ~KeyMissing(type, key)
  <2>1. /\ PushType(WithTop(Used(type)), kind) /\ keyWritten' = FALSE
        /\ Emitted(Append(Intro(type, key), token), Spoils(type, key))
    BY <1>1, <1>2, <1>5 DEF Finish
  <2>2. ASSUME ~spoilt, ~Spoils(type, key)
        PROVE  /\ below' = 0
               /\ \E r : Gets(doc, Append(Intro(type, key), token), r) /\ Reader(r) /\ Stands(types', keyWritten', r)
    <3>1. /\ below = 0 /\ Stack(WithTop(Used(type))) /\ Len(WithTop(Used(type))) = Len(types)
          /\ Intro(type, key) \in Seq(Token)
          /\ \E e : Gets(doc, Intro(type, key), e) /\ Reader(e) /\ Ready(WithTop(Used(type)), e)
      BY <1>5, <2>2, Begun
    <3>. QED BY <2>1, <3>1, BeginWritten
  <2>3. Spoils(type, key) \in BOOLEAN BY DEF Spoils
  <2>. HIDE DEF token
  <2>. QED BY <2>1, <2>2, <2>3, EmittedWritten
<1>. QED BY <1>2, <1>3, <1>4, <1>5

LEMMA PushValueWritten ==
    ASSUME Typed, Written, NEW key \in BOOLEAN, PushValue(key)
    PROVE  Written'
<1>1. PICK type \in TopTypes :
        IF keyWritten
        THEN Finish(<<"value">>, FALSE) /\ keyWritten' = FALSE /\ UNCHANGED <<types, below, cap>>
        ELSE IF KeyMissing(type, key) THEN Refuse("no key")
        ELSE /\ types' = WithTop(Used(type))
             /\ Finish(Append(Intro(type, key), "value"), Spoils(type, key))
             /\ UNCHANGED <<below, cap, keyWritten>>
  BY DEF PushValue
<1>2. keyWritten \in BOOLEAN BY DEF Typed
<1>3. CASE keyWritten
  <2>1. Emitted(<<"value">>, FALSE) /\ keyWritten' = FALSE /\ types' = types /\ below' = below BY <1>1, <1>3 DEF Finish
  <2>2. ASSUME ~spoilt
        PROVE  /\ below' = 0
               /\ \E r : Gets(doc, <<"value">>, r) /\ Reader(r) /\ Stands(types', keyWritten', r)
    <3>1. /\ below = 0 /\ Stack(types) /\ Reader(doc) /\ Ready(types, doc) /\ Gets(doc, <<>>, doc)
          /\ <<>> \in Seq(Token)
      BY <1>3, <2>2, Waited
    <3>2. \E r : Gets(doc, Append(<<>>, "value"), r) /\ Reader(r) /\ Stands(types', keyWritten', r)
      BY <2>1, <3>1, PutWritten
    <3>. QED BY <2>1, <3>1, <3>2, Rows
  <2>. QED BY <2>1, <2>2, EmittedWritten
<1>4. CASE ~keyWritten /\ KeyMissing(type, key)
  BY <1>1, <1>4, SameWritten DEF Refuse, writer, output, flaws
<1>5. CASE ~keyWritten /\ ~KeyMissing(type, key)
  <2>1. /\ types' = WithTop(Used(type)) /\ keyWritten' = FALSE /\ below' = below
        /\ Emitted(Append(Intro(type, key), "value"), Spoils(type, key))
    BY <1>1, <1>2, <1>5 DEF Finish
  <2>2. ASSUME ~spoilt, ~Spoils(type, key)
        PROVE  /\ below' = 0
               /\ \E r : Gets(doc, Append(Intro(type, key), "value"), r) /\ Reader(r) /\ Stands(types', keyWritten', r)
    <3>1. /\ below = 0 /\ Stack(WithTop(Used(type)))
          /\ Intro(type, key) \in Seq(Token)
          /\ \E e : Gets(doc, Intro(type, key), e) /\ Reader(e) /\ Ready(WithTop(Used(type)), e)
      BY <1>5, <2>2, Begun
    <3>. QED BY <2>1, <3>1, PutWritten
  <2>3. Spoils(type, key) \in BOOLEAN BY DEF Spoils
  <2>. QED BY <2>1, <2>2, <2>3, EmittedWritten
<1>. QED BY <1>2, <1>3, <1>4, <1>5

LEMMA PopWritten == ASSUME Typed, Written, Pop PROVE Written'
<1>1. CASE doc' = Bad /\ spoilt' = TRUE BY <1>1, SpoiltReader
<1>2. CASE /\ ~keyWritten /\ depth > 0
           /\ types' = Front(types)
           /\ Finish(<<Bracket(Last(types))>>, FALSE)
           /\ UNCHANGED <<below, cap, keyWritten>>
  <2>. DEFINE token == Bracket(Last(types))
  <2>1. Emitted(<<token>>, FALSE) BY <1>2 DEF Finish
  <2>2. ASSUME ~spoilt
        PROVE  /\ below' = 0
               /\ \E r : Gets(doc, <<token>>, r) /\ Reader(r) /\ Stands(types', keyWritten', r)
    <3>1. below = 0 /\ Stack(types) /\ Reader(doc) /\ Stands(types, FALSE, doc) BY <1>2, <2>2 DEF Written, Typed
    <3>2. Len(types) \in Nat /\ Len(types) > 1 BY <1>2, <3>1 DEF depth, Stack
    <3>3. token = Bracket(types[Len(types)]) BY DEF Last
    <3>. DEFINE r == Past(Front(doc.open))
    <3>4. Read(doc, token) = r /\ Reader(r) /\ Stands(Front(types), FALSE, r) BY <3>1, <3>2, <3>3, CloseStands
    <3>5. token \in Token BY DEF Bracket, Token
    <3>. HIDE DEF token, r
    <3>6. Gets(doc, <<token>>, r) BY <3>4, <3>5, GetsOne
    <3>7. keyWritten' = FALSE BY <1>2 DEF Typed
    <3>. QED BY <1>2, <3>1, <3>4, <3>6, <3>7
  <2>. HIDE DEF token
  <2>. QED BY <2>1, <2>2, EmittedWritten
<1>. QED BY <1>1, <1>2 DEF Pop

LEMMA WrittenNext == ASSUME Typed, Written, Next PROVE Written'
<1>1. ASSUME NEW key \in BOOLEAN, PushRaises(key) PROVE Written'
  <2>1. PICK tokens : Emitted(tokens, TRUE) BY <1>1 DEF PushRaises
  <2>2. doc' = Bad /\ spoilt' = TRUE BY <2>1 DEF Emitted
  <2>. QED BY <2>2, SpoiltReader
<1>2. ASSUME PopAll PROVE Written'
  <2>1. CASE Pop BY <2>1, PopWritten
  <2>2. CASE UNCHANGED <<writer, output, flaws>> BY <2>2, SameWritten DEF writer, output, flaws
  <2>. DEFINE tokens == IF depth > 0 THEN Brackets ELSE <<>>
  <2>3. CASE /\ depth > 0 => ~keyWritten
             /\ types' = IF depth > 0 THEN <<types[1]>> ELSE types
             /\ Emitted(tokens, FALSE)
             /\ UNCHANGED <<below, cap, keyWritten>>
    <3>1. ASSUME ~spoilt
          PROVE  /\ below' = 0
                 /\ \E r : Gets(doc, tokens, r) /\ Reader(r) /\ Stands(types', keyWritten', r)
      <4>1. below = 0 /\ Stack(types) /\ Reader(doc) /\ Stands(types, keyWritten, doc) /\ keyWritten \in BOOLEAN
        BY <3>1 DEF Written, Typed
      <4>2. CASE depth > 0
        <5>1. tokens = Closers(types) BY <4>2 DEF Brackets, Closers
        <5>2. types' = <<types[1]>> /\ types[1] = "nul" /\ keyWritten = FALSE /\ keyWritten' = FALSE
          BY <2>3, <4>1, <4>2 DEF Stands, InStep
        <5>3. Stands(types, FALSE, doc) BY <4>1, <5>2
        <5>4. Gets(doc, Closers(types), Fresh) BY <4>1, <5>3, AllClosed
        <5>. HIDE DEF tokens
        <5>. QED BY <2>3, <4>1, <5>1, <5>2, <5>4, FreshStands
      <4>3. CASE ~(depth > 0)
        <5>1. tokens = <<>> BY <4>3
        <5>2. Gets(doc, <<>>, doc) BY GetsNone
        <5>. HIDE DEF tokens
        <5>. QED BY <2>3, <4>1, <4>3, <5>1, <5>2
      <4>. QED BY <4>2, <4>3
    <3>. HIDE DEF tokens
    <3>. QED BY <2>3, <3>1, EmittedWritten
  <2>. QED BY <1>2, <2>1, <2>2, <2>3 DEF PopAll
<1>3. ASSUME Flush PROVE Written' BY <1>3, SameWritten DEF Flush, writer
<1>4. ASSUME Reset PROVE Written'
  <2>1. types' = <<"nul">> /\ below' = 0 /\ keyWritten' = FALSE /\ doc' = Fresh BY <1>4 DEF Reset
  <2>. QED BY <2>1, FreshStands DEF Written
<1>. QED BY <1>1, <1>2, <1>3, <1>4, PushKeyWritten, PushContainerWritten, PushValueWritten, PopWritten DEF Next

-----------------------------------------------------------------------------
(* The properties of the runs.                                               *)

\* The invariant, of every order of calls, refused and raising ones among them.
THEOREM WriterInvariant == Spec => []WriterInv
<1>1. ASSUME WriterInv, [Next]_vars PROVE WriterInv'
  <2>1. Typed /\ Told /\ Written BY <1>1 DEF WriterInv
  <2>2. CASE Next BY <2>1, <2>2, TypedNext, ToldNext, WrittenNext DEF WriterInv
  <2>3. CASE UNCHANGED vars
    <3>1. Typed' BY <2>1, <2>3 DEF vars, Typed, InBounds
    <3>2. Told' BY <2>1, <2>3 DEF vars, Told
    <3>3. Written' BY <2>1, <2>3 DEF vars, Written
    <3>. QED BY <3>1, <3>2, <3>3 DEF WriterInv
  <2>. QED BY <1>1, <2>2, <2>3
<1>2. WriterInv /\ [Next]_vars => WriterInv' BY <1>1
<1>3. Init => WriterInv BY Started
<1>. QED BY <1>2, <1>3, PTL DEF Spec

\* Every token is in the buffer or was given to the stream once, whatever the limit
\* of the buffer and the places types[] begins with; and types[] stays in its block.
THEOREM TokensDelivered == Spec => []Delivered
<1>1. ASSUME WriterInv PROVE Delivered
  <2>1. Typed /\ Told /\ Written BY <1>1 DEF WriterInv
  <2>2. doc.open \in Seq({"array", "object"}) BY <2>1, ReaderHas DEF Written
  <2>3. types \in Seq(Kinds) /\ types # <<>> /\ \A i \in 2..Len(types) : types[i] # "nul" BY <2>1 DEF Typed, Stack
  <2>4. TypeOK BY <2>1, <2>2, <2>3 DEF TypeOK, Typed, Told
  <2>. QED BY <2>1, <2>4 DEF Delivered, Typed, Told
<1>2. WriterInv => Delivered BY <1>1
<1>. QED BY <1>2, WriterInvariant, PTL

\* The text is a beginning of JSON texts, and types[] knows where in them it stands.
THEOREM TextIsJson == Spec => []WritesJson
<1>1. ASSUME WriterInv PROVE WritesJson
  <2>1. SUFFICES ASSUME ~spoilt
                 PROVE  /\ below = 0 /\ Len(types) = Len(doc.open) + 1 /\ Head(types) = "nul"
                        /\ keyWritten <=> doc.at = "member"
                        /\ doc.open = <<>> => doc.at = "start"
                        /\ \A i \in DOMAIN doc.open :
                             Agree(types[i + 1], doc.open[i],
                                   IF i = Len(doc.open) THEN doc.at
                                   ELSE IF types[i + 1] = "ObjectType" THEN "member" ELSE "comma")
    BY DEF WritesJson
  <2>2. below = 0 /\ Reader(doc) /\ Stands(types, keyWritten, doc) /\ Stack(types)
    BY <1>1, <2>1 DEF WriterInv, Written, Typed
  <2>. DEFINE l == Len(doc.open)
  <2>3. /\ Len(types) = l + 1 /\ types[1] = "nul" /\ l \in Nat /\ doc.open \in Seq({"array", "object"})
        /\ types \in Seq(Kinds) /\ types # <<>>
    BY <2>2, ReaderHas DEF Stands, InStep, Stack
  <2>4. Head(types) = "nul" BY <2>3
  <2>5. /\ keyWritten <=> doc.at = "member"
        /\ doc.open = <<>> => doc.at = "start"
        /\ doc.open # <<>> => Enclosed(types, doc.open, l - 1) /\ Agree(types[Len(types)], doc.open[l], doc.at)
    BY <2>2 DEF Stands
  <2>6. DOMAIN doc.open = 1..l /\ (doc.open = <<>> => l = 0) BY <2>3
  <2>. HIDE DEF l
  <2>7. ASSUME NEW i \in 1..l
        PROVE  Agree(types[i + 1], doc.open[i],
                     IF i = l THEN doc.at ELSE IF types[i + 1] = "ObjectType" THEN "member" ELSE "comma")
    <3>1. doc.open # <<>> BY <2>3, <2>6
    <3>2. CASE i = l BY <2>3, <2>5, <3>1, <3>2
    <3>3. CASE i # l
      <4>1. i \in 1..l - 1 BY <2>3, <3>3
      <4>2. \/ types[i + 1] = "ObjectType" /\ doc.open[i] = "object"
            \/ types[i + 1] = "ArrayType" /\ doc.open[i] = "array"
        BY <2>5, <3>1, <4>1 DEF Enclosed
      <4>. QED BY <3>3, <4>2 DEF Agree
    <3>. QED BY <3>2, <3>3
  <2>. QED BY <2>2, <2>3, <2>4, <2>5, <2>6, <2>7 DEF l
<1>2. WriterInv => WritesJson BY <1>1
<1>. QED BY <1>2, WriterInvariant, PTL

\* pop_all completes the document from wherever the calls have left it.
THEOREM PopAllEnds == Spec => []PopAllCompletes
<1>1. ASSUME WriterInv PROVE PopAllCompletes
  <2>1. SUFFICES ASSUME ~spoilt, ~keyWritten PROVE ReadAll(doc, Brackets) = Fresh BY DEF PopAllCompletes
  <2>2. Reader(doc) /\ Stands(types, FALSE, doc) /\ Stack(types)
    BY <1>1, <2>1 DEF WriterInv, Written, Typed
  <2>3. Brackets = Closers(types) BY DEF Brackets, Closers
  <2>4. Gets(doc, Closers(types), Fresh) BY <2>2, AllClosed
  <2>. QED BY <2>3, <2>4, GetsIs
<1>2. WriterInv => PopAllCompletes BY <1>1
<1>. QED BY <1>2, WriterInvariant, PTL
=============================================================================
