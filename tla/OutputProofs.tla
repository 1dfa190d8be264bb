----------------------------- MODULE OutputProofs -----------------------------
(* Proofs about strings written as JSON and documents written to a stream,   *)
(* for texts of any bytes and length and in every mode: the room that is     *)
(* asked for is enough, what is written is read back as the text, what is no *)
(* text is refused, and the document is delivered whole.                     *)
(*                                                                           *)
(* The loop of oj_dump_cstr is a recursive function.  A round of it does one *)
(* of seven things (Stepped).  A set of states that every round keeps        *)
(* (Carried) and that the start is in has the end in it as well (BodyKeeps). *)
(* Each property is such a set: Accepted and Looked for what is refused,     *)
(* Roomy for the room, Holding and Telling for the first bytes, Decoded for  *)
(* what a reader makes of the bytes so far.                                  *)
EXTENDS Output, SequenceTheorems, WellFoundedInduction, TLAPS


-----------------------------------------------------------------------------
(* Loops over the bytes of a text, as recursive functions: what holds at      *)
(* first and is kept by each round holds after every one of them.            *)

\* A set with 0 in it and, after each number below N, the next one, has all of them.
LEMMA Induction ==
    ASSUME NEW N \in Nat, NEW T, T \subseteq 0..N, 0 \in T,
           \A n \in 0..N : n # N /\ n \in T => n + 1 \in T
    PROVE  0..N \subseteq T
<1>. DEFINE S == {n \in 0..N : n \notin T}
            R == OpToRel(<, Nat)
<1>1. IsWellFoundedOn(R, Nat) BY NatLessThanWellFounded
<1>2. \A x, y \in Nat : y < x => <<y, x>> \in R BY DEF OpToRel
<1>. HIDE DEF R
<1>3. SUFFICES ASSUME S # {} PROVE FALSE OBVIOUS
<1>4. S \subseteq Nat OBVIOUS
<1>5. PICK n \in S : \A m \in S : ~(<<m, n>> \in R) BY <1>1, <1>3, <1>4, WFMin
<1>6. n \in 0..N /\ n \notin T OBVIOUS
<1>7. n # 0 BY <1>6
<1>8. n - 1 \in 0..N /\ n - 1 \in Nat /\ n \in Nat /\ n - 1 < n /\ n - 1 # N /\ (n - 1) + 1 = n BY <1>6, <1>7
<1>9. <<n - 1, n>> \in R BY <1>2, <1>8, Zenon
<1>10. n - 1 \notin S BY <1>5, <1>9, Zenon
<1>11. n - 1 \in T BY <1>8, <1>10
<1>12. n \in T BY <1>8, <1>11, Zenon
<1>. QED BY <1>6, <1>12

\* What a recursive function is: f[0] = d and f[n] is step[n][f[n - 1]].
Closed(N, W, d, step) == N \in Nat /\ d \in W /\ \A n \in 1..N, w \in W : step[n][w] \in W
Loop(f, N, W, d, step) == f \in [0..N -> W] /\ f[0] = d /\ \A n \in 1..N : f[n] = step[n][f[n - 1]]

\* A recursive function of this form is defined for every number up to N,
LEMMA Recursion ==
    ASSUME NEW N, NEW W, NEW d, NEW step, Closed(N, W, d, step)
    PROVE  \E f : Loop(f, N, W, d, step)
<1>. DEFINE T == {m \in 0..N : \E f : Loop(f, m, W, d, step)}
<1>0. N \in Nat BY DEF Closed
<1>1. 0 \in T
  <2>1. Loop([n \in 0..0 |-> d], 0, W, d, step) BY DEF Closed, Loop
  <2>. QED BY <1>0, <2>1
<1>2. ASSUME NEW m \in 0..N, m # N, m \in T PROVE m + 1 \in T
  <2>1. PICK f : Loop(f, m, W, d, step) BY <1>2
  <2>. DEFINE x == step[m + 1][f[m]]
              g == [n \in 0..m + 1 |-> IF n = m + 1 THEN x ELSE f[n]]
  <2>2. m + 1 \in 1..N /\ m \in 0..m /\ m \in Nat BY <1>0, <1>2
  <2>3. x \in W BY <2>1, <2>2 DEF Loop, Closed
  <2>. HIDE DEF x
  <2>4. g \in [0..m + 1 -> W] BY <2>1, <2>2, <2>3 DEF Loop
  <2>5. g[0] = d /\ g[m + 1] = x /\ \A n \in 0..m : g[n] = f[n] BY <2>1, <2>2 DEF Loop
  <2>. HIDE DEF g
  <2>6. ASSUME NEW n \in 1..m + 1 PROVE g[n] = step[n][g[n - 1]]
    <3>1. CASE n = m + 1
      <4>1. n - 1 = m BY <2>2, <3>1
      <4>2. g[n - 1] = f[m] BY <2>2, <2>5, <4>1
      <4>. QED BY <2>5, <3>1, <4>2 DEF x
    <3>2. CASE n # m + 1
      <4>1. n \in 1..m /\ n \in 0..m /\ n - 1 \in 0..m BY <2>2, <3>2
      <4>2. f[n] = step[n][f[n - 1]] BY <2>1, <4>1 DEF Loop
      <4>. QED BY <2>5, <4>1, <4>2
    <3>. QED BY <3>1, <3>2
  <2>7. Loop(g, m + 1, W, d, step) BY <2>4, <2>5, <2>6 DEF Loop
  <2>8. m + 1 \in 0..N BY <2>2
  <2>. QED BY <2>7, <2>8
<1>3. T \subseteq 0..N OBVIOUS
<1>4. \A n \in 0..N : n # N /\ n \in T => n + 1 \in T BY <1>2
<1>. HIDE DEF T
<1>5. 0..N \subseteq T BY <1>0, <1>1, <1>3, <1>4, Induction
<1>6. N \in T BY <1>0, <1>5
<1>. QED BY <1>6 DEF T

\* There is only one.
Obeys(g, N, W, d, step) == g[0] = d /\ \A n \in 1..N : g[n - 1] \in W => g[n] = step[n][g[n - 1]]

\* and by this form alone.
LEMMA OneLoop ==
    ASSUME NEW N, NEW W, NEW d, NEW step, NEW f, NEW g,
           N \in Nat, Loop(f, N, W, d, step), Obeys(g, N, W, d, step)
    PROVE  \A n \in 0..N : f[n] = g[n]
<1>. DEFINE T == {n \in 0..N : f[n] = g[n]}
<1>1. 0 \in T BY DEF Loop, Obeys
<1>2. ASSUME NEW n \in 0..N, n # N, n \in T PROVE n + 1 \in T
  <2>1. n + 1 \in 1..N /\ n + 1 \in 0..N /\ (n + 1) - 1 = n BY <1>2
  <2>2. f[n] \in W /\ f[n] = g[n] BY <1>2 DEF Loop
  <2>3. f[n + 1] = step[n + 1][f[n]] BY <2>1 DEF Loop
  <2>4. g[n + 1] = step[n + 1][g[n]] BY <2>1, <2>2 DEF Obeys
  <2>. QED BY <2>1, <2>2, <2>3, <2>4
<1>3. T \subseteq 0..N /\ \A n \in 0..N : n # N /\ n \in T => n + 1 \in T BY <1>2
<1>. HIDE DEF T
<1>4. 0..N \subseteq T BY <1>1, <1>3, Induction
<1>. QED BY <1>4 DEF T

-----------------------------------------------------------------------------
(* Each of them, unrolled.                                                   *)

\* Total adds the costs up, one after the other.
LEMMA TotalIs ==
    ASSUME NEW costs \in Seq(Nat)
    PROVE  \E f \in [0..Len(costs) -> Nat] :
             /\ f[0] = 0 /\ \A n \in 1..Len(costs) : f[n] = f[n - 1] + costs[n]
             /\ Total(costs) = f[Len(costs)]
<1>. DEFINE N == Len(costs)
            step == [n \in 1..N |-> [w \in Nat |-> w + costs[n]]]
            upto[n \in 0..N] == IF n = 0 THEN 0 ELSE upto[n - 1] + costs[n]
<1>1. N \in Nat /\ \A n \in 1..N : costs[n] \in Nat BY LenProperties, ElementOfSeq
<1>2. Total(costs) = upto[N] BY DEF Total
<1>. HIDE DEF N
<1>3. \A n \in 1..N, w \in Nat : step[n][w] = w + costs[n] OBVIOUS
<1>. HIDE DEF step
<1>4. \A n \in 1..N, w \in Nat : step[n][w] \in Nat
  <2>1. ASSUME NEW n \in 1..N, NEW w \in Nat PROVE step[n][w] \in Nat
    <3>1. costs[n] \in Nat /\ step[n][w] = w + costs[n] BY <1>1, <1>3
    <3>. QED BY <3>1
  <2>. QED BY <2>1
<1>5. PICK f : Loop(f, N, Nat, 0, step)
  <2>1. Closed(N, Nat, 0, step) BY <1>1, <1>4 DEF Closed
  <2>. QED BY <2>1, Recursion
<1>6. \A n \in 1..N : n - 1 \in 0..N /\ f[n - 1] \in Nat /\ f[n] = f[n - 1] + costs[n]
  <2>1. ASSUME NEW n \in 1..N PROVE n - 1 \in 0..N /\ f[n - 1] \in Nat /\ f[n] = f[n - 1] + costs[n]
    <3>1. n - 1 \in 0..N BY <1>1
    <3>2. f[n - 1] \in Nat BY <1>5, <3>1 DEF Loop
    <3>. QED BY <1>3, <1>5, <3>1, <3>2 DEF Loop
  <2>. QED BY <2>1
<1>7. f = [n \in 0..N |-> IF n = 0 THEN 0 ELSE f[n - 1] + costs[n]]
  <2>1. ASSUME NEW n \in 0..N PROVE f[n] = IF n = 0 THEN 0 ELSE f[n - 1] + costs[n]
    <3>1. CASE n = 0 BY <1>5, <3>1 DEF Loop
    <3>2. CASE n # 0
      <4>1. n \in 1..N BY <1>1, <3>2
      <4>. QED BY <1>6, <3>2, <4>1
    <3>. QED BY <3>1, <3>2
  <2>2. f \in [0..N -> Nat] BY <1>5 DEF Loop
  <2>. QED BY <2>1, <2>2
<1>8. upto = [n \in 0..N |-> IF n = 0 THEN 0 ELSE upto[n - 1] + costs[n]] BY <1>7
<1>. HIDE DEF upto
<1>9. \A n \in 0..N : upto[n] = IF n = 0 THEN 0 ELSE upto[n - 1] + costs[n] BY <1>8
<1>10. upto[0] = 0 /\ \A n \in 1..N : upto[n] = upto[n - 1] + costs[n] BY <1>1, <1>9
<1>11. \A n \in 0..N : f[n] = upto[n]
  <2>1. ASSUME NEW n \in 1..N, upto[n - 1] \in Nat PROVE upto[n] = step[n][upto[n - 1]] BY <1>3, <1>10, <2>1
  <2>2. Obeys(upto, N, Nat, 0, step) BY <1>10, <2>1 DEF Obeys
  <2>. QED BY <1>1, <1>5, <2>2, OneLoop
<1>12. f[N] = upto[N] BY <1>1, <1>11
<1>13. f[0] = 0 /\ f \in [0..N -> Nat] BY <1>5 DEF Loop
<1>. QED BY <1>2, <1>6, <1>12, <1>13 DEF N

-----------------------------------------------------------------------------
(* Characters and what is written for them.                                  *)

\* How many bytes follow the first of a character.
LEMMA FollowsIs ==
    ASSUME NEW b \in Byte
    PROVE  /\ Follows(b) = -1 \/ Follows(b) \in 1..5
           /\ Follows(b) > 0 <=> b \in 192..253
           /\ Follows(b) = 1 <=> b \in 192..223
           /\ Follows(b) = 2 <=> b \in 224..239
           /\ Follows(b) = 3 <=> b \in 240..247
           /\ Follows(b) >= 4 <=> b \in 248..253
           /\ Follows(b) > 0 => High(b) /\ ~Follow(b)
BY DEF Follows, Byte, High, Follow

\* A byte of a text.
LEMMA ByteAt ==
    ASSUME NEW s \in Seq(Byte), NEW i \in 1..Len(s)
    PROVE  s[i] \in Byte /\ s[i] \in Int /\ s[i] \in Nat /\ At(s, i) = s[i] /\ i \in DOMAIN s
<1>1. DOMAIN s = 1..Len(s) /\ s[i] \in Byte BY LenProperties, ElementOfSeq
<1>2. \A b \in Byte : b \in Int /\ b \in Nat BY DEF Byte
<1>3. i \in DOMAIN s BY <1>1
<1>4. At(s, i) = s[i] BY <1>3 DEF At
<1>. QED BY <1>1, <1>2, <1>3, <1>4

\* A whole character: its first byte, and those that follow it.
LEMMA WholeCharIs ==
    ASSUME NEW s \in Seq(Byte), NEW i \in 1..Len(s), WholeChar(s, i)
    PROVE  /\ Follows(s[i]) \in 1..5 /\ i + Follows(s[i]) <= Len(s)
           /\ s[i] \in 192..253 /\ High(s[i]) /\ ~Follow(s[i])
           /\ \A k \in i + 1..i + Follows(s[i]) : k \in 1..Len(s) /\ s[k] \in 128..191
<1>1. s[i] \in Byte /\ At(s, i) = s[i] BY ByteAt
<1>. DEFINE n == Follows(s[i])
<1>2. n > 0 /\ \A k \in i + 1..i + n : k \in DOMAIN s /\ Follow(s[k]) BY <1>1 DEF WholeChar
<1>3. n \in 1..5 /\ s[i] \in 192..253 /\ High(s[i]) /\ ~Follow(s[i]) BY <1>1, <1>2, FollowsIs
<1>. HIDE DEF n
<1>4. DOMAIN s = 1..Len(s) /\ Len(s) \in Nat BY LenProperties
<1>5. \A k \in i + 1..i + n : k \in 1..Len(s) /\ s[k] \in 128..191 BY <1>2, <1>4 DEF Follow
<1>6. i + n \in i + 1..i + n BY <1>3
<1>7. i + n <= Len(s) BY <1>4, <1>5, <1>6
<1>. QED BY <1>3, <1>5, <1>7 DEF n

\* What the first byte of a character adds to its number,
LEMMA FirstBitsIs ==
    ASSUME NEW b \in 192..253
    PROVE  /\ FirstBits(b) \in Nat
           /\ b \in 192..223 => FirstBits(b) = b - 192
           /\ b \in 224..239 => FirstBits(b) = b - 224
           /\ b \in 240..247 => FirstBits(b) = b - 240
BY DEF FirstBits

\* what each of the others does,
LEMMA LowBits ==
    \A b \in 128..191 : b % 64 = b - 128 /\ b % 64 \in 0..63
OBVIOUS

\* and the number with one of the others added.
LEMMA MoreIs ==
    ASSUME NEW code \in Nat, NEW b \in 128..191
    PROVE  More(code, b) = (code * 64) + (b - 128) /\ More(code, b) \in Nat
<1>1. b % 64 = b - 128 /\ b % 64 \in Nat BY LowBits
<1>. QED BY <1>1 DEF More

\* The code of a character, byte after byte.
LEMMA CodeIs ==
    ASSUME NEW s \in Seq(Byte), NEW i \in 1..Len(s), WholeChar(s, i)
    PROVE  \E f \in [0..Follows(s[i]) -> Nat] :
             /\ f[0] = FirstBits(s[i])
             /\ \A k \in 1..Follows(s[i]) : f[k] = More(f[k - 1], s[i + k])
             /\ CodeOf(s, i) = f[Follows(s[i])]
<1>. DEFINE N == Follows(s[i])
            d == FirstBits(s[i])
            step == [k \in 1..N |-> [w \in Nat |-> More(w, s[i + k])]]
            code[k \in 0..N] == IF k = 0 THEN d ELSE More(code[k - 1], s[i + k])
<1>1. N \in Nat /\ d \in Nat /\ \A k \in 1..N : s[i + k] \in 128..191
  <2>1. N \in Nat /\ \A k \in i + 1..i + N : s[k] \in 128..191 BY WholeCharIs
  <2>2. s[i] \in 192..253 BY WholeCharIs
  <2>4. d \in Nat BY <2>2, FirstBitsIs
  <2>. HIDE DEF N, d
  <2>3. \A k \in 1..N : i + k \in i + 1..i + N BY <2>1
  <2>. QED BY <2>1, <2>3, <2>4
<1>2. CodeOf(s, i) = code[N] BY DEF CodeOf
<1>. HIDE DEF N, d
<1>3. \A k \in 1..N, w \in Nat : step[k][w] = More(w, s[i + k]) OBVIOUS
<1>. HIDE DEF step
<1>4. \A k \in 1..N, w \in Nat : step[k][w] \in Nat
  <2>1. ASSUME NEW k \in 1..N, NEW w \in Nat PROVE step[k][w] \in Nat
    <3>1. s[i + k] \in 128..191 /\ step[k][w] = More(w, s[i + k]) BY <1>1, <1>3
    <3>. QED BY <3>1, MoreIs
  <2>. QED BY <2>1
<1>5. PICK f : Loop(f, N, Nat, d, step)
  <2>1. Closed(N, Nat, d, step) BY <1>1, <1>4 DEF Closed
  <2>. QED BY <2>1, Recursion
<1>6. \A k \in 1..N : k - 1 \in 0..N /\ f[k - 1] \in Nat /\ f[k] = More(f[k - 1], s[i + k])
  <2>1. ASSUME NEW k \in 1..N PROVE k - 1 \in 0..N /\ f[k - 1] \in Nat /\ f[k] = More(f[k - 1], s[i + k])
    <3>1. k - 1 \in 0..N BY <1>1
    <3>2. f[k - 1] \in Nat BY <1>5, <3>1 DEF Loop
    <3>. QED BY <1>3, <1>5, <3>1, <3>2 DEF Loop
  <2>. QED BY <2>1
<1>7. f \in [0..N -> Nat] /\ f[0] = d BY <1>5 DEF Loop
<1>8. f = [k \in 0..N |-> IF k = 0 THEN d ELSE More(f[k - 1], s[i + k])]
  <2>1. ASSUME NEW k \in 0..N PROVE f[k] = IF k = 0 THEN d ELSE More(f[k - 1], s[i + k])
    <3>1. CASE k = 0 BY <1>7, <3>1
    <3>2. CASE k # 0
      <4>1. k \in 1..N BY <1>1, <3>2
      <4>. QED BY <1>6, <3>2, <4>1
    <3>. QED BY <3>1, <3>2
  <2>. QED BY <1>7, <2>1
<1>9. code = [k \in 0..N |-> IF k = 0 THEN d ELSE More(code[k - 1], s[i + k])] BY <1>8
<1>. HIDE DEF code
<1>10. \A k \in 0..N : code[k] = IF k = 0 THEN d ELSE More(code[k - 1], s[i + k]) BY <1>9
<1>11. code[0] = d /\ \A k \in 1..N : code[k] = More(code[k - 1], s[i + k]) BY <1>1, <1>10
<1>12. \A k \in 0..N : f[k] = code[k]
  <2>1. ASSUME NEW k \in 1..N, code[k - 1] \in Nat PROVE code[k] = step[k][code[k - 1]] BY <1>3, <1>11, <2>1
  <2>2. Obeys(code, N, Nat, d, step) BY <1>11, <2>1 DEF Obeys
  <2>. QED BY <1>1, <1>5, <2>2, OneLoop
<1>13. f[N] = code[N] BY <1>1, <1>12
<1>. QED BY <1>2, <1>6, <1>7, <1>13 DEF N, d

\* Of characters of up to four bytes.
LEMMA CodeOfShort ==
    ASSUME NEW s \in Seq(Byte), NEW i \in 1..Len(s), WholeChar(s, i)
    PROVE  /\ Follows(s[i]) = 1 => CodeOf(s, i) = More(FirstBits(s[i]), s[i + 1])
           /\ Follows(s[i]) = 2 => CodeOf(s, i) = More(More(FirstBits(s[i]), s[i + 1]), s[i + 2])
           /\ Follows(s[i]) = 3 => CodeOf(s, i) = More(More(More(FirstBits(s[i]), s[i + 1]), s[i + 2]), s[i + 3])
<1>1. PICK f \in [0..Follows(s[i]) -> Nat] :
             /\ f[0] = FirstBits(s[i])
             /\ \A k \in 1..Follows(s[i]) : f[k] = More(f[k - 1], s[i + k])
             /\ CodeOf(s, i) = f[Follows(s[i])]
  BY CodeIs
<1>. DEFINE n == Follows(s[i])
<1>. HIDE DEF n
<1>2. ASSUME NEW k \in 1..n PROVE f[k] = More(f[k - 1], s[i + k]) BY <1>1 DEF n
<1>3. CASE n = 1
  <2>1. f[1] = More(f[1 - 1], s[i + 1]) BY <1>2, <1>3
  <2>. QED BY <1>1, <1>3, <2>1 DEF n
<1>4. CASE n = 2
  <2>1. f[1] = More(f[1 - 1], s[i + 1]) /\ f[2] = More(f[2 - 1], s[i + 2]) BY <1>2, <1>4
  <2>. QED BY <1>1, <1>4, <2>1 DEF n
<1>5. CASE n = 3
  <2>1. f[1] = More(f[1 - 1], s[i + 1]) /\ f[2] = More(f[2 - 1], s[i + 2]) /\ f[3] = More(f[3 - 1], s[i + 3]) BY <1>2, <1>5
  <2>. QED BY <1>1, <1>5, <2>1 DEF n
<1>. QED BY <1>3, <1>4, <1>5 DEF n

\* A character has a number.
LEMMA CodeType ==
    ASSUME NEW s \in Seq(Byte), NEW i \in 1..Len(s), WholeChar(s, i)
    PROVE  CodeOf(s, i) \in Nat
<1>1. Follows(s[i]) \in 1..5 BY WholeCharIs
<1>2. Follows(s[i]) \in 0..Follows(s[i]) BY <1>1
<1>. QED BY <1>2, CodeIs

-----------------------------------------------------------------------------
(* What is written for a character.                                          *)

\* A digit, and its value.
LEMMA HexDigitIs ==
    ASSUME NEW d \in 0..15
    PROVE  /\ HexDigit(d) \in Byte /\ HexDigit(d) \in HexDigits /\ HexValue(HexDigit(d)) = d
           /\ HexDigit(d) >= 48
BY DEF HexDigit, HexDigits, HexValue, Byte

\* The four digits of a number make up the number.
LEMMA Digits ==
    ASSUME NEW code \in Nat
    PROVE  /\ (code \div 4096) % 16 \in 0..15 /\ (code \div 256) % 16 \in 0..15
           /\ (code \div 16) % 16 \in 0..15 /\ code % 16 \in 0..15
           /\ code < 65536 => code = ((code \div 4096) % 16) * 4096 + ((code \div 256) % 16) * 256
                                     + ((code \div 16) % 16) * 16 + (code % 16)
OBVIOUS

\* The six bytes of an escape by number, and the number they say.
LEMMA Hex4Is ==
    ASSUME NEW code \in Nat
    PROVE  /\ Hex4(code) \in Seq(Byte) /\ Len(Hex4(code)) = 6
           /\ Hex4(code)[1] = Backslash /\ Hex4(code)[2] = LetterU
           /\ \A k \in 3..6 : Hex4(code)[k] \in HexDigits
           /\ code < 65536 => CodeAt(Hex4(code), 1) = code
<1>. DEFINE a == (code \div 4096) % 16
            b == (code \div 256) % 16
            c == (code \div 16) % 16
            d == code % 16
<1>1. a \in 0..15 /\ b \in 0..15 /\ c \in 0..15 /\ d \in 0..15 BY Digits
<1>2. code < 65536 => code = a * 4096 + b * 256 + c * 16 + d BY Digits
<1>3. Hex4(code) = <<Backslash, LetterU, HexDigit(a), HexDigit(b), HexDigit(c), HexDigit(d)>> BY DEF Hex4
<1>. HIDE DEF a, b, c, d
<1>4. /\ HexDigit(a) \in Byte /\ HexDigit(a) \in HexDigits /\ HexValue(HexDigit(a)) = a
      /\ HexDigit(b) \in Byte /\ HexDigit(b) \in HexDigits /\ HexValue(HexDigit(b)) = b
      /\ HexDigit(c) \in Byte /\ HexDigit(c) \in HexDigits /\ HexValue(HexDigit(c)) = c
      /\ HexDigit(d) \in Byte /\ HexDigit(d) \in HexDigits /\ HexValue(HexDigit(d)) = d
  BY <1>1, HexDigitIs
<1>5. Backslash \in Byte /\ LetterU \in Byte BY DEF Backslash, LetterU, Byte
<1>6. Hex4(code) \in Seq(Byte) /\ Len(Hex4(code)) = 6 BY <1>3, <1>4, <1>5
<1>7. /\ Hex4(code)[1] = Backslash /\ Hex4(code)[2] = LetterU
      /\ Hex4(code)[3] = HexDigit(a) /\ Hex4(code)[4] = HexDigit(b)
      /\ Hex4(code)[5] = HexDigit(c) /\ Hex4(code)[6] = HexDigit(d)
  BY <1>3
<1>8. CodeAt(Hex4(code), 1) = a * 4096 + b * 256 + c * 16 + d BY <1>4, <1>7 DEF CodeAt
<1>9. \A k \in 3..6 : k = 3 \/ k = 4 \/ k = 5 \/ k = 6 OBVIOUS
<1>. QED BY <1>2, <1>4, <1>6, <1>7, <1>8, <1>9

\* A number beyond sixteen bits is written as its two halves.
LEMMA HalvesIn ==
    ASSUME NEW code \in Nat, code > 65535
    PROVE  /\ (((code - 65536) \div 1024) % 1024) + 55296 \in FirstHalf
           /\ ((code - 65536) % 1024) + 56320 \in SecondHalf
BY DEF FirstHalf, SecondHalf

\* Two sequences, one behind the other.
LEMMA Joined ==
    ASSUME NEW S, NEW s \in Seq(S), NEW t \in Seq(S)
    PROVE  /\ s \o t \in Seq(S) /\ Len(s \o t) = Len(s) + Len(t) /\ Len(s) \in Nat /\ Len(t) \in Nat
           /\ \A i \in 1..Len(s) : (s \o t)[i] = s[i]
           /\ \A i \in 1..Len(t) : (s \o t)[Len(s) + i] = t[i]
<1>. DEFINE m == Len(s)
            n == Len(t)
            j == s \o t
<1>1. /\ j \in Seq(S) /\ Len(j) = m + n /\ m \in Nat /\ n \in Nat
      /\ \A i \in 1..m + n : j[i] = IF i <= m THEN s[i] ELSE t[i - m]
  BY ConcatProperties, LenProperties
<1>. HIDE DEF m, n, j
<1>2. ASSUME NEW i \in 1..m PROVE j[i] = s[i]
  <2>1. i \in 1..m + n /\ i <= m BY <1>1
  <2>. QED BY <1>1, <2>1
<1>3. ASSUME NEW i \in 1..n PROVE j[m + i] = t[i]
  <2>1. m + i \in 1..m + n /\ ~(m + i <= m) /\ (m + i) - m = i BY <1>1
  <2>. QED BY <1>1, <2>1
<1>. QED BY <1>1, <1>2, <1>3 DEF m, n, j

\* An escape by number, or two of them.
LEMMA UnicodeIs ==
    ASSUME NEW code \in Nat
    PROVE  Unicode(code) \in Seq(Byte) /\ Len(Unicode(code)) = (IF code > 65535 THEN 12 ELSE 6)
             /\ Unicode(code)[1] = Backslash
<1>1. CASE code > 65535
  <2>. DEFINE x == (((code - 65536) \div 1024) % 1024) + 55296
              y == ((code - 65536) % 1024) + 56320
  <2>1. x \in Nat /\ y \in Nat BY <1>1, HalvesIn DEF FirstHalf, SecondHalf
  <2>2. Unicode(code) = Hex4(x) \o Hex4(y) BY <1>1 DEF Unicode
  <2>. HIDE DEF x, y
  <2>3. Hex4(x) \in Seq(Byte) /\ Hex4(y) \in Seq(Byte) /\ Len(Hex4(x)) = 6 /\ Len(Hex4(y)) = 6 /\ Hex4(x)[1] = Backslash
    BY <2>1, Hex4Is
  <2>4. Hex4(x) \o Hex4(y) \in Seq(Byte) /\ Len(Hex4(x) \o Hex4(y)) = 12 /\ (Hex4(x) \o Hex4(y))[1] = Backslash
    <3>1. 1 \in 1..Len(Hex4(x)) BY <2>3
    <3>2. Len(Hex4(x) \o Hex4(y)) = Len(Hex4(x)) + Len(Hex4(y)) /\ Hex4(x) \o Hex4(y) \in Seq(Byte) BY <2>3, Joined
    <3>3. (Hex4(x) \o Hex4(y))[1] = Hex4(x)[1] BY <2>3, <3>1, Joined
    <3>. QED BY <2>3, <3>2, <3>3
  <2>. QED BY <1>1, <2>2, <2>4
<1>2. CASE ~(code > 65535)
  <2>1. Unicode(code) = Hex4(code) BY <1>2 DEF Unicode
  <2>. QED BY <1>2, <2>1, Hex4Is
<1>. QED BY <1>1, <1>2

-----------------------------------------------------------------------------
(* A round of the loop.                                                      *)

Unchecked == {"NLEsc", "JSONEsc", "SlashEsc"}
Escaping  == {"XSSEsc", "ASCIIEsc"}
Writings  == [out : Seq(Byte), at : Nat, check : Nat, raised : BOOLEAN]

\* Each mode either leaves the bytes outside of ASCII alone, escapes them or validates them.
LEMMA ModesAre ==
    /\ Modes = Unchecked \cup Escaping \cup Validating
    /\ \A mode \in Unchecked : mode \notin Escaping \cup Validating
    /\ \A mode \in Escaping : mode \notin Validating
BY DEF Modes, Unchecked, Escaping, Validating

\* What the table says of a byte.
LEMMA CostIs ==
    ASSUME NEW mode \in Modes, NEW b \in Byte
    PROVE  /\ Cost(mode, b) \in {1, 2, 3, 6}
           /\ Cost(mode, b) = 1 => b \notin {Quote, Backslash} /\ (b >= 32 \/ b = 10)
           /\ Cost(mode, b) = 2 => b \in DOMAIN Short \cup {Quote, Backslash, Slash} /\ ~High(b)
           /\ Cost(mode, b) = 3 <=> High(b) /\ mode \in Escaping
           /\ Cost(mode, b) = 6 /\ High(b) => b = 226 /\ mode \in Validating
           /\ b \in {Hat, Colon} => Cost(mode, b) = 1
BY DEF Cost, Modes, Byte, Quote, Backslash, Slash, Hat, Colon, High, Escaping, Validating, Html, Short

\* Putting bytes changes what is written, and nothing else.
LEMMA PutIs ==
    ASSUME NEW w \in Writings, NEW l \in Seq(Byte)
    PROVE  /\ Put(w, l) \in Writings /\ Put(w, l).out = w.out \o l
           /\ Put(w, l).at = w.at /\ Put(w, l).check = w.check /\ Put(w, l).raised = w.raised
<1>1. w.out \o l \in Seq(Byte) BY ConcatProperties DEF Writings
<1>. QED BY <1>1 DEF Put, Writings

\* Raising is final.
LEMMA RaiseIs ==
    ASSUME NEW w \in Writings
    PROVE  /\ Raise(w) \in Writings /\ Raise(w).raised
BY DEF Raise, Writings

\* Going on changes the place, and nothing else.
LEMMA Advanced ==
    ASSUME NEW w \in Writings, NEW n \in Nat
    PROVE  /\ [w EXCEPT !.at = @ + n] \in Writings
           /\ [w EXCEPT !.at = @ + n].at = w.at + n
           /\ [w EXCEPT !.at = @ + n].out = w.out
           /\ [w EXCEPT !.at = @ + n].check = w.check
           /\ [w EXCEPT !.at = @ + n].raised = w.raised
BY DEF Writings

\* The bytes l were written for the one at w.at and the n after it.
Wrote(w, v, l, n, check) ==
    /\ v \in Writings /\ ~v.raised /\ l \in Seq(Byte) /\ n \in Nat
    /\ v.out = w.out \o l /\ v.at = w.at + n /\ v.check = check

AsIs(mode, s, w, v) ==
    /\ Wrote(w, v, <<s[w.at]>>, 0, w.check) /\ Cost(mode, s[w.at]) = 1
    /\ High(s[w.at]) => mode \in Unchecked \/ (mode \in Validating /\ w.at < w.check)
Checked(mode, s, w, v) ==
    /\ Wrote(w, v, <<s[w.at]>>, 0, w.at + Follows(s[w.at]) + 1) /\ Cost(mode, s[w.at]) \in {1, 6}
    /\ WholeChar(s, w.at) /\ mode \in Validating
Letter(mode, s, w, v) == Wrote(w, v, Backslashed(s[w.at]), 0, w.check) /\ Cost(mode, s[w.at]) = 2
Control(mode, omitNull, s, w, v) ==
    /\ Wrote(w, v, Hex4(s[w.at]), 0, w.check) /\ Cost(mode, s[w.at]) = 6
    /\ ~High(s[w.at]) /\ ~(omitNull /\ s[w.at] = 0)
LeftOut(mode, omitNull, s, w, v) ==
    Wrote(w, v, <<>>, 0, w.check) /\ s[w.at] = 0 /\ omitNull /\ Cost(mode, s[w.at]) = 6
Character(mode, s, w, v) ==
    /\ Wrote(w, v, Unicode(CodeOf(s, w.at)), Follows(s[w.at]), w.check) /\ WholeChar(s, w.at)
    /\ Cost(mode, s[w.at]) = 3 \/ (Cost(mode, s[w.at]) = 6 /\ s[w.at] = 226)
Refused(mode, s, w, v) ==
    /\ v \in Writings /\ v.raised /\ mode \notin Unchecked /\ High(s[w.at]) /\ ~WholeChar(s, w.at)
    /\ w.check <= w.at \/ s[w.at] = 226 \/ mode \notin Validating

Stepped(mode, omitNull, s, w, v) ==
    \/ AsIs(mode, s, w, v) \/ Checked(mode, s, w, v) \/ Letter(mode, s, w, v)
    \/ Control(mode, omitNull, s, w, v) \/ LeftOut(mode, omitNull, s, w, v)
    \/ Character(mode, s, w, v) \/ Refused(mode, s, w, v)

\* A place in the text, before a round.
Within(s, w) == s \in Seq(Byte) /\ w \in Writings /\ ~w.raised /\ w.at \in 1..Len(s)

\* The byte that is looked at.
LEMMA WithinIs ==
    ASSUME NEW s, NEW w, Within(s, w)
    PROVE  /\ s[w.at] \in Byte /\ s[w.at] \in Int /\ s[w.at] \in Nat /\ At(s, w.at) = s[w.at] /\ w.at \in Nat /\ w.check \in Nat /\ w.out \in Seq(Byte)
           /\ <<s[w.at]>> \in Seq(Byte)
<1>1. s[w.at] \in Byte /\ s[w.at] \in Int /\ s[w.at] \in Nat /\ At(s, w.at) = s[w.at] BY ByteAt DEF Within
<1>2. w.at \in Nat /\ w.check \in Nat /\ w.out \in Seq(Byte) BY DEF Within, Writings
<1>3. <<s[w.at]>> \in Seq(Byte) BY <1>1
<1>. QED BY <1>1, <1>2, <1>3

\* A character that was checked need not be checked before its end.
LEMMA CheckUnicodeIs ==
    ASSUME NEW s, NEW w, Within(s, w), WholeChar(s, w.at)
    PROVE  LET v == CheckUnicode(s, w)
           IN  v \in Writings /\ ~v.raised /\ v.out = w.out /\ v.at = w.at /\ v.check = w.at + Follows(s[w.at]) + 1
<1>1. Follows(s[w.at]) \in 1..5 BY WholeCharIs DEF Within
<1>2. w.at \in Nat /\ w.at + Follows(s[w.at]) + 1 \in Nat BY <1>1, WithinIs
<1>3. CheckUnicode(s, w) = [w EXCEPT !.check = w.at + Follows(s[w.at]) + 1] BY DEF CheckUnicode
<1>. QED BY <1>2, <1>3 DEF Within, Writings

\* A whole character is written by its number, anything else raises.
LEMMA DumpUnicodeIs ==
    ASSUME NEW s, NEW w, Within(s, w)
    PROVE  /\ WholeChar(s, w.at) => Wrote(w, DumpUnicode(s, w), Unicode(CodeOf(s, w.at)), Follows(s[w.at]), w.check)
           /\ ~WholeChar(s, w.at) => DumpUnicode(s, w) \in Writings /\ DumpUnicode(s, w).raised
<1>1. CASE ~WholeChar(s, w.at)
  <2>1. DumpUnicode(s, w) = Raise(w) BY <1>1 DEF DumpUnicode
  <2>. QED BY <1>1, <2>1, RaiseIs DEF Within
<1>2. CASE WholeChar(s, w.at)
  <2>. DEFINE l == Unicode(CodeOf(s, w.at))
              n == Follows(s[w.at])
              p == Put(w, l)
  <2>1. l \in Seq(Byte) BY <1>2, CodeType, UnicodeIs DEF Within
  <2>2. n \in Nat BY <1>2, WholeCharIs DEF Within
  <2>3. DumpUnicode(s, w) = [p EXCEPT !.at = @ + n] BY <1>2 DEF DumpUnicode
  <2>. HIDE DEF l, n
  <2>4. p \in Writings /\ p.out = w.out \o l /\ p.at = w.at /\ p.check = w.check /\ p.raised = w.raised
    BY <2>1, PutIs DEF Within
  <2>. HIDE DEF p
  <2>5. Wrote(w, DumpUnicode(s, w), l, n, w.check) BY <2>1, <2>2, <2>3, <2>4, Advanced DEF Wrote, Within
  <2>. QED BY <1>2, <2>5 DEF l, n
<1>. QED BY <1>1, <1>2

\* What Put writes.
LEMMA PutWrites ==
    ASSUME NEW w, NEW u \in Writings, NEW l \in Seq(Byte), NEW c,
           ~u.raised, u.out = w.out, u.at = w.at, u.check = c, w.at \in Nat
    PROVE  Wrote(w, Put(u, l), l, 0, c)
<1>1. /\ Put(u, l) \in Writings /\ Put(u, l).out = u.out \o l
      /\ Put(u, l).at = u.at /\ Put(u, l).check = u.check /\ Put(u, l).raised = u.raised
  BY PutIs
<1>. QED BY <1>1 DEF Wrote

\* A byte of cost 1 is written as it is, after its character was checked where it has to be.
LEMMA PlainIs ==
    ASSUME NEW mode \in Modes, NEW s, NEW w, Within(s, w), Cost(mode, s[w.at]) = 1
    PROVE  LET v == Plain(mode, s, w) IN AsIs(mode, s, w, v) \/ Checked(mode, s, w, v) \/ Refused(mode, s, w, v)
<1>. DEFINE b == s[w.at]
            v == Plain(mode, s, w)
<1>1. b \in Byte /\ b \in Int /\ <<b>> \in Seq(Byte) /\ w.at \in Nat /\ w.check \in Nat BY WithinIs
<1>2. w \in Writings /\ ~w.raised BY DEF Within
<1>3. High(b) => mode \in Unchecked \cup Validating BY <1>1, CostIs, ModesAre
<1>. HIDE DEF b
<1>4. CASE ~(mode \in Validating /\ w.check <= w.at /\ High(b))
  <2>1. v = Put(w, <<b>>) BY <1>4 DEF Plain, b
  <2>2. Wrote(w, v, <<b>>, 0, w.check) BY <1>1, <1>2, <2>1, PutWrites
  <2>3. High(b) => mode \in Unchecked \/ (mode \in Validating /\ w.at < w.check) BY <1>1, <1>3, <1>4
  <2>. QED BY <2>2, <2>3 DEF AsIs, b
<1>5. CASE mode \in Validating /\ w.check <= w.at /\ High(b) /\ WholeChar(s, w.at)
  <2>. DEFINE u == CheckUnicode(s, w)
  <2>1. v = Put(u, <<b>>) BY <1>5 DEF Plain, b
  <2>2. u \in Writings /\ ~u.raised /\ u.out = w.out /\ u.at = w.at /\ u.check = w.at + Follows(b) + 1
    BY <1>5, CheckUnicodeIs DEF b
  <2>. HIDE DEF u
  <2>3. Wrote(w, v, <<b>>, 0, w.at + Follows(b) + 1) BY <1>1, <2>1, <2>2, PutWrites
  <2>. QED BY <1>5, <2>3 DEF Checked, b
<1>6. CASE mode \in Validating /\ w.check <= w.at /\ High(b) /\ ~WholeChar(s, w.at)
  <2>1. v = Put(Raise(w), <<b>>) BY <1>6 DEF Plain, CheckUnicode, b
  <2>2. Raise(w) \in Writings /\ Raise(w).raised BY <1>2, RaiseIs
  <2>3. v \in Writings /\ v.raised BY <1>1, <2>1, <2>2, PutIs
  <2>4. mode \notin Unchecked BY <1>6, ModesAre
  <2>. QED BY <1>6, <2>3, <2>4 DEF Refused, b
<1>. QED BY <1>4, <1>5, <1>6

\* A byte of cost 3, or of cost 6 outside of ASCII, is written with its character or refused.
LEMMA AsUnicodeIs ==
    ASSUME NEW mode \in Modes, NEW s, NEW w, Within(s, w), High(s[w.at]),
           Cost(mode, s[w.at]) = 3 \/ Cost(mode, s[w.at]) = 6
    PROVE  LET v == AsUnicode(mode, s, w) IN Character(mode, s, w, v) \/ Checked(mode, s, w, v) \/ Refused(mode, s, w, v)
<1>. DEFINE b == s[w.at]
            v == AsUnicode(mode, s, w)
<1>1. b \in Byte /\ b \in Int /\ <<b>> \in Seq(Byte) /\ w.at \in Nat /\ w.check \in Nat /\ w \in Writings BY WithinIs DEF Within
<1>2. /\ Cost(mode, b) = 3 => mode \in Escaping
      /\ Cost(mode, b) = 6 => b = 226 /\ mode \in Validating
  BY <1>1, CostIs
<1>3. mode \notin Unchecked /\ (b = 226 \/ mode \notin Validating) BY <1>2, ModesAre
<1>. HIDE DEF b
<1>4. CASE v = DumpUnicode(s, w)
  <2>1. CASE WholeChar(s, w.at)
    <3>1. Wrote(w, v, Unicode(CodeOf(s, w.at)), Follows(b), w.check) BY <1>4, <2>1, DumpUnicodeIs DEF b
    <3>2. Cost(mode, b) = 3 \/ (Cost(mode, b) = 6 /\ b = 226) BY <1>2 DEF b
    <3>. QED BY <2>1, <3>1, <3>2 DEF Character, b
  <2>2. CASE ~WholeChar(s, w.at)
    <3>1. v \in Writings /\ v.raised BY <1>4, <2>2, DumpUnicodeIs
    <3>. QED BY <1>3, <2>2, <3>1 DEF Refused, b
  <2>. QED BY <2>1, <2>2
<1>5. CASE v # DumpUnicode(s, w)
  <2>1. b = 226 /\ mode \in Validating /\ v = Put(CheckUnicode(s, w), <<b>>) BY <1>5 DEF AsUnicode, b
  <2>2. Cost(mode, b) = 6 BY <1>2, <2>1, ModesAre DEF b
  <2>3. CASE WholeChar(s, w.at)
    <3>. DEFINE u == CheckUnicode(s, w)
    <3>1. u \in Writings /\ ~u.raised /\ u.out = w.out /\ u.at = w.at /\ u.check = w.at + Follows(b) + 1
      BY <2>3, CheckUnicodeIs DEF b
    <3>2. v = Put(u, <<b>>) BY <2>1
    <3>. HIDE DEF u
    <3>3. Wrote(w, v, <<b>>, 0, w.at + Follows(b) + 1) BY <1>1, <3>1, <3>2, PutWrites
    <3>. QED BY <2>1, <2>2, <2>3, <3>3 DEF Checked, b
  <2>4. CASE ~WholeChar(s, w.at)
    <3>1. v = Put(Raise(w), <<b>>) BY <2>1, <2>4 DEF CheckUnicode
    <3>2. Raise(w) \in Writings /\ Raise(w).raised BY <1>1, RaiseIs
    <3>3. v \in Writings /\ v.raised BY <1>1, <3>1, <3>2, PutIs
    <3>. QED BY <1>3, <2>4, <3>3 DEF Refused, b
  <2>. QED BY <2>3, <2>4
<1>. QED BY <1>4, <1>5

\* An escape of one letter.
LEMMA BackslashedIs ==
    ASSUME NEW b \in Byte
    PROVE  Backslashed(b) \in Seq(Byte) /\ Len(Backslashed(b)) = 2 /\ Backslashed(b)[1] = Backslash
<1>1. Backslash \in Byte BY DEF Backslash, Byte
<1>. DEFINE x == IF b \in DOMAIN Short THEN Short[b] ELSE b
<1>2. x \in Byte BY DEF Short, Byte
<1>3. Backslashed(b) = <<Backslash, x>> BY DEF Backslashed
<1>. HIDE DEF x
<1>. QED BY <1>1, <1>2, <1>3

\* Nothing is a sequence of bytes.
LEMMA EmptyBytes ==
    <<>> \in Seq(Byte) /\ Len(<<>>) = 0
OBVIOUS

\* process_character does one of these.
LEMMA ProcessIs ==
    ASSUME NEW mode \in Modes, NEW omitNull \in BOOLEAN, NEW s, NEW w, Within(s, w)
    PROVE  Stepped(mode, omitNull, s, w, ProcessCharacter(mode, omitNull, s, w))
<1>. DEFINE b == s[w.at]
            c == Cost(mode, b)
            v == ProcessCharacter(mode, omitNull, s, w)
<1>1. b \in Byte /\ b \in Int /\ b \in Nat /\ w.at \in Nat /\ w.check \in Nat /\ w \in Writings /\ ~w.raised /\ w.out \in Seq(Byte) BY WithinIs DEF Within
<1>2. c \in {1, 2, 3, 6} BY <1>1, CostIs
<1>3. CASE c = 1
  <2>1. v = Plain(mode, s, w) BY <1>3 DEF ProcessCharacter
  <2>. QED BY <1>3, <2>1, PlainIs DEF Stepped
<1>4. CASE c = 2
  <2>1. v = Put(w, Backslashed(b)) BY <1>4 DEF ProcessCharacter
  <2>2. Backslashed(b) \in Seq(Byte) BY <1>1, BackslashedIs
  <2>3. Wrote(w, v, Backslashed(b), 0, w.check) BY <1>1, <2>1, <2>2, PutWrites
  <2>. QED BY <1>4, <2>3 DEF Stepped, Letter
<1>5. CASE c = 3
  <2>1. v = AsUnicode(mode, s, w) BY <1>5 DEF ProcessCharacter
  <2>2. High(b) BY <1>1, <1>5, CostIs
  <2>. QED BY <1>5, <2>1, <2>2, AsUnicodeIs DEF Stepped
<1>6. CASE c = 6 /\ High(b)
  <2>1. v = AsUnicode(mode, s, w) BY <1>6 DEF ProcessCharacter
  <2>. QED BY <1>6, <2>1, AsUnicodeIs DEF Stepped
<1>7. CASE c = 6 /\ ~High(b) /\ b = 0 /\ omitNull
  <2>1. v = w BY <1>7 DEF ProcessCharacter
  <2>2. w.out \o <<>> = w.out BY <1>1, ConcatEmptySeq
  <2>3. Wrote(w, v, <<>>, 0, w.check) BY <1>1, <2>1, <2>2, EmptyBytes DEF Wrote
  <2>. QED BY <1>7, <2>3 DEF Stepped, LeftOut
<1>8. CASE c = 6 /\ ~High(b) /\ ~(b = 0 /\ omitNull)
  <2>1. v = Put(w, Hex4(b)) BY <1>8 DEF ProcessCharacter
  <2>2. Hex4(b) \in Seq(Byte) BY <1>1, Hex4Is
  <2>3. Wrote(w, v, Hex4(b), 0, w.check) BY <1>1, <2>1, <2>2, PutWrites
  <2>. QED BY <1>8, <2>3 DEF Stepped, Control
<1>. QED BY <1>2, <1>3, <1>4, <1>5, <1>6, <1>7, <1>8

\* A round, from the state w to the state v.
Rounded(mode, omitNull, s, w, v) ==
    /\ v \in Writings
    /\ \E u : Stepped(mode, omitNull, s, w, u) /\ v.raised = u.raised
               /\ (~u.raised => v.out = u.out /\ v.at = u.at + 1 /\ v.check = u.check)

\* A round does one of these, and goes on to the next byte.
LEMMA RoundIs ==
    ASSUME NEW mode \in Modes, NEW omitNull \in BOOLEAN, NEW s, NEW w, Within(s, w)
    PROVE  Rounded(mode, omitNull, s, w, Round(mode, omitNull, s, w))
<1>. DEFINE u == ProcessCharacter(mode, omitNull, s, w)
            v == Round(mode, omitNull, s, w)
<1>1. Stepped(mode, omitNull, s, w, u) BY ProcessIs
<1>2. v = [u EXCEPT !.at = @ + 1]
  <2>1. ~w.raised /\ ~(w.at > Len(s)) BY LenProperties DEF Within
  <2>. QED BY <2>1 DEF Round
<1>. HIDE DEF u
<1>3. u \in Writings
  BY <1>1 DEF Stepped, AsIs, Checked, Letter, Control, LeftOut, Character, Refused, Wrote
<1>4. v \in Writings /\ v.raised = u.raised /\ v.out = u.out /\ v.at = u.at + 1 /\ v.check = u.check
  BY <1>2, <1>3, Advanced
<1>. QED BY <1>1, <1>4 DEF Rounded

-----------------------------------------------------------------------------
(* The whole loop: what holds of its start and is kept by a round holds of    *)
(* its end, which has the text behind it or was refused.                     *)

\* T is kept by the rounds over s.
Carried(T, mode, omitNull, s) ==
    \A w \in T : /\ w \in Writings /\ (w.raised \/ w.at >= 1)
                 /\ Within(s, w) => \A v : Rounded(mode, omitNull, s, w, v) => v \in T

\* A round of the loop goes on unless it is over.
LEMMA RoundType ==
    ASSUME NEW mode \in Modes, NEW omitNull \in BOOLEAN, NEW s \in Seq(Byte), NEW w \in Writings, w.raised \/ w.at >= 1
    PROVE  /\ Round(mode, omitNull, s, w) \in Writings
           /\ w.raised \/ w.at > Len(s) => Round(mode, omitNull, s, w) = w
           /\ ~(w.raised \/ w.at > Len(s)) =>
                 /\ Within(s, w) /\ Rounded(mode, omitNull, s, w, Round(mode, omitNull, s, w))
                 /\ Round(mode, omitNull, s, w).raised \/ Round(mode, omitNull, s, w).at >= w.at + 1
<1>1. CASE w.raised \/ w.at > Len(s) BY <1>1 DEF Round
<1>2. CASE ~(w.raised \/ w.at > Len(s))
  <2>. DEFINE v == Round(mode, omitNull, s, w)
  <2>1. Within(s, w)
    <3>1. w.at \in Nat /\ Len(s) \in Nat BY LenProperties DEF Writings
    <3>2. w.at \in 1..Len(s) BY <1>2, <3>1
    <3>. QED BY <1>2, <3>2 DEF Within
  <2>2. Rounded(mode, omitNull, s, w, v) BY <2>1, RoundIs
  <2>. HIDE DEF v
  <2>3. v \in Writings BY <2>2 DEF Rounded
  <2>4. ASSUME ~v.raised PROVE v.at >= w.at + 1
    <3>1. PICK u : Stepped(mode, omitNull, s, w, u) /\ ~u.raised /\ v.at = u.at + 1 BY <2>2, <2>4 DEF Rounded
    <3>2. \E l, n, c : Wrote(w, u, l, n, c)
      BY <3>1 DEF Stepped, AsIs, Checked, Letter, Control, LeftOut, Character, Refused
    <3>3. PICK n \in Nat : u.at = w.at + n BY <3>2 DEF Wrote
    <3>4. w.at \in Nat BY DEF Writings
    <3>. QED BY <3>1, <3>3, <3>4
  <2>. QED BY <1>2, <2>1, <2>2, <2>3, <2>4 DEF v
<1>. QED BY <1>1, <1>2

\* The states that the rounds go through.
LEMMA BodyIs ==
    ASSUME NEW mode \in Modes, NEW omitNull \in BOOLEAN, NEW s \in Seq(Byte), NEW start \in Writings, start.at >= 1
    PROVE  \E f : /\ f[0] = start
                  /\ \A n \in 1..Len(s) : f[n] = Round(mode, omitNull, s, f[n - 1])
                  /\ Body(mode, omitNull, s, start) = f[Len(s)]
<1>. DEFINE N == Len(s)
            W == {w \in Writings : w.raised \/ w.at >= 1}
            step == [k \in 1..N |-> [w \in W |-> Round(mode, omitNull, s, w)]]
            after[n \in 0..N] == IF n = 0 THEN start ELSE Round(mode, omitNull, s, after[n - 1])
<1>1. N \in Nat BY LenProperties
<1>2. Body(mode, omitNull, s, start) = after[N] BY DEF Body
<1>. HIDE DEF N
<1>3. \A k \in 1..N, w \in W : step[k][w] = Round(mode, omitNull, s, w) OBVIOUS
<1>. HIDE DEF step
<1>4. \A k \in 1..N, w \in W : step[k][w] \in W
  <2>1. ASSUME NEW k \in 1..N, NEW w \in W PROVE step[k][w] \in W
    <3>. DEFINE v == Round(mode, omitNull, s, w)
    <3>1. step[k][w] = v BY <1>3
    <3>2. w \in Writings /\ (w.raised \/ w.at >= 1) OBVIOUS
    <3>3. v \in Writings /\ (v = w \/ v.raised \/ v.at >= w.at + 1) BY <3>2, RoundType
    <3>. HIDE DEF v
    <3>4. w.at \in Nat /\ v.at \in Nat BY <3>2, <3>3 DEF Writings
    <3>5. v.raised \/ v.at >= 1 BY <3>2, <3>3, <3>4
    <3>. QED BY <3>1, <3>3, <3>5
  <2>. QED BY <2>1
<1>5. start \in W OBVIOUS
<1>. HIDE DEF W
<1>6. PICK f : Loop(f, N, W, start, step)
  <2>1. Closed(N, W, start, step) BY <1>1, <1>4, <1>5 DEF Closed
  <2>. QED BY <2>1, Recursion
<1>7. \A n \in 1..N : n - 1 \in 0..N /\ f[n - 1] \in W /\ f[n] = Round(mode, omitNull, s, f[n - 1])
  <2>1. ASSUME NEW n \in 1..N PROVE n - 1 \in 0..N /\ f[n - 1] \in W /\ f[n] = Round(mode, omitNull, s, f[n - 1])
    <3>1. n - 1 \in 0..N BY <1>1
    <3>2. f[n - 1] \in W BY <1>6, <3>1 DEF Loop
    <3>. QED BY <1>3, <1>6, <3>1, <3>2 DEF Loop
  <2>. QED BY <2>1
<1>8. f \in [0..N -> W] /\ f[0] = start BY <1>6 DEF Loop
<1>9. f = [n \in 0..N |-> IF n = 0 THEN start ELSE Round(mode, omitNull, s, f[n - 1])]
  <2>1. ASSUME NEW n \in 0..N PROVE f[n] = IF n = 0 THEN start ELSE Round(mode, omitNull, s, f[n - 1])
    <3>1. CASE n = 0 BY <1>8, <3>1
    <3>2. CASE n # 0
      <4>1. n \in 1..N BY <1>1, <3>2
      <4>. QED BY <1>7, <3>2, <4>1
    <3>. QED BY <3>1, <3>2
  <2>. QED BY <1>8, <2>1
<1>10. after = [n \in 0..N |-> IF n = 0 THEN start ELSE Round(mode, omitNull, s, after[n - 1])] BY <1>9
<1>. HIDE DEF after
<1>11. \A n \in 0..N : after[n] = IF n = 0 THEN start ELSE Round(mode, omitNull, s, after[n - 1]) BY <1>10
<1>12. after[0] = start /\ \A n \in 1..N : after[n] = Round(mode, omitNull, s, after[n - 1]) BY <1>1, <1>11
<1>. QED BY <1>2, <1>12 DEF N

\* Written and not refused, up to the end; or refused.
LEMMA BodyKeeps ==
    ASSUME NEW mode, NEW omitNull, NEW s, NEW start, NEW T,
           mode \in Modes, omitNull \in BOOLEAN, s \in Seq(Byte), start \in T, ~start.raised,
           Carried(T, mode, omitNull, s)
    PROVE  LET v == Body(mode, omitNull, s, start) IN v \in T /\ (v.raised \/ v.at > Len(s))
<1>. DEFINE N == Len(s)
<1>1. start \in Writings /\ start.at >= 1 /\ start.at \in Nat BY DEF Carried, Writings
<1>2. PICK f : /\ f[0] = start
               /\ \A n \in 1..N : f[n] = Round(mode, omitNull, s, f[n - 1])
               /\ Body(mode, omitNull, s, start) = f[N]
  BY <1>1, BodyIs
<1>3. N \in Nat BY LenProperties
<1>. HIDE DEF N
<1>. DEFINE P == {n \in 0..N : f[n] \in T /\ (f[n].raised \/ f[n].at > N \/ f[n].at >= n + 1)}
<1>4. 0 \in P BY <1>1, <1>2, <1>3
<1>5. ASSUME NEW n \in 0..N, n # N, n \in P PROVE n + 1 \in P
  <2>. DEFINE w == f[n]
              v == f[n + 1]
  <2>1. n + 1 \in 1..N /\ n + 1 \in 0..N /\ (n + 1) - 1 = n BY <1>3, <1>5
  <2>2. v = Round(mode, omitNull, s, w) BY <1>2, <2>1
  <2>3. w \in T /\ (w.raised \/ w.at > N \/ w.at >= n + 1) BY <1>5
  <2>. HIDE DEF v, w
  <2>4. w \in Writings /\ (w.raised \/ w.at >= 1) BY <2>3 DEF Carried
  <2>5. w.at \in Nat BY <2>4 DEF Writings
  <2>6. CASE w.raised \/ w.at > N
    <3>1. v = w BY <2>2, <2>4, <2>6, RoundType DEF N
    <3>. QED BY <2>1, <2>3, <2>6, <3>1 DEF v
  <2>7. CASE ~(w.raised \/ w.at > N)
    <3>1. /\ Within(s, w) /\ Rounded(mode, omitNull, s, w, v) /\ v \in Writings
          /\ v.raised \/ v.at >= w.at + 1
      BY <2>2, <2>4, <2>7, RoundType DEF N
    <3>2. v \in T BY <2>3, <3>1 DEF Carried
    <3>3. v.at \in Nat BY <3>1 DEF Writings
    <3>4. v.raised \/ v.at >= (n + 1) + 1 BY <2>3, <2>5, <2>7, <3>1, <3>3
    <3>. QED BY <2>1, <3>2, <3>4 DEF v
  <2>. QED BY <2>6, <2>7
<1>6. P \subseteq 0..N /\ \A n \in 0..N : n # N /\ n \in P => n + 1 \in P BY <1>5
<1>7. ASSUME N \in P PROVE f[N] \in T /\ (f[N].raised \/ f[N].at > N)
  <2>1. f[N] \in T /\ (f[N].raised \/ f[N].at > N \/ f[N].at >= N + 1) BY <1>7
  <2>2. f[N].raised \/ f[N].at \in Nat BY <2>1 DEF Carried, Writings
  <2>. QED BY <1>3, <2>1, <2>2
<1>. HIDE DEF P
<1>8. 0..N \subseteq P BY <1>3, <1>4, <1>6, Induction
<1>9. N \in P BY <1>3, <1>8
<1>. QED BY <1>2, <1>7, <1>9 DEF N

-----------------------------------------------------------------------------
(* Characters in a text.                                                     *)

\* A byte outside of ASCII is the first of a character or follows one.
LEMMA HighIs ==
    ASSUME NEW b \in Byte
    PROVE  /\ High(b) <=> Lead(b) \/ Follow(b)
           /\ Follow(b) <=> b \in 128..191
           /\ High(b) <=> b >= 128
           /\ Lead(b) => ~Follow(b)
BY DEF High, Lead, Follow, Byte

\* The byte i is part of a whole character.
Covered(s, i) == \E j \in 1..i : WholeChar(s, j) /\ i <= j + Follows(s[j])

\* A text of whole characters, by its length.
LEMMA ShapedIs ==
    ASSUME NEW s \in Seq(Byte)
    PROVE  Shaped(s) <=> \A i \in 1..Len(s) : High(s[i]) => Covered(s, i)
BY LenProperties DEF Shaped, Covered

\* A byte within a character follows its first; the first follows none.
LEMMA WithinChar ==
    ASSUME NEW s \in Seq(Byte), NEW i \in 1..Len(s), NEW j \in 1..i,
           WholeChar(s, j), i <= j + Follows(s[j])
    PROVE  High(s[i]) /\ (i = j \/ Follow(s[i])) /\ ~Follow(s[j])
<1>1. j \in 1..Len(s) /\ j \in Nat /\ Len(s) \in Nat BY LenProperties
<1>2. /\ Follows(s[j]) \in 1..5 /\ High(s[j]) /\ ~Follow(s[j])
      /\ \A k \in j + 1..j + Follows(s[j]) : k \in 1..Len(s) /\ s[k] \in 128..191
  BY <1>1, WholeCharIs
<1>3. CASE i = j BY <1>2, <1>3
<1>4. CASE i # j
  <2>1. i \in j + 1..j + Follows(s[j]) BY <1>1, <1>2, <1>4
  <2>2. s[i] \in 128..191 BY <1>2, <2>1
  <2>3. \A b \in 128..191 : High(b) /\ Follow(b) BY DEF High, Follow
  <2>. QED BY <1>2, <2>2, <2>3
<1>. QED BY <1>3, <1>4

\* In such a text a byte that could begin a character does.
LEMMA ShapedFirst ==
    ASSUME NEW s \in Seq(Byte), Shaped(s), NEW i \in 1..Len(s), High(s[i]), ~Follow(s[i])
    PROVE  WholeChar(s, i)
<1>1. PICK j \in 1..i : WholeChar(s, j) /\ i <= j + Follows(s[j]) BY ShapedIs DEF Covered
<1>2. i = j BY <1>1, WithinChar
<1>. QED BY <1>1, <1>2

\* After a byte of ASCII, and after a character, another one begins.
LEMMA AfterLow ==
    ASSUME NEW s \in Seq(Byte), Shaped(s), NEW i \in 1..Len(s), ~High(s[i]), i + 1 \in 1..Len(s)
    PROVE  ~Follow(s[i + 1])
<1>1. SUFFICES ASSUME Follow(s[i + 1]) PROVE FALSE OBVIOUS
<1>2. High(s[i + 1]) BY <1>1, ByteAt, HighIs
<1>3. PICK j \in 1..i + 1 : WholeChar(s, j) /\ i + 1 <= j + Follows(s[j]) BY <1>2, ShapedIs DEF Covered
<1>4. ~Follow(s[j]) BY <1>3, WithinChar
<1>5. j # i + 1 BY <1>1, <1>4
<1>6. j \in 1..i BY <1>5
<1>7. Follows(s[j]) \in 1..5 BY <1>3, <1>6, WholeCharIs, LenProperties
<1>8. i <= j + Follows(s[j]) BY <1>3, <1>6, <1>7
<1>. QED BY <1>3, <1>6, <1>8, WithinChar

\* and not one that follows.
LEMMA AfterWhole ==
    ASSUME NEW s \in Seq(Byte), Shaped(s), NEW i \in 1..Len(s), WholeChar(s, i),
           i + Follows(s[i]) + 1 \in 1..Len(s)
    PROVE  ~Follow(s[i + Follows(s[i]) + 1])
<1>. DEFINE m == i + Follows(s[i]) + 1
<1>0. Follows(s[i]) \in 1..5 /\ ~Follow(s[i]) /\ \A k \in i + 1..i + Follows(s[i]) : s[k] \in 128..191 BY WholeCharIs
<1>1. SUFFICES ASSUME Follow(s[m]) PROVE FALSE OBVIOUS
<1>2. m \in 1..Len(s) /\ m \in Nat OBVIOUS
<1>9. m = i + Follows(s[i]) + 1 OBVIOUS
<1>. HIDE DEF m
<1>10. High(s[m]) BY <1>1, <1>2, ByteAt, HighIs
<1>3. PICK j \in 1..m : WholeChar(s, j) /\ m <= j + Follows(s[j]) BY <1>2, <1>10, ShapedIs DEF Covered
<1>4. ~Follow(s[j]) BY <1>2, <1>3, WithinChar
<1>5. j # m BY <1>1, <1>4
<1>6. j \in 1..Len(s) /\ Follows(s[j]) \in 1..5
  <2>1. j \in 1..Len(s) BY <1>2, LenProperties
  <2>. QED BY <1>3, <2>1, WholeCharIs
<1>7. j <= i
  <2>1. SUFFICES ASSUME j > i PROVE FALSE BY <1>6
  <2>2. j \in i + 1..i + Follows(s[i]) BY <1>0, <1>2, <1>5, <1>6, <1>9, <2>1
  <2>3. s[j] \in 128..191 BY <1>0, <2>2
  <2>. QED BY <1>4, <2>3 DEF Follow
<1>8. j = i
  <2>1. j \in 1..i /\ i <= j + Follows(s[j]) BY <1>0, <1>3, <1>6, <1>7, <1>9
  <2>. QED BY <1>0, <1>3, <2>1, WithinChar
<1>. QED BY <1>0, <1>3, <1>8, <1>9

-----------------------------------------------------------------------------
(* What is refused.                                                          *)

\* Where the next character must begin.
Begins(s, m) == m \in 1..Len(s) => ~Follow(s[m])
Pending(w) == IF w.check <= w.at THEN w.at ELSE w.check

\* While a text of whole characters is written, it is not refused.
Accepted(mode, s) ==
    {w \in Writings : /\ ~w.raised /\ w.at >= 1
                      /\ mode \notin Validating => w.check <= w.at
                      /\ mode \notin Unchecked => Begins(s, Pending(w))}

\* A text of whole characters is not refused: in no round,
LEMMA KeepsAccepted ==
    ASSUME NEW mode \in Modes, NEW omitNull \in BOOLEAN, NEW s \in Seq(Byte), Shaped(s) \/ mode \in Unchecked
    PROVE  Carried(Accepted(mode, s), mode, omitNull, s)
<1>1. SUFFICES ASSUME NEW w \in Accepted(mode, s), Within(s, w), NEW v, Rounded(mode, omitNull, s, w, v)
               PROVE  v \in Accepted(mode, s)
  BY DEF Carried, Accepted
<1>. DEFINE b == s[w.at]
            i == w.at
<1>2. /\ w \in Writings
      /\ mode \notin Validating => w.check <= i
      /\ mode \notin Unchecked => Begins(s, Pending(w))
  BY DEF Accepted
<1>3. b \in Byte /\ i \in 1..Len(s) /\ i \in Nat /\ w.check \in Nat /\ Len(s) \in Nat BY <1>1, WithinIs, LenProperties DEF Within
<1>4. v \in Writings /\ v.at \in Nat /\ v.check \in Nat BY <1>1 DEF Rounded, Writings
<1>5. PICK u : /\ Stepped(mode, omitNull, s, w, u) /\ v.raised = u.raised
               /\ ~u.raised => v.out = u.out /\ v.at = u.at + 1 /\ v.check = u.check
  BY <1>1 DEF Rounded
<1>6. mode \in Unchecked => mode \notin Validating /\ mode \notin Escaping BY ModesAre
<1>7. ASSUME ~High(b), v.at = i + 1, v.check = w.check, mode \notin Unchecked PROVE Begins(s, Pending(v))
  <2>1. CASE v.check <= v.at
    <3>1. i + 1 \in 1..Len(s) => ~Follow(s[i + 1]) BY <1>3, <1>7, AfterLow
    <3>. QED BY <1>7, <2>1, <3>1 DEF Begins, Pending
  <2>2. CASE ~(v.check <= v.at)
    <3>1. ~(w.check <= i) BY <1>3, <1>7, <2>2
    <3>. QED BY <1>2, <1>7, <2>2, <3>1 DEF Pending
  <2>. QED BY <2>1, <2>2
<1>. HIDE DEF b, i
<1>8. CASE ~u.raised /\ ~High(b) /\ u.at = i /\ u.check = w.check
  <2>1. v.at = i + 1 /\ v.check = w.check /\ ~v.raised BY <1>5, <1>8
  <2>2. mode \notin Unchecked => Begins(s, Pending(v)) BY <1>7, <1>8, <2>1
  <2>. QED BY <1>2, <1>3, <1>4, <2>1, <2>2 DEF Accepted
<1>9. CASE AsIs(mode, s, w, u)
  <2>1. u.at = i /\ u.check = w.check /\ ~u.raised BY <1>3, <1>9 DEF AsIs, Wrote, i
  <2>2. v.at = i + 1 /\ v.check = w.check /\ ~v.raised BY <1>5, <2>1
  <2>3. CASE ~High(b) BY <1>8, <2>1, <2>3
  <2>4. CASE High(b) /\ mode \in Unchecked
    BY <1>2, <1>3, <1>4, <1>6, <2>2, <2>4 DEF Accepted
  <2>5. CASE High(b) /\ mode \notin Unchecked
    <3>1. mode \in Validating /\ i < w.check BY <1>9, <2>5 DEF AsIs, b, i
    <3>2. Pending(v) = w.check /\ Pending(w) = w.check BY <1>3, <2>2, <3>1 DEF Pending, i
    <3>. QED BY <1>2, <1>3, <1>4, <2>2, <3>1, <3>2 DEF Accepted
  <2>. QED BY <2>3, <2>4, <2>5
<1>10. CASE Checked(mode, s, w, u)
  <2>1. u.at = i /\ u.check = i + Follows(b) + 1 /\ ~u.raised /\ WholeChar(s, i) /\ mode \in Validating
    BY <1>3, <1>10 DEF Checked, Wrote, i, b
  <2>2. v.at = i + 1 /\ v.check = i + Follows(b) + 1 /\ ~v.raised BY <1>5, <2>1
  <2>3. Follows(b) \in 1..5 BY <1>3, <2>1, WholeCharIs DEF b, i
  <2>4. Pending(v) = i + Follows(b) + 1 BY <1>3, <2>2, <2>3 DEF Pending
  <2>5. mode \notin Unchecked => Begins(s, Pending(v)) BY <1>3, <2>1, <2>4, AfterWhole DEF Begins, b, i
  <2>. QED BY <1>3, <1>4, <2>1, <2>2, <2>5 DEF Accepted
<1>11. CASE Letter(mode, s, w, u)
  <2>1. u.at = i /\ u.check = w.check /\ ~u.raised BY <1>3, <1>11 DEF Letter, Wrote, i
  <2>2. ~High(b) BY <1>3, <1>11, CostIs DEF Letter, b
  <2>. QED BY <1>8, <2>1, <2>2
<1>12. CASE Control(mode, omitNull, s, w, u)
  <2>1. u.at = i /\ u.check = w.check /\ ~u.raised BY <1>3, <1>12 DEF Control, Wrote, i
  <2>. QED BY <1>8, <1>12, <2>1 DEF Control, b
<1>13. CASE LeftOut(mode, omitNull, s, w, u)
  <2>1. u.at = i /\ u.check = w.check /\ ~u.raised BY <1>3, <1>13 DEF LeftOut, Wrote, i
  <2>2. b = 0 BY <1>13 DEF LeftOut, b
  <2>. QED BY <1>8, <2>1, <2>2 DEF High
<1>14. CASE Character(mode, s, w, u)
  <2>1. u.at = i + Follows(b) /\ u.check = w.check /\ ~u.raised /\ WholeChar(s, i)
    BY <1>14 DEF Character, Wrote, i, b
  <2>2. v.at = i + Follows(b) + 1 /\ v.check = w.check /\ ~v.raised BY <1>5, <2>1
  <2>3. Follows(b) \in 1..5 BY <1>3, <2>1, WholeCharIs DEF b, i
  <2>4. mode \notin Validating => v.check <= v.at BY <1>2, <1>3, <2>2, <2>3
  <2>5. ASSUME mode \notin Unchecked PROVE Begins(s, Pending(v))
    <3>1. CASE v.check <= v.at
      BY <1>3, <2>1, <2>2, <2>5, <3>1, AfterWhole DEF Begins, Pending, b, i
    <3>2. CASE ~(v.check <= v.at)
      <4>1. Pending(v) = w.check /\ Pending(w) = w.check BY <1>3, <2>2, <2>3, <3>2 DEF Pending, i
      <4>. QED BY <1>2, <2>5, <4>1
    <3>. QED BY <3>1, <3>2
  <2>. QED BY <1>3, <1>4, <2>2, <2>3, <2>4, <2>5 DEF Accepted
<1>15. CASE Refused(mode, s, w, u)
  <2>1. mode \notin Unchecked /\ High(b) /\ ~WholeChar(s, i) /\ (w.check <= i \/ b = 226 \/ mode \notin Validating)
    BY <1>15 DEF Refused, b, i
  <2>2. ~Follow(b)
    <3>1. CASE b = 226 BY <3>1 DEF Follow
    <3>2. CASE b # 226
      <4>1. w.check <= i BY <1>2, <2>1, <3>2
      <4>2. Pending(w) = i BY <4>1 DEF Pending, i
      <4>. QED BY <1>2, <1>3, <2>1, <4>2 DEF Begins, b, i
    <3>. QED BY <3>1, <3>2
  <2>. QED BY <1>3, <2>1, <2>2, ShapedFirst DEF b, i
<1>. QED BY <1>5, <1>9, <1>10, <1>11, <1>12, <1>13, <1>14, <1>15 DEF Stepped

\* While it is looked for, every high byte behind the loop is part of a character.
Looked(s, from) ==
    {w \in Writings : /\ w.raised \/ w.at >= 1
                      /\ ~w.raised => \A i \in from..Len(s) : High(s[i]) /\ (i < w.at \/ i < w.check) => Covered(s, i)}

\* A text that the validating modes do not refuse was looked at, byte for byte.
LEMMA KeepsLooked ==
    ASSUME NEW mode \in Modes, NEW omitNull \in BOOLEAN, NEW s \in Seq(Byte), NEW from \in Nat, mode \notin Unchecked
    PROVE  Carried(Looked(s, from), mode, omitNull, s)
<1>1. SUFFICES ASSUME NEW w \in Looked(s, from), Within(s, w), NEW v, Rounded(mode, omitNull, s, w, v)
               PROVE  v \in Looked(s, from)
  BY DEF Carried, Looked
<1>. DEFINE b == s[w.at]
            k == w.at
<1>2. /\ w \in Writings
      /\ \A i \in from..Len(s) : High(s[i]) /\ (i < k \/ i < w.check) => Covered(s, i)
  BY <1>1 DEF Looked, Within
<1>3. b \in Byte /\ k \in 1..Len(s) /\ k \in Nat /\ w.check \in Nat /\ Len(s) \in Nat BY <1>1, WithinIs, LenProperties DEF Within
<1>4. v \in Writings /\ v.at \in Nat /\ v.check \in Nat BY <1>1 DEF Rounded, Writings
<1>5. PICK u : /\ Stepped(mode, omitNull, s, w, u) /\ v.raised = u.raised
               /\ ~u.raised => v.out = u.out /\ v.at = u.at + 1 /\ v.check = u.check
  BY <1>1 DEF Rounded
<1>. HIDE DEF b, k
<1>6. ASSUME NEW n \in Nat, ~v.raised, v.at <= k + n + 1, v.check <= w.check \/ v.check <= k + n + 1,
             \A i \in k..k + n : i \in 1..Len(s) /\ High(s[i]) /\ ~(i < w.check) => Covered(s, i)
      PROVE  v \in Looked(s, from)
  <2>1. ASSUME NEW i \in from..Len(s), High(s[i]), i < v.at \/ i < v.check PROVE Covered(s, i)
    <3>1. CASE i < k \/ i < w.check BY <1>2, <2>1, <3>1
    <3>2. CASE ~(i < k \/ i < w.check)
      <4>1. i \in k..k + n /\ i \in 1..Len(s) BY <1>3, <1>4, <1>6, <2>1, <3>2
      <4>. QED BY <1>6, <2>1, <3>2, <4>1
    <3>. QED BY <3>1, <3>2
  <2>2. v.at >= 1 \/ v.raised
    <3>1. v.at >= k + 1
      <4>1. \E l, m, c : Wrote(w, u, l, m, c)
        BY <1>5, <1>6 DEF Stepped, AsIs, Checked, Letter, Control, LeftOut, Character, Refused
      <4>2. PICK m \in Nat : u.at = k + m BY <4>1 DEF Wrote, k
      <4>. QED BY <1>3, <1>5, <1>6, <4>2
    <3>. QED BY <1>3, <1>4, <3>1
  <2>. QED BY <1>4, <2>1, <2>2 DEF Looked
<1>7. ASSUME ~u.raised, u.at = k, u.check = w.check, High(b) => k < w.check PROVE v \in Looked(s, from)
  <2>1. ~v.raised /\ v.at <= k + 0 + 1 /\ v.check <= w.check BY <1>3, <1>5, <1>7
  <2>2. \A i \in k..k + 0 : i = k BY <1>3
  <2>. QED BY <1>6, <1>7, <2>1, <2>2 DEF b, k
<1>8. ASSUME WholeChar(s, k) PROVE \A i \in k..k + Follows(b) : Covered(s, i)
  <2>1. Follows(b) \in 1..5 BY <1>3, <1>8, WholeCharIs DEF b, k
  <2>2. ASSUME NEW i \in k..k + Follows(b) PROVE k \in 1..i BY <1>3, <2>1
  <2>. QED BY <1>8, <2>1, <2>2 DEF Covered, b, k
<1>9. CASE AsIs(mode, s, w, u)
  <2>1. u.at = k /\ u.check = w.check /\ ~u.raised BY <1>3, <1>9 DEF AsIs, Wrote, k
  <2>2. High(b) => k < w.check BY <1>9 DEF AsIs, b, k
  <2>. QED BY <1>7, <2>1, <2>2
<1>10. CASE Checked(mode, s, w, u)
  <2>1. u.at = k /\ u.check = k + Follows(b) + 1 /\ ~u.raised /\ WholeChar(s, k)
    BY <1>3, <1>10 DEF Checked, Wrote, k, b
  <2>2. Follows(b) \in 1..5 BY <1>3, <2>1, WholeCharIs DEF b, k
  <2>3. ~v.raised /\ v.at <= k + Follows(b) + 1 /\ v.check <= k + Follows(b) + 1 BY <1>3, <1>5, <2>1, <2>2
  <2>. QED BY <1>6, <1>8, <2>1, <2>2, <2>3
<1>11. CASE Letter(mode, s, w, u)
  <2>1. u.at = k /\ u.check = w.check /\ ~u.raised BY <1>3, <1>11 DEF Letter, Wrote, k
  <2>2. ~High(b) BY <1>3, <1>11, CostIs DEF Letter, b
  <2>. QED BY <1>7, <2>1, <2>2
<1>12. CASE Control(mode, omitNull, s, w, u)
  <2>1. u.at = k /\ u.check = w.check /\ ~u.raised BY <1>3, <1>12 DEF Control, Wrote, k
  <2>. QED BY <1>7, <1>12, <2>1 DEF Control, b
<1>13. CASE LeftOut(mode, omitNull, s, w, u)
  <2>1. u.at = k /\ u.check = w.check /\ ~u.raised BY <1>3, <1>13 DEF LeftOut, Wrote, k
  <2>2. b = 0 BY <1>13 DEF LeftOut, b
  <2>. QED BY <1>7, <2>1, <2>2 DEF High
<1>14. CASE Character(mode, s, w, u)
  <2>1. u.at = k + Follows(b) /\ u.check = w.check /\ ~u.raised /\ WholeChar(s, k)
    BY <1>14 DEF Character, Wrote, k, b
  <2>2. Follows(b) \in 1..5 BY <1>3, <2>1, WholeCharIs DEF b, k
  <2>3. ~v.raised /\ v.at <= k + Follows(b) + 1 /\ v.check <= w.check BY <1>3, <1>5, <2>1, <2>2
  <2>. QED BY <1>6, <1>8, <2>1, <2>2, <2>3
<1>15. CASE Refused(mode, s, w, u)
  <2>1. v.raised BY <1>5, <1>15 DEF Refused
  <2>. QED BY <1>4, <2>1 DEF Looked
<1>. QED BY <1>5, <1>9, <1>10, <1>11, <1>12, <1>13, <1>14, <1>15 DEF Stepped

-----------------------------------------------------------------------------
(* The costs of a text, added up.                                            *)

Costs(mode, s, c) ==
    /\ c \in [0..Len(s) -> Nat] /\ c[0] = 0
    /\ \A n \in 1..Len(s) : c[n] = c[n - 1] + Cost(mode, s[n])
    /\ SizeOf(mode, s) = c[Len(s)] + Extra(mode, s)

\* The costs of a text add up to its size,
LEMMA CostsAre ==
    ASSUME NEW mode \in Modes, NEW s \in Seq(Byte)
    PROVE  \E c : Costs(mode, s, c)
<1>. DEFINE costs == [i \in 1..Len(s) |-> Cost(mode, s[i])]
<1>1. Len(s) \in Nat BY LenProperties
<1>2. \A i \in 1..Len(s) : Cost(mode, s[i]) \in Nat
  <2>1. ASSUME NEW i \in 1..Len(s) PROVE Cost(mode, s[i]) \in Nat
    <3>1. s[i] \in Byte BY ByteAt
    <3>2. Cost(mode, s[i]) \in {1, 2, 3, 6} BY <3>1, CostIs
    <3>. QED BY <3>2
  <2>. QED BY <2>1
<1>3. costs \in Seq(Nat) /\ Len(costs) = Len(s) /\ \A n \in 1..Len(s) : costs[n] = Cost(mode, s[n]) BY <1>1, <1>2
<1>4. SizeOf(mode, s) = Total(costs) + Extra(mode, s) BY DEF SizeOf
<1>. HIDE DEF costs
<1>5. PICK f \in [0..Len(costs) -> Nat] :
             /\ f[0] = 0 /\ \A n \in 1..Len(costs) : f[n] = f[n - 1] + costs[n]
             /\ Total(costs) = f[Len(costs)]
  BY <1>3, TotalIs
<1>6. Costs(mode, s, f) BY <1>3, <1>4, <1>5 DEF Costs
<1>. QED BY <1>6

\* byte by byte.
LEMMA CostOf ==
    ASSUME NEW mode \in Modes, NEW s \in Seq(Byte), NEW c, Costs(mode, s, c), NEW n \in 1..Len(s)
    PROVE  /\ n - 1 \in 0..Len(s) /\ n \in 0..Len(s) /\ c[n - 1] \in Nat /\ c[n] \in Nat
           /\ c[n] = c[n - 1] + Cost(mode, s[n]) /\ Cost(mode, s[n]) \in {1, 2, 3, 6} /\ s[n] \in Byte
<1>1. Len(s) \in Nat /\ s[n] \in Byte BY LenProperties, ByteAt
<1>2. n - 1 \in 0..Len(s) /\ n \in 0..Len(s) BY <1>1
<1>3. c[n - 1] \in Nat /\ c[n] \in Nat BY <1>2 DEF Costs
<1>4. Cost(mode, s[n]) \in {1, 2, 3, 6} BY <1>1, CostIs
<1>. QED BY <1>1, <1>2, <1>3, <1>4 DEF Costs

\* Every byte costs one, or they cost more than they are.
LEMMA CostsAtLeast ==
    ASSUME NEW mode \in Modes, NEW s \in Seq(Byte), NEW c, Costs(mode, s, c)
    PROVE  /\ c[Len(s)] \in Nat /\ c[Len(s)] >= Len(s)
           /\ c[Len(s)] = Len(s) => \A k \in 1..Len(s) : Cost(mode, s[k]) = 1
<1>. DEFINE N == Len(s)
            P == {n \in 0..N : c[n] >= n /\ \A k \in 1..n : Cost(mode, s[k]) = 1 \/ c[n] >= n + 1}
<1>1. N \in Nat BY LenProperties
<1>2. 0 \in P BY <1>1 DEF Costs
<1>3. ASSUME NEW n \in 0..N, n # N, n \in P PROVE n + 1 \in P
  <2>1. n + 1 \in 1..N /\ n + 1 \in 0..N /\ (n + 1) - 1 = n BY <1>1, <1>3
  <2>2. c[n] \in Nat /\ c[n + 1] \in Nat /\ c[n + 1] = c[n] + Cost(mode, s[n + 1]) /\ Cost(mode, s[n + 1]) \in {1, 2, 3, 6}
    BY <2>1, CostOf
  <2>3. c[n] >= n /\ \A k \in 1..n : Cost(mode, s[k]) = 1 \/ c[n] >= n + 1 BY <1>3
  <2>4. c[n + 1] >= n + 1 BY <2>2, <2>3
  <2>5. ASSUME NEW k \in 1..n + 1 PROVE Cost(mode, s[k]) = 1 \/ c[n + 1] >= (n + 1) + 1
    <3>1. CASE k = n + 1
      <4>1. Cost(mode, s[n + 1]) = 1 \/ c[n + 1] >= (n + 1) + 1 BY <2>2, <2>3
      <4>. QED BY <3>1, <4>1
    <3>2. CASE k # n + 1
      <4>1. k \in 1..n BY <2>1, <3>2
      <4>2. Cost(mode, s[k]) = 1 \/ c[n] >= n + 1 BY <2>3, <4>1
      <4>. QED BY <2>2, <4>2
    <3>. QED BY <3>1, <3>2
  <2>. QED BY <2>1, <2>4, <2>5
<1>4. P \subseteq 0..N /\ \A n \in 0..N : n # N /\ n \in P => n + 1 \in P BY <1>3
<1>5. ASSUME N \in P PROVE c[N] >= N /\ (c[N] = N => \A k \in 1..N : Cost(mode, s[k]) = 1)
  <2>1. c[N] >= N /\ \A k \in 1..N : Cost(mode, s[k]) = 1 \/ c[N] >= N + 1 BY <1>5
  <2>. QED BY <1>1, <2>1
<1>6. c[N] \in Nat BY <1>1 DEF Costs
<1>. HIDE DEF P, N
<1>7. 0..N \subseteq P BY <1>1, <1>2, <1>4, Induction
<1>8. N \in P BY <1>1, <1>7
<1>. QED BY <1>5, <1>6, <1>8 DEF N

-----------------------------------------------------------------------------
(* oj_dump_cstr, in its parts.                                               *)

From(escape1) == IF escape1 THEN 2 ELSE 1
First(s, isSym, escape1) == IF escape1 THEN Hex4(s[1]) ELSE IF isSym THEN <<Colon>> ELSE <<>>
Start(s, isSym, escape1) ==
    [out |-> <<Quote>> \o First(s, isSym, escape1), at |-> From(escape1), check |-> From(escape1), raised |-> FALSE]
Fast(mode, s, escape1) ==
    /\ (IF escape1 THEN Len(s) - 1 ELSE Len(s)) = (IF escape1 THEN SizeOf(mode, s) - 1 ELSE SizeOf(mode, s))
    /\ ~HasHigh(mode, s)
Dumps(mode, omitNull, s, isSym, escape1) ==
    /\ mode \in Modes /\ omitNull \in BOOLEAN /\ s \in Seq(Byte)
    /\ isSym \in BOOLEAN /\ escape1 \in BOOLEAN
    /\ escape1 => ~isSym /\ 1 \in 1..Len(s) /\ s[1] \in {Colon, Hat}

\* oj_dump_cstr is the fast path or the loop, behind what is written first.
LEMMA DumpCstrIs ==
    ASSUME NEW mode, NEW omitNull, NEW s, NEW isSym, NEW escape1
    PROVE  LET d == DumpCstr(mode, omitNull, s, isSym, escape1)
               start == Start(s, isSym, escape1)
               body == Body(mode, omitNull, s, start)
           IN  /\ d.size = SizeOf(mode, s)
               /\ Fast(mode, s, escape1) =>
                    /\ d.out = Append(Put(start, SubSeq(s, From(escape1), Len(s))).out, Quote)
                    /\ d.raised <=> Put(start, SubSeq(s, From(escape1), Len(s))).raised
               /\ ~Fast(mode, s, escape1) =>
                    /\ d.out = Append(body.out, Quote)
                    /\ d.raised <=> body.raised \/ (mode \in Validating /\ LastBroken(s))
<1>1. CASE Fast(mode, s, escape1) BY <1>1 DEF DumpCstr, Start, From, First, Fast
<1>2. CASE ~Fast(mode, s, escape1) BY <1>2 DEF DumpCstr, Start, From, First, Fast
<1>. QED BY <1>1, <1>2

\* Where it starts.
LEMMA StartIs ==
    ASSUME NEW mode, NEW omitNull, NEW s, NEW isSym, NEW escape1, Dumps(mode, omitNull, s, isSym, escape1)
    PROVE  LET start == Start(s, isSym, escape1)
           IN  /\ start \in Writings /\ ~start.raised /\ start.at = From(escape1) /\ start.check = From(escape1)
               /\ First(s, isSym, escape1) \in Seq(Byte)
               /\ start.out = <<Quote>> \o First(s, isSym, escape1) /\ start.out \in Seq(Byte)
               /\ Len(start.out) = 1 + Len(First(s, isSym, escape1)) /\ start.out[1] = Quote
               /\ Len(First(s, isSym, escape1)) = (IF escape1 THEN 6 ELSE IF isSym THEN 1 ELSE 0)
               /\ From(escape1) \in {1, 2}
<1>. DEFINE start == Start(s, isSym, escape1)
            first == First(s, isSym, escape1)
            from == From(escape1)
<1>1. first \in Seq(Byte) /\ Len(first) = (IF escape1 THEN 6 ELSE IF isSym THEN 1 ELSE 0)
  <2>1. CASE escape1
    <3>1. s[1] \in Nat BY <2>1, ByteAt DEF Dumps
    <3>. QED BY <2>1, <3>1, Hex4Is DEF First
  <2>2. CASE ~escape1 /\ isSym
    <3>1. Colon \in Byte BY DEF Colon, Byte
    <3>2. first = <<Colon>> BY <2>2 DEF First
    <3>3. <<Colon>> \in Seq(Byte) /\ Len(<<Colon>>) = 1 BY <3>1
    <3>. QED BY <2>2, <3>2, <3>3
  <2>3. CASE ~escape1 /\ ~isSym
    <3>1. first = <<>> BY <2>3 DEF First
    <3>. QED BY <2>3, <3>1, EmptyBytes
  <2>. QED BY <2>1, <2>2, <2>3 DEF Dumps
<1>2. from \in {1, 2} BY DEF From
<1>3. start = [out |-> <<Quote>> \o first, at |-> from, check |-> from, raised |-> FALSE] BY DEF Start
<1>4. <<Quote>> \in Seq(Byte) /\ Len(<<Quote>>) = 1 /\ <<Quote>>[1] = Quote
  <2>1. Quote \in Byte BY DEF Quote, Byte
  <2>. QED BY <2>1
<1>. HIDE DEF first, from
<1>5. <<Quote>> \o first \in Seq(Byte) /\ Len(<<Quote>> \o first) = 1 + Len(first)
  <2>1. first \in Seq(Byte) /\ <<Quote>> \in Seq(Byte) BY <1>1, <1>4
  <2>2. <<Quote>> \o first \in Seq(Byte) /\ Len(<<Quote>> \o first) = Len(<<Quote>>) + Len(first) BY <2>1, Joined
  <2>. QED BY <1>4, <2>2
<1>6. (<<Quote>> \o first)[1] = Quote
  <2>1. 1 \in 1..Len(<<Quote>>) BY <1>4
  <2>. QED BY <1>1, <1>4, <2>1, Joined
<1>7. start \in Writings BY <1>2, <1>3, <1>5 DEF Writings
<1>. QED BY <1>1, <1>2, <1>3, <1>5, <1>6, <1>7 DEF first, from

\* The text is copied as a whole where every byte costs one and none is high,
\* unless nothing is looked at.
LEMMA FastIs ==
    ASSUME NEW mode, NEW omitNull, NEW s, NEW isSym, NEW escape1, Dumps(mode, omitNull, s, isSym, escape1),
           Fast(mode, s, escape1)
    PROVE  /\ \A k \in 1..Len(s) : Cost(mode, s[k]) = 1
           /\ mode \notin Unchecked => \A k \in 1..Len(s) : ~High(s[k])
<1>1. mode \in Modes /\ s \in Seq(Byte) /\ Len(s) \in Nat /\ DOMAIN s = 1..Len(s) BY LenProperties DEF Dumps
<1>2. PICK c : Costs(mode, s, c) BY <1>1, CostsAre
<1>3. /\ c[Len(s)] \in Nat /\ c[Len(s)] >= Len(s)
      /\ c[Len(s)] = Len(s) => \A k \in 1..Len(s) : Cost(mode, s[k]) = 1
  BY <1>1, <1>2, CostsAtLeast
<1>4. Extra(mode, s) \in {0, 1} /\ (Extra(mode, s) = 0 /\ mode = "JXEsc" => \A k \in 1..Len(s) : ~High(s[k]))
  BY <1>1 DEF Extra
<1>5. SizeOf(mode, s) = c[Len(s)] + Extra(mode, s) BY <1>2 DEF Costs
<1>6. SizeOf(mode, s) = Len(s)
  <2>1. SizeOf(mode, s) \in Nat BY <1>3, <1>4, <1>5
  <2>. QED BY <1>1, <2>1 DEF Fast
<1>7. c[Len(s)] = Len(s) /\ Extra(mode, s) = 0 BY <1>1, <1>3, <1>4, <1>5, <1>6
<1>8. \A k \in 1..Len(s) : Cost(mode, s[k]) = 1 BY <1>3, <1>7
<1>9. ASSUME mode \notin Unchecked, NEW k \in 1..Len(s) PROVE ~High(s[k])
  <2>1. CASE mode \in Escaping
    <3>1. s[k] \in Byte /\ Cost(mode, s[k]) = 1 BY <1>1, <1>8, ByteAt
    <3>. QED BY <1>1, <2>1, <3>1, CostIs
  <2>2. CASE mode = "JXEsc" BY <1>4, <1>7, <2>2
  <2>3. CASE mode \in {"RailsXEsc", "RailsEsc"} BY <1>1, <2>3 DEF Fast, HasHigh
  <2>. QED BY <1>1, <1>9, <2>1, <2>2, <2>3, ModesAre DEF Validating
<1>. QED BY <1>8, <1>9

-----------------------------------------------------------------------------
(* What is refused: the characters of UTF-8.                                 *)

\* The first byte of a character of UTF-8,
LEMMA ShortestIs ==
    ASSUME NEW s \in Seq(Byte), NEW i \in 1..Len(s), Shortest(s, i), Lead(s[i])
    PROVE  s[i] \in 194..244
<1>1. s[i] \in Byte BY ByteAt
<1>. DEFINE b == s[i]
<1>2. b \notin {192, 193} BY DEF Shortest
<1>3. b \in {224, 237, 240, 244} \/ b < 245 BY DEF Shortest
<1>4. b \in Byte /\ b >= 192 BY <1>1 DEF Lead
<1>. HIDE DEF b
<1>5. b \in 194..244 BY <1>2, <1>3, <1>4 DEF Byte
<1>. QED BY <1>5 DEF b

\* and how many follow it.
LEMMA FirstsAre ==
    \A b \in 194..244 : Follows(b) \in 1..3
<1>1. SUFFICES ASSUME NEW b \in 194..244 PROVE Follows(b) \in 1..3 OBVIOUS
<1>2. b \in Byte BY DEF Byte
<1>3. b \in 192..223 \/ b \in 224..239 \/ b \in 240..247 OBVIOUS
<1>4. Follows(b) = 1 \/ Follows(b) = 2 \/ Follows(b) = 3 BY <1>2, <1>3, FollowsIs
<1>. QED BY <1>4

\* A text in UTF-8 is one of whole characters, each written in the shortest way.
LEMMA Utf8Is ==
    ASSUME NEW s \in Seq(Byte), IsUtf8(s)
    PROVE  /\ Shaped(s)
           /\ \A i \in 1..Len(s) : High(s[i]) /\ ~Follow(s[i]) =>
                 WholeChar(s, i) /\ Shortest(s, i) /\ s[i] \in 194..244 /\ Follows(s[i]) \in 1..3
<1>1. Shaped(s) BY DEF IsUtf8
<1>2. ASSUME NEW i \in 1..Len(s), High(s[i]), ~Follow(s[i])
      PROVE  WholeChar(s, i) /\ Shortest(s, i) /\ s[i] \in 194..244 /\ Follows(s[i]) \in 1..3
  <2>1. s[i] \in Byte /\ i \in DOMAIN s BY ByteAt
  <2>2. Lead(s[i]) BY <1>2, <2>1, HighIs
  <2>3. Shortest(s, i) BY <2>1, <2>2 DEF IsUtf8
  <2>4. s[i] \in 194..244 BY <2>2, <2>3, ShortestIs
  <2>5. WholeChar(s, i) BY <1>1, <1>2, ShapedFirst
  <2>7. Follows(s[i]) \in 1..5 BY <2>5, WholeCharIs
  <2>8. ~(Follows(s[i]) >= 4)
    <3>1. \A b \in 194..244 : Follows(b) \in 1..3 BY FirstsAre
    <3>2. Follows(s[i]) \in 1..3 BY <2>4, <3>1
    <3>. QED BY <3>2
  <2>9. Follows(s[i]) \in 1..3 BY <2>7, <2>8
  <2>. QED BY <2>3, <2>4, <2>5, <2>9
<1>. QED BY <1>1, <1>2

\* The last check finds nothing in a text of characters.
LEMMA LastWhole ==
    ASSUME NEW s \in Seq(Byte), IsUtf8(s)
    PROVE  ~LastBroken(s)
<1>1. SUFFICES ASSUME s # <<>>, High(Last(s))
               PROVE  \E n \in 1..3: /\ n < Len(s) /\ Follows(s[Len(s) - n]) = n
                                     /\ \A k \in 0..n - 1: Follow(s[Len(s) - k])
  BY DEF LastBroken
<1>. DEFINE N == Len(s)
<1>2. N \in Nat /\ N >= 1 BY <1>1, EmptySeq
<1>3. N \in 1..N /\ High(s[N]) BY <1>1, <1>2 DEF Last
<1>4. Shaped(s) BY DEF IsUtf8
<1>5. PICK j \in 1..N : WholeChar(s, j) /\ N <= j + Follows(s[j]) BY <1>3, <1>4, ShapedIs DEF Covered
<1>. DEFINE n == Follows(s[j])
<1>6. /\ j + n <= N /\ High(s[j]) /\ ~Follow(s[j])
      /\ \A k \in j + 1..j + n : s[k] \in 128..191
  BY <1>5, WholeCharIs
<1>7. n \in 1..3 BY <1>5, <1>6, Utf8Is
<1>. HIDE DEF n, N
<1>8. N = j + n /\ j \in Nat /\ j >= 1 BY <1>2, <1>5, <1>6, <1>7 DEF n
<1>9. n < N /\ N - n = j BY <1>7, <1>8
<1>10. ASSUME NEW k \in 0..n - 1 PROVE Follow(s[N - k])
  <2>1. N - k \in j + 1..j + n BY <1>7, <1>8
  <2>2. s[N - k] \in 128..191 BY <1>6, <2>1
  <2>. QED BY <2>2 DEF Follow
<1>. QED BY <1>7, <1>9, <1>10 DEF N, n

\* It starts on a character.
LEMMA StartAccepted ==
    ASSUME NEW mode, NEW omitNull, NEW s, NEW isSym, NEW escape1, Dumps(mode, omitNull, s, isSym, escape1),
           Shaped(s) \/ mode \in Unchecked
    PROVE  Start(s, isSym, escape1) \in Accepted(mode, s)
<1>. DEFINE start == Start(s, isSym, escape1)
<1>1. start \in Writings /\ ~start.raised /\ start.at = From(escape1) /\ start.check = From(escape1) /\ From(escape1) \in {1, 2}
  BY StartIs
<1>2. s \in Seq(Byte) /\ Len(s) \in Nat BY LenProperties DEF Dumps
<1>. HIDE DEF start
<1>3. ASSUME mode \notin Unchecked, From(escape1) \in 1..Len(s) PROVE ~Follow(s[From(escape1)])
  <2>1. Shaped(s) BY <1>3
  <2>2. CASE ~escape1
    <3>1. From(escape1) = 1 BY <2>2 DEF From
    <3>2. SUFFICES ASSUME Follow(s[1]) PROVE FALSE BY <3>1
    <3>3. 1 \in 1..Len(s) BY <1>3, <3>1
    <3>4. High(s[1]) BY <1>2, <3>2, <3>3, ByteAt, HighIs
    <3>5. PICK j \in 1..1 : WholeChar(s, j) BY <1>2, <2>1, <3>3, <3>4, ShapedIs DEF Covered
    <3>6. WholeChar(s, 1) BY <3>5
    <3>. QED BY <1>2, <3>2, <3>3, <3>6, WholeCharIs
  <2>3. CASE escape1
    <3>1. From(escape1) = 1 + 1 BY <2>3 DEF From
    <3>2. 1 \in 1..Len(s) /\ ~High(s[1]) BY <2>3 DEF Dumps, High, Colon, Hat
    <3>. QED BY <1>2, <1>3, <2>1, <3>1, <3>2, AfterLow
  <2>. QED BY <2>2, <2>3
<1>4. Pending(start) = From(escape1) BY <1>1 DEF Pending
<1>5. mode \notin Unchecked => Begins(s, Pending(start)) BY <1>3, <1>4 DEF Begins
<1>6. start.at >= 1 /\ start.check <= start.at BY <1>1
<1>. QED BY <1>1, <1>5, <1>6 DEF Accepted, start

\* oj_dump_cstr refuses what it should, and nothing else.
LEMMA RefusesWell ==
    ASSUME NEW mode, NEW omitNull, NEW s, NEW isSym, NEW escape1, Dumps(mode, omitNull, s, isSym, escape1)
    PROVE  LET d == DumpCstr(mode, omitNull, s, isSym, escape1)
           IN  /\ IsUtf8(s) => ~d.raised
               /\ mode \in Unchecked => ~d.raised
               /\ ~Shaped(s) /\ mode \notin Unchecked => d.raised
<1>. DEFINE d == DumpCstr(mode, omitNull, s, isSym, escape1)
            start == Start(s, isSym, escape1)
            body == Body(mode, omitNull, s, start)
            from == From(escape1)
<1>1. mode \in Modes /\ omitNull \in BOOLEAN /\ s \in Seq(Byte) /\ Len(s) \in Nat BY LenProperties DEF Dumps
<1>2. start \in Writings /\ ~start.raised /\ start.at = from /\ start.check = from /\ from \in {1, 2} BY StartIs
<1>3. CASE Fast(mode, s, escape1)
  <2>1. /\ d.raised <=> Put(start, SubSeq(s, from, Len(s))).raised
        /\ \A i \in from..Len(s) : s[i] \in Byte
    <3>1. d.raised <=> Put(start, SubSeq(s, from, Len(s))).raised BY <1>3, DumpCstrIs
    <3>2. \A i \in from..Len(s) : i \in 1..Len(s) BY <1>1, <1>2
    <3>. QED BY <1>1, <3>1, <3>2, ByteAt
  <2>2. SubSeq(s, from, Len(s)) \in Seq(Byte)
    <3>1. from \in Int /\ Len(s) \in Int BY <1>1, <1>2
    <3>. QED BY <2>1, <3>1, SubSeqProperties
  <2>3. ~d.raised
    <3>. DEFINE l == SubSeq(s, from, Len(s))
    <3>1. l \in Seq(Byte) /\ (d.raised <=> Put(start, l).raised) BY <2>1, <2>2
    <3>. HIDE DEF l, start
    <3>2. ~Put(start, l).raised BY <1>2, <3>1, PutIs
    <3>. QED BY <3>1, <3>2
  <2>4. mode \notin Unchecked => Shaped(s) BY <1>1, <1>3, FastIs, ShapedIs
  <2>. QED BY <2>3, <2>4
<1>4. CASE ~Fast(mode, s, escape1)
  <2>1. d.raised <=> body.raised \/ (mode \in Validating /\ LastBroken(s)) BY <1>4, DumpCstrIs
  <2>2. Shaped(s) \/ mode \in Unchecked => ~body.raised
    <3>1. SUFFICES ASSUME Shaped(s) \/ mode \in Unchecked PROVE ~body.raised OBVIOUS
    <3>2. start \in Accepted(mode, s) BY <3>1, StartAccepted
    <3>3. Carried(Accepted(mode, s), mode, omitNull, s) BY <1>1, <3>1, KeepsAccepted
    <3>4. body \in Accepted(mode, s) BY <1>1, <1>2, <3>2, <3>3, BodyKeeps
    <3>. QED BY <3>4 DEF Accepted
  <2>3. ASSUME IsUtf8(s) PROVE ~d.raised
    <3>1. Shaped(s) /\ ~LastBroken(s) BY <1>1, <2>3, LastWhole DEF IsUtf8
    <3>. QED BY <2>1, <2>2, <3>1
  <2>4. ASSUME mode \in Unchecked PROVE ~d.raised
    <3>1. mode \notin Validating BY <2>4, ModesAre
    <3>. QED BY <2>1, <2>2, <2>4, <3>1
  <2>5. ASSUME ~d.raised, mode \notin Unchecked PROVE Shaped(s)
    <3>1. ~body.raised BY <2>1, <2>5
    <3>2. start \in Looked(s, from) BY <1>2 DEF Looked
    <3>3. Carried(Looked(s, from), mode, omitNull, s) BY <1>1, <1>2, <2>5, KeepsLooked
    <3>4. body \in Looked(s, from) /\ body.at > Len(s) BY <1>1, <1>2, <3>1, <3>2, <3>3, BodyKeeps
    <3>. HIDE DEF body, from
    <3>5. body.at \in Nat /\ \A i \in from..Len(s) : High(s[i]) /\ (i < body.at \/ i < body.check) => Covered(s, i)
      BY <3>1, <3>4 DEF Looked, Writings
    <3>6. ASSUME NEW i \in 1..Len(s), High(s[i]) PROVE Covered(s, i)
      <4>1. CASE i \in from..Len(s)
        <5>1. i < body.at BY <1>1, <3>4, <3>5
        <5>. QED BY <3>5, <3>6, <4>1, <5>1
      <4>2. CASE i \notin from..Len(s)
        <5>1. i = 1 /\ from = 2 BY <1>1, <1>2, <4>2
        <5>2. escape1 BY <5>1 DEF From, from
        <5>3. ~High(s[1]) BY <5>2 DEF Dumps, High, Colon, Hat
        <5>. QED BY <3>6, <5>1, <5>3
      <4>. QED BY <4>1, <4>2
    <3>. QED BY <1>1, <3>6, ShapedIs
  <2>. QED BY <2>3, <2>4, <2>5
<1>. QED BY <1>3, <1>4

-----------------------------------------------------------------------------
(* The room that is asked for.                                               *)

\* MoreIs, of any numbers.
LEMMA MoreOfAny ==
    ASSUME NEW code, NEW b, code \in Nat, b \in 128..191
    PROVE  More(code, b) = (code * 64) + (b - 128) /\ More(code, b) \in Nat
BY MoreIs

\* The number of a character of two bytes,
LEMMA TwoBytes ==
    ASSUME NEW f, NEW x, f \in 0..31, x \in 128..191
    PROVE  More(f, x) \in Nat /\ More(f, x) <= 2047
<1>1. f \in Nat /\ f <= 31 OBVIOUS
<1>2. More(f, x) = (f * 64) + (x - 128) BY <1>1, MoreOfAny
<1>. QED BY <1>1, <1>2

\* and of three.
LEMMA ThreeBytes ==
    ASSUME NEW f, NEW x, NEW y, f \in 0..15, x \in 128..191, y \in 128..191
    PROVE  More(More(f, x), y) \in Nat /\ More(More(f, x), y) <= 65535
<1>1. f \in Nat /\ f <= 15 OBVIOUS
<1>2. More(f, x) = (f * 64) + (x - 128) BY <1>1, MoreOfAny
<1>. DEFINE m == More(f, x)
<1>3. m \in Nat /\ m <= 1023 BY <1>1, <1>2
<1>. HIDE DEF m
<1>4. More(m, y) = (m * 64) + (y - 128) BY <1>3, MoreOfAny
<1>5. More(m, y) \in Nat /\ More(m, y) <= 65535 BY <1>3, <1>4
<1>. QED BY <1>5 DEF m

\* What the first byte adds is small.
LEMMA FirstBitsFew ==
    ASSUME NEW b
    PROVE  /\ b \in 192..223 => FirstBits(b) \in 0..31 /\ FirstBits(b) = b - 192
           /\ b \in 224..239 => FirstBits(b) \in 0..15 /\ FirstBits(b) = b - 224
           /\ b \in 240..247 => FirstBits(b) \in 0..7 /\ FirstBits(b) = b - 240
BY DEF FirstBits

\* A character of two or three bytes has a number below 65536.
CharAt(s, i) == s \in Seq(Byte) /\ i \in 1..Len(s) /\ WholeChar(s, i)

\* The bytes of a character.
LEMMA CharIs ==
    ASSUME NEW s, NEW i, CharAt(s, i)
    PROVE  /\ s[i] \in Byte /\ s[i] \in 192..253 /\ i \in Nat /\ Follows(s[i]) \in 1..5
           /\ Follows(s[i]) = 1 <=> s[i] \in 192..223
           /\ Follows(s[i]) = 2 <=> s[i] \in 224..239
           /\ Follows(s[i]) = 3 <=> s[i] \in 240..247
           /\ s[i + 1] \in 128..191
           /\ Follows(s[i]) >= 2 => s[i + 2] \in 128..191
           /\ Follows(s[i]) >= 3 => s[i + 3] \in 128..191
<1>1. s[i] \in Byte /\ i \in Nat BY ByteAt DEF CharAt
<1>. DEFINE n == Follows(s[i])
<1>2. n \in 1..5 /\ s[i] \in 192..253 /\ \A k \in i + 1..i + n : s[k] \in 128..191 BY WholeCharIs DEF CharAt
<1>3. (n = 1 <=> s[i] \in 192..223) /\ (n = 2 <=> s[i] \in 224..239) /\ (n = 3 <=> s[i] \in 240..247) BY <1>1, FollowsIs
<1>. HIDE DEF n
<1>4. /\ i + 1 \in i + 1..i + n /\ (n >= 2 => i + 2 \in i + 1..i + n)
      /\ n >= 3 => i + 3 \in i + 1..i + n
  BY ONLY <1>1, <1>2
<1>5. s[i + 1] \in 128..191 /\ (n >= 2 => s[i + 2] \in 128..191) /\ (n >= 3 => s[i + 3] \in 128..191) BY ONLY <1>2, <1>4
<1>. QED BY <1>1, <1>2, <1>3, <1>5 DEF n

\* It needs one escape only.
LEMMA CodeSmall ==
    ASSUME NEW s, NEW i, CharAt(s, i)
    PROVE  Follows(s[i]) \in 1..2 => CodeOf(s, i) \in Nat /\ CodeOf(s, i) <= 65535
<1>. DEFINE n == Follows(s[i])
            b == s[i]
            x == s[i + 1]
            y == s[i + 2]
<1>1. CASE n = 1
  <2>1. CodeOf(s, i) = More(FirstBits(b), x) BY <1>1, CodeOfShort DEF CharAt
  <2>2. b \in 192..223 /\ x \in 128..191 BY <1>1, CharIs
  <2>. HIDE DEF b, x
  <2>3. FirstBits(b) \in 0..31 BY <2>2, FirstBitsFew
  <2>4. More(FirstBits(b), x) \in Nat /\ More(FirstBits(b), x) <= 2047 BY <2>2, <2>3, TwoBytes
  <2>. QED BY ONLY <2>1, <2>4
<1>2. CASE n = 2
  <2>1. CodeOf(s, i) = More(More(FirstBits(b), x), y) BY <1>2, CodeOfShort DEF CharAt
  <2>2. b \in 224..239 /\ x \in 128..191 /\ y \in 128..191 BY <1>2, CharIs
  <2>. HIDE DEF b, x, y
  <2>3. FirstBits(b) \in 0..15 BY <2>2, FirstBitsFew
  <2>4. More(More(FirstBits(b), x), y) \in Nat /\ More(More(FirstBits(b), x), y) <= 65535 BY <2>2, <2>3, ThreeBytes
  <2>. QED BY ONLY <2>1, <2>4
<1>. QED BY <1>1, <1>2

\* The bytes of a character cost what is written for it.
Charged(mode, s, c, i) ==
    /\ mode \in Modes /\ Costs(mode, s, c) /\ CharAt(s, i)
    /\ Cost(mode, s[i]) = 3 \/ (Cost(mode, s[i]) = 6 /\ s[i] = 226)

\* A character costs at least what its escape takes.
LEMMA CharacterCost ==
    ASSUME NEW mode, NEW s, NEW c, NEW i, Charged(mode, s, c, i)
    PROVE  c[i + Follows(s[i])] >= c[i - 1] + Len(Unicode(CodeOf(s, i)))
<1>. DEFINE n == Follows(s[i])
            u == Len(Unicode(CodeOf(s, i)))
<1>0. /\ s \in Seq(Byte) /\ i \in 1..Len(s) /\ WholeChar(s, i) /\ mode \in Modes /\ Costs(mode, s, c) /\ CharAt(s, i)
      /\ Cost(mode, s[i]) = 3 \/ (Cost(mode, s[i]) = 6 /\ s[i] = 226)
  BY DEF Charged, CharAt
<1>1. /\ n \in 1..5 /\ i + n <= Len(s) /\ High(s[i])
      /\ \A k \in i + 1..i + n : k \in 1..Len(s) /\ s[k] \in 128..191
  BY <1>0, WholeCharIs
<1>2. Len(s) \in Nat /\ i \in Nat BY <1>0, LenProperties
<1>3. u = (IF CodeOf(s, i) > 65535 THEN 12 ELSE 6)
  <2>1. CodeOf(s, i) \in Nat BY <1>0, CodeType
  <2>. QED BY ONLY <2>1, UnicodeIs
<1>4. n \in 1..2 => u = 6
  <2>1. SUFFICES ASSUME n \in 1..2 PROVE u = 6 OBVIOUS
  <2>3. CodeOf(s, i) \in Nat /\ CodeOf(s, i) <= 65535 BY <1>0, <2>1, CodeSmall
  <2>. HIDE DEF u
  <2>. QED BY <1>3, <2>3
<1>5. u \in {6, 12} BY <1>3
<1>6. c[i - 1] \in Nat /\ c[i] = c[i - 1] + Cost(mode, s[i]) BY <1>0, CostOf
<1>. HIDE DEF u
<1>7. CASE Cost(mode, s[i]) = 3
  <2>1. mode \in Escaping
    <3>1. s[i] \in Byte BY <1>0, ByteAt
    <3>. QED BY <1>0, <1>7, <3>1, CostIs
  <2>. DEFINE P == {k \in 0..n : c[i + k] \in Nat /\ c[i + k] >= c[i - 1] + 3 * (k + 1)}
  <2>2. 0 \in P
    <3>1. i + 0 = i BY <1>2
    <3>2. c[i] \in Nat BY <1>0, CostOf
    <3>. QED BY <1>1, <1>6, <1>7, <3>1, <3>2
  <2>. HIDE DEF n
  <2>3. ASSUME NEW k \in 0..n, k # n, k \in P PROVE k + 1 \in P
    <3>. DEFINE m == i + (k + 1)
    <3>1. k + 1 \in 0..n /\ m \in i + 1..i + n /\ m - 1 = i + k BY <1>1, <1>2, <2>3
    <3>. HIDE DEF m
    <3>2. m \in 1..Len(s) /\ s[m] \in 128..191 BY ONLY <1>1, <3>1
    <3>3. s[m] \in Byte BY <1>0, <3>2, ByteAt
    <3>4. High(s[m]) BY <3>2, <3>3, HighIs
    <3>5. Cost(mode, s[m]) = 3 BY <1>0, <2>1, <3>3, <3>4, CostIs
    <3>6. c[m] = c[m - 1] + Cost(mode, s[m]) /\ c[m] \in Nat BY <1>0, <3>2, CostOf
    <3>7. c[m - 1] \in Nat /\ c[m - 1] >= c[i - 1] + 3 * (k + 1) BY <2>3, <3>1
    <3>8. c[m] >= c[i - 1] + 3 * ((k + 1) + 1) BY <1>6, <3>5, <3>6, <3>7
    <3>. QED BY <3>1, <3>6, <3>8 DEF m
  <2>4. P \subseteq 0..n /\ \A k \in 0..n : k # n /\ k \in P => k + 1 \in P BY <2>3
  <2>5. n \in P => c[i + n] >= c[i - 1] + 3 * (n + 1) /\ c[i + n] \in Nat OBVIOUS
  <2>. HIDE DEF P
  <2>6. 0..n \subseteq P BY <1>1, <2>2, <2>4, Induction
  <2>7. n \in P BY <1>1, <2>6
  <2>8. c[i + n] >= c[i - 1] + 3 * (n + 1) /\ c[i + n] \in Nat BY <2>5, <2>7
  <2>9. u <= 3 * (n + 1) BY <1>1, <1>4, <1>5
  <2>10. c[i + n] >= c[i - 1] + u BY <1>1, <1>5, <1>6, <2>8, <2>9
  <2>. QED BY <2>10 DEF n, u
<1>8. CASE Cost(mode, s[i]) = 6 /\ s[i] = 226
  <2>1. n = 2
    <3>1. s[i] \in Byte /\ s[i] \in 224..239 BY <1>0, <1>8, ByteAt
    <3>. QED BY <3>1, FollowsIs
  <2>2. i + 1 \in i + 1..i + n /\ i + 2 \in i + 1..i + n BY <1>2, <2>1
  <2>3. i + 1 \in 1..Len(s) /\ i + 2 \in 1..Len(s) BY <1>1, <2>2
  <2>4. (i + 1) - 1 = i /\ (i + 2) - 1 = i + 1 BY <1>2
  <2>5. c[i + 1] \in Nat /\ c[i + 1] >= c[i] /\ c[i] \in Nat
    <3>1. c[i + 1] = c[(i + 1) - 1] + Cost(mode, s[i + 1]) /\ c[(i + 1) - 1] \in Nat /\ Cost(mode, s[i + 1]) \in {1, 2, 3, 6} BY <1>0, <2>3, CostOf
    <3>. QED BY <2>4, <3>1
  <2>6. c[i + 2] \in Nat /\ c[i + 2] >= c[i + 1]
    <3>1. c[i + 2] = c[(i + 2) - 1] + Cost(mode, s[i + 2]) /\ c[(i + 2) - 1] \in Nat /\ Cost(mode, s[i + 2]) \in {1, 2, 3, 6} BY <1>0, <2>3, CostOf
    <3>. QED BY <2>4, <3>1
  <2>7. u = 6 BY <1>4, <2>1
  <2>8. c[i + 2] >= c[i - 1] + u BY <1>6, <1>8, <2>5, <2>6, <2>7
  <2>9. c[i + n] >= c[i - 1] + u BY <2>1, <2>8
  <2>. QED BY <2>9 DEF n, u
<1>. QED BY <1>0, <1>7, <1>8

\* What is written takes no more than what the bytes behind cost, and base.
Roomy(s, c, base) ==
    {w \in Writings : /\ w.raised \/ w.at >= 1
                      /\ ~w.raised => w.at - 1 \in 0..Len(s) /\ Len(w.out) <= base + c[w.at - 1]}

Grown(s, c, base, w, u, v, l, n) ==
    /\ s \in Seq(Byte) /\ base \in Int /\ ~w.raised /\ w.at >= 1
    /\ v \in Writings /\ v.out = u.out /\ v.at = u.at + 1
    /\ w.at + n <= Len(s) /\ c[w.at + n] >= c[w.at - 1] + Len(l)

\* A round that costs no less than it writes leaves room,
LEMMA RoomFor ==
    ASSUME NEW mode, NEW s, NEW c, NEW base, NEW w, NEW u, NEW v, NEW l, NEW n, NEW check,
           Costs(mode, s, c), w \in Roomy(s, c, base), Wrote(w, u, l, n, check), Grown(s, c, base, w, u, v, l, n)
    PROVE  v \in Roomy(s, c, base)
<1>1. w \in Writings /\ w.at - 1 \in 0..Len(s) /\ Len(w.out) <= base + c[w.at - 1] BY DEF Roomy, Grown
<1>2. w.out \in Seq(Byte) /\ w.at \in Nat /\ l \in Seq(Byte) /\ n \in Nat /\ u.out = w.out \o l /\ u.at = w.at + n
  BY <1>1 DEF Writings, Wrote
<1>10. /\ s \in Seq(Byte) /\ base \in Int /\ w.at >= 1 /\ v \in Writings /\ v.out = u.out /\ v.at = u.at + 1
       /\ w.at + n <= Len(s) /\ c[w.at + n] >= c[w.at - 1] + Len(l)
  BY DEF Grown
<1>3. Len(v.out) = Len(w.out) + Len(l) /\ Len(w.out) \in Nat /\ Len(l) \in Nat /\ Len(s) \in Nat BY <1>2, <1>10, Joined, LenProperties
<1>4. v.at - 1 = w.at + n /\ v.at >= 1 /\ w.at + n \in 0..Len(s) BY ONLY <1>2, <1>3, <1>10
<1>5. c[w.at - 1] \in Nat /\ c[w.at + n] \in Nat BY <1>1, <1>4 DEF Costs
<1>6. Len(v.out) <= base + c[w.at + n]
  <2>. DEFINE p == Len(w.out)
              q == c[w.at - 1]
              r == c[w.at + n]
              x == Len(l)
  <2>1. p \in Nat /\ q \in Nat /\ r \in Nat /\ x \in Nat /\ base \in Int BY <1>3, <1>5, <1>10
  <2>2. p <= base + q BY <1>1
  <2>3. r >= q + x /\ Len(v.out) = p + x BY <1>3, <1>10
  <2>. HIDE DEF p, q, r, x
  <2>4. p + x <= base + r BY ONLY <2>1, <2>2, <2>3
  <2>. QED BY ONLY <2>3, <2>4 DEF r
<1>7. v.at - 1 \in 0..Len(s) /\ Len(v.out) <= base + c[v.at - 1] BY ONLY <1>4, <1>6
<1>. QED BY <1>4, <1>7, <1>10 DEF Roomy

\* and so do all of them.
LEMMA KeepsRoomy ==
    ASSUME NEW mode \in Modes, NEW omitNull \in BOOLEAN, NEW s \in Seq(Byte), NEW c, Costs(mode, s, c), NEW base \in Int
    PROVE  Carried(Roomy(s, c, base), mode, omitNull, s)
<1>1. SUFFICES ASSUME NEW w \in Roomy(s, c, base), Within(s, w), NEW v, Rounded(mode, omitNull, s, w, v)
               PROVE  v \in Roomy(s, c, base)
  BY DEF Carried, Roomy
<1>. DEFINE b == s[w.at]
            k == w.at
<1>2. w \in Writings /\ ~w.raised /\ k - 1 \in 0..Len(s) /\ k \in 1..Len(s) /\ k \in Nat /\ b \in Byte /\ b \in Nat
  BY <1>1, WithinIs DEF Roomy, Within
<1>3. v \in Writings BY <1>1 DEF Rounded
<1>4. PICK u : /\ Stepped(mode, omitNull, s, w, u) /\ v.raised = u.raised
               /\ ~u.raised => v.out = u.out /\ v.at = u.at + 1 /\ v.check = u.check
  BY <1>1 DEF Rounded
<1>5. c[k] = c[k - 1] + Cost(mode, b) /\ c[k - 1] \in Nat /\ Cost(mode, b) \in {1, 2, 3, 6} BY <1>2, CostOf
<1>. HIDE DEF b, k
<1>6. ASSUME NEW l, NEW n, NEW check, Wrote(w, u, l, n, check), k + n <= Len(s), c[k + n] >= c[k - 1] + Len(l)
      PROVE  v \in Roomy(s, c, base)
  <2>1. ~u.raised BY <1>6 DEF Wrote
  <2>2. v.out = u.out /\ v.at = u.at + 1 BY <1>4, <2>1
  <2>3. Grown(s, c, base, w, u, v, l, n) BY <1>2, <1>3, <1>6, <2>2 DEF Grown, k
  <2>. QED BY <1>6, <2>3, RoomFor
<1>7. ASSUME NEW l, NEW check, Wrote(w, u, l, 0, check), Len(l) <= Cost(mode, b), Len(l) \in Nat PROVE v \in Roomy(s, c, base)
  <2>1. k + 0 = k /\ k <= Len(s) BY <1>2, LenProperties
  <2>2. c[k] >= c[k - 1] + Len(l) BY <1>5, <1>7
  <2>. QED BY <1>6, <1>7, <2>1, <2>2
<1>8. CASE AsIs(mode, s, w, u) \/ Checked(mode, s, w, u)
  <2>1. \E check : Wrote(w, u, <<b>>, 0, check) BY <1>8 DEF AsIs, Checked, b
  <2>2. Len(<<b>>) = 1 /\ 1 <= Cost(mode, b) BY <1>5
  <2>3. Len(<<b>>) <= Cost(mode, b) /\ Len(<<b>>) \in Nat BY <2>2
  <2>. QED BY <1>7, <2>1, <2>3
<1>9. CASE Letter(mode, s, w, u)
  <2>1. Len(Backslashed(b)) = 2 BY <1>2, BackslashedIs
  <2>2. Wrote(w, u, Backslashed(b), 0, w.check) /\ Cost(mode, b) = 2 BY <1>9 DEF Letter, b
  <2>3. Len(Backslashed(b)) <= Cost(mode, b) /\ Len(Backslashed(b)) \in Nat BY <2>1, <2>2
  <2>. QED BY <1>7, <2>2, <2>3
<1>10. CASE Control(mode, omitNull, s, w, u)
  <2>1. Len(Hex4(b)) = 6 BY <1>2, Hex4Is
  <2>2. Wrote(w, u, Hex4(b), 0, w.check) /\ Cost(mode, b) = 6 BY <1>10 DEF Control, b
  <2>3. Len(Hex4(b)) <= Cost(mode, b) /\ Len(Hex4(b)) \in Nat BY <2>1, <2>2
  <2>. QED BY <1>7, <2>2, <2>3
<1>11. CASE LeftOut(mode, omitNull, s, w, u)
  <2>1. Wrote(w, u, <<>>, 0, w.check) /\ Cost(mode, b) = 6 BY <1>11 DEF LeftOut, b
  <2>2. Len(<<>>) <= Cost(mode, b) /\ Len(<<>>) \in Nat BY <2>1, EmptyBytes
  <2>. QED BY <1>7, <2>1, <2>2
<1>12. CASE Character(mode, s, w, u)
  <2>. DEFINE l == Unicode(CodeOf(s, k))
              n == Follows(b)
  <2>1. Wrote(w, u, l, n, w.check) /\ WholeChar(s, k) /\ (Cost(mode, s[k]) = 3 \/ (Cost(mode, s[k]) = 6 /\ s[k] = 226))
    BY <1>12 DEF Character, b, k
  <2>2. k + n <= Len(s) BY <1>2, <2>1, WholeCharIs DEF b, k
  <2>3. c[k + n] >= c[k - 1] + Len(l)
    <3>1. CharAt(s, k) BY <1>2, <2>1 DEF CharAt
    <3>2. Charged(mode, s, c, k) BY <2>1, <3>1 DEF Charged
    <3>3. c[k + Follows(s[k])] >= c[k - 1] + Len(Unicode(CodeOf(s, k))) BY <3>2, CharacterCost
    <3>. QED BY <3>3 DEF b, k
  <2>. HIDE DEF l, n
  <2>. QED BY <1>6, <2>1, <2>2, <2>3
<1>13. CASE Refused(mode, s, w, u)
  <2>1. v.raised BY <1>4, <1>13 DEF Refused
  <2>. QED BY <1>3, <2>1 DEF Roomy
<1>. QED BY <1>4, <1>8, <1>9, <1>10, <1>11, <1>12, <1>13 DEF Stepped

-----------------------------------------------------------------------------
\* What comes out of the two ways of writing the text.
Written(mode, omitNull, s, isSym, escape1) ==
    IF Fast(mode, s, escape1)
    THEN Put(Start(s, isSym, escape1), SubSeq(s, From(escape1), Len(s)))
    ELSE Body(mode, omitNull, s, Start(s, isSym, escape1))

\* What the fast path copies.
LEMMA Copied ==
    ASSUME NEW mode, NEW omitNull, NEW s, NEW isSym, NEW escape1, Dumps(mode, omitNull, s, isSym, escape1)
    PROVE  LET l == SubSeq(s, From(escape1), Len(s))
           IN  /\ l \in Seq(Byte) /\ Len(l) = Len(s) + 1 - From(escape1) /\ Len(s) \in Nat
               /\ \A i \in 1..Len(l) : From(escape1) + i - 1 \in 1..Len(s) /\ l[i] = s[From(escape1) + i - 1]
<1>. DEFINE from == From(escape1)
            l == SubSeq(s, from, Len(s))
<1>1. s \in Seq(Byte) /\ Len(s) \in Nat /\ from \in {1, 2} /\ from <= Len(s) + 1
  <2>1. s \in Seq(Byte) /\ Len(s) \in Nat BY LenProperties DEF Dumps
  <2>2. from = 1 \/ (from = 2 /\ 1 \in 1..Len(s)) BY DEF Dumps, From
  <2>. QED BY <2>1, <2>2
<1>. HIDE DEF from
<1>2. \A i \in from..Len(s) : s[i] \in Byte
  <2>1. \A i \in from..Len(s) : i \in 1..Len(s) BY <1>1
  <2>. QED BY <1>1, <2>1, ByteAt
<1>3. /\ l \in Seq(Byte)
      /\ Len(l) = IF from <= Len(s) THEN Len(s) - from + 1 ELSE 0
      /\ \A i \in 1..Len(s) - from + 1 : l[i] = s[from + i - 1]
  BY <1>1, <1>2, SubSeqProperties
<1>. HIDE DEF l
<1>4. Len(l) = Len(s) + 1 - from BY <1>1, <1>3
<1>5. \A i \in 1..Len(l) : i \in 1..Len(s) - from + 1 /\ from + i - 1 \in 1..Len(s) BY <1>1, <1>4
<1>. QED BY <1>1, <1>3, <1>4, <1>5 DEF from, l

\* What is written is the body and a quote.
LEMMA WrittenIs ==
    ASSUME NEW mode, NEW omitNull, NEW s, NEW isSym, NEW escape1, Dumps(mode, omitNull, s, isSym, escape1)
    PROVE  LET d == DumpCstr(mode, omitNull, s, isSym, escape1)
               w == Written(mode, omitNull, s, isSym, escape1)
           IN  /\ w \in Writings /\ w.out \in Seq(Byte)
               /\ d.out = Append(w.out, Quote) /\ d.out \in Seq(Byte) /\ Len(d.out) = Len(w.out) + 1
               /\ d.size = SizeOf(mode, s) /\ d.raised \in BOOLEAN
               /\ w.raised => d.raised
<1>. DEFINE d == DumpCstr(mode, omitNull, s, isSym, escape1)
            w == Written(mode, omitNull, s, isSym, escape1)
            start == Start(s, isSym, escape1)
            l == SubSeq(s, From(escape1), Len(s))
<1>1. mode \in Modes /\ omitNull \in BOOLEAN /\ s \in Seq(Byte) BY DEF Dumps
<1>2. start \in Writings /\ ~start.raised /\ start.at \in {1, 2} BY StartIs
<1>3. w \in Writings
  <2>1. CASE Fast(mode, s, escape1)
    <3>1. l \in Seq(Byte) BY Copied
    <3>2. w = Put(start, l) BY <2>1 DEF Written
    <3>. HIDE DEF l, start
    <3>. QED BY <1>2, <3>1, <3>2, PutIs
  <2>2. CASE ~Fast(mode, s, escape1)
    <3>1. Carried(Looked(s, Len(s) + 1), mode, omitNull, s) \/ mode \in Unchecked
      <4>1. Len(s) + 1 \in Nat BY <1>1, LenProperties
      <4>. QED BY <1>1, <4>1, KeepsLooked
    <3>2. w = Body(mode, omitNull, s, start) BY <2>2 DEF Written
    <3>3. CASE mode \notin Unchecked
      <4>1. \A i \in Len(s) + 1..Len(s) : FALSE BY <1>1, LenProperties
      <4>2. start \in Looked(s, Len(s) + 1) BY <1>2, <4>1 DEF Looked
      <4>3. w \in Looked(s, Len(s) + 1) BY <1>1, <1>2, <3>1, <3>2, <3>3, <4>2, BodyKeeps
      <4>. QED BY <4>3 DEF Looked
    <3>4. CASE mode \in Unchecked
      <4>1. start \in Accepted(mode, s) BY <3>4, StartAccepted
      <4>2. Carried(Accepted(mode, s), mode, omitNull, s) BY <1>1, <3>4, KeepsAccepted
      <4>3. w \in Accepted(mode, s) BY <1>1, <1>2, <3>2, <4>1, <4>2, BodyKeeps
      <4>. QED BY <4>3 DEF Accepted
    <3>. QED BY <3>3, <3>4
  <2>. QED BY <2>1, <2>2
<1>4. d.size = SizeOf(mode, s) BY DumpCstrIs
<1>5. d.out = Append(w.out, Quote) BY DumpCstrIs DEF Written
<1>6. d.raised \in BOOLEAN /\ (w.raised => d.raised)
  <2>1. d.raised \in BOOLEAN BY DEF DumpCstr
  <2>. QED BY <2>1, DumpCstrIs DEF Written
<1>. HIDE DEF d, w
<1>7. w.out \in Seq(Byte) BY <1>3 DEF Writings
<1>8. Quote \in Byte BY DEF Quote, Byte
<1>9. d.out \in Seq(Byte) /\ Len(d.out) = Len(w.out) + 1 BY <1>5, <1>7, <1>8, AppendProperties
<1>. QED BY <1>3, <1>4, <1>5, <1>6, <1>7, <1>9 DEF d, w

\* oj_dump_cstr asks for room enough, but for what its fixed reserve holds.
LEMMA EstimatedWell ==
    ASSUME NEW mode, NEW omitNull, NEW s, NEW isSym, NEW escape1, Dumps(mode, omitNull, s, isSym, escape1)
    PROVE  LET d == DumpCstr(mode, omitNull, s, isSym, escape1)
           IN  /\ d.out \in Seq(Byte) /\ d.size \in Nat /\ d.raised \in BOOLEAN
               /\ ~d.raised => Len(d.out) <= d.size + 2 + (IF escape1 THEN 5 ELSE IF isSym THEN 1 ELSE 0)
<1>. DEFINE d == DumpCstr(mode, omitNull, s, isSym, escape1)
            w == Written(mode, omitNull, s, isSym, escape1)
            start == Start(s, isSym, escape1)
            from == From(escape1)
            first == Len(First(s, isSym, escape1))
            l == SubSeq(s, from, Len(s))
            N == Len(s)
<1>1. mode \in Modes /\ omitNull \in BOOLEAN /\ s \in Seq(Byte) /\ N \in Nat BY LenProperties DEF Dumps
<1>2. /\ start \in Writings /\ ~start.raised /\ start.at = from /\ from \in {1, 2}
      /\ first = (IF escape1 THEN 6 ELSE IF isSym THEN 1 ELSE 0)
      /\ Len(start.out) = 1 + first
  BY StartIs
<1>3. /\ w \in Writings /\ d.out \in Seq(Byte) /\ Len(d.out) = Len(w.out) + 1 /\ w.out \in Seq(Byte)
      /\ d.size = SizeOf(mode, s) /\ d.raised \in BOOLEAN /\ (w.raised => d.raised)
  BY WrittenIs
<1>4. PICK c : Costs(mode, s, c) BY <1>1, CostsAre
<1>5. c[N] \in Nat /\ c[N] >= N BY <1>1, <1>4, CostsAtLeast
<1>6. c[0] = 0 /\ SizeOf(mode, s) = c[N] + Extra(mode, s) BY <1>4 DEF Costs
<1>7. Extra(mode, s) \in {0, 1} BY DEF Extra
<1>8. from = (IF escape1 THEN 2 ELSE 1) BY DEF From
<1>9. c[from - 1] = from - 1 /\ from - 1 \in 0..N
  <2>1. CASE ~escape1
    <3>1. from - 1 = 0 BY <1>8, <2>1
    <3>. QED BY <1>1, <1>6, <3>1
  <2>2. CASE escape1
    <3>1. 1 \in 1..N /\ s[1] \in {Colon, Hat} BY <2>2 DEF Dumps
    <3>2. c[1] = c[1 - 1] + Cost(mode, s[1]) /\ s[1] \in Byte BY <1>1, <1>4, <3>1, CostOf
    <3>3. Cost(mode, s[1]) = 1 BY <1>1, <3>1, <3>2, CostIs
    <3>4. from - 1 = 1 BY <1>8, <2>2
    <3>5. c[1] = 1 BY <1>6, <3>2, <3>3
    <3>. QED BY <3>1, <3>4, <3>5
  <2>. QED BY <2>1, <2>2 DEF Dumps
<1>10. ~w.raised => Len(w.out) <= 1 + first + c[N] - (from - 1)
  <2>1. CASE Fast(mode, s, escape1)
    <3>1. l \in Seq(Byte) /\ Len(l) = N + 1 - from BY Copied
    <3>2. w = Put(start, l) BY <2>1 DEF Written
    <3>. HIDE DEF l, start, w, first, from, N
    <3>3. w.out = start.out \o l BY <1>2, <3>1, <3>2, PutIs
    <3>4. start.out \in Seq(Byte) BY <1>2 DEF Writings
    <3>5. Len(w.out) = Len(start.out) + Len(l) BY <3>1, <3>3, <3>4, Joined
    <3>6. first \in Nat /\ from \in Nat BY <1>2
    <3>. DEFINE cost == c[N]
    <3>7. cost \in Nat /\ cost >= N /\ N \in Nat BY <1>1, <1>5
    <3>. HIDE DEF cost
    <3>8. Len(w.out) = 1 + first + (N + 1 - from) BY ONLY <1>2, <3>1, <3>5
    <3>9. 1 + first + (N + 1 - from) <= 1 + first + cost - (from - 1) BY ONLY <3>6, <3>7
    <3>10. Len(w.out) <= 1 + first + cost - (from - 1) BY ONLY <3>8, <3>9
    <3>. QED BY <3>10 DEF cost
  <2>2. CASE ~Fast(mode, s, escape1)
    <3>. DEFINE base == 1 + first - (from - 1)
    <3>1. first \in Nat /\ from \in Nat /\ base \in Int BY <1>2
    <3>2. w = Body(mode, omitNull, s, start) BY <2>2 DEF Written
    <3>3. Carried(Roomy(s, c, base), mode, omitNull, s) BY <1>1, <1>4, <3>1, KeepsRoomy
    <3>. HIDE DEF start, from, first
    <3>4. Len(start.out) <= base + c[start.at - 1] BY <1>2, <1>9, <3>1
    <3>13. start.at - 1 \in 0..N /\ start.at >= 1 BY <1>2, <1>9
    <3>. HIDE DEF base
    <3>5. start \in Roomy(s, c, base) BY <1>2, <3>4, <3>13 DEF Roomy
    <3>6. w \in Roomy(s, c, base) /\ (w.raised \/ w.at > N) BY <1>1, <1>2, <3>2, <3>3, <3>5, BodyKeeps
    <3>7. SUFFICES ASSUME ~w.raised PROVE Len(w.out) <= 1 + first + c[N] - (from - 1) OBVIOUS
    <3>8. w.at - 1 \in 0..N /\ Len(w.out) <= base + c[w.at - 1] /\ w.at \in Nat BY <3>6, <3>7 DEF Roomy, Writings
    <3>9. w.at - 1 = N BY <1>1, <3>6, <3>7, <3>8
    <3>10. Len(w.out) <= base + c[N] BY <3>8, <3>9
    <3>11. Len(w.out) \in Nat BY <1>3, LenProperties
    <3>12. base = 1 + first - (from - 1) BY DEF base
    <3>. QED BY ONLY <1>5, <3>1, <3>10, <3>11, <3>12
  <2>. QED BY <2>1, <2>2
<1>11. d.size \in Nat BY <1>3, <1>5, <1>6, <1>7
<1>12. Len(w.out) \in Nat BY <1>3, LenProperties
<1>13. 1 + first + c[N] - (from - 1) + 1 <= d.size + 2 + (IF escape1 THEN 5 ELSE IF isSym THEN 1 ELSE 0)
  <2>. HIDE DEF first, from, d, w, N
  <2>1. d.size >= c[N] BY <1>3, <1>5, <1>6, <1>7
  <2>2. CASE escape1
    <3>1. first = 6 /\ from = 2 BY <1>2, <1>8, <2>2
    <3>. QED BY <1>5, <1>11, <2>1, <2>2, <3>1
  <2>3. CASE ~escape1 /\ isSym
    <3>1. first = 1 /\ from = 1 BY <1>2, <1>8, <2>3
    <3>. QED BY <1>5, <1>11, <2>1, <2>3, <3>1
  <2>4. CASE ~escape1 /\ ~isSym
    <3>1. first = 0 /\ from = 1 BY <1>2, <1>8, <2>4
    <3>. QED BY <1>5, <1>11, <2>1, <2>4, <3>1
  <2>. QED BY <2>2, <2>3, <2>4 DEF Dumps
<1>14. ~d.raised => Len(d.out) <= d.size + 2 + (IF escape1 THEN 5 ELSE IF isSym THEN 1 ELSE 0)
  <2>1. SUFFICES ASSUME ~d.raised PROVE Len(d.out) <= d.size + 2 + (IF escape1 THEN 5 ELSE IF isSym THEN 1 ELSE 0) OBVIOUS
  <2>. DEFINE a == 1 + first + c[N] - (from - 1)
              z == d.size + 2 + (IF escape1 THEN 5 ELSE IF isSym THEN 1 ELSE 0)
  <2>2. Len(w.out) <= a BY <1>3, <1>10, <2>1
  <2>3. a + 1 <= z BY <1>13
  <2>4. a \in Int /\ z \in Int BY <1>2, <1>5, <1>11
  <2>5. Len(d.out) = Len(w.out) + 1 BY <1>3
  <2>. HIDE DEF a, z, d, w
  <2>6. Len(d.out) <= z BY ONLY <1>12, <2>2, <2>3, <2>4, <2>5
  <2>. QED BY <2>6 DEF z
<1>. QED BY <1>3, <1>11, <1>14

-----------------------------------------------------------------------------
(* The first bytes that are written.                                         *)

\* The bytes l were written: the one that is looked at, or an escape.
Marked(s, w, u, l, n, check) ==
    /\ Wrote(w, u, l, n, check) /\ Len(l) \in Nat /\ Len(l) >= 1
    /\ (l[1] = s[w.at] /\ Len(l) = 1 /\ n = 0) \/ l[1] = Backslash

\* Unless a byte is left out, something is written for it.
LEMMA MarkedIs ==
    ASSUME NEW mode \in Modes, NEW omitNull \in BOOLEAN, NEW s, NEW w, NEW u, Within(s, w),
           Stepped(mode, omitNull, s, w, u), ~u.raised, ~(omitNull /\ s[w.at] = 0)
    PROVE  \E l, n, check : Marked(s, w, u, l, n, check)
<1>. DEFINE b == s[w.at]
<1>1. b \in Byte /\ b \in Nat /\ <<b>> \in Seq(Byte) BY WithinIs
<1>. HIDE DEF b
<1>2. CASE AsIs(mode, s, w, u) \/ Checked(mode, s, w, u)
  <2>1. \E check : Wrote(w, u, <<b>>, 0, check) BY <1>2 DEF AsIs, Checked, b
  <2>2. Len(<<b>>) = 1 /\ <<b>>[1] = b OBVIOUS
  <2>. QED BY <2>1, <2>2 DEF Marked, b
<1>3. CASE Letter(mode, s, w, u)
  <2>1. Wrote(w, u, Backslashed(b), 0, w.check) BY <1>3 DEF Letter, b
  <2>2. Len(Backslashed(b)) = 2 /\ Backslashed(b)[1] = Backslash BY <1>1, BackslashedIs
  <2>. QED BY <2>1, <2>2 DEF Marked
<1>4. CASE Control(mode, omitNull, s, w, u)
  <2>1. Wrote(w, u, Hex4(b), 0, w.check) BY <1>4 DEF Control, b
  <2>2. Len(Hex4(b)) = 6 /\ Hex4(b)[1] = Backslash BY <1>1, Hex4Is
  <2>. QED BY <2>1, <2>2 DEF Marked
<1>5. CASE LeftOut(mode, omitNull, s, w, u)
  BY <1>5 DEF LeftOut
<1>6. CASE Character(mode, s, w, u)
  <2>. DEFINE code == CodeOf(s, w.at)
  <2>1. Wrote(w, u, Unicode(code), Follows(b), w.check) /\ WholeChar(s, w.at) BY <1>6 DEF Character, b
  <2>2. code \in Nat BY <2>1, CodeType DEF Within
  <2>. HIDE DEF code
  <2>3. Len(Unicode(code)) \in {6, 12} /\ Unicode(code)[1] = Backslash BY <2>2, UnicodeIs
  <2>. QED BY <2>1, <2>3 DEF Marked
<1>7. CASE Refused(mode, s, w, u)
  BY <1>7 DEF Refused
<1>. QED BY <1>2, <1>3, <1>4, <1>5, <1>6, <1>7 DEF Stepped

\* x stays where it was written.
Holding(x) == {w \in Writings : /\ w.raised \/ w.at >= 1
                                /\ ~w.raised => 2 \in 1..Len(w.out) /\ w.out[2] = x}

\* What was written stays.
LEMMA Longer ==
    ASSUME NEW w, NEW u, NEW l, NEW n, NEW check, w \in Writings, Wrote(w, u, l, n, check)
    PROVE  /\ Len(w.out) \in Nat /\ Len(l) \in Nat /\ Len(u.out) = Len(w.out) + Len(l)
           /\ \A i \in 1..Len(w.out) : u.out[i] = w.out[i]
           /\ \A i \in 1..Len(l) : u.out[Len(w.out) + i] = l[i]
           /\ w.at \in Nat /\ n \in Nat /\ u.at = w.at + n
<1>1. w.out \in Seq(Byte) /\ w.at \in Nat BY DEF Writings
<1>2. l \in Seq(Byte) /\ u.out = w.out \o l /\ n \in Nat /\ u.at = w.at + n BY DEF Wrote
<1>. QED BY <1>1, <1>2, Joined

\* A round that is not refused writes some bytes.
LEMMA WroteSome ==
    ASSUME NEW mode, NEW omitNull, NEW s, NEW w, NEW u, Stepped(mode, omitNull, s, w, u), ~u.raised
    PROVE  \E l, n, check : Wrote(w, u, l, n, check)
BY DEF Stepped, AsIs, Checked, Letter, Control, LeftOut, Character, Refused

\* It stays through every round.
LEMMA KeepsHolding ==
    ASSUME NEW mode, NEW omitNull, NEW s, NEW x
    PROVE  Carried(Holding(x), mode, omitNull, s)
<1>1. SUFFICES ASSUME NEW w \in Holding(x), Within(s, w), NEW v, Rounded(mode, omitNull, s, w, v)
               PROVE  v \in Holding(x)
  BY DEF Carried, Holding
<1>2. w \in Writings /\ 2 \in 1..Len(w.out) /\ w.out[2] = x BY <1>1 DEF Holding, Within
<1>3. v \in Writings BY <1>1 DEF Rounded
<1>4. PICK u : /\ Stepped(mode, omitNull, s, w, u) /\ v.raised = u.raised
               /\ ~u.raised => v.out = u.out /\ v.at = u.at + 1 /\ v.check = u.check
  BY <1>1 DEF Rounded
<1>5. CASE v.raised BY <1>3, <1>5 DEF Holding
<1>6. CASE ~v.raised
  <2>1. PICK l, n, check : Wrote(w, u, l, n, check) BY <1>4, <1>6, WroteSome
  <2>2. /\ Len(w.out) \in Nat /\ Len(l) \in Nat /\ Len(u.out) = Len(w.out) + Len(l)
        /\ \A i \in 1..Len(w.out) : u.out[i] = w.out[i]
        /\ w.at \in Nat /\ n \in Nat /\ u.at = w.at + n
    BY <1>2, <2>1, Longer
  <2>3. v.out = u.out /\ v.at = u.at + 1 BY <1>4, <1>6
  <2>4. 2 \in 1..Len(u.out) /\ u.out[2] = x BY <1>2, <2>2
  <2>5. v.at >= 1 BY <2>2, <2>3
  <2>6. 2 \in 1..Len(v.out) /\ v.out[2] = x BY <2>3, <2>4
  <2>. QED BY <1>3, <2>5, <2>6 DEF Holding
<1>. QED BY <1>5, <1>6

\* The first byte of a text and, behind a hat, the second are written as they are
\* or as an escape.
Telling(s) ==
    {w \in Writings : /\ w.raised \/ w.at >= 1
                      /\ ~w.raised =>
                           /\ Len(w.out) >= 1
                           /\ w.at = 1 => Len(w.out) = 1
                           /\ w.at > 1 => 1 \in 1..Len(s) /\ Len(w.out) >= 2 /\ w.out[2] \in {s[1], Backslash}
                           /\ w.at = 2 /\ w.out[2] = Hat => Len(w.out) = 2
                           /\ w.at > 2 /\ w.out[2] = Hat => 2 \in 1..Len(s) /\ Len(w.out) >= 3 /\ w.out[3] \in {s[2], Backslash}}

\* They are told through every round.
LEMMA KeepsTelling ==
    ASSUME NEW mode \in Modes, NEW omitNull \in BOOLEAN, NEW s \in Seq(Byte),
           \A i \in 1..Len(s) : ~(omitNull /\ s[i] = 0)
    PROVE  Carried(Telling(s), mode, omitNull, s)
<1>1. SUFFICES ASSUME NEW w \in Telling(s), Within(s, w), NEW v, Rounded(mode, omitNull, s, w, v)
               PROVE  v \in Telling(s)
  BY DEF Carried, Telling
<1>. DEFINE k == w.at
            m == Len(w.out)
<1>2. /\ w \in Writings /\ k >= 1 /\ m >= 1
      /\ k = 1 => m = 1
      /\ k > 1 => 1 \in 1..Len(s) /\ m >= 2 /\ w.out[2] \in {s[1], Backslash}
      /\ k = 2 /\ w.out[2] = Hat => m = 2
      /\ k > 2 /\ w.out[2] = Hat => 2 \in 1..Len(s) /\ m >= 3 /\ w.out[3] \in {s[2], Backslash}
  BY <1>1 DEF Telling, Within
<1>3. v \in Writings BY <1>1 DEF Rounded
<1>4. PICK u : /\ Stepped(mode, omitNull, s, w, u) /\ v.raised = u.raised
               /\ ~u.raised => v.out = u.out /\ v.at = u.at + 1 /\ v.check = u.check
  BY <1>1 DEF Rounded
<1>5. CASE v.raised BY <1>3, <1>5 DEF Telling
<1>6. CASE ~v.raised
  <2>1. k \in 1..Len(s) /\ k \in Nat /\ Len(s) \in Nat BY <1>1, WithinIs, LenProperties DEF Within
  <2>2. ~(omitNull /\ s[k] = 0) BY <2>1
  <2>3. PICK l, n, check : Marked(s, w, u, l, n, check) BY <1>1, <1>4, <1>6, <2>2, MarkedIs
  <2>4. /\ m \in Nat /\ Len(l) \in Nat /\ Len(u.out) = m + Len(l)
        /\ \A i \in 1..m : u.out[i] = w.out[i]
        /\ \A i \in 1..Len(l) : u.out[m + i] = l[i]
        /\ n \in Nat /\ u.at = k + n
    BY <1>2, <2>3, Longer DEF Marked
  <2>5. v.out = u.out /\ v.at = u.at + 1 BY <1>4, <1>6
  <2>6. Len(l) >= 1 /\ ((l[1] = s[k] /\ Len(l) = 1 /\ n = 0) \/ l[1] = Backslash) BY <2>3 DEF Marked
  <2>. HIDE DEF k, m
  <2>7. v.at = k + n + 1 /\ Len(v.out) = m + Len(l) BY ONLY <2>1, <2>4, <2>5
  <2>8. v.out[m + 1] = l[1] /\ l[1] \in {s[k], Backslash}
    <3>1. 1 \in 1..Len(l) BY <2>4, <2>6
    <3>. QED BY <2>4, <2>5, <2>6, <3>1
  <2>9. Len(v.out) >= m + 1 /\ v.at >= k + 1 BY ONLY <2>1, <2>4, <2>6, <2>7
  <2>10. m >= 2 => v.out[2] = w.out[2]
    <3>1. m >= 2 => 2 \in 1..m BY ONLY <2>4
    <3>. QED BY ONLY <2>4, <2>5, <3>1
  <2>11. Hat # Backslash BY DEF Hat, Backslash
  <2>12. CASE k = 1
    <3>1. m = 1 /\ v.out[2] = l[1] /\ v.out[2] \in {s[1], Backslash} BY <1>2, <2>8, <2>12
    <3>2. v.out[2] = Hat => Len(l) = 1 /\ n = 0 BY <2>6, <2>11, <3>1
    <3>3. v.at >= 2 /\ Len(v.out) >= 2 /\ 1 \in 1..Len(s) BY <2>1, <2>9, <2>12, <3>1
    <3>4. Len(l) = 1 /\ n = 0 => v.at = 2 /\ Len(v.out) = 2
      <4>1. m = 1 BY <3>1
      <4>. QED BY ONLY <2>7, <2>12, <4>1
    <3>5. v.out[2] = Hat => v.at = 2 /\ Len(v.out) = 2 BY <3>2, <3>4
    <3>6. v.at \in Nat /\ Len(v.out) \in Nat BY <2>1, <2>4, <2>7
    <3>7. v.at # 1 /\ v.at > 1 /\ (v.at > 2 => v.at # 2) BY <3>3, <3>6
    <3>8. v.at >= 1 /\ Len(v.out) >= 1 BY <3>3, <3>6
    <3>. QED BY <1>3, <3>1, <3>3, <3>5, <3>7, <3>8 DEF Telling
  <2>13. CASE k = 2
    <3>1. m >= 2 /\ v.out[2] \in {s[1], Backslash} /\ 1 \in 1..Len(s) BY <1>2, <2>10, <2>13
    <3>2. v.out[2] = Hat => v.out[3] \in {s[2], Backslash} BY <1>2, <2>8, <2>10, <2>13, <3>1
    <3>3. v.at >= 3 /\ Len(v.out) >= 3 /\ 2 \in 1..Len(s) BY <2>1, <2>4, <2>9, <2>13, <3>1
    <3>4. v.at \in Nat /\ Len(v.out) \in Nat BY <2>1, <2>4, <2>7
    <3>5. v.at # 1 /\ v.at # 2 /\ v.at >= 1 /\ Len(v.out) >= 1 /\ Len(v.out) >= 2 BY <3>3, <3>4
    <3>. QED BY <1>3, <3>1, <3>2, <3>3, <3>5 DEF Telling
  <2>14. CASE k > 2
    <3>1. m >= 2 /\ v.out[2] \in {s[1], Backslash} /\ 1 \in 1..Len(s) BY <1>2, <2>1, <2>10, <2>14
    <3>2. ASSUME v.out[2] = Hat PROVE 2 \in 1..Len(s) /\ v.out[3] \in {s[2], Backslash}
      <4>1. 2 \in 1..Len(s) /\ m >= 3 /\ w.out[3] \in {s[2], Backslash} BY <1>2, <2>10, <2>14, <3>1, <3>2
      <4>2. 3 \in 1..m BY <2>4, <4>1
      <4>. QED BY <2>4, <2>5, <4>1, <4>2
    <3>3. v.at > 2 /\ v.at >= 1 /\ Len(v.out) >= 3 /\ v.at \in Nat /\ Len(v.out) \in Nat BY <2>1, <2>4, <2>7, <2>9, <2>14, <3>1
    <3>. QED BY <1>3, <3>1, <3>2, <3>3 DEF Telling
  <2>. QED BY <1>2, <2>1, <2>12, <2>13, <2>14
<1>. QED BY <1>5, <1>6

\* What the body is, and that a round keeps what holds of it.
LEMMA BodyHolds ==
    ASSUME NEW mode, NEW omitNull, NEW s, NEW isSym, NEW escape1, NEW T,
           Dumps(mode, omitNull, s, isSym, escape1), ~Fast(mode, s, escape1),
           Start(s, isSym, escape1) \in T, Carried(T, mode, omitNull, s)
    PROVE  LET w == Written(mode, omitNull, s, isSym, escape1) IN w \in T /\ (w.raised \/ w.at > Len(s))
<1>1. mode \in Modes /\ omitNull \in BOOLEAN /\ s \in Seq(Byte) BY DEF Dumps
<1>2. ~Start(s, isSym, escape1).raised BY StartIs
<1>3. Written(mode, omitNull, s, isSym, escape1) = Body(mode, omitNull, s, Start(s, isSym, escape1)) BY DEF Written
<1>. QED BY <1>1, <1>2, <1>3, BodyKeeps

\* The second byte, where it is not of the text as it is.
Opens(isSym, escape1, x) == (escape1 /\ x = Backslash) \/ (~escape1 /\ isSym /\ x = Colon)

\* A colon or an escape that is written first stays first.
LEMMA SecondIs ==
    ASSUME NEW mode, NEW omitNull, NEW s, NEW isSym, NEW escape1, NEW x,
           Dumps(mode, omitNull, s, isSym, escape1), Opens(isSym, escape1, x)
    PROVE  LET w == Written(mode, omitNull, s, isSym, escape1)
           IN  ~w.raised => 2 \in 1..Len(w.out) /\ w.out[2] = x
<1>. DEFINE w == Written(mode, omitNull, s, isSym, escape1)
            start == Start(s, isSym, escape1)
            first == First(s, isSym, escape1)
            l == SubSeq(s, From(escape1), Len(s))
<1>1. /\ start \in Writings /\ ~start.raised /\ start.at \in {1, 2} /\ first \in Seq(Byte)
      /\ start.out = <<Quote>> \o first /\ start.out \in Seq(Byte) /\ Len(start.out) = 1 + Len(first)
  BY StartIs
<1>2. first[1] = x /\ 1 \in 1..Len(first)
  <2>1. CASE escape1 /\ x = Backslash
    <3>1. s[1] \in Nat /\ first = Hex4(s[1]) BY <2>1, ByteAt DEF Dumps, First
    <3>2. Hex4(s[1])[1] = Backslash /\ Len(Hex4(s[1])) = 6 BY <3>1, Hex4Is
    <3>3. 1 \in 1..Len(Hex4(s[1])) BY <3>2
    <3>. QED BY ONLY <2>1, <3>1, <3>2, <3>3, Zenon
  <2>2. CASE ~escape1 /\ isSym /\ x = Colon
    <3>1. first = <<Colon>> BY <2>2 DEF First
    <3>2. <<Colon>>[1] = Colon /\ Len(<<Colon>>) = 1 OBVIOUS
    <3>3. 1 \in 1..Len(<<Colon>>) BY <3>2
    <3>. QED BY ONLY <2>2, <3>1, <3>2, <3>3, Zenon
  <2>. QED BY <2>1, <2>2 DEF Opens
<1>. HIDE DEF first
<1>3. 2 \in 1..Len(start.out) /\ start.out[2] = x
  <2>1. <<Quote>> \in Seq(Byte) /\ Len(<<Quote>>) = 1
    <3>1. Quote \in Byte BY DEF Quote, Byte
    <3>. QED BY <3>1
  <2>2. (<<Quote>> \o first)[Len(<<Quote>>) + 1] = first[1] BY <1>1, <1>2, <2>1, Joined
  <2>. QED BY <1>1, <1>2, <2>1, <2>2
<1>4. CASE Fast(mode, s, escape1)
  <2>1. l \in Seq(Byte) BY Copied
  <2>2. w = Put(start, l) BY <1>4 DEF Written
  <2>. HIDE DEF l, start, w
  <2>3. w.out = start.out \o l BY <1>1, <2>1, <2>2, PutIs
  <2>4. 2 \in 1..Len(w.out) /\ w.out[2] = start.out[2] BY <1>1, <1>3, <2>1, <2>3, Joined
  <2>5. 2 \in 1..Len(w.out) /\ w.out[2] = x BY <1>3, <2>4
  <2>. QED BY <2>5 DEF w
<1>5. CASE ~Fast(mode, s, escape1)
  <2>1. start \in Holding(x) BY <1>1, <1>3 DEF Holding
  <2>2. Carried(Holding(x), mode, omitNull, s) BY KeepsHolding
  <2>3. w \in Holding(x) BY <1>5, <2>1, <2>2, BodyHolds
  <2>. HIDE DEF w
  <2>4. ~w.raised => 2 \in 1..Len(w.out) /\ w.out[2] = x BY <2>3 DEF Holding
  <2>. QED BY <2>4 DEF w
<1>. QED BY <1>4, <1>5

\* Otherwise the first bytes are those of the text, or escapes.
LEMMA FirstsAreTold ==
    ASSUME NEW mode, NEW omitNull, NEW s, NEW isSym, NEW escape1,
           Dumps(mode, omitNull, s, isSym, escape1), ~isSym /\ ~escape1,
           \A i \in 1..Len(s) : ~(omitNull /\ s[i] = 0)
    PROVE  LET w == Written(mode, omitNull, s, isSym, escape1)
           IN  ~w.raised =>
                 /\ Len(w.out) >= 1
                 /\ Len(s) = 0 => Len(w.out) = 1
                 /\ Len(s) >= 1 => Len(w.out) >= 2 /\ w.out[2] \in {s[1], Backslash}
                 /\ Len(s) = 1 /\ w.out[2] = Hat => Len(w.out) = 2
                 /\ Len(s) >= 2 /\ w.out[2] = Hat => Len(w.out) >= 3 /\ w.out[3] \in {s[2], Backslash}
<1>. DEFINE w == Written(mode, omitNull, s, isSym, escape1)
            start == Start(s, isSym, escape1)
            l == SubSeq(s, From(escape1), Len(s))
            N == Len(s)
<1>1. mode \in Modes /\ omitNull \in BOOLEAN /\ s \in Seq(Byte) /\ N \in Nat BY LenProperties DEF Dumps
<1>2. start \in Writings /\ ~start.raised /\ start.at = 1 /\ Len(start.out) = 1 /\ start.out \in Seq(Byte)
  <2>1. From(escape1) = 1 BY DEF From
  <2>2. start \in Writings /\ ~start.raised /\ start.at = From(escape1) BY StartIs
  <2>3. start.out \in Seq(Byte) BY StartIs
  <2>4. start.out = <<Quote>> \o <<>> BY DEF Start, First
  <2>5. <<Quote>> \o <<>> = <<Quote>> /\ Len(<<Quote>>) = 1 OBVIOUS
  <2>. QED BY ONLY <2>1, <2>2, <2>3, <2>4, <2>5
<1>3. CASE Fast(mode, s, escape1)
  <2>1. /\ l \in Seq(Byte) /\ Len(l) = N
        /\ \A i \in 1..Len(l) : l[i] = s[i]
    <3>1. From(escape1) = 1 BY DEF From
    <3>2. l \in Seq(Byte) /\ Len(l) = N + 1 - From(escape1) /\ \A i \in 1..Len(l) : l[i] = s[From(escape1) + i - 1] BY Copied
    <3>. HIDE DEF l, N
    <3>3. Len(l) = N /\ \A i \in 1..Len(l) : From(escape1) + i - 1 = i BY ONLY <1>1, <3>1, <3>2
    <3>. QED BY <3>2, <3>3
  <2>2. w = Put(start, l) BY <1>3 DEF Written
  <2>. HIDE DEF l, start, w, N
  <2>3. w.out = start.out \o l BY <1>2, <2>1, <2>2, PutIs
  <2>4. Len(w.out) = 1 + N /\ \A i \in 1..N : w.out[1 + i] = s[i]
    <3>1. Len(w.out) = Len(start.out) + Len(l) /\ \A i \in 1..Len(l) : w.out[Len(start.out) + i] = l[i]
      <4>1. start.out \in Seq(Byte) /\ l \in Seq(Byte) BY <1>2, <2>1
      <4>2. Len(start.out \o l) = Len(start.out) + Len(l) /\ \A i \in 1..Len(l) : (start.out \o l)[Len(start.out) + i] = l[i]
        BY ONLY <4>1, Joined
      <4>. QED BY <2>3, <4>2
    <3>. QED BY <1>2, <2>1, <3>1
  <2>5. N >= 1 => w.out[2] = s[1]
    <3>1. N >= 1 => 1 \in 1..N BY <1>1
    <3>2. N >= 1 => w.out[1 + 1] = s[1] BY <2>4, <3>1
    <3>. QED BY <3>2
  <2>6. N >= 2 => w.out[3] = s[2]
    <3>1. N >= 2 => 2 \in 1..N BY <1>1
    <3>2. N >= 2 => w.out[1 + 2] = s[2] BY <2>4, <3>1
    <3>. QED BY <3>2
  <2>7. /\ Len(w.out) >= 1 /\ (N = 0 => Len(w.out) = 1) /\ (N >= 1 => Len(w.out) >= 2)
        /\ (N = 1 => Len(w.out) = 2) /\ (N >= 2 => Len(w.out) >= 3)
    BY ONLY <1>1, <2>4
  <2>. QED BY <2>5, <2>6, <2>7 DEF w, N
<1>4. CASE ~Fast(mode, s, escape1)
  <2>1. start \in Telling(s)
    <3>. HIDE DEF start
    <3>1. start.at >= 1 /\ ~(start.at > 1) /\ start.at # 2 /\ ~(start.at > 2) /\ Len(start.out) >= 1 BY <1>2
    <3>. QED BY <1>2, <3>1 DEF Telling
  <2>2. Carried(Telling(s), mode, omitNull, s) BY <1>1, KeepsTelling
  <2>3. w \in Telling(s) /\ (w.raised \/ w.at > N) BY <1>4, <2>1, <2>2, BodyHolds
  <2>. HIDE DEF w
  <2>4. SUFFICES ASSUME ~w.raised
                 PROVE  /\ Len(w.out) >= 1
                        /\ N = 0 => Len(w.out) = 1
                        /\ N >= 1 => Len(w.out) >= 2 /\ w.out[2] \in {s[1], Backslash}
                        /\ N = 1 /\ w.out[2] = Hat => Len(w.out) = 2
                        /\ N >= 2 /\ w.out[2] = Hat => Len(w.out) >= 3 /\ w.out[3] \in {s[2], Backslash}
    BY DEF w
  <2>5. /\ w \in Writings /\ w.at > N /\ Len(w.out) >= 1
        /\ w.at = 1 => Len(w.out) = 1
        /\ w.at > 1 => 1 \in 1..N /\ Len(w.out) >= 2 /\ w.out[2] \in {s[1], Backslash}
        /\ w.at = 2 /\ w.out[2] = Hat => Len(w.out) = 2
        /\ w.at > 2 /\ w.out[2] = Hat => 2 \in 1..N /\ Len(w.out) >= 3 /\ w.out[3] \in {s[2], Backslash}
    BY <2>3, <2>4 DEF Telling
  <2>6. w.at \in Nat BY <2>5 DEF Writings
  <2>. HIDE DEF N
  <2>7. /\ N = 0 => w.at = 1 \/ 1 \in 1..N
        /\ N = 0 => ~(1 \in 1..N)
        /\ N >= 1 => w.at > 1
        /\ N = 1 => w.at = 2 \/ w.at > 2
        /\ N = 1 => ~(2 \in 1..N)
        /\ N >= 2 => w.at > 2
    <3>1. w.at > 1 => 1 \in 1..N BY <2>5
    <3>2. w.at > N BY <2>5
    <3>. QED BY ONLY <1>1, <2>6, <3>1, <3>2
  <2>. QED BY <2>5, <2>7
<1>. QED BY <1>3, <1>4

\* A String and a Symbol are told apart by what is written first.
LEMMA ToldWell ==
    ASSUME NEW mode, NEW omitNull, NEW s, NEW isSym, NEW escape1, Dumps(mode, omitNull, s, isSym, escape1),
           escape1 <=> ~isSym /\ Escapes(s), ~(omitNull /\ 0 \in ToSet(s)),
           ~DumpCstr(mode, omitNull, s, isSym, escape1).raised
    PROVE  LET d == DumpCstr(mode, omitNull, s, isSym, escape1)
           IN  /\ isSym <=> d.out[2] = Colon
               /\ ~(d.out[2] = Hat /\ At(d.out, 3) \in {105, 114})
<1>. DEFINE d == DumpCstr(mode, omitNull, s, isSym, escape1)
            w == Written(mode, omitNull, s, isSym, escape1)
            N == Len(s)
<1>1. /\ w.out \in Seq(Byte) /\ ~w.raised /\ d.out = Append(w.out, Quote) /\ d.out \in Seq(Byte)
      /\ Len(d.out) = Len(w.out) + 1
  BY WrittenIs
<1>2. Len(w.out) \in Nat /\ d.out[Len(w.out) + 1] = Quote /\ \A i \in 1..Len(w.out) : d.out[i] = w.out[i]
  <2>1. Quote \in Byte BY DEF Quote, Byte
  <2>. HIDE DEF w, d
  <2>. QED BY <1>1, <2>1, AppendProperties, LenProperties
<1>3. s \in Seq(Byte) /\ N \in Nat BY LenProperties DEF Dumps
<1>4. Hat # Backslash /\ Hat # Colon /\ Hat # Quote /\ Colon # Backslash /\ Colon # Quote
      /\ Backslash \notin {105, 114} /\ Quote \notin {105, 114}
  BY DEF Hat, Backslash, Colon, Quote
<1>5. CASE isSym \/ escape1
  <2>1. PICK x : Opens(isSym, escape1, x) BY <1>5 DEF Opens, Dumps
  <2>6. 2 \in 1..Len(w.out) /\ w.out[2] = x BY <1>1, <2>1, SecondIs
  <2>. HIDE DEF d, w
  <2>7. d.out[2] = x BY <1>2, <2>6
  <2>2. (escape1 /\ d.out[2] = Backslash) \/ (~escape1 /\ d.out[2] = Colon) BY <2>1, <2>7 DEF Opens
  <2>3. escape1 => ~isSym BY DEF Dumps
  <2>4. isSym <=> d.out[2] = Colon
    <3>1. CASE escape1 BY <1>4, <2>2, <2>3, <3>1
    <3>2. CASE ~escape1 BY <1>5, <2>2, <3>2
    <3>. QED BY <3>1, <3>2
  <2>5. d.out[2] # Hat BY <1>4, <2>2
  <2>. QED BY <2>4, <2>5 DEF d
<1>6. CASE ~isSym /\ ~escape1
  <2>2. \A i \in 1..N : ~(omitNull /\ s[i] = 0)
    <3>1. ASSUME NEW i \in 1..N, s[i] = 0 PROVE 0 \in ToSet(s)
      <4>1. i \in DOMAIN s BY <1>3, LenProperties
      <4>. QED BY <3>1, <4>1 DEF ToSet
    <3>. QED BY <3>1
  <2>3. /\ Len(w.out) >= 1
        /\ N = 0 => Len(w.out) = 1
        /\ N >= 1 => Len(w.out) >= 2 /\ w.out[2] \in {s[1], Backslash}
        /\ N = 1 /\ w.out[2] = Hat => Len(w.out) = 2
        /\ N >= 2 /\ w.out[2] = Hat => Len(w.out) >= 3 /\ w.out[3] \in {s[2], Backslash}
    BY <1>1, <1>6, <2>2, FirstsAreTold
  <2>4. ~Escapes(s) BY <1>6
  <2>5. N >= 1 => At(s, 1) = s[1] /\ s[1] # Colon
    <3>1. SUFFICES ASSUME N >= 1 PROVE At(s, 1) = s[1] /\ s[1] # Colon OBVIOUS
    <3>2. 1 \in 1..Len(s) BY <1>3, <3>1
    <3>3. At(s, 1) = s[1] BY <1>3, <3>2, ByteAt
    <3>. QED BY <2>4, <3>3 DEF Escapes
  <2>6. N >= 2 /\ s[1] = Hat => s[2] \notin {105, 114}
    <3>1. SUFFICES ASSUME N >= 2, s[1] = Hat PROVE s[2] \notin {105, 114} OBVIOUS
    <3>2. 2 \in 1..Len(s) /\ N >= 1 BY <1>3, <3>1
    <3>3. At(s, 2) = s[2] BY <1>3, <3>2, ByteAt
    <3>. QED BY <2>4, <2>5, <3>1, <3>2, <3>3 DEF Escapes
  <2>. HIDE DEF d, w, N
  <2>7. N = 0 => d.out[2] = Quote BY <1>2, <2>3
  <2>8. N >= 1 => d.out[2] = w.out[2] /\ d.out[2] \in {s[1], Backslash}
    <3>1. N >= 1 => 2 \in 1..Len(w.out) BY <1>2, <2>3
    <3>. QED BY <1>2, <2>3, <3>1
  <2>9. d.out[2] # Colon BY <1>3, <1>4, <2>5, <2>7, <2>8
  <2>10. ASSUME d.out[2] = Hat PROVE At(d.out, 3) \notin {105, 114}
    <3>1. N >= 1 /\ s[1] = Hat /\ w.out[2] = Hat BY <1>3, <1>4, <2>7, <2>8, <2>10
    <3>2. CASE N = 1
      <4>1. Len(w.out) = 2 BY <2>3, <3>1, <3>2
      <4>2. d.out[3] = Quote /\ 3 \in 1..Len(d.out) BY <1>1, <1>2, <4>1
      <4>3. At(d.out, 3) = Quote BY <1>1, <4>2, ByteAt
      <4>. QED BY <1>4, <4>3
    <3>3. CASE N >= 2
      <4>1. Len(w.out) >= 3 /\ w.out[3] \in {s[2], Backslash} BY <2>3, <3>1, <3>3
      <4>2. 3 \in 1..Len(w.out) /\ 3 \in 1..Len(d.out) BY <1>1, <1>2, <4>1
      <4>3. At(d.out, 3) = w.out[3] BY <1>1, <1>2, <4>2, ByteAt
      <4>. QED BY <1>4, <2>6, <3>1, <3>3, <4>1, <4>3
    <3>. QED BY <1>3, <3>1, <3>2, <3>3
  <2>. QED BY <1>6, <2>9, <2>10 DEF d
<1>. QED BY <1>5, <1>6 DEF Dumps

-----------------------------------------------------------------------------
(* The reader: byte after byte, and escape after escape.                     *)

Readings == [held : Seq(Byte), bytes : Seq(Int)]
Complete(l) == Single(l) \/ Lettered(l) \/ Coded(l) \/ Paired(l)

\* The bytes of a character, by its number.
LEMMA Utf8Of ==
    ASSUME NEW code, code \in Int
    PROVE  /\ code < 128 => Utf8(code) = <<code>>
           /\ code >= 128 /\ code < 2048 => Utf8(code) = <<192 + (code \div 64), 128 + (code % 64)>>
           /\ code >= 2048 /\ code < 65536 =>
                Utf8(code) = <<224 + (code \div 4096), 128 + ((code \div 64) % 64), 128 + (code % 64)>>
           /\ code >= 65536 =>
                Utf8(code) = <<240 + (code \div 262144), 128 + ((code \div 4096) % 64), 128 + ((code \div 64) % 64), 128 + (code % 64)>>
BY DEF Utf8

\* Short sequences of numbers.
LEMMA Ints ==
    /\ \A a \in Int : <<a>> \in Seq(Int)
    /\ \A a, b \in Int : <<a, b>> \in Seq(Int)
    /\ \A a, b, c \in Int : <<a, b, c>> \in Seq(Int)
    /\ \A a, b, c, d \in Int : <<a, b, c, d>> \in Seq(Int)
OBVIOUS

\* The bytes of a character are numbers.
LEMMA Utf8Type ==
    ASSUME NEW code, code \in Int
    PROVE  Utf8(code) \in Seq(Int)
<1>. DEFINE a == code \div 64
            b == code % 64
            c == code \div 4096
            d == a % 64
            e == code \div 262144
            f == c % 64
<1>1. a \in Int /\ b \in Int /\ c \in Int /\ e \in Int OBVIOUS
<1>2. d \in Int /\ f \in Int
  <2>. HIDE DEF a, c
  <2>. QED BY <1>1
<1>3. /\ code < 128 => Utf8(code) = <<code>>
      /\ code >= 128 /\ code < 2048 => Utf8(code) = <<192 + a, 128 + b>>
      /\ code >= 2048 /\ code < 65536 => Utf8(code) = <<224 + c, 128 + d, 128 + b>>
      /\ code >= 65536 => Utf8(code) = <<240 + e, 128 + f, 128 + d, 128 + b>>
  BY Utf8Of
<1>. HIDE DEF a, b, c, d, e, f
<1>4. 192 + a \in Int /\ 128 + b \in Int /\ 224 + c \in Int /\ 128 + d \in Int /\ 240 + e \in Int /\ 128 + f \in Int
  BY <1>1, <1>2
<1>5. CASE code < 128
  <2>1. Utf8(code) = <<code>> BY <1>3, <1>5
  <2>2. <<code>> \in Seq(Int) BY Ints
  <2>. QED BY ONLY <2>1, <2>2
<1>6. CASE code >= 128 /\ code < 2048
  <2>1. Utf8(code) = <<192 + a, 128 + b>> BY <1>3, <1>6
  <2>2. <<192 + a, 128 + b>> \in Seq(Int) BY ONLY <1>4, Ints
  <2>. QED BY ONLY <2>1, <2>2
<1>7. CASE code >= 2048 /\ code < 65536
  <2>1. Utf8(code) = <<224 + c, 128 + d, 128 + b>> BY <1>3, <1>7
  <2>2. <<224 + c, 128 + d, 128 + b>> \in Seq(Int) BY ONLY <1>4, Ints
  <2>. QED BY ONLY <2>1, <2>2
<1>8. CASE code >= 65536
  <2>1. Utf8(code) = <<240 + e, 128 + f, 128 + d, 128 + b>> BY <1>3, <1>8
  <2>2. <<240 + e, 128 + f, 128 + d, 128 + b>> \in Seq(Int) BY ONLY <1>4, Ints
  <2>. QED BY ONLY <2>1, <2>2
<1>. QED BY <1>5, <1>6, <1>7, <1>8

\* So is what an escape says.
LEMMA CodeAtType ==
    ASSUME NEW l, NEW i, l[i + 2] \in Int, l[i + 3] \in Int, l[i + 4] \in Int, l[i + 5] \in Int
    PROVE  CodeAt(l, i) \in Int
BY DEF CodeAt, HexValue

\* The letters of the short escapes, each of one control,
LEMMA ShortIs ==
    /\ \A b \in DOMAIN Short : Short[b] \in Byte /\ Short[b] \notin {Quote, Backslash, Slash, LetterU}
    /\ \A b, c \in DOMAIN Short : Short[b] = Short[c] => b = c
    /\ DOMAIN Short \subseteq Byte
    /\ DOMAIN Short \cap {Quote, Backslash, Slash} = {}
BY DEF Short, Byte, Quote, Backslash, Slash, LetterU

\* and what each means.
LEMMA NamedIs ==
    /\ \A x \in {Quote, Backslash, Slash} : Named(x) = x
    /\ \A b \in DOMAIN Short : Named(Short[b]) = b
    /\ \A x \in {Quote, Backslash, Slash} \cup {Short[b] : b \in DOMAIN Short} : Named(x) \in Byte
<1>1. \A x \in {Quote, Backslash, Slash} : Named(x) = x BY DEF Named
<1>2. ASSUME NEW b \in DOMAIN Short PROVE Named(Short[b]) = b
  <2>1. Short[b] \notin {Quote, Backslash, Slash} BY ShortIs
  <2>2. Named(Short[b]) = CHOOSE c \in DOMAIN Short : Short[c] = Short[b] BY <2>1 DEF Named
  <2>3. \E c \in DOMAIN Short : Short[c] = Short[b] OBVIOUS
  <2>4. Named(Short[b]) \in DOMAIN Short /\ Short[Named(Short[b])] = Short[b] BY <2>2, <2>3, Zenon
  <2>. QED BY <2>4, ShortIs
<1>3. ASSUME NEW x \in {Quote, Backslash, Slash} \cup {Short[b] : b \in DOMAIN Short} PROVE Named(x) \in Byte
  <2>1. CASE x \in {Quote, Backslash, Slash}
    <3>1. x \in Byte BY <2>1 DEF Quote, Backslash, Slash, Byte
    <3>. QED BY <1>1, <2>1, <3>1
  <2>2. CASE x \in {Short[b] : b \in DOMAIN Short}
    <3>1. PICK b \in DOMAIN Short : x = Short[b] BY <2>2
    <3>2. Named(x) = b BY <1>2, <3>1
    <3>. QED BY <3>2, ShortIs
  <2>. QED BY <2>1, <2>2
<1>. QED BY <1>1, <1>2, <1>3

\* What a complete escape means, by its kind: it is of one only.
LEMMA MeaningIs ==
    ASSUME NEW l
    PROVE  /\ Single(l) => Meaning(l) = l
           /\ Lettered(l) => Meaning(l) = <<Named(l[2])>>
           /\ Coded(l) => Meaning(l) = Utf8(CodeAt(l, 1))
           /\ Paired(l) => Meaning(l) = Utf8(Joins(CodeAt(l, 1), CodeAt(l, 7)))
<1>1. /\ Single(l) => ~Lettered(l) /\ ~Coded(l) /\ ~Paired(l)
      /\ Lettered(l) => ~Single(l) /\ ~Coded(l) /\ ~Paired(l)
      /\ Coded(l) => ~Single(l) /\ ~Lettered(l) /\ ~Paired(l)
      /\ Paired(l) => ~Single(l) /\ ~Lettered(l) /\ ~Coded(l)
  BY DEF Single, Lettered, Coded, Paired
<1>2. CASE Single(l) BY <1>1, <1>2 DEF Meaning
<1>3. CASE Lettered(l) BY <1>1, <1>3 DEF Meaning
<1>4. CASE Coded(l) BY <1>1, <1>4 DEF Meaning
<1>5. CASE Paired(l) BY <1>1, <1>5 DEF Meaning
<1>. QED BY <1>1, <1>2, <1>3, <1>4, <1>5

\* It means numbers.
LEMMA MeaningType ==
    ASSUME NEW l, l \in Seq(Byte), Complete(l)
    PROVE  Meaning(l) \in Seq(Int)
<1>0. Byte \subseteq Int BY DEF Byte
<1>1. CASE Single(l)
  <2>1. Meaning(l) = l BY <1>1, MeaningIs
  <2>2. /\ l = [k \in 1..Len(l) |-> l[k]]
        /\ Len(l) \in Nat
        /\ \A k \in 1..Len(l) : l[k] \in Int
    BY <1>0, ByteAt, LenProperties
  <2>3. l \in Seq(Int) BY ONLY <2>2, IsASeq
  <2>. QED BY ONLY <2>1, <2>3
<1>2. CASE Lettered(l)
  <2>1. Meaning(l) = <<Named(l[2])>> BY <1>2, MeaningIs
  <2>2. l[2] \in {Quote, Backslash, Slash} \cup {Short[b] : b \in DOMAIN Short} BY <1>2 DEF Lettered
  <2>3. Named(l[2]) \in Int BY <1>0, <2>2, NamedIs
  <2>4. <<Named(l[2])>> \in Seq(Int) BY ONLY <2>3, Ints
  <2>. QED BY ONLY <2>1, <2>4
<1>3. CASE Coded(l)
  <2>1. Meaning(l) = Utf8(CodeAt(l, 1)) BY <1>3, MeaningIs
  <2>2. Len(l) = 6 BY <1>3 DEF Coded
  <2>3. \A k \in 1..6 : l[k] \in Int BY <2>2, ByteAt
  <2>4. 1 + 2 \in 1..6 /\ 1 + 3 \in 1..6 /\ 1 + 4 \in 1..6 /\ 1 + 5 \in 1..6 OBVIOUS
  <2>5. l[1 + 2] \in Int /\ l[1 + 3] \in Int /\ l[1 + 4] \in Int /\ l[1 + 5] \in Int BY <2>3, <2>4
  <2>6. CodeAt(l, 1) \in Int BY <2>5, CodeAtType
  <2>. QED BY <2>1, <2>6, Utf8Type
<1>4. CASE Paired(l)
  <2>. DEFINE x == CodeAt(l, 1)
              y == CodeAt(l, 7)
  <2>1. Meaning(l) = Utf8(Joins(x, y)) BY <1>4, MeaningIs
  <2>2. Len(l) = 12 BY <1>4 DEF Paired
  <2>3. \A k \in 1..12 : l[k] \in Int BY <2>2, ByteAt
  <2>4. \A i \in {1, 7} : i + 2 \in 1..12 /\ i + 3 \in 1..12 /\ i + 4 \in 1..12 /\ i + 5 \in 1..12 OBVIOUS
  <2>5. \A i \in {1, 7} : l[i + 2] \in Int /\ l[i + 3] \in Int /\ l[i + 4] \in Int /\ l[i + 5] \in Int BY <2>3, <2>4
  <2>6. x \in Int /\ y \in Int BY <2>5, CodeAtType
  <2>. HIDE DEF x, y
  <2>7. Joins(x, y) \in Int BY <2>6 DEF Joins
  <2>. QED BY <2>1, <2>7, Utf8Type
<1>. QED BY <1>1, <1>2, <1>3, <1>4 DEF Complete

\* The reader takes a byte: it has a complete escape, or it waits.
LEMMA TakeIs ==
    ASSUME NEW r, NEW b, r \in Readings, b \in Byte
    PROVE  /\ Take(r, b) \in Readings
           /\ LET l == Append(r.held, b)
              IN  /\ l \in Seq(Byte) /\ r.bytes \in Seq(Int)
                  /\ Complete(l) => Take(r, b).held = <<>> /\ Take(r, b).bytes = r.bytes \o Meaning(l)
                  /\ ~Complete(l) => Take(r, b).held = l /\ Take(r, b).bytes = r.bytes
<1>. DEFINE l == Append(r.held, b)
<1>1. r.held \in Seq(Byte) /\ r.bytes \in Seq(Int) BY DEF Readings
<1>2. l \in Seq(Byte) BY <1>1
<1>. HIDE DEF l
<1>3. CASE Complete(l)
  <2>1. Meaning(l) \in Seq(Int) BY <1>2, <1>3, MeaningType
  <2>2. Take(r, b) = [held |-> <<>>, bytes |-> r.bytes \o Meaning(l)] BY <1>3 DEF Take, Complete, l
  <2>3. r.bytes \o Meaning(l) \in Seq(Int) BY <1>1, <2>1
  <2>. QED BY <1>1, <1>2, <1>3, <2>2, <2>3, EmptyBytes DEF Readings, l
<1>4. CASE ~Complete(l)
  <2>1. Take(r, b) = [held |-> l, bytes |-> r.bytes] BY <1>4 DEF Take, Complete, l
  <2>. QED BY <1>1, <1>2, <1>4, <2>1 DEF Readings, l
<1>. QED BY <1>3, <1>4

\* Either way it is a reading.
LEMMA TakeType ==
    ASSUME NEW r, NEW b, r \in Readings, b \in Byte
    PROVE  Take(r, b) \in Readings
BY TakeIs

Nothing == [held |-> <<>>, bytes |-> <<>>]
\* The readings of the beginnings of a literal.
ReadThrough(lit, f) ==
    /\ f \in [0..Len(lit) -> Readings] /\ f[0] = Nothing
    /\ \A n \in 1..Len(lit) : f[n] = Take(f[n - 1], lit[n])
    /\ Read(lit) = f[Len(lit)]

\* What Read does, byte by byte.
LEMMA ReadIs ==
    ASSUME NEW lit, lit \in Seq(Byte)
    PROVE  \E f : ReadThrough(lit, f)
<1>. DEFINE N == Len(lit)
            step == [n \in 1..N |-> [w \in Readings |-> Take(w, lit[n])]]
            after[n \in 0..N] == IF n = 0 THEN Nothing ELSE Take(after[n - 1], lit[n])
<1>1. N \in Nat /\ \A n \in 1..N : lit[n] \in Byte BY LenProperties, ByteAt
<1>2. Read(lit) = after[N] BY DEF Read, Nothing
<1>. HIDE DEF N
<1>3. \A n \in 1..N, w \in Readings : step[n][w] = Take(w, lit[n]) OBVIOUS
<1>. HIDE DEF step
<1>4. \A n \in 1..N, w \in Readings : step[n][w] \in Readings
  <2>1. ASSUME NEW n \in 1..N, NEW w \in Readings PROVE step[n][w] \in Readings
    <3>1. lit[n] \in Byte /\ step[n][w] = Take(w, lit[n]) BY <1>1, <1>3
    <3>2. Take(w, lit[n]) \in Readings BY <3>1, TakeType
    <3>. QED BY <3>1, <3>2
  <2>. QED BY <2>1
<1>5. Nothing \in Readings BY EmptyBytes DEF Nothing, Readings
<1>. HIDE DEF Nothing
<1>6. PICK f : Loop(f, N, Readings, Nothing, step)
  <2>1. Closed(N, Readings, Nothing, step) BY <1>1, <1>4, <1>5 DEF Closed
  <2>. QED BY <2>1, Recursion
<1>7. \A n \in 1..N : n - 1 \in 0..N /\ f[n - 1] \in Readings /\ f[n] = Take(f[n - 1], lit[n])
  <2>1. ASSUME NEW n \in 1..N PROVE n - 1 \in 0..N /\ f[n - 1] \in Readings /\ f[n] = Take(f[n - 1], lit[n])
    <3>1. n - 1 \in 0..N BY <1>1
    <3>2. f[n - 1] \in Readings BY <1>6, <3>1 DEF Loop
    <3>. QED BY <1>3, <1>6, <3>1, <3>2 DEF Loop
  <2>. QED BY <2>1
<1>8. f \in [0..N -> Readings] /\ f[0] = Nothing BY <1>6 DEF Loop
<1>9. f = [n \in 0..N |-> IF n = 0 THEN Nothing ELSE Take(f[n - 1], lit[n])]
  <2>1. ASSUME NEW n \in 0..N PROVE f[n] = IF n = 0 THEN Nothing ELSE Take(f[n - 1], lit[n])
    <3>1. CASE n = 0 BY <1>8, <3>1
    <3>2. CASE n # 0
      <4>1. n \in 1..N BY <1>1, <3>2
      <4>. QED BY <1>7, <3>2, <4>1
    <3>. QED BY <3>1, <3>2
  <2>. QED BY <1>8, <2>1
<1>10. after = [n \in 0..N |-> IF n = 0 THEN Nothing ELSE Take(after[n - 1], lit[n])] BY <1>9
<1>. HIDE DEF after
<1>11. \A n \in 0..N : after[n] = IF n = 0 THEN Nothing ELSE Take(after[n - 1], lit[n]) BY <1>10
<1>12. after[0] = Nothing /\ \A n \in 1..N : after[n] = Take(after[n - 1], lit[n]) BY <1>1, <1>11
<1>13. \A n \in 0..N : f[n] = after[n]
  <2>1. ASSUME NEW n \in 1..N, after[n - 1] \in Readings PROVE after[n] = step[n][after[n - 1]] BY <1>3, <1>12, <2>1
  <2>2. Obeys(after, N, Readings, Nothing, step) BY <1>12, <2>1 DEF Obeys
  <2>. QED BY <1>1, <1>6, <2>2, OneLoop
<1>14. f[N] = after[N] BY <1>1, <1>13
<1>15. ReadThrough(lit, f) BY <1>2, <1>7, <1>8, <1>14 DEF ReadThrough, N
<1>. QED BY <1>15

\* One more byte.
LEMMA ReadMore ==
    ASSUME NEW lit, NEW b, lit \in Seq(Byte), b \in Byte
    PROVE  Read(lit) \in Readings /\ Read(Append(lit, b)) = Take(Read(lit), b)
<1>. DEFINE m == Append(lit, b)
            N == Len(lit)
<1>1. /\ m \in Seq(Byte) /\ Len(m) = N + 1 /\ N \in Nat /\ m[N + 1] = b
      /\ \A n \in 1..N : m[n] = lit[n]
  BY AppendProperties, LenProperties
<1>2. PICK f : ReadThrough(lit, f) BY ReadIs
<1>3. PICK g : ReadThrough(m, g) BY <1>1, ReadIs
<1>. HIDE DEF m, N
<1>4. /\ f \in [0..N -> Readings] /\ f[0] = Nothing /\ Read(lit) = f[N]
      /\ \A n \in 1..N : f[n] = Take(f[n - 1], lit[n])
  BY <1>2 DEF ReadThrough, N
<1>5. /\ g[0] = Nothing /\ Read(m) = g[N + 1]
      /\ \A n \in 1..N + 1 : g[n] = Take(g[n - 1], m[n])
  BY <1>1, <1>3 DEF ReadThrough
<1>. DEFINE T == {n \in 0..N : f[n] = g[n]}
<1>6. 0 \in T BY <1>1, <1>4, <1>5
<1>7. ASSUME NEW n \in 0..N, n # N, n \in T PROVE n + 1 \in T
  <2>1. n + 1 \in 1..N /\ n + 1 \in 0..N /\ n + 1 \in 1..N + 1 /\ (n + 1) - 1 = n BY <1>1, <1>7
  <2>2. f[n] = g[n] BY <1>7
  <2>3. f[n + 1] = Take(f[n], lit[n + 1]) BY <1>4, <2>1
  <2>4. g[n + 1] = Take(g[n], m[n + 1]) BY <1>5, <2>1
  <2>5. m[n + 1] = lit[n + 1] BY <1>1, <2>1
  <2>. QED BY <2>1, <2>2, <2>3, <2>4, <2>5
<1>8. T \subseteq 0..N /\ \A n \in 0..N : n # N /\ n \in T => n + 1 \in T BY <1>7
<1>9. N \in T => f[N] = g[N] OBVIOUS
<1>. HIDE DEF T
<1>10. 0..N \subseteq T BY <1>1, <1>6, <1>8, Induction
<1>11. f[N] = g[N] /\ f[N] \in Readings
  <2>1. N \in 0..N BY <1>1
  <2>. QED BY <1>4, <1>9, <1>10, <2>1
<1>12. g[N + 1] = Take(g[N], b)
  <2>1. N + 1 \in 1..N + 1 /\ (N + 1) - 1 = N BY <1>1
  <2>2. g[N + 1] = Take(g[(N + 1) - 1], m[N + 1]) BY <1>5, <2>1
  <2>. QED BY <1>1, <2>1, <2>2
<1>. QED BY <1>4, <1>5, <1>11, <1>12 DEF m

\* What is kept of the beginnings of a text.
KeepOne(omitNull, b, k) == IF omitNull /\ b = 0 THEN k ELSE Append(k, b)
Keeps(omitNull, s, K) ==
    /\ K \in [0..Len(s) -> Seq(Int)] /\ K[0] = <<>>
    /\ \A n \in 1..Len(s) : K[n] = KeepOne(omitNull, s[n], K[n - 1])
    /\ Kept(omitNull, s) = K[Len(s)]

\* A text and perhaps one more.
LEMMA KeepOneIs ==
    ASSUME NEW omitNull, NEW b, NEW k, b \in Int, k \in Seq(Int)
    PROVE  KeepOne(omitNull, b, k) \in Seq(Int)
<1>1. CASE omitNull /\ b = 0
  <2>1. KeepOne(omitNull, b, k) = k BY <1>1 DEF KeepOne
  <2>. QED BY <2>1
<1>2. CASE ~(omitNull /\ b = 0)
  <2>1. KeepOne(omitNull, b, k) = Append(k, b) BY <1>2 DEF KeepOne
  <2>2. Append(k, b) \in Seq(Int) OBVIOUS
  <2>. QED BY ONLY <2>1, <2>2
<1>. QED BY <1>1, <1>2

\* What is kept of a text, byte by byte.
LEMMA KeptIs ==
    ASSUME NEW omitNull, NEW s, s \in Seq(Byte)
    PROVE  \E K : Keeps(omitNull, s, K)
<1>. DEFINE N == Len(s)
            W == Seq(Int)
            step == [n \in 1..N |-> [w \in W |-> KeepOne(omitNull, s[n], w)]]
            upto[n \in 0..N] == IF n = 0 THEN <<>> ELSE KeepOne(omitNull, s[n], upto[n - 1])
<1>1. N \in Nat /\ \A n \in 1..N : s[n] \in Int BY LenProperties, ByteAt
<1>2. Kept(omitNull, s) = upto[N] BY DEF Kept, KeepOne
<1>. HIDE DEF N
<1>3. \A n \in 1..N, w \in W : step[n][w] = KeepOne(omitNull, s[n], w) OBVIOUS
<1>. HIDE DEF step
<1>4. \A n \in 1..N, w \in W : step[n][w] \in W
  <2>1. ASSUME NEW n \in 1..N, NEW w \in W PROVE step[n][w] \in W
    <3>1. s[n] \in Int /\ step[n][w] = KeepOne(omitNull, s[n], w) BY <1>1, <1>3
    <3>2. KeepOne(omitNull, s[n], w) \in W BY <3>1, KeepOneIs
    <3>. QED BY <3>1, <3>2
  <2>. QED BY <2>1
<1>5. <<>> \in W OBVIOUS
<1>. HIDE DEF W
<1>6. PICK f : Loop(f, N, W, <<>>, step)
  <2>1. Closed(N, W, <<>>, step) BY <1>1, <1>4, <1>5 DEF Closed
  <2>. QED BY <2>1, Recursion
<1>7. \A n \in 1..N : n - 1 \in 0..N /\ f[n - 1] \in W /\ f[n] = KeepOne(omitNull, s[n], f[n - 1])
  <2>1. ASSUME NEW n \in 1..N PROVE n - 1 \in 0..N /\ f[n - 1] \in W /\ f[n] = KeepOne(omitNull, s[n], f[n - 1])
    <3>1. n - 1 \in 0..N BY <1>1
    <3>2. f[n - 1] \in W BY <1>6, <3>1 DEF Loop
    <3>. QED BY <1>3, <1>6, <3>1, <3>2 DEF Loop
  <2>. QED BY <2>1
<1>8. f \in [0..N -> W] /\ f[0] = <<>> BY <1>6 DEF Loop
<1>9. f = [n \in 0..N |-> IF n = 0 THEN <<>> ELSE KeepOne(omitNull, s[n], f[n - 1])]
  <2>1. ASSUME NEW n \in 0..N PROVE f[n] = IF n = 0 THEN <<>> ELSE KeepOne(omitNull, s[n], f[n - 1])
    <3>1. CASE n = 0 BY <1>8, <3>1
    <3>2. CASE n # 0
      <4>1. n \in 1..N BY <1>1, <3>2
      <4>. QED BY <1>7, <3>2, <4>1
    <3>. QED BY <3>1, <3>2
  <2>. QED BY <1>8, <2>1
<1>10. upto = [n \in 0..N |-> IF n = 0 THEN <<>> ELSE KeepOne(omitNull, s[n], upto[n - 1])] BY <1>9
<1>. HIDE DEF upto
<1>11. \A n \in 0..N : upto[n] = IF n = 0 THEN <<>> ELSE KeepOne(omitNull, s[n], upto[n - 1]) BY <1>10
<1>12. upto[0] = <<>> /\ \A n \in 1..N : upto[n] = KeepOne(omitNull, s[n], upto[n - 1]) BY <1>1, <1>11
<1>13. \A n \in 0..N : f[n] = upto[n]
  <2>1. ASSUME NEW n \in 1..N, upto[n - 1] \in W PROVE upto[n] = step[n][upto[n - 1]] BY <1>3, <1>12, <2>1
  <2>2. Obeys(upto, N, W, <<>>, step) BY <1>12, <2>1 DEF Obeys
  <2>. QED BY <1>1, <1>6, <2>2, OneLoop
<1>14. f[N] = upto[N] BY <1>1, <1>13
<1>15. Keeps(omitNull, s, f) BY <1>2, <1>7, <1>8, <1>14 DEF Keeps, N, W
<1>. QED BY <1>15

-----------------------------------------------------------------------------
(* A byte or an escape, read from its first byte to its last.                *)

Reads(t, p) == t \in Seq(Byte) /\ Read(t).held = <<>> /\ Read(t).bytes = p
Lexeme(l, m) ==
    /\ l \in Seq(Byte) /\ Len(l) >= 1 /\ Complete(l) /\ Meaning(l) = m
    /\ \A k \in 1..Len(l) - 1 : ~Complete(SubSeq(l, 1, k))

\* The beginnings of a text, each one byte longer than the one before.
LEMMA Beginnings ==
    ASSUME NEW l, l \in Seq(Byte)
    PROVE  /\ \A k \in 0..Len(l) : SubSeq(l, 1, k) \in Seq(Byte) /\ Len(SubSeq(l, 1, k)) = k
           /\ \A k \in 0..Len(l) : \A i \in 1..k : SubSeq(l, 1, k)[i] = l[i]
           /\ SubSeq(l, 1, 0) = <<>> /\ SubSeq(l, 1, Len(l)) = l
           /\ \A k \in 0..Len(l) : k # Len(l) => SubSeq(l, 1, k + 1) = Append(SubSeq(l, 1, k), l[k + 1])
<1>0. Len(l) \in Nat BY LenProperties
<1>1. ASSUME NEW k \in 0..Len(l)
      PROVE  /\ SubSeq(l, 1, k) \in Seq(Byte) /\ Len(SubSeq(l, 1, k)) = k
             /\ \A i \in 1..k : SubSeq(l, 1, k)[i] = l[i]
  <2>1. \A i \in 1..k : i \in 1..Len(l) /\ l[i] \in Byte BY <1>0, ByteAt
  <2>. QED BY <1>0, <2>1
<1>2. SubSeq(l, 1, 0) = <<>> BY <1>0
<1>3. SubSeq(l, 1, Len(l)) = l BY <1>0
<1>4. ASSUME NEW k \in 0..Len(l), k # Len(l)
      PROVE  SubSeq(l, 1, k + 1) = Append(SubSeq(l, 1, k), l[k + 1])
  <2>. DEFINE x == SubSeq(l, 1, k)
              y == SubSeq(l, 1, k + 1)
              b == l[k + 1]
              z == Append(x, b)
  <2>1. k + 1 \in 0..Len(l) /\ k + 1 \in 1..Len(l) /\ k \in Nat BY <1>0, <1>4
  <2>2. x \in Seq(Byte) /\ Len(x) = k /\ \A i \in 1..k : x[i] = l[i] BY <1>1
  <2>3. y \in Seq(Byte) /\ Len(y) = k + 1 /\ \A i \in 1..k + 1 : y[i] = l[i] BY <1>1, <2>1
  <2>4. b \in Byte BY <2>1, ByteAt
  <2>5. y[k + 1] = b BY <2>1, <2>3
  <2>. HIDE DEF x, y, b
  <2>6. z \in Seq(Byte) /\ Len(z) = k + 1 /\ z[k + 1] = b /\ \A i \in 1..k : z[i] = x[i]
    BY <2>2, <2>4, AppendProperties
  <2>. HIDE DEF z
  <2>7. \A i \in 1..k + 1 : y[i] = z[i]
    <3>1. ASSUME NEW i \in 1..k + 1 PROVE y[i] = z[i]
      <4>1. CASE i = k + 1 BY <2>5, <2>6, <4>1
      <4>2. CASE i # k + 1
        <5>1. i \in 1..k BY <2>1, <4>2
        <5>. QED BY <2>2, <2>3, <2>6, <5>1
      <4>. QED BY <4>1, <4>2
    <3>. QED BY <3>1
  <2>8. y = z BY <2>3, <2>6, <2>7, SeqEqual
  <2>. QED BY <2>8 DEF x, y, b, z
<1>. QED BY <1>1, <1>2, <1>3, <1>4

\* y is x and a byte more.
Extended(x, b, y) == x \in Seq(Byte) /\ b \in Byte /\ y = Append(x, b)

\* A byte more stays a byte more behind other bytes.
LEMMA Behind ==
    ASSUME NEW t, NEW x, NEW b, NEW y, t \in Seq(Byte), Extended(x, b, y)
    PROVE  Extended(t \o x, b, t \o y)
<1>1. x \in Seq(Byte) /\ b \in Byte /\ y = Append(x, b) BY DEF Extended
<1>2. t \o Append(x, b) = Append(t \o x, b) /\ t \o x \in Seq(Byte) BY <1>1
<1>. QED BY <1>1, <1>2 DEF Extended

\* TakeIs, of what was held and a byte more.
LEMMA TookOne ==
    ASSUME NEW r, NEW b, NEW y, r \in Readings, Extended(r.held, b, y)
    PROVE  /\ Complete(y) => Take(r, b).held = <<>> /\ Take(r, b).bytes = r.bytes \o Meaning(y)
           /\ ~Complete(y) => Take(r, b).held = y /\ Take(r, b).bytes = r.bytes
<1>1. b \in Byte /\ y = Append(r.held, b) BY DEF Extended
<1>. QED BY <1>1, TakeIs

\* ReadMore, of a text and a byte more.
LEMMA ReadExtended ==
    ASSUME NEW t, NEW b, NEW y, Extended(t, b, y)
    PROVE  Read(t) \in Readings /\ Read(y) = Take(Read(t), b)
BY ReadMore DEF Extended

\* Behind a literal that was read completely, a lexeme is read as what it means.
LEMMA ReadsMore ==
    ASSUME NEW t, NEW p, NEW l, NEW m, Reads(t, p), Lexeme(l, m)
    PROVE  Reads(t \o l, p \o m)
<1>. DEFINE N == Len(l)
            x == [k \in 0..N |-> SubSeq(l, 1, k)]
<1>1. t \in Seq(Byte) /\ l \in Seq(Byte) /\ N \in Nat /\ N >= 1 BY LenProperties DEF Reads, Lexeme
<1>2. /\ \A k \in 0..N : x[k] \in Seq(Byte)
      /\ x[0] = <<>> /\ x[N] = l
  BY <1>1, Beginnings
<1>3. ASSUME NEW k \in 0..N, k # N
      PROVE  k + 1 \in 0..N /\ k + 1 \in 1..N /\ x[k + 1] = Append(x[k], l[k + 1]) /\ l[k + 1] \in Byte
             /\ (k + 1 # N => ~Complete(x[k + 1]))
  <2>1. k + 1 \in 0..N /\ k + 1 \in 1..N BY <1>1, <1>3
  <2>2. SubSeq(l, 1, k + 1) = Append(SubSeq(l, 1, k), l[k + 1]) BY <1>1, <1>3, Beginnings
  <2>3. x[k] = SubSeq(l, 1, k) /\ x[k + 1] = SubSeq(l, 1, k + 1) BY <2>1
  <2>4. l[k + 1] \in Byte BY <1>1, <2>1, ByteAt
  <2>5. k + 1 # N => k + 1 \in 1..N - 1 BY <1>1, <2>1
  <2>. HIDE DEF x
  <2>6. k + 1 # N => ~Complete(x[k + 1]) BY <2>3, <2>5 DEF Lexeme
  <2>. QED BY <2>1, <2>2, <2>3, <2>4, <2>6
<1>4. x[N] = l /\ Complete(l) /\ Meaning(l) = m BY <1>2 DEF Lexeme
<1>. HIDE DEF x, N
\* One more byte of the lexeme.
<1>5. ASSUME NEW k \in 0..N, k # N, Read(t \o x[k]).held = x[k], Read(t \o x[k]).bytes = p
      PROVE  LET r == Read(t \o x[k + 1])
             IN  IF k + 1 = N THEN r.held = <<>> /\ r.bytes = p \o m ELSE r.held = x[k + 1] /\ r.bytes = p
  <2>. DEFINE q == Read(t \o x[k])
              b == l[k + 1]
              r == Take(q, b)
  <2>1. k + 1 \in 0..N /\ Extended(x[k], b, x[k + 1]) BY <1>2, <1>3, <1>5 DEF Extended
  <2>2. Extended(t \o x[k], b, t \o x[k + 1]) BY <1>1, <2>1, Behind
  <2>4. q \in Readings /\ Read(t \o x[k + 1]) = r BY <2>2, ReadExtended
  <2>5. q.held = x[k] /\ q.bytes = p BY <1>5
  <2>. HIDE DEF q, b
  <2>3. Extended(q.held, b, x[k + 1]) BY <2>1, <2>5
  <2>6. /\ Complete(x[k + 1]) => r.held = <<>> /\ r.bytes = p \o Meaning(x[k + 1])
        /\ ~Complete(x[k + 1]) => r.held = x[k + 1] /\ r.bytes = p
    <3>1. /\ Complete(x[k + 1]) => r.held = <<>> /\ r.bytes = q.bytes \o Meaning(x[k + 1])
          /\ ~Complete(x[k + 1]) => r.held = x[k + 1] /\ r.bytes = q.bytes
      BY ONLY <2>3, <2>4, TookOne
    <3>. HIDE DEF r
    <3>. QED BY <2>5, <3>1, Zenon
  <2>. HIDE DEF r
  <2>7. CASE k + 1 = N
    <3>1. x[k + 1] = l BY <1>4, <2>7
    <3>2. r.held = <<>> /\ r.bytes = p \o m BY <1>4, <2>6, <3>1
    <3>. QED BY <2>4, <2>7, <3>2
  <2>8. CASE k + 1 # N
    <3>1. ~Complete(x[k + 1]) BY <1>3, <1>5, <2>8
    <3>2. r.held = x[k + 1] /\ r.bytes = p BY <2>6, <3>1
    <3>. QED BY <2>4, <2>8, <3>2
  <2>. QED BY <2>7, <2>8
<1>. DEFINE P == {k \in 0..N - 1 : Read(t \o x[k]).held = x[k] /\ Read(t \o x[k]).bytes = p}
<1>6. 0 \in P
  <2>1. t \o x[0] = t /\ 0 \in 0..N - 1 BY <1>1, <1>2, ConcatEmptySeq
  <2>2. Read(t).held = x[0] /\ Read(t).bytes = p BY <1>2 DEF Reads
  <2>. QED BY <2>1, <2>2
<1>7. ASSUME NEW k \in 0..N - 1, k # N - 1, k \in P PROVE k + 1 \in P
  <2>1. k \in 0..N /\ k # N /\ k + 1 # N /\ k + 1 \in 0..N - 1 BY <1>1, <1>7
  <2>2. Read(t \o x[k]).held = x[k] /\ Read(t \o x[k]).bytes = p BY <1>7
  <2>. QED BY <1>5, <2>1, <2>2
<1>8. P \subseteq 0..N - 1 /\ \A k \in 0..N - 1 : k # N - 1 /\ k \in P => k + 1 \in P BY <1>7
<1>9. N - 1 \in P => Read(t \o x[N - 1]).held = x[N - 1] /\ Read(t \o x[N - 1]).bytes = p OBVIOUS
<1>. HIDE DEF P
<1>10. N - 1 \in P
  <2>1. N - 1 \in Nat /\ N - 1 \in 0..N - 1 BY <1>1
  <2>2. 0..N - 1 \subseteq P BY <1>6, <1>8, <2>1, Induction
  <2>. QED BY <2>1, <2>2
<1>11. Read(t \o l).held = <<>> /\ Read(t \o l).bytes = p \o m
  <2>1. N - 1 \in 0..N /\ N - 1 # N /\ (N - 1) + 1 = N BY <1>1
  <2>2. Read(t \o x[N - 1]).held = x[N - 1] /\ Read(t \o x[N - 1]).bytes = p BY <1>9, <1>10
  <2>. QED BY <1>4, <1>5, <2>1, <2>2
<1>12. t \o l \in Seq(Byte) BY <1>1, ConcatProperties
<1>. QED BY <1>11, <1>12 DEF Reads

-----------------------------------------------------------------------------
(* The lexemes that are written.                                             *)

\* The beginning of an escape is not one.
LEMMA Unfinished ==
    ASSUME NEW x, NEW n, n \in Nat, Len(x) = n, x[1] = Backslash, n # 2 \/ x[2] = LetterU,
           n # 6 \/ CodeAt(x, 1) \in FirstHalf \cup SecondHalf, n # 12
    PROVE  ~Complete(x)
<1>1. ~Single(x) BY DEF Single, Backslash, Quote
<1>2. ~Lettered(x)
  <2>1. LetterU \notin {Quote, Backslash, Slash} \cup {Short[b] : b \in DOMAIN Short}
    BY ShortIs DEF LetterU, Quote, Backslash, Slash
  <2>. QED BY <2>1 DEF Lettered
<1>3. ~Coded(x) BY DEF Coded
<1>4. ~Paired(x) BY DEF Paired
<1>. QED BY <1>1, <1>2, <1>3, <1>4 DEF Complete

\* A byte that is no quote, backslash or control is a lexeme.
LEMMA SingleLexeme ==
    ASSUME NEW b, b \in Byte, b \notin {Quote, Backslash}, b >= 32 \/ b = 10
    PROVE  Lexeme(<<b>>, <<b>>)
<1>. DEFINE l == <<b>>
<1>1. l \in Seq(Byte) /\ Len(l) = 1 /\ l[1] = b OBVIOUS
<1>. HIDE DEF l
<1>2. Single(l) BY <1>1 DEF Single
<1>3. Complete(l) /\ Meaning(l) = l BY <1>2, MeaningIs DEF Complete
<1>4. \A k \in 1..Len(l) - 1 : FALSE BY <1>1
<1>5. Lexeme(l, l) BY <1>1, <1>3, <1>4 DEF Lexeme
<1>. QED BY <1>5 DEF l

\* So is an escape of one letter.
LEMMA LetterLexeme ==
    ASSUME NEW b, b \in DOMAIN Short \cup {Quote, Backslash, Slash}
    PROVE  Lexeme(Backslashed(b), <<b>>)
<1>. DEFINE x == IF b \in DOMAIN Short THEN Short[b] ELSE b
            l == Backslashed(b)
<1>0. b \in Byte BY ShortIs DEF Quote, Backslash, Slash, Byte
<1>1. x \in {Quote, Backslash, Slash} \cup {Short[c] : c \in DOMAIN Short} /\ Named(x) = b
  <2>1. CASE b \in DOMAIN Short
    <3>1. x = Short[b] BY <2>1
    <3>2. Named(x) = b BY <2>1, <3>1, NamedIs
    <3>. QED BY <2>1, <3>1, <3>2
  <2>2. CASE b \notin DOMAIN Short
    <3>1. x = b /\ b \in {Quote, Backslash, Slash} BY <2>2
    <3>2. Named(x) = b BY <3>1, NamedIs
    <3>. QED BY <3>1, <3>2
  <2>. QED BY <2>1, <2>2
<1>2. l = <<Backslash, x>> BY DEF Backslashed
<1>3. l \in Seq(Byte) /\ Len(l) = 2 /\ l[1] = Backslash BY <1>0, BackslashedIs
<1>. HIDE DEF x
<1>4. l[2] = x BY <1>2
<1>. HIDE DEF l
<1>5. Lettered(l) BY <1>1, <1>3, <1>4 DEF Lettered
<1>6. Complete(l) /\ Meaning(l) = <<b>>
  <2>1. Meaning(l) = <<Named(l[2])>> BY <1>5, MeaningIs
  <2>2. Named(l[2]) = b BY <1>1, <1>4
  <2>3. Meaning(l) = <<b>> BY ONLY <2>1, <2>2, Zenon
  <2>. QED BY <1>5, <2>3 DEF Complete
<1>7. ASSUME NEW k \in 1..Len(l) - 1 PROVE ~Complete(SubSeq(l, 1, k))
  <2>. DEFINE z == SubSeq(l, 1, k)
  <2>1. k = 1 /\ k \in 0..Len(l) /\ 1 \in 1..k BY <1>3
  <2>2. Len(z) = k /\ z[1] = l[1] BY <1>3, <2>1, Beginnings
  <2>. HIDE DEF z
  <2>3. Len(z) = 1 /\ z[1] = Backslash /\ 1 \in Nat /\ 1 # 2 /\ 1 # 6 /\ 1 # 12 BY <1>3, <2>1, <2>2
  <2>4. ~Complete(z) BY <2>3, Unfinished
  <2>. QED BY <2>4 DEF z
<1>8. Len(l) >= 1 BY <1>3
<1>. QED BY <1>3, <1>6, <1>7, <1>8 DEF Lexeme, l

\* An escape of a character begins with one of fewer digits.
Beginning(l, k, x) == l \in Seq(Byte) /\ k \in 1..Len(l) /\ x = SubSeq(l, 1, k)

\* A beginning of a text.
LEMMA BeginningIs ==
    ASSUME NEW l, NEW k, NEW x, Beginning(l, k, x)
    PROVE  k \in Nat /\ Len(x) = k /\ \A i \in 1..k : x[i] = l[i]
<1>1. l \in Seq(Byte) /\ k \in 0..Len(l) /\ x = SubSeq(l, 1, k) BY LenProperties DEF Beginning
<1>. QED BY <1>1, LenProperties, Beginnings

\* The beginnings of an escape by number are not complete.
LEMMA Digited ==
    ASSUME NEW l, NEW k, NEW x, Beginning(l, k, x), CodedAt(l, 1)
    PROVE  /\ l[1] = Backslash /\ l[2] = LetterU /\ x[1] = Backslash
           /\ k # 6 /\ k # 12 => ~Complete(x)
           /\ k = 6 => CodeAt(x, 1) = CodeAt(l, 1)
<1>1. l[1] = Backslash /\ l[2] = LetterU BY DEF CodedAt
<1>2. k \in Nat /\ Len(x) = k /\ \A i \in 1..k : x[i] = l[i] BY BeginningIs
<1>3. k >= 1 BY DEF Beginning
<1>4. x[1] = Backslash /\ (k = 2 => x[2] = LetterU)
  <2>1. 1 \in 1..k /\ (k = 2 => 2 \in 1..k) BY <1>2, <1>3
  <2>. QED BY <1>1, <1>2, <2>1
<1>5. k # 6 /\ k # 12 => ~Complete(x) BY <1>2, <1>4, Unfinished
<1>6. k = 6 => CodeAt(x, 1) = CodeAt(l, 1)
  <2>1. k = 6 => x[3] = l[3] /\ x[4] = l[4] /\ x[5] = l[5] /\ x[6] = l[6] BY <1>2
  <2>. QED BY <2>1 DEF CodeAt
<1>. QED BY <1>1, <1>4, <1>5, <1>6

\* Hex4 writes an escape by number.
LEMMA Hex4Coded ==
    ASSUME NEW code, code \in Nat
    PROVE  CodedAt(Hex4(code), 1)
<1>. DEFINE l == Hex4(code)
<1>1. l[1] = Backslash /\ l[2] = LetterU /\ \A k \in 3..6 : l[k] \in HexDigits BY Hex4Is
<1>. HIDE DEF l
<1>2. \A k \in 2..5 : 1 + k \in 3..6 OBVIOUS
<1>3. \A k \in 2..5 : l[1 + k] \in HexDigits BY <1>1, <1>2
<1>4. l[1 + 1] = LetterU BY <1>1
<1>5. CodedAt(l, 1) BY <1>1, <1>3, <1>4 DEF CodedAt
<1>. QED BY <1>5 DEF l

\* It is a lexeme, unless it is half of a pair.
LEMMA CodeLexeme ==
    ASSUME NEW code, code \in Nat, code < 65536, code \notin FirstHalf \cup SecondHalf
    PROVE  Lexeme(Hex4(code), Utf8(code))
<1>. DEFINE l == Hex4(code)
<1>1. l \in Seq(Byte) /\ Len(l) = 6 /\ CodeAt(l, 1) = code BY Hex4Is
<1>2. CodedAt(l, 1) BY Hex4Coded
<1>. HIDE DEF l
<1>3. Coded(l) BY <1>1, <1>2 DEF Coded
<1>4. Complete(l) /\ Meaning(l) = Utf8(code) BY <1>1, <1>3, MeaningIs DEF Complete
<1>5. Len(l) >= 6 /\ Len(l) >= 1 /\ \A k \in 1..Len(l) - 1 : k \in 1..Len(l) /\ k # 6 /\ k # 12 BY <1>1
<1>6. ASSUME NEW k \in 1..Len(l) - 1 PROVE ~Complete(SubSeq(l, 1, k))
  <2>. DEFINE z == SubSeq(l, 1, k)
  <2>1. Beginning(l, k, z) BY <1>1, <1>5 DEF Beginning
  <2>. HIDE DEF z
  <2>2. ~Complete(z) BY <1>2, <1>5, <2>1, Digited
  <2>. QED BY <2>2 DEF z
<1>. QED BY <1>1, <1>4, <1>5, <1>6 DEF Lexeme, l

\* A number beyond 65535 is split into two halves and joined again.
LEMMA Halves ==
    ASSUME NEW code, NEW x, NEW y, code \in Nat, code > 65535, code < 1114112,
           x = (((code - 65536) \div 1024) % 1024) + 55296,
           y = ((code - 65536) % 1024) + 56320
    PROVE  /\ x \in FirstHalf /\ y \in SecondHalf /\ x \in Nat /\ y \in Nat /\ x < 65536 /\ y < 65536
           /\ Joins(x, y) = code
<1>. DEFINE c == code - 65536
            h == c \div 1024
            r == c % 1024
<1>1. c \in Nat /\ c < 1048576 OBVIOUS
<1>. HIDE DEF c
<1>2. h \in Nat /\ h < 1024 /\ r \in Nat /\ r < 1024 /\ c = h * 1024 + r BY <1>1
<1>3. h % 1024 = h BY <1>2
<1>4. x = h + 55296 /\ y = r + 56320 BY <1>3 DEF c
<1>. HIDE DEF h, r
<1>5. x \in FirstHalf /\ y \in SecondHalf /\ x \in Nat /\ y \in Nat /\ x < 65536 /\ y < 65536
  BY <1>2, <1>4 DEF FirstHalf, SecondHalf
<1>6. Joins(x, y) = 65536 + c BY <1>2, <1>4 DEF Joins
<1>7. 65536 + c = code BY DEF c
<1>. QED BY <1>5, <1>6, <1>7

\* A pair of them is a lexeme.
LEMMA PairLexeme ==
    ASSUME NEW code, code \in Nat, code > 65535, code < 1114112
    PROVE  Lexeme(Unicode(code), Utf8(code))
<1>. DEFINE x == (((code - 65536) \div 1024) % 1024) + 55296
            y == ((code - 65536) % 1024) + 56320
            a == Hex4(x)
            b == Hex4(y)
            l == a \o b
<1>1. Unicode(code) = l BY DEF Unicode
<1>2. x \in FirstHalf /\ y \in SecondHalf /\ x \in Nat /\ y \in Nat /\ x < 65536 /\ y < 65536 /\ Joins(x, y) = code
  BY Halves
<1>. HIDE DEF x, y
<1>3. a \in Seq(Byte) /\ Len(a) = 6 /\ CodeAt(a, 1) = x /\ CodedAt(a, 1)
  <2>1. a \in Seq(Byte) /\ Len(a) = 6 /\ CodeAt(a, 1) = x BY <1>2, Hex4Is
  <2>2. CodedAt(a, 1) BY <1>2, Hex4Coded
  <2>. QED BY <2>1, <2>2
<1>4. b \in Seq(Byte) /\ Len(b) = 6 /\ CodeAt(b, 1) = y /\ CodedAt(b, 1)
  <2>1. b \in Seq(Byte) /\ Len(b) = 6 /\ CodeAt(b, 1) = y BY <1>2, Hex4Is
  <2>2. CodedAt(b, 1) BY <1>2, Hex4Coded
  <2>. QED BY <2>1, <2>2
<1>. HIDE DEF a, b
<1>5. /\ l \in Seq(Byte) /\ Len(l) = 12
      /\ \A i \in 1..6 : l[i] = a[i] /\ l[6 + i] = b[i]
  <2>1. /\ l \in Seq(Byte) /\ Len(l) = Len(a) + Len(b)
        /\ \A i \in 1..Len(a) : l[i] = a[i]
        /\ \A i \in 1..Len(b) : l[Len(a) + i] = b[i]
    <3>1. a \in Seq(Byte) /\ b \in Seq(Byte) BY <1>3, <1>4
    <3>. QED BY ONLY <3>1, Joined
  <2>. QED BY <1>3, <1>4, <2>1
<1>. HIDE DEF l
<1>6. /\ l[1] = a[1] /\ l[2] = a[2] /\ l[3] = a[3] /\ l[4] = a[4] /\ l[5] = a[5] /\ l[6] = a[6]
      /\ l[7] = b[1] /\ l[8] = b[2] /\ l[9] = b[3] /\ l[10] = b[4] /\ l[11] = b[5] /\ l[12] = b[6]
  <2>1. \A i \in {1, 2, 3, 4, 5, 6} : l[i] = a[i] /\ l[6 + i] = b[i] BY <1>5
  <2>. QED BY <2>1
<1>7. CodeAt(l, 1) = x /\ CodeAt(l, 7) = y BY <1>3, <1>4, <1>6 DEF CodeAt
<1>8. CodedAt(l, 1)
  <2>1. \A k \in 2..5 : 1 + k \in 1..6 OBVIOUS
  <2>2. \A k \in 2..5 : l[1 + k] = a[1 + k] BY <1>5, <2>1
  <2>3. a[1] = Backslash /\ a[1 + 1] = LetterU /\ \A k \in 2..5 : a[1 + k] \in HexDigits BY <1>3 DEF CodedAt
  <2>4. l[1] = Backslash /\ l[1 + 1] = LetterU BY <1>6, <2>3
  <2>. QED BY <2>2, <2>3, <2>4 DEF CodedAt
<1>9. CodedAt(l, 7)
  <2>1. \A k \in 2..5 : 1 + k \in 1..6 /\ 6 + (1 + k) = 7 + k OBVIOUS
  <2>2. \A k \in 2..5 : l[7 + k] = b[1 + k] BY <1>5, <2>1
  <2>3. b[1] = Backslash /\ b[1 + 1] = LetterU /\ \A k \in 2..5 : b[1 + k] \in HexDigits BY <1>4 DEF CodedAt
  <2>4. l[7] = Backslash /\ l[7 + 1] = LetterU BY <1>6, <2>3
  <2>. QED BY <2>2, <2>3, <2>4 DEF CodedAt
<1>10. Paired(l) BY <1>2, <1>5, <1>7, <1>8, <1>9 DEF Paired
<1>11. Complete(l) /\ Meaning(l) = Utf8(code) BY <1>2, <1>7, <1>10, MeaningIs DEF Complete
<1>12. Len(l) >= 6 /\ Len(l) >= 1 /\ \A k \in 1..Len(l) - 1 : k \in 1..Len(l) /\ k # 12 BY <1>5
<1>13. ASSUME NEW k \in 1..Len(l) - 1 PROVE ~Complete(SubSeq(l, 1, k))
  <2>. DEFINE z == SubSeq(l, 1, k)
  <2>1. Beginning(l, k, z) BY <1>5, <1>12 DEF Beginning
  <2>. HIDE DEF z
  <2>2. k # 12 /\ k \in Nat /\ Len(z) = k BY <1>12, <2>1, BeginningIs
  <2>3. z[1] = Backslash /\ (k # 6 => ~Complete(z)) /\ (k = 6 => CodeAt(z, 1) = CodeAt(l, 1)) BY <1>8, <2>1, <2>2, Digited
  <2>4. k = 6 => CodeAt(z, 1) \in FirstHalf \cup SecondHalf BY <1>2, <1>7, <2>3
  <2>5. ASSUME k = 6 PROVE ~Complete(z)
    <3>1. k \in Nat /\ k # 2 /\ k # 12 /\ Len(z) = k /\ z[1] = Backslash BY <2>2, <2>3, <2>5
    <3>2. CodeAt(z, 1) \in FirstHalf \cup SecondHalf BY <2>4, <2>5
    <3>. QED BY ONLY <3>1, <3>2, Unfinished
  <2>6. ~Complete(z) BY <2>3, <2>5
  <2>. QED BY <2>6 DEF z
<1>14. Lexeme(l, Utf8(code)) BY <1>5, <1>11, <1>12, <1>13 DEF Lexeme
<1>. QED BY <1>1, <1>14

\* Unicode writes a lexeme that means the character, unless its number is that of a half.
LEMMA UnicodeLexeme ==
    ASSUME NEW code, code \in Nat, code < 1114112, code \notin FirstHalf \cup SecondHalf
    PROVE  Lexeme(Unicode(code), Utf8(code))
<1>1. CASE code > 65535 BY <1>1, PairLexeme
<1>2. CASE ~(code > 65535)
  <2>1. Unicode(code) = Hex4(code) /\ code < 65536 BY <1>2 DEF Unicode
  <2>. QED BY <2>1, CodeLexeme
<1>. QED BY <1>1, <1>2

-----------------------------------------------------------------------------
(* The bytes of a character are those of its number.                         *)

\* A number, and its digits to the base of 64.
Two(a, b, code)         == a \in Nat /\ b \in 0..63 /\ code = a * 64 + b
Three(a, b, c, code)    == a \in Nat /\ b \in 0..63 /\ c \in 0..63 /\ code = a * 4096 + b * 64 + c
Four(a, b, c, d, code)  ==
    a \in Nat /\ b \in 0..63 /\ c \in 0..63 /\ d \in 0..63 /\ code = a * 262144 + b * 4096 + c * 64 + d

\* Its last digit,
LEMMA TwoDigits ==
    ASSUME NEW a, NEW b, NEW code, Two(a, b, code)
    PROVE  code \in Nat /\ code \div 64 = a /\ code % 64 = b
BY DEF Two

\* its last two,
LEMMA ThreeDigits ==
    ASSUME NEW a, NEW b, NEW c, NEW code, Three(a, b, c, code)
    PROVE  code \in Nat /\ code \div 4096 = a /\ (code \div 64) % 64 = b /\ code % 64 = c
<1>. DEFINE m == a * 64 + b
<1>1. Two(a, b, m) /\ Two(m, c, code) BY DEF Two, Three
<1>3. code \in Nat /\ code \div 4096 = a BY DEF Three
<1>. HIDE DEF m
<1>2. m % 64 = b BY <1>1, TwoDigits
<1>4. code \div 64 = m /\ code % 64 = c BY <1>1, TwoDigits
<1>. QED BY ONLY <1>2, <1>3, <1>4

\* and its last three.
LEMMA FourDigits ==
    ASSUME NEW a, NEW b, NEW c, NEW d, NEW code, Four(a, b, c, d, code)
    PROVE  code \in Nat /\ code \div 262144 = a /\ (code \div 4096) % 64 = b /\ (code \div 64) % 64 = c /\ code % 64 = d
<1>. DEFINE m == a * 64 + b
<1>1. Two(a, b, m) /\ Three(m, c, d, code) BY DEF Two, Three, Four
<1>3. code \in Nat /\ code \div 262144 = a BY DEF Four
<1>. HIDE DEF m
<1>2. m % 64 = b BY <1>1, TwoDigits
<1>4. code \div 4096 = m /\ (code \div 64) % 64 = c /\ code % 64 = d BY <1>1, ThreeDigits
<1>. QED BY ONLY <1>2, <1>3, <1>4

\* The first bytes of the characters of UTF-8, and the others.
OfTwo(b, x, code)         == b \in 194..223 /\ x \in 128..191 /\ code = (b - 192) * 64 + (x - 128)
OfThree(b, x, y, code)    ==
    /\ b \in 224..239 /\ x \in 128..191 /\ y \in 128..191
    /\ b = 224 => x >= 160
    /\ b = 237 => x < 160
    /\ code = (b - 224) * 4096 + (x - 128) * 64 + (y - 128)
OfFour(b, x, y, z, code)  ==
    /\ b \in 240..244 /\ x \in 128..191 /\ y \in 128..191 /\ z \in 128..191
    /\ b = 240 => x >= 144
    /\ b = 244 => x < 144
    /\ code = (b - 240) * 262144 + (x - 128) * 4096 + (y - 128) * 64 + (z - 128)
Character8(code, m) ==
    code \in Nat /\ code < 1114112 /\ code \notin FirstHalf \cup SecondHalf /\ Utf8(code) = m

\* The members of an interval.
LEMMA Between ==
    ASSUME NEW a, NEW b, NEW c, NEW S, a \in Int, b \in Int, S = a..b
    PROVE  /\ c \in S => c >= a /\ c <= b
           /\ c \in Int /\ c >= a /\ c <= b => c \in S
OBVIOUS

\* The numbers of the halves.
LEMMA HalvesAre ==
    ASSUME NEW code, code \in FirstHalf \cup SecondHalf
    PROVE  code >= 55296 /\ code <= 57343
<1>. DEFINE a == 55296
            b == 56319
            c == 56320
            d == 57343
<1>1. FirstHalf = a..b /\ SecondHalf = c..d BY SMT DEF FirstHalf, SecondHalf
<1>2. a \in Int /\ b \in Int /\ c \in Int /\ d \in Int /\ a <= c /\ b <= d OBVIOUS
<1>. HIDE DEF a, b, c, d
<1>3. code \in FirstHalf => code >= a /\ code <= b BY <1>1, <1>2, Between
<1>4. code \in SecondHalf => code >= c /\ code <= d BY <1>1, <1>2, Between
<1>5. code \in Int BY <1>1, <1>2
<1>6. code >= a /\ code <= d BY <1>2, <1>3, <1>4, <1>5
<1>. QED BY <1>6 DEF a, d

\* The bytes of a character are those of its number: of two bytes,
LEMMA TwoCode ==
    ASSUME NEW b, NEW x, NEW code, OfTwo(b, x, code)
    PROVE  Character8(code, <<b, x>>)
<1>1. Two(b - 192, x - 128, code) BY DEF OfTwo, Two
<1>2. code \div 64 = b - 192 /\ code % 64 = x - 128 BY <1>1, TwoDigits
<1>3. code \in Nat /\ code >= 128 /\ code < 2048 BY DEF OfTwo
<1>4. 192 + (code \div 64) = b /\ 128 + (code % 64) = x
  <2>1. b \in Int /\ x \in Int BY DEF OfTwo
  <2>. QED BY ONLY <1>2, <2>1
<1>5. Utf8(code) = <<192 + (code \div 64), 128 + (code % 64)>> BY <1>3, Utf8Of
<1>6. Utf8(code) = <<b, x>>
  <2>. DEFINE p == 192 + (code \div 64)
              q == 128 + (code % 64)
  <2>1. p = b /\ q = x BY <1>4
  <2>2. Utf8(code) = <<p, q>> BY <1>5
  <2>. HIDE DEF p, q
  <2>. QED BY ONLY <2>1, <2>2, Zenon
<1>7. code < 1114112 /\ code \notin FirstHalf \cup SecondHalf BY <1>3, HalvesAre
<1>. QED BY <1>3, <1>6, <1>7 DEF Character8

\* of three,
LEMMA ThreeCode ==
    ASSUME NEW b, NEW x, NEW y, NEW code, OfThree(b, x, y, code)
    PROVE  Character8(code, <<b, x, y>>)
<1>1. Three(b - 224, x - 128, y - 128, code) BY DEF OfThree, Three
<1>2. code \div 4096 = b - 224 /\ (code \div 64) % 64 = x - 128 /\ code % 64 = y - 128 BY <1>1, ThreeDigits
<1>3. code \in Nat /\ code >= 2048 /\ code < 65536 BY DEF OfThree
<1>4. 224 + (code \div 4096) = b /\ 128 + ((code \div 64) % 64) = x /\ 128 + (code % 64) = y
  <2>1. b \in Int /\ x \in Int /\ y \in Int BY DEF OfThree
  <2>. QED BY ONLY <1>2, <2>1
<1>5. Utf8(code) = <<224 + (code \div 4096), 128 + ((code \div 64) % 64), 128 + (code % 64)>> BY <1>3, Utf8Of
<1>6. Utf8(code) = <<b, x, y>>
  <2>. DEFINE p == 224 + (code \div 4096)
              q == 128 + ((code \div 64) % 64)
              r == 128 + (code % 64)
  <2>1. p = b /\ q = x /\ r = y BY <1>4
  <2>2. Utf8(code) = <<p, q, r>> BY <1>5
  <2>. HIDE DEF p, q, r
  <2>. QED BY ONLY <2>1, <2>2, Zenon
<1>7. code < 55296 \/ code > 57343 BY DEF OfThree
<1>8. code < 1114112 /\ code \notin FirstHalf \cup SecondHalf BY <1>3, <1>7, HalvesAre
<1>. QED BY <1>3, <1>6, <1>8 DEF Character8

\* and of four.
LEMMA FourCode ==
    ASSUME NEW b, NEW x, NEW y, NEW z, NEW code, OfFour(b, x, y, z, code)
    PROVE  Character8(code, <<b, x, y, z>>)
<1>1. Four(b - 240, x - 128, y - 128, z - 128, code) BY DEF OfFour, Four
<1>2. code \div 262144 = b - 240 /\ (code \div 4096) % 64 = x - 128 /\ (code \div 64) % 64 = y - 128 /\ code % 64 = z - 128
  BY <1>1, FourDigits
<1>3. code \in Nat /\ code >= 65536 /\ code < 1114112 BY DEF OfFour
<1>4. 240 + (code \div 262144) = b /\ 128 + ((code \div 4096) % 64) = x /\ 128 + ((code \div 64) % 64) = y /\ 128 + (code % 64) = z
  <2>1. b \in Int /\ x \in Int /\ y \in Int /\ z \in Int BY DEF OfFour
  <2>. QED BY ONLY <1>2, <2>1
<1>5. Utf8(code) = <<240 + (code \div 262144), 128 + ((code \div 4096) % 64), 128 + ((code \div 64) % 64), 128 + (code % 64)>>
  BY <1>3, Utf8Of
<1>6. Utf8(code) = <<b, x, y, z>>
  <2>. DEFINE p == 240 + (code \div 262144)
              q == 128 + ((code \div 4096) % 64)
              r == 128 + ((code \div 64) % 64)
              t == 128 + (code % 64)
  <2>1. p = b /\ q = x /\ r = y /\ t = z BY <1>4
  <2>2. Utf8(code) = <<p, q, r, t>> BY <1>5
  <2>. HIDE DEF p, q, r, t
  <2>. QED BY ONLY <2>1, <2>2, Zenon
<1>7. code \notin FirstHalf \cup SecondHalf BY <1>3, HalvesAre
<1>. QED BY <1>3, <1>6, <1>7 DEF Character8

Adds(code, b, v) == code \in Nat /\ b \in 128..191 /\ v = More(code, b)

\* MoreIs, of one byte more.
LEMMA AddsIs ==
    ASSUME NEW code, NEW b, NEW v, Adds(code, b, v)
    PROVE  v = (code * 64) + (b - 128) /\ v \in Nat
<1>1. code \in Nat /\ b \in 128..191 /\ v = More(code, b) BY DEF Adds
<1>2. More(code, b) = (code * 64) + (b - 128) /\ More(code, b) \in Nat BY <1>1, MoreIs
<1>. QED BY <1>1, <1>2

\* The first byte of a character of UTF-8.
LEMMA FirstByte ==
    ASSUME NEW b, b \in 194..244
    PROVE  /\ Follows(b) \in 1..3 /\ FirstBits(b) \in Nat
           /\ Follows(b) = 1 => b \in 194..223 /\ FirstBits(b) = b - 192
           /\ Follows(b) = 2 => b \in 224..239 /\ FirstBits(b) = b - 224
           /\ Follows(b) = 3 => b \in 240..244 /\ FirstBits(b) = b - 240
<1>1. b \in 194..223 \/ b \in 224..239 \/ b \in 240..244 OBVIOUS
<1>. QED BY <1>1 DEF Follows, FirstBits

\* The bytes of the character at s[i].
CharBytes(s, i, m) ==
    \/ Follows(s[i]) = 1 /\ m = <<s[i], s[i + 1]>>
    \/ Follows(s[i]) = 2 /\ m = <<s[i], s[i + 1], s[i + 2]>>
    \/ Follows(s[i]) = 3 /\ m = <<s[i], s[i + 1], s[i + 2], s[i + 3]>>

\* The others.
LEMMA Followers ==
    ASSUME NEW s, NEW i, s \in Seq(Byte), i \in 1..Len(s), WholeChar(s, i)
    PROVE  \A k \in 1..Follows(s[i]) : i + k \in 1..Len(s) /\ s[i + k] \in 128..191 /\ s[i + k] \in Nat
<1>. DEFINE n == Follows(s[i])
<1>1. n \in 1..5 /\ \A k \in i + 1..i + n : k \in 1..Len(s) /\ s[k] \in 128..191 BY WholeCharIs
<1>. HIDE DEF n
<1>2. ASSUME NEW k \in 1..n PROVE i + k \in 1..Len(s) /\ s[i + k] \in 128..191 /\ s[i + k] \in Nat
  <2>. DEFINE j == i + k
  <2>1. j \in i + 1..i + n BY <1>1
  <2>. HIDE DEF j
  <2>2. j \in 1..Len(s) /\ s[j] \in 128..191 BY <1>1, <2>1
  <2>3. s[j] \in Nat BY <2>2, ByteAt
  <2>. QED BY <2>2, <2>3 DEF j
<1>. QED BY <1>2 DEF n

\* A character that is written in the shortest way is the one its number says, and no half.
LEMMA CharCode ==
    ASSUME NEW s, NEW i, s \in Seq(Byte), i \in 1..Len(s), WholeChar(s, i), Shortest(s, i), s[i] \in 194..244
    PROVE  \E m : Character8(CodeOf(s, i), m) /\ CharBytes(s, i, m)
<1>. DEFINE b == s[i]
            x == s[i + 1]
            y == s[i + 2]
            z == s[i + 3]
            n == Follows(b)
            code == CodeOf(s, i)
            first == FirstBits(b)
<1>1. b \in Nat /\ b \in Byte
  <2>1. i \in 1..Len(s) /\ s \in Seq(Byte) OBVIOUS
  <2>. QED BY ONLY <2>1, ByteAt
<1>2. n \in 1..5 /\ b \in 192..253 BY WholeCharIs
<1>5. \A k \in 1..n : i + k \in 1..Len(s) /\ s[i + k] \in 128..191 /\ s[i + k] \in Nat BY Followers
<1>6. At(s, i + 1) = x
  <2>1. i + 1 \in 1..Len(s) BY <1>2, <1>5
  <2>. QED BY <2>1, ByteAt
<1>7. /\ b = 224 => x >= 160
      /\ b = 237 => x < 160
      /\ b = 240 => x >= 144
      /\ b = 244 => x < 144
  BY <1>6 DEF Shortest
<1>8. /\ n = 1 => code = More(first, x)
      /\ n = 2 => code = More(More(first, x), y)
      /\ n = 3 => code = More(More(More(first, x), y), z)
  BY CodeOfShort
<1>9. /\ n \in 1..3 /\ first \in Nat
      /\ n = 1 => b \in 194..223 /\ first = b - 192
      /\ n = 2 => b \in 224..239 /\ first = b - 224
      /\ n = 3 => b \in 240..244 /\ first = b - 240
  <2>1. b \in 194..244 OBVIOUS
  <2>. HIDE DEF b
  <2>. QED BY ONLY <2>1, FirstByte
<1>. HIDE DEF b, n, code, first
<1>10. 1 \in 1..n /\ (n = 2 => 2 \in 1..n) /\ (n = 3 => 2 \in 1..n /\ 3 \in 1..n) BY <1>9
<1>11. /\ x \in 128..191
       /\ n = 2 => y \in 128..191
       /\ n = 3 => y \in 128..191 /\ z \in 128..191
  <2>1. \A k \in 1..n : s[i + k] \in 128..191 BY <1>5
  <2>. QED BY <1>10, <2>1
<1>. HIDE DEF x, y, z
<1>. DEFINE p == More(first, x)
            q == More(p, y)
<1>12. p = first * 64 + (x - 128) /\ p \in Nat
  <2>1. Adds(first, x, p) BY <1>9, <1>11 DEF Adds
  <2>. HIDE DEF p
  <2>. QED BY ONLY <2>1, AddsIs
<1>. HIDE DEF p
<1>13. n # 1 => q = p * 64 + (y - 128) /\ q \in Nat
  <2>1. n # 1 => Adds(p, y, q) BY <1>9, <1>11, <1>12 DEF Adds
  <2>. HIDE DEF q
  <2>. QED BY ONLY <2>1, AddsIs
<1>. HIDE DEF q
<1>14. n = 3 => More(q, z) = q * 64 + (z - 128)
  <2>1. ASSUME n = 3 PROVE More(q, z) = q * 64 + (z - 128)
    <3>1. Adds(q, z, More(q, z)) BY <1>11, <1>13, <2>1 DEF Adds
    <3>. QED BY ONLY <3>1, AddsIs
  <2>. QED BY <2>1
<1>15. CASE n = 1
  <2>1. b \in 194..223 /\ first = b - 192 BY <1>9, <1>15
  <2>2. code = first * 64 + (x - 128) BY <1>8, <1>12, <1>15 DEF p
  <2>3. OfTwo(b, x, code) BY <1>11, <2>1, <2>2 DEF OfTwo
  <2>4. Character8(code, <<b, x>>) BY <2>3, TwoCode
  <2>5. CharBytes(s, i, <<b, x>>) BY <1>15 DEF CharBytes, n, b, x
  <2>. QED BY <2>4, <2>5 DEF code
<1>16. CASE n = 2
  <2>1. b \in 224..239 /\ first = b - 224 /\ x \in 128..191 /\ y \in 128..191 BY <1>9, <1>11, <1>16
  <2>2. code = p * 64 + (y - 128) /\ p = first * 64 + (x - 128) BY <1>8, <1>12, <1>13, <1>16 DEF p, q
  <2>3. code = (b - 224) * 4096 + (x - 128) * 64 + (y - 128) BY ONLY <2>1, <2>2
  <2>4. OfThree(b, x, y, code) BY <1>7, <2>1, <2>3 DEF OfThree
  <2>5. Character8(code, <<b, x, y>>) BY <2>4, ThreeCode
  <2>6. CharBytes(s, i, <<b, x, y>>) BY <1>16 DEF CharBytes, n, b, x, y
  <2>. QED BY <2>5, <2>6 DEF code
<1>17. CASE n = 3
  <2>1. b \in 240..244 /\ first = b - 240 /\ x \in 128..191 /\ y \in 128..191 /\ z \in 128..191 BY <1>9, <1>11, <1>17
  <2>2. code = q * 64 + (z - 128) /\ q = p * 64 + (y - 128) /\ p = first * 64 + (x - 128)
    BY <1>8, <1>12, <1>13, <1>14, <1>17 DEF p, q
  <2>3. code = (b - 240) * 262144 + (x - 128) * 4096 + (y - 128) * 64 + (z - 128) BY ONLY <2>1, <2>2
  <2>4. OfFour(b, x, y, z, code) BY <1>7, <2>1, <2>3 DEF OfFour
  <2>5. Character8(code, <<b, x, y, z>>) BY <2>4, FourCode
  <2>6. CharBytes(s, i, <<b, x, y, z>>) BY <1>17 DEF CharBytes, n, b, x, y, z
  <2>. QED BY <2>5, <2>6 DEF code
<1>. QED BY <1>9, <1>15, <1>16, <1>17

-----------------------------------------------------------------------------
(* What the reader makes of what is written: the text so far.                *)

\* Bytes that are kept, one after the other.
KeptAt(omitNull, s, K, i) == Keeps(omitNull, s, K) /\ s \in Seq(Byte) /\ i \in 1..Len(s) /\ ~(omitNull /\ s[i] = 0)

\* A byte that is not left out is kept.
LEMMA KeepsByte ==
    ASSUME NEW omitNull, NEW s, NEW K, NEW i, KeptAt(omitNull, s, K, i)
    PROVE  K[i] = K[i - 1] \o <<s[i]>> /\ K[i - 1] \in Seq(Int) /\ K[i] \in Seq(Int)
<1>1. s \in Seq(Byte) /\ i \in 1..Len(s) BY DEF KeptAt
<1>2. s[i] \in Int BY <1>1, ByteAt
<1>3. i - 1 \in 0..Len(s) /\ i \in 0..Len(s) BY <1>1, LenProperties
<1>4. K[i - 1] \in Seq(Int) /\ K[i] \in Seq(Int) BY <1>3 DEF KeptAt, Keeps
<1>5. K[i] = KeepOne(omitNull, s[i], K[i - 1]) BY <1>1 DEF KeptAt, Keeps
<1>6. K[i] = Append(K[i - 1], s[i]) BY <1>5 DEF KeptAt, KeepOne
<1>. DEFINE k == K[i - 1]
            b == s[i]
<1>. HIDE DEF k, b
<1>7. k \in Seq(Int) /\ b \in Int BY <1>2, <1>4 DEF k, b
<1>8. Append(k, b) = k \o <<b>> BY ONLY <1>7, AppendIsConcat
<1>. QED BY <1>4, <1>6, <1>8 DEF k, b

\* Three sequences of integers, to be put together.
Sequenced(a, b, c) == a \in Seq(Int) /\ b \in Seq(Int) /\ c \in Seq(Int)

\* On Int the theorem of the library needs its set to be a name.
LEMMA Regroup ==
    ASSUME NEW a, NEW b, NEW c, Sequenced(a, b, c)
    PROVE  (a \o b) \o c = a \o (b \o c)
<1>. DEFINE ints == Int
<1>1. a \in Seq(ints) /\ b \in Seq(ints) /\ c \in Seq(ints) BY DEF Sequenced
<1>. HIDE DEF ints
<1>. QED BY ONLY <1>1, ConcatAssociative

\* m is l with x after it.
OneMore(l, x, m) ==
    /\ l \in Seq(Int) /\ x \in Int /\ m \in Seq(Int)
    /\ Len(m) = Len(l) + 1 /\ m[Len(m)] = x
    /\ \A i \in 1..Len(l) : m[i] = l[i]

\* One more number behind two sequences.
LEMMA OneMoreIs ==
    ASSUME NEW k, NEW l, NEW x, NEW m, k \in Seq(Int), OneMore(l, x, m)
    PROVE  (k \o l) \o <<x>> = k \o m
<1>. DEFINE y == Append(l, x)
            z == <<x>>
<1>0. l \in Seq(Int) /\ x \in Int /\ m \in Seq(Int) /\ Len(m) = Len(l) + 1 /\ m[Len(m)] = x /\ \A i \in 1..Len(l) : m[i] = l[i]
  BY DEF OneMore
<1>1. y \in Seq(Int) /\ Len(y) = Len(l) + 1 /\ y[Len(l) + 1] = x /\ (\A i \in 1..Len(l) : y[i] = l[i]) /\ Len(l) \in Nat
  BY <1>0, AppendProperties, LenProperties
<1>2. y = l \o z BY <1>0, AppendIsConcat
<1>3. Sequenced(k, l, z) BY <1>0 DEF Sequenced
<1>. HIDE DEF y, z
<1>4. ASSUME NEW i \in 1..Len(y) PROVE y[i] = m[i]
  <2>1. i \in 1..Len(l) \/ i = Len(l) + 1 BY <1>1
  <2>. QED BY <1>0, <1>1, <2>1
<1>5. y = m BY <1>0, <1>1, <1>4, SeqEqual
<1>6. (k \o l) \o z = k \o (l \o z) BY ONLY <1>3, Regroup
<1>7. (k \o l) \o z = k \o m BY ONLY <1>2, <1>5, <1>6, Zenon
<1>. QED BY <1>7 DEF z

\* A sequence of integers and three integers to go after it.
Row(k, a, b, c) == k \in Seq(Int) /\ a \in Int /\ b \in Int /\ c \in Int

\* A sequence with two numbers behind it,
LEMMA JoinedTwo ==
    ASSUME NEW k, NEW a, NEW b, NEW c, Row(k, a, b, c)
    PROVE  (k \o <<a>>) \o <<b>> = k \o <<a, b>>
<1>. DEFINE l == <<a>>
            m == <<a, b>>
<1>1. l \in Seq(Int) /\ m \in Seq(Int) /\ Len(l) = 1 /\ Len(m) = 2 /\ l[1] = a /\ m[1] = a /\ m[2] = b BY DEF Row
<1>. HIDE DEF l, m
<1>2. OneMore(l, b, m) BY <1>1 DEF OneMore, Row
<1>3. (k \o l) \o <<b>> = k \o m BY <1>2, OneMoreIs DEF Row
<1>. QED BY <1>3 DEF l, m

\* and with three.
LEMMA JoinedThree ==
    ASSUME NEW k, NEW a, NEW b, NEW c, Row(k, a, b, c)
    PROVE  (k \o <<a, b>>) \o <<c>> = k \o <<a, b, c>>
<1>. DEFINE l == <<a, b>>
            m == <<a, b, c>>
<1>1. l \in Seq(Int) /\ m \in Seq(Int) /\ Len(l) = 2 /\ Len(m) = 3 /\ l[1] = a /\ m[1] = a /\ l[2] = b /\ m[2] = b /\ m[3] = c
  BY DEF Row
<1>2. \A i \in 1..2 : i = 1 \/ i = 2 OBVIOUS
<1>. HIDE DEF l, m
<1>3. OneMore(l, c, m) BY <1>1, <1>2 DEF OneMore, Row
<1>4. (k \o l) \o <<c>> = k \o m BY <1>3, OneMoreIs DEF Row
<1>. QED BY <1>4 DEF l, m

-----------------------------------------------------------------------------
(* What is written is read as the text so far.                               *)

\* The whole character at i, and what is kept of each prefix of the text.
KeptChar(omitNull, s, K, i) == Keeps(omitNull, s, K) /\ s \in Seq(Byte) /\ i \in 1..Len(s) /\ WholeChar(s, i)

\* A character is kept, with all of its bytes.
LEMMA KeepsChar ==
    ASSUME NEW omitNull, NEW s, NEW K, NEW i, NEW m, KeptChar(omitNull, s, K, i), CharBytes(s, i, m)
    PROVE  /\ i + Follows(s[i]) \in 1..Len(s) /\ K[i - 1] \in Seq(Int)
           /\ K[i + Follows(s[i])] = K[i - 1] \o m
<1>. DEFINE n == Follows(s[i])
            b == s[i]
            x == s[i + 1]
            y == s[i + 2]
            z == s[i + 3]
            k == K[i - 1]
<1>0. Keeps(omitNull, s, K) /\ s \in Seq(Byte) /\ i \in 1..Len(s) /\ WholeChar(s, i) BY DEF KeptChar
<1>1. n \in 1..5 /\ b \in 192..253 BY <1>0, WholeCharIs
<1>2. \A h \in 1..n : i + h \in 1..Len(s) /\ s[i + h] \in 128..191 /\ s[i + h] \in Nat BY <1>0, Followers
<1>3. n \in {1, 2, 3} BY DEF CharBytes
<1>4. b \in Int /\ b # 0
  <2>1. s \in Seq(Byte) /\ i \in 1..Len(s) BY <1>0
  <2>2. b \in Nat BY ONLY <2>1, ByteAt
  <2>. HIDE DEF b
  <2>. QED BY ONLY <2>2, <1>1
<1>5. K[i] = k \o <<b>> /\ k \in Seq(Int)
  <2>2. KeptAt(omitNull, s, K, i) BY <1>0, <1>4 DEF KeptAt
  <2>. QED BY ONLY <2>2, KeepsByte
<1>. HIDE DEF n, k
<1>6. ASSUME NEW h \in 1..n PROVE K[i + h] = K[(i + h) - 1] \o <<s[i + h]>> /\ s[i + h] \in Int
  <2>. DEFINE j == i + h
  <2>1. j \in 1..Len(s) /\ s[j] \in 128..191 /\ s[j] \in Nat BY <1>2
  <2>. HIDE DEF j
  <2>2. s[j] # 0
    <3>. DEFINE c == s[j]
    <3>1. c \in 128..191 /\ c \in Nat BY <2>1
    <3>. HIDE DEF c
    <3>2. c # 0 BY ONLY <3>1
    <3>. QED BY <3>2 DEF c
  <2>3. KeptAt(omitNull, s, K, j) BY <1>0, <2>1, <2>2 DEF KeptAt
  <2>4. K[j] = K[j - 1] \o <<s[j]>> BY ONLY <2>3, KeepsByte
  <2>. QED BY <2>1, <2>4 DEF j
<1>7. (i + 1) - 1 = i /\ (i + 2) - 1 = i + 1 /\ (i + 3) - 1 = i + 2
  <2>1. i \in Int BY <1>0
  <2>. HIDE DEF b, x, y, z
  <2>. QED BY ONLY <2>1
<1>8. K[i + 1] = K[i] \o <<x>> /\ x \in Int
  <2>1. 1 \in 1..n BY <1>3
  <2>2. K[i + 1] = K[(i + 1) - 1] \o <<x>> /\ x \in Int BY <1>6, <2>1
  <2>. QED BY <1>7, <2>2
<1>9. n # 1 => K[i + 2] = K[i + 1] \o <<y>> /\ y \in Int
  <2>1. n # 1 => 2 \in 1..n BY <1>3
  <2>2. n # 1 => K[i + 2] = K[(i + 2) - 1] \o <<y>> /\ y \in Int BY <1>6, <2>1
  <2>. QED BY <1>7, <2>2
<1>10. n = 3 => K[i + 3] = K[i + 2] \o <<z>> /\ z \in Int
  <2>1. n = 3 => 3 \in 1..n BY <1>3
  <2>2. n = 3 => K[i + 3] = K[(i + 3) - 1] \o <<z>> /\ z \in Int BY <1>6, <2>1
  <2>. QED BY <1>7, <2>2
<1>11. /\ n = 1 => m = <<b, x>>
       /\ n = 2 => m = <<b, x, y>>
       /\ n = 3 => m = <<b, x, y, z>>
  BY DEF CharBytes, n
<1>. HIDE DEF b, x, y, z
<1>12. (k \o <<b>>) \o <<x>> = k \o <<b, x>>
  <2>1. Row(k, b, x, 0) BY <1>4, <1>5, <1>8 DEF Row
  <2>. QED BY ONLY <2>1, JoinedTwo
<1>13. ASSUME y \in Int PROVE (k \o <<b, x>>) \o <<y>> = k \o <<b, x, y>>
  <2>1. Row(k, b, x, y) BY <1>4, <1>5, <1>8, <1>13 DEF Row
  <2>. QED BY ONLY <2>1, JoinedThree
<1>14. ASSUME y \in Int, z \in Int PROVE (k \o <<b, x, y>>) \o <<z>> = k \o <<b, x, y, z>>
  <2>. DEFINE l == <<b, x, y>>
              q == <<b, x, y, z>>
  <2>1. /\ l \in Seq(Int) /\ q \in Seq(Int) /\ Len(l) = 3 /\ Len(q) = 4
        /\ l[1] = b /\ q[1] = b /\ l[2] = x /\ q[2] = x /\ l[3] = y /\ q[3] = y /\ q[4] = z
    BY <1>4, <1>8, <1>14
  <2>2. \A h \in 1..3 : h = 1 \/ h = 2 \/ h = 3 OBVIOUS
  <2>. HIDE DEF l, q
  <2>3. OneMore(l, z, q) BY ONLY <1>14, <2>1, <2>2 DEF OneMore
  <2>5. k \in Seq(Int) BY ONLY <1>5
  <2>4. (k \o l) \o <<z>> = k \o q BY ONLY <2>5, <2>3, OneMoreIs
  <2>. QED BY <2>4 DEF l, q
<1>15. K[i + 1] = k \o <<b, x>> BY ONLY <1>5, <1>8, <1>12, Zenon
<1>16. CASE n = 1
  <2>1. K[i + n] = k \o m BY ONLY <1>11, <1>15, <1>16, Zenon
  <2>2. i + n \in 1..Len(s) BY <1>2, <1>16
  <2>. QED BY <1>5, <2>1, <2>2 DEF n, k
<1>17. CASE n = 2
  <2>1. K[i + 2] = k \o <<b, x, y>>
    <3>0. n # 1 BY ONLY <1>17
    <3>1. K[i + 2] = K[i + 1] \o <<y>> /\ y \in Int BY ONLY <1>9, <3>0
    <3>2. (k \o <<b, x>>) \o <<y>> = k \o <<b, x, y>> BY <1>13, <3>1
    <3>. QED BY ONLY <1>15, <3>1, <3>2, Zenon
  <2>2. K[i + n] = k \o m BY ONLY <1>11, <1>17, <2>1, Zenon
  <2>3. i + n \in 1..Len(s) BY <1>2, <1>17
  <2>. QED BY <1>5, <2>2, <2>3 DEF n, k
<1>18. CASE n = 3
  <2>1. y \in Int /\ z \in Int /\ K[i + 2] = K[i + 1] \o <<y>> /\ K[i + 3] = K[i + 2] \o <<z>>
    <3>1. n # 1 BY ONLY <1>18
    <3>. QED BY ONLY <1>9, <1>10, <1>18, <3>1
  <2>2. (k \o <<b, x>>) \o <<y>> = k \o <<b, x, y>> /\ (k \o <<b, x, y>>) \o <<z>> = k \o <<b, x, y, z>> BY <1>13, <1>14, <2>1
  <2>3. K[i + 3] = k \o <<b, x, y, z>> BY ONLY <1>15, <2>1, <2>2, Zenon
  <2>4. K[i + n] = k \o m BY ONLY <1>11, <1>18, <2>3, Zenon
  <2>5. i + n \in 1..Len(s) BY <1>2, <1>18
  <2>. QED BY <1>5, <2>4, <2>5 DEF n, k
<1>. QED BY <1>3, <1>16, <1>17, <1>18

\* Written, and read as p and what was kept of the text so far.
Decoded(s, K, p) ==
    {w \in Writings : \/ w.raised
                      \/ /\ w.at >= 1 /\ w.at - 1 \in 0..Len(s)
                         /\ \E t : w.out = <<Quote>> \o t /\ Reads(t, p \o K[w.at - 1])}

\* A lexeme l that means m was written for the bytes up to the one at w.at + n.
Deciphers(s, K, w, l, m, n) ==
    Lexeme(l, m) /\ w.at + n \in 1..Len(s) /\ K[w.at - 1] \in Seq(Int) /\ K[w.at + n] = K[w.at - 1] \o m

\* A lexeme for the next bytes leaves what is written readable.
LEMMA DecodedMore ==
    ASSUME NEW s, NEW K, NEW p, NEW w, NEW u, NEW v, NEW l, NEW m, NEW n, NEW check,
           w \in Decoded(s, K, p), ~w.raised, p \in Seq(Int), Wrote(w, u, l, n, check), Deciphers(s, K, w, l, m, n),
           v \in Writings, v.out = u.out, v.at = u.at + 1
    PROVE  v \in Decoded(s, K, p)
<1>. DEFINE k == K[w.at - 1]
<1>1. PICK t : w.out = <<Quote>> \o t /\ Reads(t, p \o k) BY DEF Decoded
<1>2. l \in Seq(Byte) /\ n \in Nat /\ u.out = w.out \o l /\ u.at = w.at + n BY DEF Wrote
<1>3. Lexeme(l, m) /\ w.at + n \in 1..Len(s) /\ k \in Seq(Int) /\ K[w.at + n] = k \o m BY DEF Deciphers
<1>4. Reads(t \o l, (p \o k) \o m) BY ONLY <1>1, <1>3, ReadsMore
<1>5. m \in Seq(Int) BY <1>3, MeaningType DEF Lexeme
<1>6. (p \o k) \o m = p \o (k \o m)
  <2>1. Sequenced(p, k, m) BY <1>3, <1>5 DEF Sequenced
  <2>. HIDE DEF k
  <2>. QED BY ONLY <2>1, Regroup
<1>7. w.at \in Nat /\ w.at >= 1 BY DEF Decoded, Writings
<1>8. t \in Seq(Byte) /\ <<Quote>> \in Seq(Byte)
  <2>1. Quote \in Byte BY DEF Quote, Byte
  <2>. QED BY <1>1, <2>1 DEF Reads
<1>9. (<<Quote>> \o t) \o l = <<Quote>> \o (t \o l) BY <1>2, <1>8, ConcatAssociative
<1>10. v.out = <<Quote>> \o (t \o l) BY ONLY <1>1, <1>2, <1>9, v.out = u.out, Zenon
<1>11. v.at - 1 = w.at + n /\ v.at >= 1 BY <1>2, <1>7
<1>12. Reads(t \o l, p \o K[v.at - 1]) BY ONLY <1>3, <1>4, <1>6, <1>11, Zenon
<1>13. v.at - 1 \in 0..Len(s) BY <1>3, <1>11
<1>. QED BY <1>10, <1>11, <1>12, <1>13 DEF Decoded

\* Nothing was written for a byte that is left out.
LEMMA DecodedLess ==
    ASSUME NEW s, NEW K, NEW p, NEW w, NEW u, NEW v, NEW check,
           w \in Decoded(s, K, p), ~w.raised, Wrote(w, u, <<>>, 0, check), w.at \in 1..Len(s), K[w.at] = K[w.at - 1],
           v \in Writings, v.out = u.out, v.at = u.at + 1
    PROVE  v \in Decoded(s, K, p)
<1>1. PICK t : w.out = <<Quote>> \o t /\ Reads(t, p \o K[w.at - 1]) BY DEF Decoded
<1>2. u.out = w.out \o <<>> /\ u.at = w.at + 0 /\ w.out \in Seq(Byte) /\ w.at \in Nat BY DEF Wrote, Decoded, Writings
<1>3. u.out = w.out BY <1>2, ConcatEmptySeq
<1>4. v.at - 1 = w.at /\ v.at >= 1 /\ v.at - 1 \in 0..Len(s) BY <1>2
<1>5. v.out = <<Quote>> \o t BY <1>1, <1>3
<1>6. Reads(t, p \o K[v.at - 1]) BY <1>1, <1>4
<1>. QED BY <1>4, <1>5, <1>6 DEF Decoded

\* A text that its literal has to stand for.
Faithful(mode, s) == mode \in Modes /\ s \in Seq(Byte) /\ (IsUtf8(s) \/ mode \in Unchecked)

\* A character is a lexeme, as Unicode writes it.
LEMMA CharacterLexeme ==
    ASSUME NEW code, NEW m, Character8(code, m)
    PROVE  Lexeme(Unicode(code), m)
<1>. DEFINE top == 1114112
<1>1. code \in Nat /\ code < top /\ code \notin FirstHalf \cup SecondHalf /\ Utf8(code) = m BY DEF Character8
<1>2. Lexeme(Unicode(code), Utf8(code)) BY ONLY <1>1, UnicodeLexeme
<1>. HIDE DEF top
<1>. QED BY ONLY <1>1, <1>2, Zenon

\* A character written by its number is a lexeme for its bytes.
LEMMA CharacterDeciphers ==
    ASSUME NEW mode, NEW omitNull, NEW s, NEW K, NEW w, NEW u,
           Faithful(mode, s), Keeps(omitNull, s, K), Within(s, w), Character(mode, s, w, u)
    PROVE  \E m : Deciphers(s, K, w, Unicode(CodeOf(s, w.at)), m, Follows(s[w.at]))
<1>. DEFINE i == w.at
            b == s[i]
            code == CodeOf(s, i)
<1>1. i \in 1..Len(s) /\ s \in Seq(Byte) /\ WholeChar(s, i) BY DEF Within, Character
<1>2. b \in Byte /\ b \in Nat /\ High(b) /\ ~Follow(b)
  <2>1. b \in Byte /\ b \in Nat BY WithinIs
  <2>2. High(b) /\ ~Follow(b) BY <1>1, WholeCharIs
  <2>. QED BY <2>1, <2>2
<1>3. IsUtf8(s)
  <2>1. Cost(mode, b) = 3 \/ Cost(mode, b) = 6 BY DEF Character
  <2>2. mode \in Modes BY DEF Faithful
  <2>. HIDE DEF b
  <2>3. mode \in Escaping \/ mode \in Validating BY <1>2, <2>1, <2>2, CostIs
  <2>4. mode \notin Unchecked BY <2>2, <2>3, ModesAre
  <2>. QED BY <2>4 DEF Faithful
<1>4. Shortest(s, i) /\ b \in 194..244 BY <1>1, <1>2, <1>3, Utf8Is
<1>5. PICK m : Character8(code, m) /\ CharBytes(s, i, m) BY <1>1, <1>4, CharCode
<1>6. i + Follows(b) \in 1..Len(s) /\ K[i - 1] \in Seq(Int) /\ K[i + Follows(b)] = K[i - 1] \o m
  <2>1. KeptChar(omitNull, s, K, i) /\ CharBytes(s, i, m) BY <1>1, <1>5 DEF KeptChar
  <2>. HIDE DEF i
  <2>2. i + Follows(s[i]) \in 1..Len(s) /\ K[i - 1] \in Seq(Int) /\ K[i + Follows(s[i])] = K[i - 1] \o m
    BY ONLY <2>1, KeepsChar
  <2>. QED BY ONLY <2>2
<1>. HIDE DEF code
<1>7. Lexeme(Unicode(code), m) BY <1>5, CharacterLexeme
<1>. QED BY <1>6, <1>7 DEF Deciphers, code

\* It stays readable through every round.
LEMMA KeepsDecoded ==
    ASSUME NEW mode, NEW omitNull, NEW s, NEW K, NEW p,
           Faithful(mode, s), Keeps(omitNull, s, K), p \in Seq(Int)
    PROVE  Carried(Decoded(s, K, p), mode, omitNull, s)
<1>1. SUFFICES ASSUME NEW w \in Decoded(s, K, p), Within(s, w), NEW v, Rounded(mode, omitNull, s, w, v)
               PROVE  v \in Decoded(s, K, p)
  BY DEF Carried, Decoded
<1>2. w \in Writings /\ ~w.raised /\ w.at \in 1..Len(s) /\ s \in Seq(Byte) BY <1>1 DEF Within
<1>3. v \in Writings BY <1>1 DEF Rounded
<1>4. PICK u : /\ Stepped(mode, omitNull, s, w, u) /\ v.raised = u.raised
               /\ ~u.raised => v.out = u.out /\ v.at = u.at + 1 /\ v.check = u.check
  BY <1>1 DEF Rounded
<1>5. CASE v.raised BY <1>3, <1>5 DEF Decoded
<1>6. CASE ~v.raised
  <2>. DEFINE k == w.at
              b == s[k]
  <2>1. b \in Byte /\ b \in Nat /\ b \in Int BY <1>1, WithinIs
  <2>2. v.out = u.out /\ v.at = u.at + 1 BY <1>4, <1>6
  <2>3. mode \in Modes BY DEF Faithful
  <2>4. ASSUME NEW l, NEW check, Wrote(w, u, l, 0, check), Lexeme(l, <<b>>), ~(omitNull /\ b = 0)
        PROVE  v \in Decoded(s, K, p)
    <3>1. KeptAt(omitNull, s, K, k) BY <1>2, <2>4 DEF KeptAt
    <3>2. K[k] = K[k - 1] \o <<b>> /\ K[k - 1] \in Seq(Int)
      <4>. HIDE DEF k
      <4>. QED BY ONLY <3>1, KeepsByte
    <3>3. k + 0 = k BY <1>2
    <3>4. Deciphers(s, K, w, l, <<b>>, 0) BY <1>2, <2>4, <3>2, <3>3 DEF Deciphers
    <3>. QED BY <1>1, <1>2, <1>3, <2>2, <2>4, <3>4, DecodedMore
  <2>5. CASE AsIs(mode, s, w, u)
    <3>1. Wrote(w, u, <<b>>, 0, w.check) /\ Cost(mode, b) = 1 BY <2>5 DEF AsIs
    <3>. HIDE DEF b
    <3>2. b \notin {Quote, Backslash} /\ (b >= 32 \/ b = 10) BY <2>1, <2>3, <3>1, CostIs
    <3>3. Lexeme(<<b>>, <<b>>) BY ONLY <2>1, <3>2, SingleLexeme
    <3>4. b # 0 BY ONLY <2>1, <3>2
    <3>. QED BY <2>4, <3>1, <3>3, <3>4
  <2>6. CASE Checked(mode, s, w, u)
    <3>1. \E check : Wrote(w, u, <<b>>, 0, check) BY <2>6 DEF Checked
    <3>2. b \in 192..253
      <4>1. s \in Seq(Byte) /\ k \in 1..Len(s) /\ WholeChar(s, k) BY <1>2, <2>6 DEF Checked
      <4>. HIDE DEF k
      <4>. QED BY <4>1, WholeCharIs
    <3>. HIDE DEF b
    <3>3. b \notin {Quote, Backslash} /\ b >= 32 /\ b # 0 BY <2>1, <3>2 DEF Quote, Backslash
    <3>4. Lexeme(<<b>>, <<b>>) BY ONLY <2>1, <3>3, SingleLexeme
    <3>. QED BY <2>4, <3>1, <3>3, <3>4
  <2>7. CASE Letter(mode, s, w, u)
    <3>1. Wrote(w, u, Backslashed(b), 0, w.check) /\ Cost(mode, b) = 2 BY <2>7 DEF Letter
    <3>. HIDE DEF b
    <3>2. b \in DOMAIN Short \cup {Quote, Backslash, Slash} BY <2>1, <2>3, <3>1, CostIs
    <3>3. Lexeme(Backslashed(b), <<b>>) BY ONLY <3>2, LetterLexeme
    <3>4. b # 0 BY <3>2 DEF Short, Quote, Backslash, Slash
    <3>. QED BY <2>4, <3>1, <3>3, <3>4
  <2>8. CASE Control(mode, omitNull, s, w, u)
    <3>1. Wrote(w, u, Hex4(b), 0, w.check) /\ ~High(b) /\ ~(omitNull /\ b = 0) BY <2>8 DEF Control
    <3>. HIDE DEF b
    <3>2. b < 128 BY <2>1, <3>1 DEF High
    <3>3. b < 65536 /\ b \notin FirstHalf \cup SecondHalf
      <4>1. b < 65536 /\ b < 55296 BY ONLY <2>1, <3>2
      <4>. QED BY <2>1, <4>1, HalvesAre
    <3>4. Lexeme(Hex4(b), Utf8(b)) BY ONLY <2>1, <3>3, CodeLexeme
    <3>5. Utf8(b) = <<b>> BY <2>1, <3>2, Utf8Of
    <3>6. Lexeme(Hex4(b), <<b>>) BY ONLY <3>4, <3>5, Zenon
    <3>. QED BY <2>4, <3>1, <3>6
  <2>9. CASE LeftOut(mode, omitNull, s, w, u)
    <3>1. Wrote(w, u, <<>>, 0, w.check) /\ b = 0 /\ omitNull BY <2>9 DEF LeftOut
    <3>2. K[k] = K[k - 1]
      <4>1. K[k] = KeepOne(omitNull, b, K[k - 1]) BY <1>2 DEF Keeps
      <4>. QED BY <3>1, <4>1 DEF KeepOne
    <3>. QED BY <1>1, <1>2, <1>3, <2>2, <3>1, <3>2, DecodedLess
  <2>10. CASE Character(mode, s, w, u)
    <3>. DEFINE l == Unicode(CodeOf(s, k))
    <3>1. PICK m : Deciphers(s, K, w, l, m, Follows(b)) BY <1>1, <2>10, CharacterDeciphers
    <3>2. Wrote(w, u, l, Follows(b), w.check) BY <2>10 DEF Character
    <3>. QED BY <1>1, <1>2, <1>3, <2>2, <3>1, <3>2, DecodedMore
  <2>11. CASE Refused(mode, s, w, u)
    BY <1>4, <1>6, <2>11 DEF Refused
  <2>. QED BY <1>4, <2>5, <2>6, <2>7, <2>8, <2>9, <2>10, <2>11 DEF Stepped
<1>. QED BY <1>5, <1>6

-----------------------------------------------------------------------------
(* From the start to the end of a literal.                                   *)

\* Nothing is read as nothing.
LEMMA ReadsNothing ==
    Reads(<<>>, <<>>)
<1>1. <<>> \in Seq(Byte) /\ Len(<<>>) = 0 OBVIOUS
<1>2. PICK f : ReadThrough(<<>>, f) BY <1>1, ReadIs
<1>3. Read(<<>>) = Nothing BY <1>1, <1>2 DEF ReadThrough
<1>. QED BY <1>1, <1>3 DEF Reads, Nothing

\* What was written before the text, and what it is read as.
Prefix(isSym) == IF isSym THEN <<Colon>> ELSE <<>>

\* It is a text.
LEMMA PrefixType ==
    ASSUME NEW isSym
    PROVE  Prefix(isSym) \in Seq(Int)
BY DEF Prefix, Colon

\* Nothing in front of a text.
LEMMA NoneBefore ==
    ASSUME NEW k, k \in Seq(Int)
    PROVE  <<>> \o k = k
BY ConcatEmptySeq

\* What is written first is read as a colon, or as the first byte.
LEMMA FirstReads ==
    ASSUME NEW mode, NEW omitNull, NEW s, NEW isSym, NEW escape1, NEW K,
           Dumps(mode, omitNull, s, isSym, escape1), Keeps(omitNull, s, K)
    PROVE  Reads(First(s, isSym, escape1), Prefix(isSym) \o K[From(escape1) - 1])
<1>1. K[0] = <<>> /\ s \in Seq(Byte) BY DEF Keeps, Dumps
<1>2. CASE escape1
  <2>. DEFINE b == s[1]
  <2>1. 1 \in 1..Len(s) /\ b \in {Colon, Hat} /\ ~isSym BY <1>2 DEF Dumps
  <2>2. b \in Nat BY <1>1, <2>1, ByteAt
  <2>3. KeptAt(omitNull, s, K, 1)
    <3>. HIDE DEF b
    <3>1. b # 0 BY <2>1 DEF Colon, Hat
    <3>. QED BY <1>1, <2>1, <3>1 DEF KeptAt, b
  <2>4. K[1] = <<>> \o <<b>>
    <3>. DEFINE i == 1
    <3>1. KeptAt(omitNull, s, K, i) BY <2>3
    <3>2. i - 1 = 0 OBVIOUS
    <3>. HIDE DEF i
    <3>3. K[i] = K[i - 1] \o <<s[i]>> BY ONLY <3>1, KeepsByte
    <3>4. K[i] = K[0] \o <<s[i]>> BY <3>2, <3>3
    <3>. QED BY <1>1, <3>4 DEF i
  <2>5. First(s, isSym, escape1) = Hex4(b) /\ Prefix(isSym) = <<>> BY <1>2, <2>1 DEF First, Prefix
  <2>6. From(escape1) - 1 = 1 BY <1>2 DEF From
  <2>. HIDE DEF b
  <2>7. Lexeme(Hex4(b), <<b>>)
    <3>1. b < 128 BY <2>1 DEF Colon, Hat
    <3>2. b < 65536 /\ b < 55296 BY ONLY <2>2, <3>1
    <3>3. b \notin FirstHalf \cup SecondHalf BY <2>2, <3>2, HalvesAre
    <3>4. Lexeme(Hex4(b), Utf8(b)) BY ONLY <2>2, <3>2, <3>3, CodeLexeme
    <3>5. Utf8(b) = <<b>> BY <2>2, <3>1, Utf8Of
    <3>. QED BY ONLY <3>4, <3>5, Zenon
  <2>8. Reads(<<>> \o Hex4(b), <<>> \o <<b>>) BY ONLY <2>7, ReadsNothing, ReadsMore
  <2>9. <<>> \o Hex4(b) = Hex4(b)
    <3>1. Hex4(b) \in Seq(Byte) BY <2>2, Hex4Is
    <3>. QED BY <3>1, ConcatEmptySeq
  <2>10. <<>> \o K[1] = K[1]
    <3>1. <<b>> \in Seq(Int) BY <2>2
    <3>2. <<>> \o <<b>> = <<b>> BY <3>1, NoneBefore
    <3>. QED BY <2>4, <3>1, <3>2, NoneBefore
  <2>. QED BY ONLY <2>4, <2>5, <2>6, <2>8, <2>9, <2>10, Zenon
<1>3. CASE ~escape1 /\ isSym
  <2>1. First(s, isSym, escape1) = <<Colon>> /\ Prefix(isSym) = <<Colon>> BY <1>3 DEF First, Prefix
  <2>2. From(escape1) - 1 = 0 BY <1>3 DEF From
  <2>3. Colon \in Byte /\ Colon \notin {Quote, Backslash} /\ (Colon >= 32 \/ Colon = 10) BY DEF Colon, Byte, Quote, Backslash
  <2>4. Lexeme(<<Colon>>, <<Colon>>) BY ONLY <2>3, SingleLexeme
  <2>5. Reads(<<>> \o <<Colon>>, <<>> \o <<Colon>>) BY ONLY <2>4, ReadsNothing, ReadsMore
  <2>6. <<>> \o <<Colon>> = <<Colon>> /\ <<Colon>> \o <<>> = <<Colon>> OBVIOUS
  <2>. QED BY ONLY <1>1, <2>1, <2>2, <2>5, <2>6, Zenon
<1>4. CASE ~escape1 /\ ~isSym
  <2>1. First(s, isSym, escape1) = <<>> /\ Prefix(isSym) = <<>> BY <1>4 DEF First, Prefix
  <2>2. From(escape1) - 1 = 0 BY <1>4 DEF From
  <2>3. <<>> \o <<>> = <<>> OBVIOUS
  <2>. QED BY ONLY <1>1, <2>1, <2>2, <2>3, ReadsNothing, Zenon
<1>. QED BY <1>2, <1>3, <1>4

\* So it starts readable.
LEMMA StartDecoded ==
    ASSUME NEW mode, NEW omitNull, NEW s, NEW isSym, NEW escape1, NEW K,
           Dumps(mode, omitNull, s, isSym, escape1), Keeps(omitNull, s, K)
    PROVE  Start(s, isSym, escape1) \in Decoded(s, K, Prefix(isSym))
<1>. DEFINE w == Start(s, isSym, escape1)
            t == First(s, isSym, escape1)
<1>1. w \in Writings /\ w.at = From(escape1) /\ w.out = <<Quote>> \o t BY StartIs
<1>2. Reads(t, Prefix(isSym) \o K[w.at - 1])
  <2>1. Reads(t, Prefix(isSym) \o K[From(escape1) - 1]) BY FirstReads
  <2>. HIDE DEF w
  <2>. QED BY <1>1, <2>1
<1>3. w.at >= 1 /\ w.at - 1 \in 0..Len(s)
  <2>1. s \in Seq(Byte) /\ (escape1 => 1 \in 1..Len(s)) BY DEF Dumps
  <2>2. Len(s) \in Nat BY <2>1, LenProperties
  <2>. HIDE DEF w
  <2>. QED BY <1>1, <2>1, <2>2 DEF From
<1>. HIDE DEF w, t
<1>4. w \in Decoded(s, K, Prefix(isSym)) BY <1>1, <1>2, <1>3 DEF Decoded
<1>. QED BY <1>4 DEF w

\* A text that is copied.
LEMMA ReadsOne ==
    ASSUME NEW t, NEW x, NEW p, NEW k, NEW b, Reads(t \o x, p \o k), b \in Byte, b \notin {Quote, Backslash}, b >= 32 \/ b = 10,
           t \in Seq(Byte), x \in Seq(Byte), p \in Seq(Int), k \in Seq(Int)
    PROVE  Reads(t \o Append(x, b), p \o (k \o <<b>>))
<1>1. Lexeme(<<b>>, <<b>>) BY SingleLexeme
<1>2. Reads((t \o x) \o <<b>>, (p \o k) \o <<b>>) BY <1>1, ReadsMore
<1>. DEFINE y == <<b>>
<1>3. y \in Seq(Byte) /\ t \in Seq(Byte) /\ x \in Seq(Byte) OBVIOUS
<1>9. Sequenced(p, k, y) BY DEF Sequenced, Byte
<1>. HIDE DEF y
<1>7. (t \o x) \o y = t \o (x \o y) BY ONLY <1>3, ConcatAssociative
<1>8. (p \o k) \o y = p \o (k \o y) BY ONLY <1>9, Regroup
<1>4. (t \o x) \o <<b>> = t \o (x \o <<b>>) BY <1>7 DEF y
<1>5. (p \o k) \o <<b>> = p \o (k \o <<b>>) BY <1>8 DEF y
<1>6. x \o <<b>> = Append(x, b) BY AppendIsConcat
<1>. QED BY ONLY <1>2, <1>4, <1>5, <1>6, Zenon

\* It is read as it is.
LEMMA FastReads ==
    ASSUME NEW mode, NEW omitNull, NEW s, NEW isSym, NEW escape1, NEW K,
           Dumps(mode, omitNull, s, isSym, escape1), Keeps(omitNull, s, K), Fast(mode, s, escape1)
    PROVE  Reads(First(s, isSym, escape1) \o SubSeq(s, From(escape1), Len(s)), Prefix(isSym) \o K[Len(s)])
<1>. DEFINE t == First(s, isSym, escape1)
            p == Prefix(isSym)
            from == From(escape1)
            l == SubSeq(s, from, Len(s))
            N == Len(l)
            x == [k \in 0..N |-> SubSeq(l, 1, k)]
            P == {k \in 0..N : Reads(t \o x[k], p \o K[(from - 1) + k])}
<1>1. /\ l \in Seq(Byte) /\ N = Len(s) + 1 - from /\ Len(s) \in Nat
      /\ \A i \in 1..N : from + i - 1 \in 1..Len(s) /\ l[i] = s[from + i - 1]
  BY Copied
<1>2. from \in {1, 2} /\ t \in Seq(Byte) BY StartIs
<1>3. p \in Seq(Int) BY PrefixType
<1>4. mode \in Modes /\ s \in Seq(Byte) /\ \A k \in 1..Len(s) : Cost(mode, s[k]) = 1 BY FastIs DEF Dumps
<1>5. Reads(t, p \o K[from - 1]) BY FirstReads
<1>. HIDE DEF t, p, from, l
<1>6. /\ \A k \in 0..N : x[k] \in Seq(Byte)
      /\ x[0] = <<>> /\ x[N] = l
      /\ \A k \in 0..N : k # N => x[k + 1] = Append(x[k], l[k + 1])
  <2>1. N \in Nat BY <1>1, LenProperties
  <2>2. /\ \A k \in 0..N : SubSeq(l, 1, k) \in Seq(Byte)
        /\ SubSeq(l, 1, 0) = <<>> /\ SubSeq(l, 1, N) = l
        /\ \A k \in 0..N : k # N => SubSeq(l, 1, k + 1) = Append(SubSeq(l, 1, k), l[k + 1])
    BY <1>1, Beginnings
  <2>. HIDE DEF N
  <2>3. 0 \in 0..N /\ N \in 0..N /\ \A k \in 0..N : k # N => k + 1 \in 0..N BY ONLY <2>1
  <2>4. \A k \in 0..N : x[k] = SubSeq(l, 1, k) OBVIOUS
  <2>. HIDE DEF x
  <2>5. \A k \in 0..N : x[k] \in Seq(Byte) BY ONLY <2>2, <2>4
  <2>6. x[0] = <<>> /\ x[N] = l BY ONLY <2>2, <2>3, <2>4, Zenon
  <2>7. \A k \in 0..N : k # N => x[k + 1] = Append(x[k], l[k + 1]) BY ONLY <2>2, <2>3, <2>4, Zenon
  <2>. QED BY <2>5, <2>6, <2>7
<1>. HIDE DEF x
<1>7. N \in Nat BY <1>1, LenProperties
<1>. HIDE DEF N
<1>8. 0 \in P
  <2>1. t \o x[0] = t BY <1>2, <1>6, ConcatEmptySeq
  <2>2. (from - 1) + 0 = from - 1 BY <1>2
  <2>3. 0 \in 0..N BY <1>7
  <2>. QED BY <1>5, <2>1, <2>2, <2>3
<1>9. ASSUME NEW n \in 0..N, n # N, n \in P PROVE n + 1 \in P
  <2>. DEFINE i == from + n
              b == s[i]
              k == K[i - 1]
  <2>1. n + 1 \in 1..N /\ n + 1 \in 0..N /\ from + (n + 1) - 1 = i /\ (from - 1) + n = i - 1 /\ (from - 1) + (n + 1) = i
    BY <1>2, <1>7, <1>9
  <2>2. i \in 1..Len(s) /\ l[n + 1] = b BY <1>1, <2>1
  <2>3. b \in Byte /\ b \in Nat BY <1>4, <2>2, ByteAt
  <2>4. Cost(mode, b) = 1 BY <1>4, <2>2
  <2>. HIDE DEF b
  <2>5. b \notin {Quote, Backslash} /\ (b >= 32 \/ b = 10) BY <1>4, <2>3, <2>4, CostIs
  <2>6. b # 0 BY ONLY <2>3, <2>5
  <2>7. KeptAt(omitNull, s, K, i) BY <1>4, <2>2, <2>6 DEF KeptAt, b
  <2>8. K[i] = k \o <<b>> /\ k \in Seq(Int)
    <3>1. K[i] = K[i - 1] \o <<s[i]>> /\ K[i - 1] \in Seq(Int) BY ONLY <2>7, KeepsByte
    <3>. QED BY <3>1 DEF b
  <2>9. Reads(t \o x[n], p \o k) BY <1>9, <2>1
  <2>10. x[n] \in Seq(Byte) /\ x[n + 1] = Append(x[n], b) BY <1>6, <1>9, <2>2
  <2>. HIDE DEF k
  <2>11. Reads(t \o Append(x[n], b), p \o (k \o <<b>>))
    <3>. DEFINE y == x[n]
    <3>1. y \in Seq(Byte) /\ Reads(t \o y, p \o k) BY <2>9, <2>10
    <3>. HIDE DEF y
    <3>2. k \in Seq(Int) BY <2>8
    <3>3. Reads(t \o Append(y, b), p \o (k \o <<b>>)) BY ONLY <1>2, <1>3, <2>3, <2>5, <3>1, <3>2, ReadsOne
    <3>. QED BY <3>3 DEF y
  <2>12. Reads(t \o x[n + 1], p \o K[i]) BY ONLY <2>8, <2>10, <2>11, Zenon
  <2>13. Reads(t \o x[n + 1], p \o K[(from - 1) + (n + 1)]) BY <2>1, <2>12
  <2>. QED BY <2>1, <2>13
<1>10. P \subseteq 0..N /\ \A n \in 0..N : n # N /\ n \in P => n + 1 \in P BY <1>9
<1>11. N \in P => Reads(t \o l, p \o K[Len(s)])
  <2>1. (from - 1) + N = Len(s) BY <1>1, <1>2 DEF N
  <2>. QED BY <1>6, <2>1
<1>. HIDE DEF P
<1>12. 0..N \subseteq P BY <1>7, <1>8, <1>10, Induction
<1>13. N \in P BY <1>7, <1>12
<1>. QED BY <1>11, <1>13 DEF t, p, l, from

\* What is written is read as the text, on the fast path and by the loop.
LEMMA WrittenReads ==
    ASSUME NEW mode, NEW omitNull, NEW s, NEW isSym, NEW escape1, NEW K,
           Dumps(mode, omitNull, s, isSym, escape1), Keeps(omitNull, s, K), Faithful(mode, s)
    PROVE  LET w == Written(mode, omitNull, s, isSym, escape1)
           IN  ~w.raised => \E t : w.out = <<Quote>> \o t /\ Reads(t, Prefix(isSym) \o K[Len(s)])
<1>. DEFINE w == Written(mode, omitNull, s, isSym, escape1)
            start == Start(s, isSym, escape1)
            p == Prefix(isSym)
<1>1. CASE Fast(mode, s, escape1)
  <2>. DEFINE t == First(s, isSym, escape1)
              l == SubSeq(s, From(escape1), Len(s))
  <2>1. start \in Writings /\ start.out = <<Quote>> \o t /\ t \in Seq(Byte) BY StartIs
  <2>2. l \in Seq(Byte) BY Copied
  <2>3. w = Put(start, l) BY <1>1 DEF Written
  <2>4. Reads(t \o l, p \o K[Len(s)]) BY <1>1, FastReads
  <2>. HIDE DEF t, l, start, p, w
  <2>5. w.out = (<<Quote>> \o t) \o l BY <2>1, <2>2, <2>3, PutIs
  <2>6. <<Quote>> \in Seq(Byte)
    <3>1. Quote \in Byte BY DEF Quote, Byte
    <3>. QED BY <3>1
  <2>7. (<<Quote>> \o t) \o l = <<Quote>> \o (t \o l) BY <2>1, <2>2, <2>6, ConcatAssociative
  <2>8. w.out = <<Quote>> \o (t \o l) /\ Reads(t \o l, p \o K[Len(s)]) BY ONLY <2>4, <2>5, <2>7, Zenon
  <2>. QED BY <2>8 DEF w, p
<1>2. CASE ~Fast(mode, s, escape1)
  <2>1. start \in Decoded(s, K, p) BY StartDecoded
  <2>2. p \in Seq(Int) BY PrefixType
  <2>. HIDE DEF p
  <2>3. Carried(Decoded(s, K, p), mode, omitNull, s) BY <2>2, KeepsDecoded
  <2>4. w \in Decoded(s, K, p) /\ (w.raised \/ w.at > Len(s)) BY <1>2, <2>1, <2>3, BodyHolds
  <2>. HIDE DEF w, start
  <2>5. ASSUME ~w.raised PROVE \E t : w.out = <<Quote>> \o t /\ Reads(t, p \o K[Len(s)])
    <3>1. /\ w.at \in Nat /\ w.at > Len(s) /\ w.at - 1 \in 0..Len(s) BY <2>4, <2>5 DEF Decoded, Writings
    <3>2. Len(s) \in Nat BY LenProperties DEF Faithful
    <3>3. w.at - 1 = Len(s) BY <3>1, <3>2
    <3>4. \E t : w.out = <<Quote>> \o t /\ Reads(t, p \o K[w.at - 1]) BY <2>4, <2>5 DEF Decoded
    <3>. QED BY <3>3, <3>4
  <2>. QED BY <2>5 DEF w, p
<1>. QED BY <1>1, <1>2

\* Between the first byte and the last.
LEMMA Inside ==
    ASSUME NEW out, NEW t, out \in Seq(Byte), t \in Seq(Byte), Len(out) = 2 + Len(t), \A i \in 1..Len(t) : out[1 + i] = t[i]
    PROVE  SubSeq(out, 2, Len(out) - 1) = t
<1>. DEFINE m == Len(out) - 1
            y == SubSeq(out, 2, m)
<1>1. m = 1 + Len(t) /\ Len(t) \in Nat /\ m \in Int BY LenProperties
<1>2. \A i \in 2..m : out[i] \in Byte
  <2>1. \A i \in 2..m : i \in 1..Len(out) BY <1>1
  <2>. QED BY <2>1, ByteAt
<1>3. y \in Seq(Byte) /\ Len(y) = Len(t) /\ \A i \in 1..Len(t) : y[i] = out[2 + i - 1]
  BY <1>1, <1>2, SubSeqProperties
<1>. HIDE DEF y
<1>4. \A i \in 1..Len(t) : y[i] = t[i]
  <2>1. ASSUME NEW i \in 1..Len(t) PROVE y[i] = t[i]
    <3>1. 2 + i - 1 = 1 + i OBVIOUS
    <3>. QED BY <1>3, <3>1
  <2>. QED BY <2>1
<1>5. y = t BY <1>3, <1>4, SeqEqual
<1>. QED BY <1>5 DEF y, m

\* A literal that is written stands for the text.
LEMMA DecodesWell ==
    ASSUME NEW mode, NEW omitNull, NEW s, NEW isSym, NEW escape1,
           Dumps(mode, omitNull, s, isSym, escape1), Faithful(mode, s),
           ~DumpCstr(mode, omitNull, s, isSym, escape1).raised
    PROVE  StandsFor(DumpCstr(mode, omitNull, s, isSym, escape1).out, Prefix(isSym) \o Kept(omitNull, s))
<1>. DEFINE d == DumpCstr(mode, omitNull, s, isSym, escape1)
            w == Written(mode, omitNull, s, isSym, escape1)
            q == Prefix(isSym) \o Kept(omitNull, s)
<1>1. PICK K : Keeps(omitNull, s, K) BY KeptIs DEF Faithful
<1>2. /\ w.out \in Seq(Byte) /\ d.out = Append(w.out, Quote) /\ d.out \in Seq(Byte)
      /\ Len(d.out) = Len(w.out) + 1 /\ ~w.raised
  BY WrittenIs
<1>3. PICK t : w.out = <<Quote>> \o t /\ Reads(t, Prefix(isSym) \o K[Len(s)]) BY <1>1, <1>2, WrittenReads
<1>4. Reads(t, q) BY <1>1, <1>3 DEF Keeps
<1>. DEFINE out == d.out
            x == w.out
<1>. HIDE DEF d, w, q
<1>5. t \in Seq(Byte) /\ Quote \in Byte /\ <<Quote>> \in Seq(Byte) /\ Len(<<Quote>>) = 1 /\ <<Quote>>[1] = Quote
  <2>1. Quote \in Byte BY DEF Quote, Byte
  <2>. QED BY <1>4, <2>1 DEF Reads
<1>6. /\ Len(t) \in Nat /\ Len(x) = 1 + Len(t) /\ x[1] = Quote /\ \A i \in 1..Len(t) : x[1 + i] = t[i]
  <2>. DEFINE z == <<Quote>>
  <2>1. z \in Seq(Byte) /\ Len(z) = 1 /\ z[1] = Quote /\ x = z \o t BY <1>3, <1>5
  <2>. HIDE DEF z, x
  <2>2. /\ Len(z \o t) = Len(z) + Len(t)
        /\ \A i \in 1..Len(z) : (z \o t)[i] = z[i]
        /\ \A i \in 1..Len(t) : (z \o t)[Len(z) + i] = t[i]
    <3>1. z \in Seq(Byte) /\ t \in Seq(Byte) BY <1>5, <2>1
    <3>. QED BY ONLY <3>1, Joined
  <2>3. 1 \in 1..Len(z) BY <2>1
  <2>4. Len(t) \in Nat BY <1>5, LenProperties
  <2>. QED BY <2>1, <2>2, <2>3, <2>4
<1>7. /\ Len(out) = Len(x) + 1 /\ out[Len(x) + 1] = Quote /\ \A i \in 1..Len(x) : out[i] = x[i]
  BY <1>2, <1>5, AppendProperties, LenProperties
<1>. HIDE DEF out, x
<1>8. Len(out) >= 2 /\ out[1] = Quote /\ out[Len(out)] = Quote
  <2>1. 1 \in 1..Len(x) BY <1>6
  <2>. QED BY <1>6, <1>7, <2>1
<1>9. SubSeq(out, 2, Len(out) - 1) = t
  <2>1. out \in Seq(Byte) BY <1>2 DEF out
  <2>2. Len(out) = 2 + Len(t) /\ \A i \in 1..Len(t) : out[1 + i] = t[i]
    <3>1. ASSUME NEW i \in 1..Len(t) PROVE out[1 + i] = t[i]
      <4>1. 1 + i \in 1..Len(x) BY <1>6
      <4>. QED BY <1>6, <1>7, <4>1
    <3>. QED BY <1>6, <1>7, <3>1
  <2>. QED BY ONLY <1>5, <2>1, <2>2, Inside
<1>10. Read(t) = [held |-> <<>>, bytes |-> q]
  <2>1. Read(t) \in Readings BY <1>5, ReadMore
  <2>. QED BY <1>4, <2>1 DEF Reads, Readings
<1>. QED BY <1>8, <1>9, <1>10 DEF StandsFor, q, d, out

-----------------------------------------------------------------------------
(* What DumpText makes of a text.                                            *)

Symbolic(o) == o.object /\ o.symbol
Escaped(o, s) == o.object /\ ~o.symbol /\ Escapes(s)
Optional(o, s) == o \in OptionSets /\ s \in Seq(Byte)

\* DumpText escapes the first byte of a String that would look like another value.
LEMMA TextDumps ==
    ASSUME NEW o, NEW s, Optional(o, s)
    PROVE  /\ Dumps(o.mode, o.omitNull, s, Symbolic(o), Escaped(o, s))
           /\ DumpText(o, s) = DumpCstr(o.mode, o.omitNull, s, Symbolic(o), Escaped(o, s))
<1>1. s \in Seq(Byte) /\ o.mode \in Modes /\ o.omitNull \in BOOLEAN /\ o.object \in BOOLEAN /\ o.symbol \in BOOLEAN
  BY DEF Optional, OptionSets
<1>2. Symbolic(o) \in BOOLEAN /\ Escaped(o, s) \in BOOLEAN /\ (Escaped(o, s) => ~Symbolic(o)) BY DEF Symbolic, Escaped
<1>3. ASSUME Escaped(o, s) PROVE 1 \in 1..Len(s) /\ s[1] \in {Colon, Hat}
  <2>1. At(s, 1) \in {Colon, Hat} BY <1>3 DEF Escaped, Escapes
  <2>2. 1 \in DOMAIN s
    <3>1. 0 \notin {Colon, Hat} BY DEF Colon, Hat
    <3>. QED BY <2>1, <3>1 DEF At
  <2>3. 1 \in 1..Len(s) BY <1>1, <2>2, LenProperties
  <2>. QED BY <1>1, <2>1, <2>3, ByteAt
<1>4. Dumps(o.mode, o.omitNull, s, Symbolic(o), Escaped(o, s)) BY <1>1, <1>2, <1>3 DEF Dumps
<1>5. DumpText(o, s) = DumpCstr(o.mode, o.omitNull, s, Symbolic(o), Escaped(o, s)) BY DEF DumpText, Symbolic, Escaped
<1>. QED BY <1>4, <1>5

\* The room it asks for.
LEMMA TextEstimated ==
    ASSUME NEW o, NEW s, Optional(o, s)
    PROVE  LET d == DumpText(o, s)
           IN  /\ d.out \in Seq(Byte) /\ d.size \in Nat /\ d.raised \in BOOLEAN
               /\ ~d.raised => Len(d.out) <= d.size + 2 + (IF o.object THEN 5 ELSE 0)
<1>. DEFINE d == DumpText(o, s)
            isSym == Symbolic(o)
            escape1 == Escaped(o, s)
<1>1. Dumps(o.mode, o.omitNull, s, isSym, escape1) /\ d = DumpCstr(o.mode, o.omitNull, s, isSym, escape1) BY TextDumps
<1>2. /\ d.out \in Seq(Byte) /\ d.size \in Nat /\ d.raised \in BOOLEAN
      /\ ~d.raised => Len(d.out) <= d.size + 2 + (IF escape1 THEN 5 ELSE IF isSym THEN 1 ELSE 0)
  BY <1>1, EstimatedWell
<1>3. escape1 \/ isSym => o.object BY DEF Symbolic, Escaped
<1>4. Len(d.out) \in Nat BY <1>2, LenProperties
<1>. HIDE DEF d, isSym, escape1
<1>5. ~d.raised => Len(d.out) <= d.size + 2 + (IF o.object THEN 5 ELSE 0) BY <1>2, <1>3, <1>4
<1>. QED BY <1>2, <1>5 DEF d

\* What it writes, what it refuses, and what it is told by.
LEMMA TextStands ==
    ASSUME NEW o, NEW s, Optional(o, s)
    PROVE  LET d == DumpText(o, s)
           IN  /\ ~d.raised /\ (IsUtf8(s) \/ o.mode \in Unchecked) => StandsFor(d.out, Prefix(Symbolic(o)) \o Kept(o.omitNull, s))
               /\ IsUtf8(s) => ~d.raised
               /\ o.mode \in Unchecked => ~d.raised
               /\ ~Shaped(s) /\ o.mode \notin Unchecked => d.raised
               /\ ~d.raised /\ o.object /\ ~(o.omitNull /\ 0 \in ToSet(s)) =>
                     (o.symbol <=> d.out[2] = Colon) /\ ~(d.out[2] = Hat /\ At(d.out, 3) \in {105, 114})
<1>. DEFINE d == DumpText(o, s)
            isSym == Symbolic(o)
            escape1 == Escaped(o, s)
<1>1. Dumps(o.mode, o.omitNull, s, isSym, escape1) /\ d = DumpCstr(o.mode, o.omitNull, s, isSym, escape1) BY TextDumps
<1>2. ASSUME ~d.raised, IsUtf8(s) \/ o.mode \in Unchecked
      PROVE  StandsFor(d.out, Prefix(isSym) \o Kept(o.omitNull, s))
  <2>1. Faithful(o.mode, s) BY <1>1, <1>2 DEF Faithful, Dumps
  <2>. QED BY <1>1, <1>2, <2>1, DecodesWell
<1>3. (IsUtf8(s) => ~d.raised) /\ (o.mode \in Unchecked => ~d.raised) /\ (~Shaped(s) /\ o.mode \notin Unchecked => d.raised)
  BY <1>1, RefusesWell
<1>4. ASSUME ~d.raised, o.object, ~(o.omitNull /\ 0 \in ToSet(s))
      PROVE  (o.symbol <=> d.out[2] = Colon) /\ ~(d.out[2] = Hat /\ At(d.out, 3) \in {105, 114})
  <2>1. isSym <=> o.symbol BY <1>4 DEF Symbolic
  <2>2. escape1 <=> ~isSym /\ Escapes(s) BY <1>4, <2>1 DEF Escaped
  <2>3. (isSym <=> d.out[2] = Colon) /\ ~(d.out[2] = Hat /\ At(d.out, 3) \in {105, 114}) BY <1>1, <1>4, <2>2, ToldWell
  <2>. QED BY <2>1, <2>3
<1>. QED BY <1>2, <1>3, <1>4

-----------------------------------------------------------------------------
(* The document and what of it is written.                                   *)

\* The longest beginning of a document, and the shortest.
LEMMA WholePrefix ==
    ASSUME NEW s, s \in Seq(Byte)
    PROVE  SubSeq(s, 1, Len(s)) = s /\ SubSeq(s, 1, 0) = <<>> /\ Len(s) \in Nat
BY Beginnings, LenProperties

\* A beginning of a document.
LEMMA PrefixOf ==
    ASSUME NEW s, NEW n, s \in Seq(Byte), n \in 0..Len(s)
    PROVE  SubSeq(s, 1, n) \in Seq(Byte) /\ IsPrefix(SubSeq(s, 1, n), s)
<1>. DEFINE x == SubSeq(s, 1, n)
<1>1. x \in Seq(Byte) /\ Len(x) = n BY Beginnings
<1>2. Len(s) \in Nat BY LenProperties
<1>. QED BY <1>1, <1>2 DEF IsPrefix

\* The next bytes of the document, behind a beginning.
LEMMA WrittenOn ==
    ASSUME NEW s, NEW i, NEW n, NEW t, s \in Seq(Byte), i \in 0..Len(s), n \in Nat, i + n <= Len(s),
           t = [k \in 1..n |-> IF i + k \in DOMAIN s THEN s[i + k] ELSE -1]
    PROVE  SubSeq(s, 1, i) \o t = SubSeq(s, 1, i + n)
<1>. DEFINE x == SubSeq(s, 1, i)
            y == SubSeq(s, 1, i + n)
<1>1. Len(s) \in Nat /\ DOMAIN s = 1..Len(s) /\ i \in Nat /\ i + n \in 0..Len(s) BY LenProperties
<1>2. x \in Seq(Byte) /\ Len(x) = i /\ \A k \in 1..i : x[k] = s[k] BY Beginnings
<1>3. y \in Seq(Byte) /\ Len(y) = i + n /\ \A k \in 1..i + n : y[k] = s[k] BY <1>1, Beginnings
<1>. HIDE DEF x, y
<1>4. \A k \in 1..n : i + k \in 1..Len(s) /\ t[k] = s[i + k] BY <1>1
<1>5. t \in Seq(Byte) /\ Len(t) = n
  <2>1. \A k \in 1..n : t[k] \in Byte BY <1>4, ByteAt
  <2>2. t \in [1..n -> Byte]
    <3>. DEFINE f(k) == IF i + k \in DOMAIN s THEN s[i + k] ELSE -1
    <3>1. t = [k \in 1..n |-> f(k)] OBVIOUS
    <3>. HIDE DEF f
    <3>. QED BY <2>1, <3>1
  <2>. QED BY <2>2
<1>6. /\ x \o t \in Seq(Byte) /\ Len(x \o t) = i + n
      /\ \A k \in 1..i : (x \o t)[k] = x[k]
      /\ \A k \in 1..n : (x \o t)[i + k] = t[k]
  <2>1. x \in Seq(Byte) /\ t \in Seq(Byte) BY <1>2, <1>5
  <2>2. /\ x \o t \in Seq(Byte) /\ Len(x \o t) = Len(x) + Len(t)
        /\ \A k \in 1..Len(x) : (x \o t)[k] = x[k]
        /\ \A k \in 1..Len(t) : (x \o t)[Len(x) + k] = t[k]
    BY ONLY <2>1, Joined
  <2>. QED BY ONLY <1>2, <1>5, <2>2
<1>. DEFINE z == x \o t
<1>. HIDE DEF z
<1>7. \A k \in 1..i + n : z[k] = y[k]
  <2>1. ASSUME NEW k \in 1..i + n PROVE z[k] = y[k]
    <3>1. CASE k <= i
      <4>1. k \in 1..i BY <1>1, <3>1
      <4>. QED BY <1>2, <1>3, <1>6, <2>1, <4>1 DEF z
    <3>2. CASE k > i
      <4>. DEFINE h == k - i
      <4>1. h \in 1..n /\ i + h = k BY <1>1, <3>2
      <4>. HIDE DEF h
      <4>2. z[i + h] = s[i + h] BY <1>4, <1>6, <4>1 DEF z
      <4>. QED BY <1>3, <2>1, <4>1, <4>2
    <3>. QED BY <1>1, <3>1, <3>2
  <2>. QED BY <2>1
<1>8. z = y BY <1>3, <1>6, <1>7, SeqEqual DEF z
<1>. QED BY <1>8 DEF x, y, z

-----------------------------------------------------------------------------
(* The invariant, and the theorems.                                          *)

\* The literal is what DumpText made of the text.
Literal ==
    /\ text \in Seq(Byte) /\ options \in OptionSets
    /\ phase = "new" => literal = [out |-> <<>>, size |-> 0, raised |-> FALSE]
    /\ phase # "new" => literal = DumpText(options, text)

\* Nothing is written before the document is opened.
Before == {"new", "dumped", "file"}
\* What was written is the beginning of the document, unless a descriptor was not
\* ready or a file could not be closed.
Sending ==
    /\ phase \in {"new", "dumped", "file", "stream", "wait", "done", "raised"}
    /\ again \in 0..MaxAgain /\ lost \in BOOLEAN
    /\ total \in Int /\ total >= -again /\ total <= Size /\ sent \in Seq(Byte \cup {-1})
    /\ phase \in Before => total = 0 /\ sent = <<>> /\ again = 0 /\ ~lost
    /\ phase \in {"stream", "wait"} => ~lost /\ (again = 0 => total >= 0 /\ sent = SubSeq(Doc, 1, total))
    /\ again = 0 /\ ~lost => IsPrefix(sent, Doc) /\ (phase = "done" => sent = Doc)

OutputInv == Literal /\ Sending

\* Its types.
LEMMA LiteralType ==
    ASSUME Literal
    PROVE  /\ Doc \in Seq(Byte) /\ literal.size \in Nat /\ literal.raised \in BOOLEAN
           /\ Size \in Nat /\ DOMAIN Doc = 1..Size
           /\ SubSeq(Doc, 1, Size) = Doc /\ SubSeq(Doc, 1, 0) = <<>>
<1>1. literal.out \in Seq(Byte) /\ literal.size \in Nat /\ literal.raised \in BOOLEAN
  <2>1. CASE phase = "new"
    <3>1. literal.out = <<>> /\ literal.size = 0 /\ literal.raised = FALSE BY <2>1 DEF Literal
    <3>2. <<>> \in Seq(Byte) /\ 0 \in Nat OBVIOUS
    <3>. QED BY ONLY <3>1, <3>2, Zenon
  <2>2. CASE phase # "new"
    <3>1. literal = DumpText(options, text) /\ Optional(options, text) BY <2>2 DEF Literal, Optional
    <3>2. /\ DumpText(options, text).out \in Seq(Byte) /\ DumpText(options, text).size \in Nat
          /\ DumpText(options, text).raised \in BOOLEAN
      BY <3>1, TextEstimated
    <3>. QED BY <3>1, <3>2
  <2>. QED BY <2>1, <2>2
<1>2. Doc \in Seq(Byte) BY <1>1 DEF Doc
<1>. QED BY <1>1, <1>2, WholePrefix, LenProperties DEF Size

\* Nothing is a beginning.
LEMMA NothingSent ==
    ASSUME NEW s, s \in Seq(Byte)
    PROVE  IsPrefix(<<>>, s) /\ <<>> \in Seq(Byte \cup {-1})
<1>1. SubSeq(s, 1, 0) = <<>> /\ Len(s) \in Nat BY WholePrefix
<1>2. 0 \in 0..Len(s) BY <1>1
<1>3. IsPrefix(SubSeq(s, 1, 0), s) BY <1>2, PrefixOf
<1>4. IsPrefix(<<>>, s) BY ONLY <1>1, <1>3, Zenon
<1>5. <<>> \in Seq(Byte \cup {-1}) OBVIOUS
<1>. QED BY <1>4, <1>5

\* What was written may hold bytes that are not of the document.
LEMMA BytesSent ==
    ASSUME NEW s, s \in Seq(Byte)
    PROVE  s \in Seq(Byte \cup {-1})
OBVIOUS

\* Before the first step both hold.
LEMMA OutputInit ==
    ASSUME Init
    PROVE  OutputInv
<1>1. text \in Seq(Byte) BY OutputAssumption DEF Init
<1>2. options \in OptionSets BY DEF Init, OptionSets, NoOptions, Modes
<1>3. Literal BY <1>1, <1>2 DEF Init, Literal
<1>4. Sending
  <2>1. Doc = <<>> /\ Size = 0 BY DEF Init, Doc, Size
  <2>2. IsPrefix(<<>>, <<>>) /\ <<>> \in Seq(Byte \cup {-1})
    <3>1. <<>> \in Seq(Byte) OBVIOUS
    <3>. QED BY <3>1, NothingSent
  <2>3. 0 \in 0..MaxAgain BY OutputAssumption
  <2>4. /\ phase = "new" /\ total = 0 /\ sent = <<>> /\ again = 0 /\ lost = FALSE BY DEF Init
  <2>5. 0 \in Int /\ 0 >= -0 /\ 0 <= 0 OBVIOUS
  <2>6. total \in Int /\ total >= -again /\ total <= Size BY ONLY <2>1, <2>4, <2>5
  <2>7. again \in 0..MaxAgain /\ sent \in Seq(Byte \cup {-1}) /\ IsPrefix(sent, Doc) BY ONLY <2>1, <2>2, <2>3, <2>4, Zenon
  <2>. QED BY <2>4, <2>6, <2>7 DEF Sending, Before
<1>. QED BY <1>3, <1>4 DEF OutputInv

\* A step that leaves the document as it is.
LEMMA SameLiteral ==
    ASSUME Literal, phase # "new", phase' # "new", UNCHANGED <<text, options, literal>>
    PROVE  Literal' /\ Doc' = Doc /\ Size' = Size
BY DEF Literal, Doc, Size

\* Dumping a text.
LEMMA DumpKeeps ==
    ASSUME OutputInv, Dump
    PROVE  OutputInv'
<1>1. PICK o \in OptionSets : /\ options' = o /\ literal' = DumpText(o, text)
                              /\ phase' = IF literal'.raised THEN "raised" ELSE "dumped"
  BY DEF Dump
<1>2. text' = text /\ total' = total /\ sent' = sent /\ again' = again /\ lost' = lost /\ phase = "new" BY DEF Dump
<1>3. Literal' BY <1>1, <1>2 DEF OutputInv, Literal
<1>4. total' = 0 /\ sent' = <<>> /\ again' = 0 /\ ~lost' BY <1>2 DEF OutputInv, Sending, Before
<1>5. Doc' \in Seq(Byte) /\ Size' \in Nat
  <2>1. Optional(o, text) BY DEF OutputInv, Literal, Optional
  <2>2. DumpText(o, text).out \in Seq(Byte) BY <2>1, TextEstimated
  <2>3. literal'.out \in Seq(Byte) BY <1>1, <2>2
  <2>. QED BY <2>3, LenProperties DEF Doc, Size
<1>6. IsPrefix(<<>>, Doc') /\ <<>> \in Seq(Byte \cup {-1}) BY <1>5, NothingSent
<1>7. 0 \in 0..MaxAgain BY OutputAssumption
<1>8. phase' \in {"dumped", "raised"} BY <1>1
<1>10. total' \in Int /\ total' >= -(again') /\ total' <= Size' BY ONLY <1>4, <1>5
<1>11. again' \in 0..MaxAgain /\ sent' \in Seq(Byte \cup {-1}) /\ IsPrefix(sent', Doc') BY ONLY <1>4, <1>6, <1>7, Zenon
<1>12. lost' \in BOOLEAN BY <1>2 DEF OutputInv, Sending
<1>9. Sending' BY <1>4, <1>8, <1>10, <1>11, <1>12 DEF Sending, Before
<1>. QED BY <1>3, <1>9 DEF OutputInv

\* Opening the file or the stream, or failing to.
LEMMA OpenKeeps ==
    ASSUME OutputInv, NEW sink \in {"file", "stream"}, Open(sink) \/ CannotOpen
    PROVE  OutputInv'
<1>1. /\ phase = "dumped" /\ phase' \in {"file", "stream", "raised"}
      /\ UNCHANGED <<text, options, literal, total, sent, again, lost>>
  BY DEF Open, CannotOpen
<1>2. Literal' /\ Doc' = Doc /\ Size' = Size BY <1>1, SameLiteral DEF OutputInv
<1>3. SubSeq(Doc, 1, 0) = <<>> BY LiteralType DEF OutputInv
<1>4. total = 0 /\ sent = <<>> /\ again = 0 /\ ~lost BY <1>1 DEF OutputInv, Sending, Before
<1>5. Sending' BY <1>1, <1>2, <1>3, <1>4 DEF OutputInv, Sending, Before
<1>. QED BY <1>2, <1>5 DEF OutputInv

\* Writing to a file.
LEMMA WriteFileKeeps ==
    ASSUME OutputInv, WriteFile
    PROVE  OutputInv'
<1>1. /\ phase = "file" /\ phase' \in {"done", "raised"} /\ UNCHANGED <<text, options, literal, total, again>>
  BY DEF WriteFile
<1>2. Literal' /\ Doc' = Doc /\ Size' = Size BY <1>1, SameLiteral DEF OutputInv
<1>3. /\ Doc \in Seq(Byte) /\ Size \in Nat /\ SubSeq(Doc, 1, Size) = Doc BY LiteralType DEF OutputInv
<1>4. PICK taken \in 0..Size, failing \in BOOLEAN :
         /\ sent' = SubSeq(Doc, 1, IF failing THEN 0 ELSE taken)
         /\ lost' = (failing /\ taken = Size)
         /\ phase' = IF taken = Size THEN "done" ELSE "raised"
  BY DEF WriteFile
<1>. DEFINE n == IF failing THEN 0 ELSE taken
<1>5. n \in 0..Size /\ sent' = SubSeq(Doc, 1, n) BY <1>3, <1>4
<1>6. ~lost' /\ phase' = "done" => n = Size BY <1>4
<1>. HIDE DEF n
<1>7. SubSeq(Doc, 1, n) \in Seq(Byte) /\ IsPrefix(SubSeq(Doc, 1, n), Doc) BY <1>3, <1>5, PrefixOf DEF Size
<1>8. IsPrefix(sent', Doc') /\ sent' \in Seq(Byte \cup {-1}) BY <1>2, <1>5, <1>7, BytesSent
<1>9. ~lost' /\ phase' = "done" => sent' = Doc' BY <1>2, <1>3, <1>5, <1>6
<1>10. lost' \in BOOLEAN BY <1>4
<1>11. Sending' BY <1>1, <1>2, <1>3, <1>8, <1>9, <1>10 DEF OutputInv, Sending, Before
<1>. QED BY <1>2, <1>11 DEF OutputInv

\* Writing to a descriptor that takes some of it.
LEMMA WriteKeeps ==
    ASSUME OutputInv, Write
    PROVE  OutputInv'
<1>1. /\ phase = "stream" /\ phase' = (IF Size <= total' THEN "done" ELSE "wait")
      /\ UNCHANGED <<text, options, literal, again, lost>>
  BY DEF Write
<1>2. Literal' /\ Doc' = Doc /\ Size' = Size BY <1>1, SameLiteral DEF OutputInv
<1>3. /\ Doc \in Seq(Byte) /\ Size \in Nat /\ SubSeq(Doc, 1, Size) = Doc /\ DOMAIN Doc = 1..Size BY LiteralType DEF OutputInv
<1>4. PICK n \in 1..Size - total : sent' = sent \o FromBuffer(n) /\ total' = total + n BY DEF Write, Counted
<1>5. /\ total \in Int /\ total >= -again /\ total <= Size /\ sent \in Seq(Byte \cup {-1}) /\ again \in 0..MaxAgain
      /\ ~lost /\ lost \in BOOLEAN /\ (again = 0 => total >= 0 /\ sent = SubSeq(Doc, 1, total))
  BY <1>1 DEF OutputInv, Sending
<1>6. n \in Nat /\ n >= 1 /\ total' \in Int /\ total' >= -again /\ total' <= Size
  <2>1. again \in Nat /\ -again \in Int BY <1>5, OutputAssumption
  <2>. QED BY <1>3, <1>4, <1>5, <2>1
<1>7. sent' \in Seq(Byte \cup {-1})
  <2>1. FromBuffer(n) \in Seq(Byte \cup {-1})
    <3>1. \A k \in 1..n : (IF total + k \in DOMAIN Doc THEN Doc[total + k] ELSE -1) \in Byte \cup {-1}
      BY <1>3, ByteAt
    <3>. DEFINE f(k) == IF total + k \in DOMAIN Doc THEN Doc[total + k] ELSE -1
    <3>2. FromBuffer(n) = [k \in 1..n |-> f(k)] BY DEF FromBuffer
    <3>3. \A k \in 1..n : f(k) \in Byte \cup {-1} BY <3>1
    <3>. HIDE DEF f
    <3>. QED BY <1>6, <3>2, <3>3
  <2>. QED BY <1>4, <1>5, <2>1, ConcatProperties
<1>8. again = 0 => total' >= 0 /\ sent' = SubSeq(Doc, 1, total')
  <2>1. SUFFICES ASSUME again = 0 PROVE total' >= 0 /\ sent' = SubSeq(Doc, 1, total') OBVIOUS
  <2>2. total \in 0..Len(Doc) /\ total + n <= Len(Doc) /\ sent = SubSeq(Doc, 1, total)
    BY <1>3, <1>4, <1>5, <1>6, <2>1 DEF Size
  <2>3. FromBuffer(n) = [k \in 1..n |-> IF total + k \in DOMAIN Doc THEN Doc[total + k] ELSE -1] BY DEF FromBuffer
  <2>4. SubSeq(Doc, 1, total) \o FromBuffer(n) = SubSeq(Doc, 1, total + n) BY <1>3, <1>6, <2>2, <2>3, WrittenOn
  <2>. QED BY <1>4, <1>6, <2>2, <2>4
<1>9. again = 0 => IsPrefix(sent', Doc) /\ (phase' = "done" => sent' = Doc)
  <2>1. SUFFICES ASSUME again = 0 PROVE IsPrefix(sent', Doc) /\ (phase' = "done" => sent' = Doc) OBVIOUS
  <2>2. total' \in 0..Len(Doc) BY <1>3, <1>6, <1>8, <2>1 DEF Size
  <2>3. IsPrefix(SubSeq(Doc, 1, total'), Doc) BY <1>3, <2>2, PrefixOf
  <2>4. phase' = "done" => total' = Size BY <1>1, <1>3, <1>6
  <2>. QED BY <1>3, <1>8, <2>1, <2>3, <2>4
<1>10. phase' \in {"done", "wait"} BY <1>1
<1>12. /\ again' = again /\ lost' = lost /\ Doc' = Doc /\ Size' = Size BY <1>1, <1>2
<1>13. /\ again' \in 0..MaxAgain /\ lost' \in BOOLEAN /\ ~lost'
       /\ total' \in Int /\ total' >= -(again') /\ total' <= Size' /\ sent' \in Seq(Byte \cup {-1})
  BY <1>5, <1>6, <1>7, <1>12
<1>14. /\ again' = 0 => total' >= 0 /\ sent' = SubSeq(Doc', 1, total')
       /\ again' = 0 => IsPrefix(sent', Doc') /\ (phase' = "done" => sent' = Doc')
  BY ONLY <1>8, <1>9, <1>12, Zenon
<1>15. /\ phase' \in {"new", "dumped", "file", "stream", "wait", "done", "raised"} /\ phase' \notin Before
  BY <1>10 DEF Before
<1>11. Sending' BY <1>13, <1>14, <1>15 DEF Sending
<1>. QED BY <1>2, <1>11 DEF OutputInv

\* Writing to a descriptor that is not ready: from here on nothing is promised.
LEMMA WriteAgainKeeps ==
    ASSUME OutputInv, WriteAgain
    PROVE  OutputInv'
<1>1. /\ phase = "stream" /\ phase' = "wait" /\ again < MaxAgain /\ again' = again + 1 /\ total' = total + (-1)
      /\ UNCHANGED <<text, options, literal, sent, lost>>
  BY DEF WriteAgain, Counted
<1>2. Literal' /\ Doc' = Doc /\ Size' = Size BY <1>1, SameLiteral DEF OutputInv
<1>3. Size \in Nat /\ MaxAgain \in Nat BY LiteralType, OutputAssumption DEF OutputInv
<1>4. /\ total \in Int /\ total >= -again /\ total <= Size /\ sent \in Seq(Byte \cup {-1}) /\ again \in 0..MaxAgain
      /\ ~lost /\ lost \in BOOLEAN
  BY <1>1 DEF OutputInv, Sending
<1>5. again' \in 0..MaxAgain /\ again' # 0 /\ total' \in Int /\ total' >= -(again') /\ total' <= Size BY <1>1, <1>3, <1>4
<1>6. Sending' BY <1>1, <1>2, <1>4, <1>5 DEF Sending, Before
<1>. QED BY <1>2, <1>6 DEF OutputInv

\* An error of the descriptor, and waiting for it.
LEMMA RestKeeps ==
    ASSUME OutputInv, WriteFails \/ WriteReady
    PROVE  OutputInv'
<1>1. /\ phase \in {"stream", "wait"} /\ phase' \in {"stream", "raised"}
      /\ UNCHANGED <<text, options, literal, total, sent, again, lost>>
  BY DEF WriteFails, WriteReady
<1>2. Literal' /\ Doc' = Doc /\ Size' = Size BY <1>1, SameLiteral DEF OutputInv
<1>3. Sending' BY <1>1, <1>2 DEF OutputInv, Sending, Before
<1>. QED BY <1>2, <1>3 DEF OutputInv

\* No step at all.
LEMMA OutputSame ==
    ASSUME OutputInv, UNCHANGED vars
    PROVE  OutputInv'
BY DEF OutputInv, Literal, Sending, Doc, Size, vars

\* In every state the literal is what oj_dump_cstr makes of the text, and what was
\* written of it so far is its beginning, unless the descriptor was not ready or the
\* file could not be closed (oj_write_obj_to_file, oj_write_obj_to_stream).
THEOREM OutputInvariant == Spec => []OutputInv
<1>1. Init => OutputInv BY OutputInit
<1>2. OutputInv /\ [Next]_vars => OutputInv'
  <2>1. SUFFICES ASSUME OutputInv, [Next]_vars PROVE OutputInv' OBVIOUS
  <2>2. CASE Dump BY <2>1, <2>2, DumpKeeps
  <2>3. CASE Open("file") \/ Open("stream") \/ CannotOpen BY <2>1, <2>3, OpenKeeps
  <2>4. CASE WriteFile BY <2>1, <2>4, WriteFileKeeps
  <2>5. CASE WriteAgain BY <2>1, <2>5, WriteAgainKeeps
  <2>6. CASE Write BY <2>1, <2>6, WriteKeeps
  <2>7. CASE WriteFails \/ WriteReady BY <2>1, <2>7, RestKeeps
  <2>8. CASE Over \/ UNCHANGED vars
    <3>1. UNCHANGED vars BY <2>8 DEF Over
    <3>. QED BY <2>1, <3>1, OutputSame
  <2>. QED BY <2>1, <2>2, <2>3, <2>4, <2>5, <2>6, <2>7, <2>8 DEF Next
<1>. QED BY <1>1, <1>2, PTL DEF Spec

\* The invariant has the types of the variables in it.
LEMMA InvType ==
    ASSUME OutputInv
    PROVE  TypeOK
<1>1. Literal /\ Sending BY DEF OutputInv
<1>2. Doc \in Seq(Byte) /\ literal.size \in Nat /\ literal.raised \in BOOLEAN /\ Size \in Nat BY <1>1, LiteralType
<1>3. total \in -MaxAgain..Size BY <1>1, <1>2, OutputAssumption DEF Sending
<1>. QED BY <1>1, <1>2, <1>3 DEF TypeOK, Literal, Sending, Doc

\* calculate_string_size asks room enough for any text, in every mode, before a byte
\* of it is looked at: what oj_dump_cstr writes fits.
THEOREM EstimatedAlways == Spec => []Estimated
<1>1. OutputInv => Estimated
  <2>1. SUFFICES ASSUME OutputInv PROVE Estimated OBVIOUS
  <2>2. TypeOK BY <2>1, InvType
  <2>3. ASSUME Dumped PROVE Len(Doc) <= literal.size + 2 + (IF options.object THEN 5 ELSE 0)
    <3>1. literal = DumpText(options, text) /\ Optional(options, text) /\ ~literal.raised
      BY <2>1, <2>3 DEF OutputInv, Literal, Optional, Dumped
    <3>. QED BY <3>1, TextEstimated DEF Doc
  <2>. QED BY <2>2, <2>3 DEF Estimated
<1>. QED BY <1>1, OutputInvariant, PTL

\* Whatever the text, the mode and the options: the literal is read back as the text,
\* the texts that are not of characters are refused by the modes that validate and no
\* others, and in object mode a String is never taken for a Symbol or a reference.
THEOREM StandsAlways == Spec => []Stands
<1>1. OutputInv => Stands
  <2>1. SUFFICES ASSUME OutputInv PROVE Stands OBVIOUS
  <2>. DEFINE d == DumpText(options, text)
  <2>2. phase # "new" => literal = d BY <2>1 DEF OutputInv, Literal
  <2>3. Optional(options, text) BY <2>1 DEF OutputInv, Literal, Optional
  <2>4. /\ ~d.raised /\ (IsUtf8(text) \/ options.mode \in Unchecked)
             => StandsFor(d.out, Prefix(Symbolic(options)) \o Kept(options.omitNull, text))
        /\ IsUtf8(text) => ~d.raised
        /\ options.mode \in Unchecked => ~d.raised
        /\ ~Shaped(text) /\ options.mode \notin Unchecked => d.raised
        /\ ~d.raised /\ options.object /\ ~(options.omitNull /\ 0 \in ToSet(text)) =>
              (options.symbol <=> d.out[2] = Colon) /\ ~(d.out[2] = Hat /\ At(d.out, 3) \in {105, 114})
    BY <2>3, TextStands
  <2>. HIDE DEF d
  <2>5. Decodes
    <3>1. Prefix(Symbolic(options)) = IF options.object /\ options.symbol THEN <<Colon>> ELSE <<>> BY DEF Prefix, Symbolic
    <3>. QED BY <2>2, <2>4, <3>1 DEF Decodes, Dumped, Doc, Unchecked
  <2>6. Refuses BY <2>2, <2>4 DEF Refuses, Unchecked
  <2>7. ToldApart BY <2>2, <2>4 DEF ToldApart, Dumped, Doc
  <2>. QED BY <2>5, <2>6, <2>7 DEF Stands
<1>. QED BY <1>1, OutputInvariant, PTL

\* A call that returns has written the document, whole and once, and anything written
\* earlier is its beginning, whatever parts the descriptor takes it in.
THEOREM DeliveredAlways == Spec => []Delivered
<1>1. OutputInv => Delivered BY DEF OutputInv, Sending, Delivered
<1>. QED BY <1>1, OutputInvariant, PTL
===============================================================================
