-------------------------- MODULE ParserCachesProofs --------------------------
(* What the owners of a parser's own cache keep of it.  The usual delegate:   *)
(* for every set of texts, every hash function, every rate and every order of *)
(* the options.  The delegate of a handler: its cache and its stack of keys,  *)
(* for every depth, every handler and every size of the stack.                *)
EXTENDS UsualCaches, SajKeys, FiniteSetTheorems, TLAPS

-----------------------------------------------------------------------------
(* The table.                                                                *)

LEMMA BucketRange ==
  ASSUME NEW k \in Keys, NEW n \in Nat \ {0}
  PROVE  Bucket(k, n) \in 0 .. n - 1
BY SizesAssumption DEF SizesAssumption, Bucket

LEMMA ModRange ==
  ASSUME NEW u \in Int
  PROVE  u % UseMod \in 0 .. UseMod - 1
BY SizesAssumption DEF SizesAssumption

\* The table Publish leaves holds what it held and the new entry, each entry
\* in the bucket its text selects.
LEMMA PublishedTable ==
  ASSUME CacheType, Placed,
         \A m \in Chained : key[m] \in Keys /\ key'[m] = key[m],
         NEW n \in Nodes, key'[n] \in Keys,
         NEW b, b = Bucket(key'[n], size),
         Publish(b, slots[b], n, key')
  PROVE  /\ size' \in Nat \ {0}
         /\ size' = size \/ size' > size
         /\ slots' \in [0 .. size' - 1 -> SUBSET Nodes]
         /\ Chained' = Chained \cup {n}
         /\ Placed'
<1> DEFINE tbl == Pushed(slots, b, slots[b], n)
<1>1. b \in 0 .. size - 1 /\ size \in Nat \ {0}
  BY BucketRange DEF CacheType
<1>2. /\ tbl \in [0 .. size - 1 -> SUBSET Nodes]
      /\ \A i \in 0 .. size - 1 : tbl[i] = slots[i] \cup (IF i = b THEN {n} ELSE {})
  BY <1>1 DEF Pushed, CacheType
<1>3. UNION {tbl[i] : i \in 0 .. size - 1} = Chained \cup {n}
  BY <1>1, <1>2 DEF Chained
<1>4. CASE Crowded(cnt + 1, size)
  <2>1. size' = 4 * size /\ slots' = Rehashed(tbl, size, key')
    BY <1>4 DEF Publish
  <2>2. 4 * size \in Nat \ {0} /\ 4 * size > size
    BY <1>1
  <2>3. slots' = [i \in 0 .. size' - 1 |-> {m \in Chained \cup {n} : Bucket(key'[m], size') = i}]
    BY <1>3, <2>1 DEF Rehashed
  <2>4. \A m \in Chained \cup {n} : m \in Nodes /\ key'[m] \in Keys
    BY DEF Chained, CacheType
  <2>5. \A m \in Chained \cup {n} : Bucket(key'[m], size') \in 0 .. size' - 1
    BY <2>1, <2>2, <2>4, BucketRange
  <2>6. Chained' = Chained \cup {n}
    BY <2>3, <2>5 DEF Chained
  <2>7. Placed'
    BY <2>3 DEF Placed, Bucket
  <2> QED BY <2>1, <2>2, <2>3, <2>4, <2>6, <2>7
<1>5. CASE ~Crowded(cnt + 1, size)
  <2>1. size' = size /\ slots' = tbl
    BY <1>5 DEF Publish
  <2>2. Chained' = Chained \cup {n}
    BY <1>3, <2>1 DEF Chained
  <2>3. \A i \in 0 .. size - 1 : slots[i] \subseteq Chained
    BY DEF Chained
  <2>4. Placed'
    BY <1>1, <1>2, <2>1, <2>3 DEF Placed, Bucket
  <2> QED BY <1>1, <1>2, <2>1, <2>2, <2>4
<1> QED BY <1>4, <1>5

\* What a collection moves from the chains to the free list, it counts.
LEMMA CollectedCounts ==
  ASSUME IsFiniteSet(Chained), IsFiniteSet(reuse), Chained \cap reuse = {},
         cnt = Cardinality(Chained), rcnt = Cardinality(reuse),
         NEW r, NEW roots, Collect(r, roots)
  PROVE  /\ Expunged \subseteq Chained /\ IsFiniteSet(Expunged)
         /\ Chained' = Chained \ Expunged
         /\ cnt' = Cardinality(Chained') /\ cnt' \in Nat
         /\ rcnt' = Cardinality(reuse') /\ rcnt' \in Nat
<1> DEFINE E == Expunged
<1>1. E \subseteq Chained
  BY DEF Expunged
<1>2. Chained' = Chained \ E
  BY DEF Collect, Chained
<1>3. IsFiniteSet(E) /\ Cardinality(E) \in Nat /\ cnt \in Nat /\ rcnt \in Nat
  BY <1>1, FS_Subset, FS_CardinalityType
<1>4. Cardinality(Chained \ E) = cnt - Cardinality(E)
  <2>1. Chained \cap E = E
    BY <1>1
  <2> QED BY <2>1, FS_Difference
<1>5. Cardinality(Chained \ E) \in Nat
  BY FS_Difference, FS_CardinalityType
<1>6. Cardinality(reuse \cup E) = rcnt + Cardinality(E)
  <2>1. Cardinality(reuse \cap E) = 0
    BY <1>1, FS_EmptySet
  <2>2. Cardinality(reuse \cup E) = Cardinality(reuse) + Cardinality(E) - Cardinality(reuse \cap E)
    BY <1>3, FS_Union
  <2> QED BY <1>3, <2>1, <2>2
<1> QED BY <1>1, <1>2, <1>3, <1>4, <1>5, <1>6 DEF Collect

-----------------------------------------------------------------------------
(* What the steps that owners are made of keep of a cache.                  *)

\* The bucket kept in a local while form() runs; the table is not resized meanwhile.
Pending == req # None => bkt = Bucket(req, size)

\* The entries of the table have a text.
Filled == \A n \in Chained : key[n] \in Keys

CacheInv == Consistent /\ RightValues /\ Pending /\ Filled /\ IsFiniteSet(mem)

LEMMA InitCacheInv == Init => CacheInv
<1> SUFFICES ASSUME Init PROVE CacheInv
  OBVIOUS
<1>1. TypeOK
  BY SizesAssumption, NoneAssumption, BoundsAssumption DEF Init, CacheInit, TypeOK, CacheType, SizesAssumption, BoundsAssumption, Rates
<1>2. Chained = {}
  BY SizesAssumption DEF Init, CacheInit, Chained, SizesAssumption
<1>3. OneEntry /\ Filled /\ LiveEntries /\ RightValues
  BY <1>2 DEF OneEntry, Filled, LiveEntries, RightValues, Init
<1>4. Accounting /\ Placed /\ OneOwner /\ Pending /\ IsFiniteSet(mem)
  BY <1>2, FS_EmptySet DEF Accounting, Placed, OneOwner, Pending, Init, CacheInit
<1> QED BY <1>1, <1>3, <1>4 DEF CacheInv, Consistent

-----------------------------------------------------------------------------
\* A step that leaves the cache and what the parser holds alone.
LEMMA CacheKept ==
  ASSUME CacheInv, TypeOK', UNCHANGED <<cacheVars, stack, leaked>>,
         req' # None => bkt' = Bucket(req', size) /\ \A n \in Chained : key[n] # req'
  PROVE  CacheInv'
<1> USE DEF CacheInv, Consistent, cacheVars, tableVars, freeVars, nodeVars
<1>1. Chained' = Chained
  BY DEF Chained
<1>2. \A n \in Chained : key[n] # req'
  BY NoneAssumption DEF Filled, NoneAssumption
<1>3. OneEntry'
  BY <1>1, <1>2 DEF OneEntry
<1>4. Accounting' /\ OneOwner' /\ Filled'
  BY <1>1 DEF Accounting, OneOwner, Filled
<1>5. Placed' /\ Pending'
  BY DEF Placed, Pending, Bucket
<1>6. RightValues'
  BY <1>1 DEF RightValues, LiveEntries
<1> QED BY <1>3, <1>4, <1>5, <1>6

LEMMA StutterOK ==
  ASSUME CacheInv, UNCHANGED vars
  PROVE  CacheInv'
<1>1. TypeOK'
  BY DEF CacheInv, Consistent, TypeOK, CacheType, vars, cacheVars, tableVars, freeVars, nodeVars, callVars, countVars
<1>2. UNCHANGED <<cacheVars, stack, leaked, size, req, bkt>>
  BY DEF vars, cacheVars, tableVars, callVars
<1>3. req' # None => bkt' = Bucket(req', size) /\ \A n \in Chained : key[n] # req'
  BY <1>2 DEF CacheInv, Consistent, OneEntry, Pending
<1> QED BY <1>1, <1>2, <1>3, CacheKept

LEMMA SetRateOK ==
  ASSUME CacheInv, NEW r \in Rates, SetRate(r)
  PROVE  CacheInv'
<1>1. TypeOK'
  BY BoundsAssumption DEF CacheInv, Consistent, SetRate, Counted, BoundsAssumption, TypeOK, CacheType, cacheVars, tableVars, freeVars, nodeVars, callVars
<1>2. UNCHANGED <<cacheVars, stack, leaked, size, req, bkt>> /\ req' = None
  BY DEF SetRate, Idle, cacheVars, tableVars, callVars
<1> QED BY <1>1, <1>2, CacheKept

LEMMA LookupMissOK ==
  ASSUME CacheInv, NEW k \in Keys, LookupMiss(k)
  PROVE  CacheInv'
<1> USE DEF CacheInv, Consistent
<1>1. Bucket(k, size) \in 0 .. size - 1
  BY BucketRange DEF TypeOK, CacheType
<1>2. TypeOK'
  BY <1>1, BoundsAssumption DEF LookupMiss, CanCall, BoundsAssumption, TypeOK, CacheType, cacheVars, tableVars, freeVars, nodeVars
<1>3. \A n \in Chained : key[n] # k
  <2> SUFFICES ASSUME NEW i \in 0 .. size - 1, NEW n \in slots[i], key[n] = k PROVE FALSE
    BY DEF Chained
  <2>1. i = Bucket(k, size)
    BY DEF Placed
  <2>2. n \in Hits(k)
    BY <2>1 DEF Hits
  <2> QED BY <2>2 DEF LookupMiss
<1>4. UNCHANGED <<cacheVars, stack, leaked>> /\ req' = k /\ bkt' = Bucket(k, size)
  BY DEF LookupMiss
<1> QED BY <1>2, <1>3, <1>4, CacheKept

-----------------------------------------------------------------------------
LEMMA LookupHitOK ==
  ASSUME CacheInv, NEW k \in Keys, LookupHit(k)
  PROVE  CacheInv'
<1> USE DEF CacheInv, Consistent
<1>1. PICK n \in Hits(k) : Hit(n) /\ stack' = stack \cup {<<k, val[n]>>}
  BY DEF LookupHit
<1>2. n \in Chained /\ n \in Nodes /\ Seen[key[n]] = Seen[k]
  BY <1>1, BucketRange DEF Hits, Chained, TypeOK, CacheType
<1>3. val[n] \in Objs /\ heap[val[n]] = key[n] /\ key[n] # None
  BY <1>2, NoneAssumption DEF RightValues, LiveEntries, Filled, NoneAssumption
<1>4. (use[n] + HitUse) % UseMod \in 0 .. UseMod - 1
  <2>1. use[n] + HitUse \in Int
    BY <1>2, SizesAssumption DEF SizesAssumption, TypeOK, CacheType
  <2> QED BY <2>1, ModRange
<1>5. UNCHANGED <<tableVars, freeVars, key, val, heap, rate, callVars, leaked, sets>> /\ calls' = calls + 1 /\ calls < MaxCalls
  BY DEF LookupHit, CanCall
<1>6. TypeOK'
  BY <1>1, <1>2, <1>3, <1>4, <1>5, BoundsAssumption DEF Hit, BoundsAssumption, TypeOK, CacheType, tableVars, freeVars, callVars
<1>7. Chained' = Chained
  BY <1>5 DEF Chained, tableVars
<1>8. Accounting' /\ OneOwner' /\ OneEntry' /\ Filled'
  BY <1>5, <1>7 DEF Accounting, OneOwner, OneEntry, Filled, tableVars, freeVars, callVars
<1>9. Placed' /\ Pending'
  BY <1>5 DEF Placed, Pending, Bucket, tableVars, callVars
<1>10. RightValues'
  BY <1>1, <1>2, <1>3, <1>5, <1>7 DEF RightValues, LiveEntries
<1> QED BY <1>5, <1>6, <1>8, <1>9, <1>10 DEF freeVars

LEMMA FormOK ==
  ASSUME CacheInv, NEW k \in Keys, Form(k)
  PROVE  CacheInv'
<1> USE DEF CacheInv, Consistent
<1>1. PICK o \in Objs : /\ heap[o] = None /\ heap' = [heap EXCEPT ![o] = k]
                        /\ stack' = stack \cup {<<k, o>>}
  BY DEF Form
<1>2. UNCHANGED <<tableVars, freeVars, nodeVars, rate, callVars, leaked, sets>> /\ calls' = calls + 1 /\ calls < MaxCalls
  BY DEF Form, CanCall
<1>3. TypeOK'
  BY <1>1, <1>2, BoundsAssumption DEF BoundsAssumption, TypeOK, CacheType, tableVars, freeVars, nodeVars, callVars
<1>4. Chained' = Chained
  BY <1>2 DEF Chained, tableVars
<1>5. Accounting' /\ OneOwner' /\ OneEntry' /\ Filled'
  BY <1>2, <1>4 DEF Accounting, OneOwner, OneEntry, Filled, tableVars, freeVars, nodeVars, callVars
<1>6. Placed' /\ Pending'
  BY <1>2 DEF Placed, Pending, Bucket, tableVars, nodeVars, callVars
<1>7. LiveEntries'
  <2>1. \A n \in Chained : val[n] # o
    BY <1>1, NoneAssumption DEF RightValues, LiveEntries, Filled, NoneAssumption
  <2> QED BY <1>1, <1>2, <1>4, <2>1 DEF RightValues, LiveEntries, TypeOK, CacheType, nodeVars
<1>8. RightValues'
  <2> SUFFICES ASSUME NEW e \in stack' PROVE heap'[e[2]] # None /\ Seen[heap'[e[2]]] = Seen[e[1]]
    BY <1>7 DEF RightValues
  <2>1. CASE e \in stack
    <3>1. e[2] \in Objs /\ e[2] # o
      BY <1>1, <2>1 DEF RightValues, TypeOK
    <3> QED BY <1>1, <2>1, <3>1 DEF RightValues, TypeOK, CacheType
  <2>2. CASE e = <<k, o>>
    BY <1>1, <2>2, NoneAssumption DEF TypeOK, CacheType, NoneAssumption
  <2> QED BY <1>1, <2>1, <2>2
<1> QED BY <1>2, <1>3, <1>5, <1>6, <1>8 DEF freeVars

LEMMA LookupOK ==
  ASSUME CacheInv, NEW k \in Keys, Lookup(k)
  PROVE  CacheInv'
BY FormOK, LookupHitOK, LookupMissOK DEF Lookup, FormLong

LEMMA DocDoneOK ==
  ASSUME CacheInv, DocDone
  PROVE  CacheInv'
<1> USE DEF CacheInv, Consistent
<1>1. stack' = {} /\ UNCHANGED <<cacheVars, rate, callVars, leaked, countVars>>
  BY DEF DocDone
<1>2. TypeOK'
  BY <1>1 DEF TypeOK, CacheType, cacheVars, tableVars, freeVars, nodeVars, callVars, countVars
<1>3. Chained' = Chained
  BY <1>1 DEF Chained, cacheVars, tableVars
<1>4. Accounting' /\ OneOwner' /\ OneEntry' /\ Filled' /\ IsFiniteSet(mem)'
  BY <1>1, <1>3 DEF Accounting, OneOwner, OneEntry, Filled, cacheVars, tableVars, freeVars, nodeVars, callVars
<1>5. Placed' /\ Pending'
  BY <1>1 DEF Placed, Pending, Bucket, cacheVars, tableVars, nodeVars, callVars
<1>6. RightValues'
  BY <1>1, <1>3 DEF RightValues, LiveEntries, cacheVars, nodeVars
<1> QED BY <1>2, <1>4, <1>5, <1>6

LEMMA TrimReuseOK ==
  ASSUME CacheInv, TrimReuse
  PROVE  CacheInv'
<1> USE DEF CacheInv, Consistent
<1>1. IsFiniteSet(reuse) /\ reuse # {}
  BY SizesAssumption, FS_Subset, FS_EmptySet DEF TrimReuse, OneOwner, Accounting, TypeOK, CacheType, SizesAssumption
<1>2. PICK n \in reuse : reuse' = reuse \ {n} /\ mem' = mem \ {n} /\ rcnt' = rcnt - 1
  BY <1>1 DEF TrimReuse, Trim, FreeHeads
<1>3. Cardinality(reuse') = Cardinality(reuse) - 1 /\ Cardinality(reuse') \in Nat
  BY <1>1, <1>2, FS_RemoveElement, FS_CardinalityType, FS_Subset
<1>4. UNCHANGED <<tableVars, nodeVars, heap, rate, callVars, stack, leaked, countVars>>
  BY DEF TrimReuse
<1>5. Chained' = Chained
  BY <1>4 DEF Chained, tableVars
<1>6. TypeOK'
  BY <1>2, <1>3, <1>4 DEF Accounting, TypeOK, CacheType, tableVars, nodeVars, callVars, countVars
<1>7. OneOwner' /\ IsFiniteSet(mem)'
  BY <1>2, <1>4, <1>5, FS_Subset DEF OneOwner, tableVars
<1>8. Accounting' /\ OneEntry' /\ Filled'
  BY <1>2, <1>3, <1>4, <1>5 DEF Accounting, OneEntry, Filled, tableVars, nodeVars, callVars
<1>9. Placed' /\ Pending' /\ RightValues'
  BY <1>4, <1>5 DEF Placed, Pending, Bucket, RightValues, LiveEntries, tableVars, nodeVars, callVars
<1> QED BY <1>6, <1>7, <1>8, <1>9

-----------------------------------------------------------------------------
\* form() has returned: the text is in no chain, its value is new, and the bucket kept
\* in the local is still the one it belongs in.
LEMMA InsertOK ==
  ASSUME CacheInv, Insert
  PROVE  CacheInv'
<1> USE DEF CacheInv, Consistent
<1>1. PICK n \in NewNodes, o \in Objs :
        /\ heap[o] = None /\ heap' = [heap EXCEPT ![o] = req]
        /\ Taken(n) /\ mem' = mem \cup {n}
        /\ key' = [key EXCEPT ![n] = req]
        /\ val' = [val EXCEPT ![n] = o]
        /\ use' = [use EXCEPT ![n] = InitUse]
        /\ Publish(bkt, slots[bkt], n, [key EXCEPT ![n] = req])
        /\ stack' = stack \cup {<<req, o>>}
  BY DEF Insert
<1>2. req \in Keys /\ req # None /\ req' = None /\ bkt' = 0 /\ bkt = Bucket(req, size)
      /\ UNCHANGED <<rate, leaked, calls, sets>>
  BY DEF Insert, Idle, TypeOK, Pending, countVars
<1>3. n \in Nodes /\ n \notin Chained \cup leaked
  BY DEF NewNodes, OneOwner, TypeOK, CacheType
<1>4. key'[n] = req /\ \A m \in Chained : m \in Nodes /\ m # n /\ key'[m] = key[m] /\ key[m] \in Keys
  BY <1>1, <1>3 DEF Filled, Chained, TypeOK, CacheType
<1>5. /\ size' \in Nat \ {0} /\ slots' \in [0 .. size' - 1 -> SUBSET Nodes]
      /\ Chained' = Chained \cup {n} /\ Placed'
  <2>1. Publish(bkt, slots[bkt], n, key') /\ bkt = Bucket(key'[n], size) /\ key'[n] \in Keys
    BY <1>1, <1>2, <1>4
  <2>2. CacheType /\ \A m \in Chained : key[m] \in Keys /\ key'[m] = key[m]
    BY <1>4 DEF TypeOK
  <2> QED BY <1>3, <2>1, <2>2, PublishedTable
<1>6. IsFiniteSet(Chained) /\ IsFiniteSet(reuse) /\ IsFiniteSet(mem)'
  BY <1>1, FS_Subset, FS_AddElement DEF OneOwner
<1>7. cnt' = Cardinality(Chained') /\ cnt' \in Nat
  <2>1. cnt' = cnt + 1
    BY <1>1 DEF Publish
  <2>2. Cardinality(Chained \cup {n}) = Cardinality(Chained) + 1
    BY <1>3, <1>6, FS_AddElement
  <2> QED BY <1>5, <2>1, <2>2 DEF Accounting, TypeOK, CacheType
<1>8. rcnt' = Cardinality(reuse') /\ rcnt' \in Nat /\ reuse' = reuse \ {n}
  <2>1. Cardinality(reuse \ {n}) = IF n \in reuse THEN rcnt - 1 ELSE rcnt
    BY <1>6, FS_RemoveElement DEF Accounting
  <2>2. Cardinality(reuse \ {n}) \in Nat
    BY <1>6, FS_RemoveElement, FS_CardinalityType
  <2>3. reuse # {} => n \in reuse
    BY DEF NewNodes
  <2> QED BY <1>1, <2>1, <2>2, <2>3 DEF Taken
<1>9. TypeOK'
  <2>1. /\ key' \in [Nodes -> Keys \cup {None}] /\ val' \in [Nodes -> Objs \cup {None}]
        /\ heap' \in [Objs -> Keys \cup {None}]
    BY <1>1, <1>2, <1>3 DEF TypeOK, CacheType
  <2>2. stack' \in SUBSET (Keys \X Objs)
    BY <1>1, <1>2 DEF TypeOK
  <2>3. use' \in [Nodes -> 0 .. UseMod - 1]
    BY <1>1, SizesAssumption DEF TypeOK, CacheType, SizesAssumption
  <2>4. reuse' \in SUBSET Nodes /\ mem' \in SUBSET Nodes
    BY <1>1, <1>3, <1>8 DEF TypeOK, CacheType
  <2> QED BY <1>2, <1>5, <1>7, <1>8, <2>1, <2>2, <2>3, <2>4 DEF TypeOK, CacheType
<1>10. OneOwner'
  <2>1. \A i, j \in 0 .. size' - 1 : i # j => slots'[i] \cap slots'[j] = {}
    <3>1. \A h \in 0 .. size' - 1 : \A m \in slots'[h] : Hash[key'[m]] % size' = h
      BY <1>5 DEF Placed, Bucket
    <3> QED BY <3>1
  <2> QED BY <1>1, <1>2, <1>3, <1>5, <1>8, <2>1 DEF OneOwner
<1>11. OneEntry' /\ Filled'
  BY <1>2, <1>4, <1>5, NoneAssumption DEF OneEntry, Filled, NoneAssumption
<1>12. LiveEntries'
  <2>1. val'[n] = o /\ heap'[o] = req /\ o \in Objs
    BY <1>1, <1>3 DEF TypeOK, CacheType
  <2>2. ASSUME NEW m \in Chained PROVE val'[m] \in Objs /\ heap'[val'[m]] = key'[m]
    <3>1. val'[m] = val[m] /\ val[m] \in Objs /\ heap[val[m]] = key[m]
      BY <1>1, <1>4 DEF RightValues, LiveEntries, TypeOK, CacheType
    <3>2. val[m] # o
      BY <1>1, <1>4, <3>1, NoneAssumption DEF NoneAssumption
    <3> QED BY <1>1, <1>4, <3>1, <3>2 DEF TypeOK, CacheType
  <2> QED BY <1>4, <1>5, <2>1, <2>2 DEF LiveEntries
<1>13. RightValues'
  <2> SUFFICES ASSUME NEW e \in stack' PROVE heap'[e[2]] # None /\ Seen[heap'[e[2]]] = Seen[e[1]]
    BY <1>12 DEF RightValues
  <2>1. CASE e \in stack
    <3>1. e[2] \in Objs /\ e[2] # o
      BY <1>1, <2>1 DEF RightValues, TypeOK
    <3> QED BY <1>1, <2>1, <3>1 DEF RightValues, TypeOK, CacheType
  <2>2. CASE e = <<req, o>>
    BY <1>1, <1>2, <2>2 DEF TypeOK, CacheType
  <2> QED BY <1>1, <2>1, <2>2
<1> QED BY <1>2, <1>5, <1>6, <1>7, <1>8, <1>9, <1>10, <1>11, <1>13 DEF Accounting, Pending

\* Whatever the rate, an aged count is one the field can hold.
LEMMA AgedRange ==
  ASSUME NEW u \in 0 .. UseMod - 1, NEW r \in Rates
  PROVE  Aged(u, r) \in 0 .. UseMod - 1
<1>1. u \in Nat /\ UseMod \in Nat \ {0}
  BY SizesAssumption DEF SizesAssumption
<1>2. (u - 1) % UseMod \in 0 .. UseMod - 1 /\ (u - 2) % UseMod \in 0 .. UseMod - 1
  <2>1. u - 1 \in Int /\ u - 2 \in Int
    BY <1>1
  <2> QED BY <2>1, ModRange
<1>3. u \div 2 \in 0 .. UseMod - 1
  BY <1>1
<1>4. Aged(u, 0) = u
  BY DEF Aged
<1>5. Aged(u, 1) = (u - 1) % UseMod
  BY DEF Aged
<1>6. Aged(u, 2) = (u - 2) % UseMod
  BY DEF Aged
<1>7. Aged(u, 3) = u \div 2
  BY DEF Aged
<1>8. r \in {0, 1, 2, 3}
  BY DEF Rates
<1> QED BY <1>2, <1>3, <1>4, <1>5, <1>6, <1>7, <1>8

\* A collection moves the entries nobody asked for to the free list and kills no value
\* of another entry, nor one that is held, whatever else it finds.
LEMMA CollectOK ==
  ASSUME CacheInv, NEW roots, Held \subseteq roots, CollectWith(roots)
  PROVE  CacheInv'
<1> USE DEF CacheInv, Consistent
<1> DEFINE E == Expunged
<1>1. /\ slots' = [i \in 0 .. size - 1 |-> slots[i] \ E]
      /\ reuse' = reuse \cup E
      /\ heap' = [o \in Objs |-> IF o \in Marked \cup roots THEN heap[o] ELSE None]
      /\ key' = [n \in Nodes |-> IF n \in E THEN None ELSE key[n]]
      /\ val' = [n \in Nodes |-> IF n \in E THEN None ELSE val[n]]
      /\ UNCHANGED <<size, mem, rate, req, bkt, stack, leaked, calls, sets>>
  BY DEF CollectWith, Collect, callVars, countVars
<1>2. IsFiniteSet(Chained) /\ IsFiniteSet(reuse) /\ Chained \subseteq Nodes
  BY FS_Subset DEF OneOwner, Chained, TypeOK, CacheType
<1>3. /\ E \subseteq Chained /\ Chained' = Chained \ E
      /\ cnt' = Cardinality(Chained') /\ cnt' \in Nat
      /\ rcnt' = Cardinality(reuse') /\ rcnt' \in Nat
  BY <1>2, CollectedCounts DEF CollectWith, OneOwner, Accounting
<1>4. TypeOK'
  <2>1. use' \in [Nodes -> 0 .. UseMod - 1]
    <3>1. \A n \in Nodes : Aged(use[n], rate) \in 0 .. UseMod - 1
      BY AgedRange DEF TypeOK, CacheType
    <3>2. use' = [n \in Nodes |-> IF n \in Chained \ E THEN Aged(use[n], rate) ELSE use[n]]
      BY DEF CollectWith, Collect
    <3> QED BY <3>1, <3>2 DEF TypeOK, CacheType
  <2>2. key' \in [Nodes -> Keys \cup {None}] /\ val' \in [Nodes -> Objs \cup {None}]
        /\ heap' \in [Objs -> Keys \cup {None}]
    BY <1>1 DEF TypeOK, CacheType
  <2>3. slots' \in [0 .. size' - 1 -> SUBSET Nodes] /\ reuse' \in SUBSET Nodes
    BY <1>1, <1>2, <1>3 DEF TypeOK, CacheType
  <2> QED BY <1>1, <1>3, <2>1, <2>2, <2>3 DEF TypeOK, CacheType
<1>5. OneOwner'
  BY <1>1, <1>2, <1>3 DEF OneOwner
<1>6. \A n \in Chained' : n \in Chained /\ n \notin E /\ key'[n] = key[n] /\ val'[n] = val[n]
  BY <1>1, <1>2, <1>3
<1>7. OneEntry' /\ Filled' /\ Pending'
  BY <1>1, <1>6 DEF OneEntry, Filled, Pending, Bucket
<1>8. Placed'
  <2>1. \A i \in 0 .. size - 1 : slots'[i] \subseteq Chained' /\ slots'[i] \subseteq slots[i]
    BY <1>1, <1>3 DEF Chained
  <2> QED BY <1>1, <1>6, <2>1 DEF Placed, Bucket
<1>9. LiveEntries'
  <2> SUFFICES ASSUME NEW n \in Chained' PROVE val[n] \in Objs /\ heap'[val[n]] = key[n]
    BY <1>6 DEF LiveEntries
  <2>1. val[n] \in Objs /\ heap[val[n]] = key[n]
    BY <1>6 DEF RightValues, LiveEntries
  <2>2. cnt # 0
    BY <1>2, <1>6, FS_EmptySet DEF Accounting
  <2>3. val[n] \in Marked
    BY <1>6, <2>2 DEF Marked
  <2> QED BY <1>1, <2>1, <2>3
<1>10. RightValues'
  <2> SUFFICES ASSUME NEW e \in stack PROVE heap'[e[2]] # None /\ Seen[heap'[e[2]]] = Seen[e[1]]
    BY <1>1, <1>9 DEF RightValues
  <2>1. e[2] \in Objs /\ e[2] \in roots
    BY DEF TypeOK, Held
  <2> QED BY <1>1, <2>1 DEF RightValues
<1> QED BY <1>1, <1>3, <1>4, <1>5, <1>7, <1>8, <1>10 DEF Accounting

\* A new cache is empty; what was in the old one is freed or lost.
LEMMA FreshOK ==
  ASSUME CacheInv, Fresh, Idle, Counted,
         UNCHANGED <<nodeVars, heap, rate, callVars, stack, calls>>,
         mem' \subseteq mem, leaked' = mem'
  PROVE  CacheInv'
<1> USE DEF CacheInv, Consistent
<1>1. Chained' = {}
  BY SizesAssumption DEF Fresh, Chained, SizesAssumption
<1>2. sets' \in 0 .. MaxSets
  BY BoundsAssumption DEF Counted, BoundsAssumption, TypeOK
<1>3. TypeOK'
  BY <1>2, SizesAssumption DEF TypeOK, CacheType, SizesAssumption, Fresh, nodeVars, callVars
<1>4. Accounting' /\ OneOwner' /\ Placed' /\ IsFiniteSet(mem)'
  BY <1>1, FS_EmptySet, FS_Subset DEF Accounting, OneOwner, Placed, Fresh
<1>5. OneEntry' /\ Filled' /\ Pending'
  BY <1>1 DEF OneEntry, Filled, Pending, Idle, callVars
<1>6. RightValues'
  BY <1>1 DEF RightValues, LiveEntries
<1> QED BY <1>3, <1>4, <1>5, <1>6

LEMMA FreeCacheOK ==
  ASSUME CacheInv, FreeCache
  PROVE  CacheInv'
<1>1. mem' \subseteq mem /\ leaked' = mem'
  BY DEF CacheInv, Consistent, OneOwner, FreeCache
<1>2. Fresh /\ Idle /\ Counted /\ UNCHANGED <<nodeVars, heap, rate, callVars, stack, calls>>
  BY DEF FreeCache
<1> QED BY <1>1, <1>2, FreshOK

LEMMA LoseCacheOK ==
  ASSUME CacheInv, LoseCache
  PROVE  CacheInv'
<1>1. mem' \subseteq mem /\ leaked' = mem'
  BY DEF CacheInv, Consistent, OneOwner, LoseCache
<1>2. Fresh /\ Idle /\ Counted /\ UNCHANGED <<nodeVars, heap, rate, callVars, stack, calls>>
  BY DEF LoseCache
<1> QED BY <1>1, <1>2, FreshOK

-----------------------------------------------------------------------------
(* The usual delegate: what its owner keeps.                                 *)

\* Every step of the parser's owner keeps the cache, whichever option it sets.
LEMMA CacheStep == CacheInv /\ [OwnerNext]_ownerVars => CacheInv'
<1> SUFFICES ASSUME CacheInv, [OwnerNext]_ownerVars PROVE CacheInv'
  OBVIOUS
<1>1. CASE SymbolLookup
  BY <1>1, LookupOK DEF SymbolLookup
<1>2. CASE SymbolFormed
  BY <1>2, InsertOK DEF SymbolFormed
<1>3. CASE Upkeep
  BY <1>3, TrimReuseOK, DocDoneOK, CollectOK, SetRateOK DEF Upkeep, GC
<1>4. CASE SetSymbolKeys
  BY <1>4, FreeCacheOK, LoseCacheOK, StutterOK DEF SetSymbolKeys, SymbolKeysOn, SymbolKeysOff
<1>5. ASSUME UNCHANGED vars PROVE CacheInv'
  BY <1>5, StutterOK
<1>6. OtherKey \/ ClassExpunged \/ UNCHANGED ownerVars => UNCHANGED vars
  BY DEF OtherKey, ClassExpunged, ownerVars
<1>7. \A on \in BOOLEAN : SetCacheKeys(on) \/ SetClassCache(on) => UNCHANGED vars
  BY DEF SetCacheKeys, SetClassCache
<1>8. \A n \in ClassNames : CreateClass(n) \/ Define(n) => UNCHANGED vars
  BY DEF CreateClass, Define
<1>9. \A m : SetMissingClass(m) => UNCHANGED vars
  BY DEF SetMissingClass
<1> QED BY <1>1, <1>2, <1>3, <1>4, <1>5, <1>6, <1>7, <1>8, <1>9 DEF OwnerNext

LEMMA CacheInvariance == OwnerSpec => []CacheInv
<1>1. OwnerInit => CacheInv
  BY InitCacheInv DEF OwnerInit
<1> QED BY <1>1, CacheStep, PTL DEF OwnerSpec

\* The cache holds each text once, counted, on the chain its hash selects, and each node
\* in one place, though form() may collect and the owner replace the cache.
THEOREM CachesConsistent == OwnerSpec => []Consistent
<1>1. CacheInv => Consistent
  BY DEF CacheInv
<1> QED BY <1>1, CacheInvariance, PTL

\* What a lookup has given the parser is alive, and the text asked for as far as the
\* comparison can tell, until the document is done.
THEOREM ValuesRight == OwnerSpec => []RightValues
<1>1. CacheInv => RightValues
  BY DEF CacheInv
<1> QED BY <1>1, CacheInvariance, PTL

-----------------------------------------------------------------------------
\* The function for keys and its cache are those the two options choose, also while a
\* Symbol is being formed.
KeysChosen ==
  /\ getKey = "cache_key" <=> cacheKeys
  /\ getKey = "sym_key" => symCache
  /\ getKey = "str_key" => ~symCache
  /\ keyCache = "sym" <=> symCache
  /\ req # None => symCache

\* A class the cache has is defined, and a class is made for no form the option has not
\* been set for.
ClassesKnown ==
  classCache # NoCache =>
    /\ \A n \in ClassNames : classCache.found[n] = "class" => n \in defined
    /\ classCache.form = "plain" => missClass # "auto"

OwnerInv == AsAsked /\ KeysChosen /\ ClassesKnown

LEMMA Blamed ==
  ASSUME NEW n
  PROVE  /\ Known(n) /\ Found(n) = "undef" => Blame(n) # "none"
         /\ ~Known(n) /\ AutoFormed /\ missClass # "auto" => Blame(n) # "none"
BY DEF Blame, Known, AutoFormed

\* The steps for keys leave the classes alone.
LEMMA KeyStepOK ==
  ASSUME OwnerInv, UNCHANGED <<classOptions, defined>>,
         OwnerType', KeysChosen', given'.got # given'.want => given'.blame # "none"
  PROVE  OwnerInv'
BY DEF OwnerInv, AsAsked, KeysChosen, ClassesKnown, classOptions

\* The steps for classes leave the keys alone.
LEMMA ClassStepOK ==
  ASSUME OwnerInv, UNCHANGED <<vars, keyOptions>>,
         OwnerType', ClassesKnown', given'.got # given'.want => given'.blame # "none"
  PROVE  OwnerInv'
BY DEF OwnerInv, AsAsked, KeysChosen, keyOptions, vars, callVars

LEMMA KeysGiven ==
  ASSUME OwnerInv, SymbolLookup \/ SymbolFormed \/ OtherKey
  PROVE  OwnerInv'
<1> USE DEF OwnerInv, AsAsked
<1>1. UNCHANGED <<keyOptions, classOptions, defined>>
  BY DEF SymbolLookup, SymbolFormed, OtherKey
<1>2. OwnerType'
  BY <1>1 DEF OwnerType, keyOptions, classOptions
<1>3. req' # None => symCache
  BY DEF SymbolLookup, SymbolFormed, OtherKey, InSymCache, Insert, KeysChosen, vars, callVars
<1>4. KeysChosen'
  BY <1>1, <1>3 DEF KeysChosen, keyOptions
<1>5. given'.got # given'.want => given'.blame # "none"
  <2>1. CASE SymbolLookup
    <3>1. WantedKey = "Symbol"
      BY <2>1 DEF SymbolLookup, InSymCache, KeysChosen, WantedKey
    <3>2. given' = Nothing \/ Given(WantedKey, "Symbol", "none")
      BY <2>1 DEF SymbolLookup
    <3>3. CASE given' = Nothing
      BY <3>3 DEF Nothing
    <3>4. CASE Given(WantedKey, "Symbol", "none")
      BY <3>1, <3>4 DEF Given
    <3> QED BY <3>2, <3>3, <3>4
  <2>2. CASE SymbolFormed
    BY <2>2 DEF SymbolFormed, Insert, Idle, OwnerType, KeysChosen, WantedKey, Given
  <2>3. CASE OtherKey
    <3>1. ASSUME NEW got, NEW blame, Given(WantedKey, got, blame),
                 got = WantedKey \/ blame = "cache gone"
          PROVE  given'.got # given'.want => given'.blame # "none"
      BY <3>1 DEF Given
    <3>2. CASE getKey # "cache_key" \/ keyCache = "str"
      <4>1. WantedKey \in {"Symbol", "String"} /\ Given(WantedKey, WantedKey, "none")
        BY <2>3, <3>2 DEF OtherKey, KeysChosen, OwnerType, WantedKey
      <4> QED BY <3>1, <4>1
    <3>3. CASE getKey = "cache_key" /\ keyCache = "freed"
      BY <2>3, <3>1, <3>3 DEF OtherKey
    <3>4. ~InSymCache
      BY <2>3 DEF OtherKey
    <3> QED BY <3>2, <3>3, <3>4 DEF InSymCache, OwnerType
  <2> QED BY <2>1, <2>2, <2>3
<1> QED BY <1>1, <1>2, <1>4, <1>5, KeyStepOK

LEMMA KeysSet ==
  ASSUME OwnerInv, SetSymbolKeys \/ \E on \in BOOLEAN : SetCacheKeys(on)
  PROVE  OwnerInv'
<1> USE DEF OwnerInv, AsAsked
<1>1. UNCHANGED <<classOptions, defined>> /\ given' = Nothing
  BY DEF SetSymbolKeys, SetCacheKeys
<1>2. req' = None
  BY DEF SetSymbolKeys, SymbolKeysOn, SymbolKeysOff, LoseCache, FreeCache, SetCacheKeys, Idle, vars, callVars
<1>3. OwnerType' /\ KeysChosen'
  <2>1. CASE SetSymbolKeys
    BY <1>1, <1>2, <2>1 DEF SetSymbolKeys, SymbolKeysOn, SymbolKeysOff, Uncached, OwnerType, KeysChosen, classOptions
  <2>2. ASSUME NEW on \in BOOLEAN, SetCacheKeys(on) PROVE OwnerType' /\ KeysChosen'
    BY <1>1, <1>2, <2>2 DEF SetCacheKeys, OwnerType, KeysChosen, classOptions
  <2> QED BY <2>1, <2>2
<1> QED BY <1>1, <1>3, KeyStepOK DEF Nothing

LEMMA UpkeepKeeps ==
  ASSUME OwnerInv, Upkeep, given' = Nothing, UNCHANGED <<keyOptions, classOptions, defined>>
  PROVE  OwnerInv'
<1> USE DEF OwnerInv, AsAsked
<1>1. req' = req
  BY DEF Upkeep, TrimReuse, DocDone, GC, CollectWith, SetRate, callVars
<1>2. OwnerType' /\ KeysChosen'
  BY <1>1 DEF OwnerType, KeysChosen, keyOptions, classOptions
<1> QED BY <1>2, KeyStepOK DEF Nothing

LEMMA CreateClassOK ==
  ASSUME OwnerInv, NEW n \in ClassNames, CreateClass(n)
  PROVE  OwnerInv'
<1> USE DEF OwnerInv, AsAsked
<1>1. /\ given' = [want |-> WantedClass(n), got |-> IF Found(n) = "class" THEN "class" ELSE Missed, blame |-> Blame(n)]
      /\ defined' = IF Found(n) = "class" THEN defined \cup {n} ELSE defined
      /\ classCache' = IF Uses(n) THEN [classCache EXCEPT !.found[n] = Found(n)] ELSE classCache
      /\ UNCHANGED <<vars, keyOptions, missClass>>
  BY DEF CreateClass, Given
<1>2. Found(n) \in {"undef", "class"}
  BY DEF Found, Known, Uses, Formed, OwnerType
<1>3. OwnerType'
  BY <1>1, <1>2 DEF OwnerType, Uses, keyOptions, NoCache
<1>4. ClassesKnown'
  BY <1>1, <1>2 DEF OwnerType, ClassesKnown, Uses, NoCache
<1>5. WantedClass(n) # (IF Found(n) = "class" THEN "class" ELSE Missed) => Blame(n) # "none"
  <2>1. CASE Known(n)
    BY <1>2, <2>1, Blamed DEF Known, Uses, Found, ClassesKnown, WantedClass, Formed
  <2>2. CASE ~Known(n) /\ (AutoFormed <=> missClass = "auto")
    BY <2>2 DEF Found, Known, AutoFormed, Formed, WantedClass
  <2>3. CASE ~Known(n) /\ ~AutoFormed /\ missClass = "auto"
    BY <2>3 DEF AutoFormed, ClassesKnown, OwnerType
  <2>4. CASE ~Known(n) /\ AutoFormed /\ missClass # "auto"
    BY <2>4, Blamed
  <2> QED BY <2>1, <2>2, <2>3, <2>4
<1> QED BY <1>1, <1>3, <1>4, <1>5, ClassStepOK

LEMMA ClassesSet ==
  ASSUME OwnerInv,
         \/ \E on \in BOOLEAN : SetClassCache(on)
         \/ \E m \in {"auto", "ignore", "raise"} : SetMissingClass(m)
         \/ ClassExpunged
         \/ \E n \in ClassNames : Define(n)
  PROVE  OwnerInv'
<1> USE DEF OwnerInv, AsAsked
<1>1. UNCHANGED <<vars, keyOptions>> /\ given' = Nothing
  BY DEF SetClassCache, SetMissingClass, ClassExpunged, Define
<1>2. OwnerType' /\ ClassesKnown'
  <2>1. ASSUME NEW on \in BOOLEAN, SetClassCache(on) PROVE OwnerType' /\ ClassesKnown'
    BY <1>1, <2>1 DEF SetClassCache, OwnerType, ClassesKnown, NoCache, keyOptions
  <2>2. ASSUME NEW m \in {"auto", "ignore", "raise"}, SetMissingClass(m) PROVE OwnerType' /\ ClassesKnown'
    BY <1>1, <2>2 DEF SetMissingClass, OwnerType, ClassesKnown, NoCache, keyOptions
  <2>3. CASE ClassExpunged
    BY <1>1, <2>3 DEF ClassExpunged, OwnerType, ClassesKnown, NoCache, keyOptions
  <2>4. ASSUME NEW n \in ClassNames, Define(n) PROVE OwnerType' /\ ClassesKnown'
    BY <1>1, <2>4 DEF Define, OwnerType, ClassesKnown, keyOptions, classOptions
  <2> QED BY <2>1, <2>2, <2>3, <2>4
<1> QED BY <1>1, <1>2, ClassStepOK DEF Nothing

\* In whatever order the options are set, a key and a class are what they say, or the
\* cache that was freed or went on remembering is to blame.
THEOREM OptionsObeyed == OwnerSpec => []AsAsked
<1>1. OwnerInit => OwnerInv
  <2> SUFFICES ASSUME OwnerInit PROVE OwnerInv
    OBVIOUS
  <2>1. OwnerType
    BY DEF OwnerInit, OwnerType
  <2>2. KeysChosen /\ ClassesKnown
    BY DEF OwnerInit, Init, KeysChosen, ClassesKnown
  <2>3. given.got = given.want /\ keyCache # "freed"
    BY DEF OwnerInit, Nothing
  <2> QED BY <2>1, <2>2, <2>3 DEF OwnerInv, AsAsked
<1>2. ASSUME OwnerInv, [OwnerNext]_ownerVars PROVE OwnerInv'
  <2>1. CASE UNCHANGED ownerVars
    BY <1>2, <2>1 DEF ownerVars, vars, callVars, keyOptions, classOptions,
          OwnerInv, AsAsked, OwnerType, KeysChosen, ClassesKnown
  <2> QED BY <1>2, <2>1, KeysGiven, KeysSet, UpkeepKeeps, CreateClassOK, ClassesSet DEF OwnerNext
<1>3. OwnerInv => AsAsked
  BY DEF OwnerInv
<1> QED BY <1>1, <1>2, <1>3, PTL DEF OwnerSpec

-----------------------------------------------------------------------------
\* Every step of the delegate keeps its cache.
LEMMA SajCacheStep == CacheInv /\ [SajNext]_<<vars, sajVars>> => CacheInv'
<1> SUFFICES ASSUME CacheInv, [SajNext]_<<vars, sajVars>> PROVE CacheInv'
  OBVIOUS
<1>1. ASSUME NEW k \in Keys, AddString(k) \/ AddKeyed(k) \/ \E kind \in Kinds : OpenKeyed(kind, k)
      PROVE  CacheInv'
  BY <1>1, LookupOK, FormOK DEF AddString, AddKeyed, OpenKeyed, GetKey
<1>2. CASE Interned
  BY <1>2, InsertOK DEF Interned
<1>3. CASE Return \/ SajTrim
  BY <1>3, DocDoneOK, TrimReuseOK DEF Return, SajTrim
<1>4. CASE SajGC
  BY <1>4, CollectOK DEF SajGC
<1>5. ASSUME UNCHANGED vars PROVE CacheInv'
  BY <1>5, StutterOK
<1>6. CloseUntold \/ CloseTold \/ CloseRaises \/ (\E kind \in Kinds : OpenPlain(kind)) => UNCHANGED vars
  BY DEF CloseUntold, CloseTold, CloseRaises, Close, OpenPlain
<1>7. CASE StartDocument
  <2>1. CASE stack = {}
    BY <1>5, <1>7, <2>1 DEF StartDocument, vars
  <2>2. CASE stack # {}
    BY <1>7, <2>2, DocDoneOK DEF StartDocument, DocDone
  <2> QED BY <2>1, <2>2
<1>8. ASSUME Idle, Counted, UNCHANGED <<cacheVars, rate, callVars, stack, leaked, calls>>
      PROVE  CacheInv'
  <2>1. TypeOK'
    BY <1>8, BoundsAssumption DEF CacheInv, Consistent, Counted, BoundsAssumption, TypeOK, CacheType, cacheVars, tableVars, freeVars, nodeVars, callVars
  <2>2. UNCHANGED <<cacheVars, stack, leaked, size, req, bkt>> /\ req' = None
    BY <1>8 DEF Idle, cacheVars, tableVars, callVars
  <2> QED BY <2>1, <2>2, CacheKept
<1>9. SetKeysCached \/ (\E methods \in Handlers : SetHandler(methods)) =>
      Idle /\ Counted /\ UNCHANGED <<cacheVars, rate, callVars, stack, leaked, calls>>
  BY DEF SetKeysCached, SetHandler
<1> QED BY <1>1, <1>2, <1>3, <1>4, <1>5, <1>6, <1>7, <1>8, <1>9 DEF SajNext

\* The cache is consistent and its values right with this owner as well, which holds
\* values only while one of its functions runs.
THEOREM SajCacheRight == SajSpec => [](Consistent /\ RightValues)
<1>1. SajInit => CacheInv
  BY InitCacheInv DEF SajInit
<1>2. CacheInv => Consistent /\ RightValues
  BY DEF CacheInv
<1> QED BY <1>1, <1>2, SajCacheStep, PTL DEF SajSpec

-----------------------------------------------------------------------------
\* The containers whose key a handler h is told, when they start and when they end.
KeyedAt(j, ns, h) ==
  /\ j \in 2 .. Len(ns)
  /\ ns[j - 1].kind = "hash" /\ StartOf(ns[j].kind) \in h

\* The keys are those of these containers, in their order.
Places(f, ks, ns, h) ==
  /\ \A i \in 1 .. Len(ks) : KeyedAt(f[i], ns, h) /\ ns[f[i]].key = ks[i][1]
  /\ \A i, j \in 1 .. Len(ks) : i < j => f[i] < f[j]
  /\ \A j \in 2 .. Len(ns) : KeyedAt(j, ns, h) => \E i \in 1 .. Len(ks) : f[i] = j
InStep == excused = {} /\ Balanced => \E f \in [1 .. Len(keys) -> Nat] : Places(f, keys, nest, handler)

Alive(e, hp) == hp[e[2]] # None /\ Seen[hp[e[2]]] = Seen[e[1]]
KeysAlive == excused = {} => \A i \in 1 .. Len(keys) : Alive(keys[i], heap)

\* The key of a container is got before anything else happens.
KeyFirst == asked \in Kinds => ~Idle /\ stack = {} /\ InHash /\ StartOf(asked) \in handler

ToldRight == SameText(told.want, told.got) \/ excused # {} \/ ~Balanced

SajInv ==
  /\ CacheInv /\ SajType /\ Len(keys) <= klen /\ 2 <= klen
  /\ InStep /\ KeysAlive /\ KeyFirst /\ ToldRight

\* Sequences: empty, with an element more, with an element less.
LEMMA EmptyOne ==
  ASSUME NEW S
  PROVE  <<>> \in Seq(S) /\ Len(<<>>) = 0
OBVIOUS

LEMMA NotEmpty ==
  ASSUME NEW S, NEW s \in Seq(S), s # <<>>
  PROVE  Len(s) - 1 \in Nat /\ Len(s) = (Len(s) - 1) + 1
OBVIOUS

LEMMA Appended ==
  ASSUME NEW S, NEW s \in Seq(S), NEW e \in S
  PROVE  /\ Append(s, e) \in Seq(S) /\ Len(Append(s, e)) = Len(s) + 1
         /\ Len(s) \in Nat
         /\ \A i \in 1 .. Len(s) : Append(s, e)[i] = s[i]
         /\ Append(s, e)[Len(s) + 1] = e
OBVIOUS

LEMMA Shortened ==
  ASSUME NEW S, NEW s \in Seq(S), NEW n \in Nat, Len(s) = n + 1
  PROVE  /\ SubSeq(s, 1, n) \in Seq(S) /\ Len(SubSeq(s, 1, n)) = n
         /\ \A i \in 1 .. n : SubSeq(s, 1, n)[i] = s[i]
<1>1. \A i \in 1 .. n : s[i] \in S
  OBVIOUS
<1> QED BY <1>1

-----------------------------------------------------------------------------
\* No value in use changes its text.
TextsKept == \A o \in Objs : heap[o] # None => heap'[o] = heap[o]

\* A string is given at once, or form() is called for it.
LEMMA Got ==
  ASSUME CacheInv, NEW k \in Keys, Lookup(k) \/ Form(k)
  PROVE  /\ TextsKept
         /\ Idle' => \E o \in Objs : stack' = stack \cup {<<k, o>>}
         /\ ~Idle' => stack' = stack
<1> USE DEF CacheInv, Consistent
<1>1. CASE Form(k)
  <2>1. PICK o \in Objs : heap[o] = None /\ heap' = [heap EXCEPT ![o] = k] /\ stack' = stack \cup {<<k, o>>}
    BY <1>1 DEF Form
  <2>2. Idle'
    BY <1>1 DEF Form, CanCall, Idle, callVars
  <2> QED BY <2>1, <2>2 DEF TextsKept, TypeOK, CacheType
<1>2. CASE LookupHit(k)
  <2>1. PICK n \in Hits(k) : stack' = stack \cup {<<k, val[n]>>}
    BY <1>2 DEF LookupHit
  <2>2. n \in Chained
    BY BucketRange DEF Hits, Chained, TypeOK, CacheType
  <2>3. val[n] \in Objs /\ Idle' /\ heap' = heap
    BY <1>2, <2>2 DEF LookupHit, RightValues, LiveEntries, CanCall, Idle, callVars
  <2> QED BY <2>1, <2>3 DEF TextsKept
<1>3. CASE LookupMiss(k)
  BY <1>3, NoneAssumption DEF LookupMiss, NoneAssumption, TextsKept, Idle, cacheVars
<1> QED BY <1>1, <1>2, <1>3 DEF Lookup, FormLong

LEMMA GotFormed ==
  ASSUME CacheInv, Insert
  PROVE  /\ TextsKept /\ Idle' /\ req \in Keys
         /\ \E o \in Objs : stack' = stack \cup {<<req, o>>}
<1>1. PICK o \in Objs : heap[o] = None /\ heap' = [heap EXCEPT ![o] = req] /\ stack' = stack \cup {<<req, o>>}
  BY DEF Insert
<1>2. req \in Keys /\ Idle'
  BY DEF Insert, Idle, CacheInv, Consistent, TypeOK
<1> QED BY <1>1, <1>2 DEF TextsKept, CacheInv, Consistent, TypeOK, CacheType

\* What the delegate keeps on its stack stays alive.
LEMMA KeysStayAlive ==
  ASSUME SajInv, TextsKept, UNCHANGED <<keys, excused>>
  PROVE  KeysAlive'
<1>1. ASSUME NEW i \in 1 .. Len(keys), Alive(keys[i], heap) PROVE Alive(keys[i], heap')
  <2>1. keys \in Seq(Keys \X Objs)
    BY DEF SajInv, SajType
  <2>2. keys[i] \in Keys \X Objs
    BY <1>1, <2>1
  <2>3. keys[i][2] \in Objs
    BY <2>2
  <2>4. heap'[keys[i][2]] = heap[keys[i][2]]
    BY <1>1, <2>3 DEF Alive, TextsKept
  <2> QED BY <1>1, <2>4 DEF Alive
<1> QED BY <1>1 DEF SajInv, KeysAlive

\* A step that touches neither the keys nor the containers nor the handler.
LEMMA KeysKept ==
  ASSUME SajInv, CacheInv', TextsKept, UNCHANGED <<handler, keys, klen, nest, excused>>,
         keysCached' \in BOOLEAN, asked' \in Kinds \cup {"none", "value", "string"}, KeyFirst',
         told' = Untold \/ told' = told
  PROVE  SajInv'
<1>1. KeysAlive'
  BY KeysStayAlive
<1>2. InStep'
  BY DEF SajInv, InStep, Balanced
<1>3. ToldRight'
  BY DEF SajInv, ToldRight, SameText, Balanced, Untold
<1> QED BY <1>1, <1>2, <1>3 DEF SajInv, SajType

\* A container's key is pushed with it.
LEMMA PushedOK ==
  ASSUME SajInv, CacheInv', TextsKept, NEW kind \in Kinds, NEW k \in Keys, NEW o \in Objs,
         stack' = {<<k, o>>}, InHash, StartOf(kind) \in handler,
         PushKey(<<k, o>>), nest' = Append(nest, [kind |-> kind, key |-> k]),
         UNCHANGED <<sajOptions, excused>>, asked' = "none", told' = Untold
  PROVE  SajInv'
<1> DEFINE Entry == Keys \X Objs
           Container == [kind : Kinds, key : Keys \cup {None, "unasked"}]
           c == [kind |-> kind, key |-> k]
           m == Len(keys)
           d == Len(nest)
<1>1. keys \in Seq(Entry) /\ nest \in Seq(Container) /\ m <= klen /\ klen \in Nat /\ 2 <= klen
  BY DEF SajInv, SajType
<1>2. /\ keys' \in Seq(Entry) /\ Len(keys') = m + 1 /\ m \in Nat
      /\ \A i \in 1 .. m : keys'[i] = keys[i]
      /\ keys'[m + 1] = <<k, o>>
  <2>1. <<k, o>> \in Entry /\ keys' = Append(keys, <<k, o>>)
    BY DEF PushKey
  <2> HIDE DEF Entry
  <2> QED BY <1>1, <2>1, Appended
<1>3. /\ nest' \in Seq(Container) /\ Len(nest') = d + 1 /\ d \in Nat \ {0}
      /\ \A i \in 1 .. d : nest'[i] = nest[i]
      /\ nest'[d + 1] = c /\ nest[d].kind = "hash"
  <2>1. c \in Container /\ nest # <<>> /\ nest[d].kind = "hash"
    BY DEF InHash
  <2> HIDE DEF Container, c
  <2>2. nest' = Append(nest, c)
    BY DEF c
  <2> QED BY <1>1, <2>1, <2>2, Appended
<1>4. \A i \in 1 .. m + 1 : i \in 1 .. m \/ i = m + 1
  BY <1>2
<1>5. klen' \in Nat /\ m + 1 <= klen' /\ 2 <= klen'
  BY <1>1, <1>2 DEF PushKey, Grown
<1>6. SajType'
  BY <1>2, <1>3, <1>5, NoneAssumption DEF SajInv, SajType, sajOptions
<1>7. KeysAlive'
  <2>1. Alive(keys'[m + 1], heap')
    <3>1. <<k, o>> \in stack'
      OBVIOUS
    <3>2. heap'[o] # None /\ Seen[heap'[o]] = Seen[k]
      BY <3>1 DEF CacheInv, RightValues
    <3> QED BY <1>2, <3>2 DEF Alive
  <2>2. ASSUME excused = {}, NEW i \in 1 .. m PROVE Alive(keys'[i], heap')
    <3>1. keys[i] \in Entry
      BY <1>1, <2>2
    <3>2. keys[i][2] \in Objs
      BY <3>1
    <3>3. Alive(keys[i], heap)
      BY <2>2 DEF SajInv, KeysAlive
    <3> QED BY <1>2, <2>2, <3>2, <3>3 DEF Alive, TextsKept
  <2> QED BY <1>2, <1>4, <2>1, <2>2 DEF KeysAlive
<1>8. InStep'
  <2>1. SUFFICES ASSUME excused = {}, Balanced PROVE \E f \in [1 .. m + 1 -> Nat] : Places(f, keys', nest', handler)
    BY <1>2 DEF InStep, Balanced, sajOptions
  <2>2. PICK f \in [1 .. m -> Nat] : Places(f, keys, nest, handler)
    BY <2>1 DEF SajInv, InStep
  <2> DEFINE g == [i \in 1 .. m + 1 |-> IF i = m + 1 THEN d + 1 ELSE f[i]]
  <2>3. g \in [1 .. m + 1 -> Nat]
    BY <1>2, <1>3
  <2>4. /\ KeyedAt(d + 1, nest', handler)
        /\ \A j \in 2 .. d : KeyedAt(j, nest', handler) <=> KeyedAt(j, nest, handler)
    BY <1>3 DEF KeyedAt, sajOptions
  <2>5. \A i \in 1 .. m : f[i] \in 2 .. d /\ g[i] = f[i]
    BY <1>2, <2>2 DEF Places, KeyedAt
  <2>6. g[m + 1] = d + 1
    BY <1>2
  <2> HIDE DEF g
  <2>7. \A i \in 1 .. m + 1 : KeyedAt(g[i], nest', handler) /\ nest'[g[i]].key = keys'[i][1]
    <3>1. ASSUME NEW i \in 1 .. m PROVE KeyedAt(g[i], nest', handler) /\ nest'[g[i]].key = keys'[i][1]
      BY <1>2, <1>3, <2>2, <2>4, <2>5 DEF Places
    <3>2. nest'[g[m + 1]].key = keys'[m + 1][1]
      BY <1>2, <1>3, <2>6
    <3> QED BY <1>4, <2>4, <2>6, <3>1, <3>2
  <2>8. ASSUME NEW i \in 1 .. m + 1, NEW j \in 1 .. m + 1, i < j PROVE g[i] < g[j]
    <3>1. i \in 1 .. m
      BY <1>2, <2>8
    <3>2. CASE j \in 1 .. m
      BY <2>2, <2>5, <2>8, <3>1, <3>2 DEF Places
    <3>3. CASE j = m + 1
      <4>1. f[i] < d + 1
        BY <1>3, <2>5, <3>1
      <4> QED BY <2>5, <2>6, <3>1, <3>3, <4>1
    <3> QED BY <1>4, <3>2, <3>3
  <2>9. \A j \in 2 .. d + 1 : KeyedAt(j, nest', handler) => \E i \in 1 .. m + 1 : g[i] = j
    <3>1. ASSUME NEW j \in 2 .. d, KeyedAt(j, nest', handler) PROVE \E i \in 1 .. m : g[i] = j
      <4>1. PICK i \in 1 .. m : f[i] = j
        BY <2>2, <2>4, <3>1 DEF Places
      <4> QED BY <2>5, <4>1
    <3>2. \A j \in 2 .. d + 1 : j \in 2 .. d \/ j = d + 1
      BY <1>3
    <3>3. m + 1 \in 1 .. m + 1 /\ \A i \in 1 .. m : i \in 1 .. m + 1
      BY <1>2
    <3> QED BY <2>6, <3>1, <3>2, <3>3
  <2>10. Places(g, keys', nest', handler)
    BY <1>2, <1>3, <2>7, <2>8, <2>9 DEF Places
  <2> QED BY <2>3, <2>10
<1>9. KeyFirst' /\ ToldRight'
  BY DEF KeyFirst, ToldRight, SameText, Untold, Kinds
<1> QED BY <1>2, <1>5, <1>6, <1>7, <1>8, <1>9 DEF SajInv

Containers == Seq([kind : Kinds, key : Keys \cup {None, "unasked"}])

LEMMA OuterOf ==
  ASSUME nest \in Containers, nest # <<>>
  PROVE  /\ Len(nest) \in Nat \ {0} /\ Outer \in Containers /\ Len(Outer) = Len(nest) - 1
         /\ \A i \in 1 .. Len(nest) - 1 : Outer[i] = nest[i]
         /\ EndsKeyed <=> /\ EndOf(nest[Len(nest)].kind) \in handler /\ Len(nest) \in 2 .. Len(nest)
                          /\ nest[Len(nest) - 1].kind = "hash"
<1> DEFINE C == [kind : Kinds, key : Keys \cup {None, "unasked"}]
           d == Len(nest)
           n == d - 1
<1>1. nest \in Seq(C) /\ d \in Nat \ {0}
  BY DEF Containers
<1>2. n \in Nat /\ d = n + 1
  BY <1>1
<1> HIDE DEF C, n
<1>3. /\ SubSeq(nest, 1, n) \in Seq(C) /\ Len(SubSeq(nest, 1, n)) = n
      /\ \A i \in 1 .. n : SubSeq(nest, 1, n)[i] = nest[i]
  BY <1>1, <1>2, Shortened
<1>4. Outer = SubSeq(nest, 1, n)
  BY DEF Outer, n
<1> HIDE DEF d
<1>5. Outer # <<>> <=> d \in 2 .. d
  BY <1>1, <1>2, <1>3, <1>4
<1>6. d \in 2 .. d => Outer[Len(Outer)] = nest[n]
  BY <1>2, <1>3, <1>4
<1> QED BY <1>1, <1>2, <1>3, <1>4, <1>5, <1>6 DEF EndsKeyed, Closing, Containers, C, n, d

\* With both methods of a kind, an end has a key if its start had one.
LEMMA EndsAsStarts ==
  ASSUME SajInv, nest # <<>>, Balanced
  PROVE  EndsKeyed <=> KeyedAt(Len(nest), nest, handler)
<1> DEFINE C == [kind : Kinds, key : Keys \cup {None, "unasked"}]
<1>1. nest \in Containers /\ nest \in Seq(C)
  BY DEF SajInv, SajType, Containers
<1>2. nest[Len(nest)] \in C
  <2> HIDE DEF C
  <2> QED BY <1>1, OuterOf
<1>3. nest[Len(nest)].kind \in Kinds
  BY <1>2
<1> QED BY <1>1, <1>3, OuterOf DEF KeyedAt, Balanced

\* In step, the key on top is that of the container that ends, and there is one.
LEMMA TopKey ==
  ASSUME SajInv, nest # <<>>, EndsKeyed, excused = {}, Balanced
  PROVE  /\ keys # <<>> /\ keys[Len(keys)][1] = Closing.key
         /\ \E f \in [1 .. Len(keys) - 1 -> Nat] : Places(f, SubSeq(keys, 1, Len(keys) - 1), Outer, handler)
<1> DEFINE d == Len(nest)
           m == Len(keys)
           n == m - 1
           ks == SubSeq(keys, 1, n)
<1>1. /\ d \in Nat \ {0} /\ Len(Outer) = d - 1
      /\ \A i \in 1 .. d - 1 : Outer[i] = nest[i]
  BY OuterOf DEF SajInv, SajType, Containers
<1>2. PICK f \in [1 .. m -> Nat] : Places(f, keys, nest, handler)
  BY DEF SajInv, InStep
<1>3. keys \in Seq(Keys \X Objs) /\ m \in Nat
  BY DEF SajInv, SajType
<1>4. KeyedAt(d, nest, handler)
  BY EndsAsStarts
<1>5. PICK t \in 1 .. m : f[t] = d
  BY <1>1, <1>2, <1>4 DEF Places, KeyedAt
<1>6. \A i \in 1 .. m : f[i] \in 2 .. d
  BY <1>1, <1>2 DEF Places, KeyedAt
<1>7. t = m
  <2>1. t < m => f[t] < f[m]
    BY <1>2, <1>3, <1>5 DEF Places
  <2>2. f[m] \in 2 .. d
    BY <1>3, <1>5, <1>6
  <2> QED BY <1>1, <1>3, <1>5, <2>1, <2>2
<1>8. n \in Nat /\ m = n + 1
  BY <1>3, <1>5
<1> HIDE DEF n
<1>9. Len(ks) = n /\ \A i \in 1 .. n : ks[i] = keys[i]
  BY <1>3, <1>8, Shortened
<1> HIDE DEF ks
<1>10. \A i \in 1 .. n : i \in 1 .. m /\ i < m
  BY <1>8
<1> HIDE DEF m
<1>11. \A i \in 1 .. n : f[i] \in 2 .. d - 1
  <2>1. ASSUME NEW i \in 1 .. n PROVE f[i] < d /\ f[i] \in 2 .. d
    BY <1>2, <1>3, <1>5, <1>6, <1>7, <1>10 DEF Places, m
  <2> QED BY <1>1, <2>1
<1>12. \A j \in 2 .. d - 1 : KeyedAt(j, Outer, handler) <=> KeyedAt(j, nest, handler)
  BY <1>1 DEF KeyedAt
<1> DEFINE g == [i \in 1 .. n |-> f[i]]
<1>13. g \in [1 .. n -> Nat] /\ \A i \in 1 .. n : g[i] = f[i]
  BY <1>10
<1> HIDE DEF g
<1>14. \A i \in 1 .. n : KeyedAt(g[i], Outer, handler) /\ Outer[g[i]].key = ks[i][1]
  <2>1. ASSUME NEW i \in 1 .. n PROVE KeyedAt(f[i], nest, handler) /\ nest[f[i]].key = keys[i][1]
    BY <1>2, <1>10 DEF Places, m
  <2>2. ASSUME NEW i \in 1 .. n PROVE f[i] \in 1 .. d - 1 /\ f[i] \in 2 .. d - 1
    BY <1>11
  <2> HIDE DEF d
  <2>3. ASSUME NEW i \in 1 .. n PROVE KeyedAt(f[i], Outer, handler) /\ Outer[f[i]].key = ks[i][1]
    BY <1>1, <1>9, <1>12, <2>1, <2>2
  <2> QED BY <1>13, <2>3
<1>15. \A i, j \in 1 .. n : i < j => g[i] < g[j]
  BY <1>2, <1>10, <1>13 DEF Places, m
<1>16. ASSUME NEW j \in 2 .. d - 1, KeyedAt(j, Outer, handler) PROVE \E i \in 1 .. n : g[i] = j
  <2>1. PICK i \in 1 .. m : f[i] = j
    BY <1>2, <1>12, <1>16 DEF Places, KeyedAt, m
  <2>2. i # m
    BY <1>1, <1>5, <1>7, <1>16, <2>1
  <2>3. i \in 1 .. n
    BY <1>8, <2>1, <2>2
  <2> QED BY <1>13, <2>1, <2>3
<1>17. Places(g, ks, Outer, handler)
  BY <1>1, <1>9, <1>14, <1>15, <1>16 DEF Places
<1>18. keys[m][1] = Closing.key
  BY <1>2, <1>5, <1>7 DEF Places, Closing, m
<1>19. keys # <<>>
  BY <1>3, <1>5 DEF m
<1> QED BY <1>13, <1>17, <1>18, <1>19 DEF m, n, ks

\* A container without key ends.
LEMMA NoKey ==
  ASSUME SajInv, nest # <<>>, ~EndsKeyed, excused = {}, Balanced
  PROVE  \E f \in [1 .. Len(keys) -> Nat] : Places(f, keys, Outer, handler)
<1> DEFINE d == Len(nest)
<1>1. /\ d \in Nat \ {0} /\ Len(Outer) = d - 1
      /\ \A i \in 1 .. d - 1 : Outer[i] = nest[i]
  BY OuterOf DEF SajInv, SajType, Containers
<1>2. ~KeyedAt(d, nest, handler)
  BY EndsAsStarts
<1>3. PICK f \in [1 .. Len(keys) -> Nat] : Places(f, keys, nest, handler)
  BY DEF SajInv, InStep
<1>4. ASSUME NEW i \in 1 .. Len(keys) PROVE f[i] \in 2 .. d - 1
  <2>1. KeyedAt(f[i], nest, handler)
    BY <1>3 DEF Places
  <2>2. f[i] \in 2 .. d
    BY <2>1 DEF KeyedAt
  <2> HIDE DEF d
  <2> QED BY <1>1, <1>2, <2>1, <2>2
<1>5. \A j \in 2 .. d - 1 : KeyedAt(j, Outer, handler) <=> KeyedAt(j, nest, handler)
  BY <1>1 DEF KeyedAt
<1> HIDE DEF d
<1>6. ASSUME NEW i \in 1 .. Len(keys) PROVE KeyedAt(f[i], Outer, handler) /\ Outer[f[i]].key = keys[i][1]
  <2>1. KeyedAt(f[i], nest, handler) /\ nest[f[i]].key = keys[i][1]
    BY <1>3 DEF Places
  <2>2. f[i] \in 2 .. d - 1 /\ f[i] \in 1 .. d - 1
    BY <1>1, <1>4
  <2> QED BY <1>1, <1>5, <2>1, <2>2
<1>7. ASSUME NEW j \in 2 .. d - 1, KeyedAt(j, Outer, handler) PROVE \E i \in 1 .. Len(keys) : f[i] = j
  <2>1. KeyedAt(j, nest, handler) /\ j \in 2 .. Len(nest)
    BY <1>1, <1>5, <1>7 DEF d
  <2> QED BY <1>3, <2>1 DEF Places
<1>8. Places(f, keys, Outer, handler)
  BY <1>1, <1>3, <1>6, <1>7 DEF Places
<1> QED BY <1>8

-----------------------------------------------------------------------------
LEMMA OpenKeyedOK ==
  ASSUME SajInv, CacheInv', NEW kind \in Kinds, NEW k \in Keys, OpenKeyed(kind, k)
  PROVE  SajInv'
<1>1. /\ stack = {} /\ InHash /\ StartOf(kind) \in handler /\ Proceed(kind, k)
      /\ Lookup(k) \/ Form(k)
  BY DEF OpenKeyed, Outside, GetKey
<1>2. /\ TextsKept
      /\ Idle' => \E o \in Objs : stack' = {<<k, o>>}
      /\ ~Idle' => stack' = {}
  BY <1>1, Got DEF SajInv
<1>3. CASE Idle'
  <2>1. PICK o \in Objs : stack' = {<<k, o>>}
    BY <1>2, <1>3
  <2>2. PushKey(<<k, o>>) /\ asked' = "none"
    BY <1>1, <1>3, <2>1 DEF Proceed, Kinds
  <2> QED BY <1>1, <1>2, <1>3, <2>1, <2>2, PushedOK DEF Proceed
<1>4. CASE ~Idle'
  <2>1. UNCHANGED <<handler, keysCached, keys, klen, nest, excused>> /\ asked' = kind /\ told' = Untold
    BY <1>1, <1>4 DEF Proceed, sajOptions
  <2>2. KeyFirst'
    BY <1>1, <1>2, <1>4, <2>1 DEF KeyFirst, InHash
  <2>3. keysCached' \in BOOLEAN
    BY <2>1 DEF SajInv, SajType
  <2> QED BY <1>2, <2>1, <2>2, <2>3, KeysKept
<1> QED BY <1>3, <1>4

LEMMA AddedOK ==
  ASSUME SajInv, CacheInv', NEW k \in Keys, AddString(k) \/ AddKeyed(k)
  PROVE  SajInv'
<1>1. TextsKept
  BY Got DEF AddString, AddKeyed, GetKey, SajInv
<1>2. PICK what \in {"string", "value"} : Proceed(what, k)
  BY DEF AddString, AddKeyed
<1>3. UNCHANGED <<handler, keysCached, keys, klen, nest, excused>> /\ told' = Untold
  BY <1>2 DEF Proceed, sajOptions, Kinds
<1>4. asked' \in {"none", "string", "value"}
  BY <1>2 DEF Proceed
<1>5. KeyFirst' /\ keysCached' \in BOOLEAN
  BY <1>3, <1>4 DEF KeyFirst, Kinds, SajInv, SajType
<1> QED BY <1>1, <1>3, <1>4, <1>5, KeysKept

LEMMA InternedOK ==
  ASSUME SajInv, CacheInv', Interned
  PROVE  SajInv'
<1>1. PICK o \in Objs : TextsKept /\ Idle' /\ req \in Keys /\ stack' = stack \cup {<<req, o>>}
  BY GotFormed DEF Interned, SajInv
<1>2. CASE asked \in Kinds
  <2>1. stack' = {<<req, o>>} /\ InHash /\ StartOf(asked) \in handler
    BY <1>1, <1>2 DEF SajInv, KeyFirst
  <2>2. /\ PushKey(<<req, o>>) /\ nest' = Append(nest, [kind |-> asked, key |-> req])
        /\ asked' = "none" /\ told' = Untold /\ UNCHANGED <<sajOptions, excused>>
    BY <1>1, <1>2, <2>1 DEF Interned, Proceed, Kinds
  <2> QED BY <1>1, <1>2, <2>1, <2>2, PushedOK
<1>3. CASE asked \notin Kinds
  <2>1. UNCHANGED <<handler, keysCached, keys, klen, nest, excused>> /\ told' = Untold
    BY <1>3 DEF Interned, Proceed, sajOptions
  <2>2. asked' \in {"none", "value"}
    BY <1>1 DEF Interned, Proceed
  <2>3. KeyFirst' /\ keysCached' \in BOOLEAN
    BY <2>1, <2>2 DEF KeyFirst, Kinds, SajInv, SajType
  <2> QED BY <1>1, <2>1, <2>2, <2>3, KeysKept
<1> QED BY <1>2, <1>3

LEMMA OpenPlainOK ==
  ASSUME SajInv, CacheInv', NEW kind \in Kinds, OpenPlain(kind)
  PROVE  SajInv'
<1> DEFINE C == [kind : Kinds, key : Keys \cup {None, "unasked"}]
           c == [kind |-> kind, key |-> IF InHash THEN "unasked" ELSE None]
           d == Len(nest)
<1>1. /\ nest' = Append(nest, c)
      /\ InHash => StartOf(kind) \notin handler
      /\ told' = Untold /\ asked' = "none"
      /\ UNCHANGED <<handler, keysCached, keys, klen, excused, vars>>
  BY DEF OpenPlain, Outside, sajOptions
<1>2. nest \in Seq(C) /\ c \in C
  BY DEF SajInv, SajType
<1>3. c.kind = kind
  OBVIOUS
<1>4. /\ nest' \in Seq(C) /\ Len(nest') = d + 1 /\ d \in Nat
      /\ \A i \in 1 .. d : nest'[i] = nest[i]
      /\ nest'[d + 1].kind = kind
  <2> HIDE DEF C, c
  <2>1. /\ Append(nest, c) \in Seq(C) /\ Len(Append(nest, c)) = d + 1 /\ d \in Nat
        /\ \A i \in 1 .. d : Append(nest, c)[i] = nest[i]
        /\ Append(nest, c)[d + 1] = c
    BY <1>2, Appended
  <2> QED BY <1>1, <1>3, <2>1
<1>5. SajType'
  BY <1>1, <1>4 DEF SajInv, SajType
<1>6. heap' = heap
  BY <1>1 DEF vars, cacheVars
<1>7. KeysAlive'
  BY <1>1, <1>6 DEF SajInv, KeysAlive
<1>8. ~KeyedAt(d + 1, nest', handler)
  <2>1. SUFFICES ASSUME d + 1 \in 2 .. d + 1, nest'[d].kind = "hash", StartOf(kind) \in handler PROVE FALSE
    BY <1>4 DEF KeyedAt
  <2>2. d \in 1 .. d /\ nest # <<>>
    BY <1>4, <2>1
  <2>3. InHash
    BY <1>4, <2>1, <2>2 DEF InHash
  <2> QED BY <1>1, <2>1, <2>3
<1>9. \A j \in 2 .. d : KeyedAt(j, nest', handler) <=> KeyedAt(j, nest, handler)
  BY <1>4 DEF KeyedAt
<1>10. InStep'
  <2>1. SUFFICES ASSUME excused = {}, Balanced PROVE \E f \in [1 .. Len(keys) -> Nat] : Places(f, keys, nest', handler)
    BY <1>1 DEF InStep, Balanced
  <2>2. PICK f \in [1 .. Len(keys) -> Nat] : Places(f, keys, nest, handler)
    BY <2>1 DEF SajInv, InStep
  <2>3. \A i \in 1 .. Len(keys) : f[i] \in 2 .. d
    BY <2>2 DEF Places, KeyedAt
  <2>4. \A i \in 1 .. Len(keys) : KeyedAt(f[i], nest', handler) /\ nest'[f[i]].key = keys[i][1]
    BY <1>4, <1>9, <2>2, <2>3 DEF Places
  <2>5. \A j \in 2 .. d + 1 : j \in 2 .. d \/ j = d + 1
    BY <1>4
  <2>6. Places(f, keys, nest', handler)
    BY <1>4, <1>8, <1>9, <2>2, <2>4, <2>5 DEF Places
  <2> QED BY <2>6
<1>11. KeyFirst' /\ ToldRight'
  BY <1>1 DEF KeyFirst, ToldRight, SameText, Untold, Kinds
<1> QED BY <1>1, <1>5, <1>7, <1>10, <1>11 DEF SajInv

LEMMA ClosedUntoldOK ==
  ASSUME SajInv, CacheInv', CloseUntold
  PROVE  SajInv'
<1>1. /\ nest # <<>> /\ ~EndsKeyed /\ nest' = Outer /\ told' = Untold /\ asked' = "none"
      /\ UNCHANGED <<vars, handler, keysCached, klen, keys, excused>>
  BY DEF CloseUntold, Close, Outside, sajOptions
<1>2. nest' \in Containers
  BY <1>1, OuterOf DEF SajInv, SajType, Containers
<1>3. SajType'
  BY <1>1, <1>2 DEF SajInv, SajType, Containers
<1>4. heap' = heap
  BY <1>1 DEF vars, cacheVars
<1>5. KeysAlive'
  BY <1>1, <1>4 DEF SajInv, KeysAlive
<1>6. InStep'
  BY <1>1, NoKey DEF InStep, Balanced
<1>7. KeyFirst' /\ ToldRight'
  BY <1>1 DEF KeyFirst, ToldRight, SameText, Untold, Kinds
<1> QED BY <1>1, <1>3, <1>5, <1>6, <1>7 DEF SajInv

LEMMA ClosedToldOK ==
  ASSUME SajInv, CacheInv', CloseTold
  PROVE  SajInv'
<1> DEFINE n == Len(keys) - 1
<1>1. /\ nest # <<>> /\ EndsKeyed /\ keys # <<>> /\ nest' = Outer /\ asked' = "none"
      /\ keys' = SubSeq(keys, 1, n)
      /\ told' = [want |-> Closing.key, got |-> heap[keys[Len(keys)][2]]]
      /\ UNCHANGED <<vars, handler, keysCached, klen, excused>>
  BY DEF CloseTold, Close, Outside, sajOptions
<1>2. nest' \in Containers
  BY <1>1, OuterOf DEF SajInv, SajType, Containers
<1>3. keys \in Seq(Keys \X Objs) /\ n \in Nat /\ Len(keys) = n + 1
  <2> DEFINE Entry == Keys \X Objs
  <2>1. keys \in Seq(Entry)
    BY DEF SajInv, SajType
  <2> HIDE DEF Entry
  <2>2. n \in Nat /\ Len(keys) = n + 1
    BY <1>1, <2>1, NotEmpty
  <2> QED BY <2>1, <2>2 DEF Entry
<1>4. heap' = heap
  BY <1>1 DEF vars, cacheVars
<1> HIDE DEF n
<1>5. keys' \in Seq(Keys \X Objs) /\ Len(keys') = n /\ \A i \in 1 .. n : keys'[i] = keys[i]
  BY <1>1, <1>3, Shortened
<1>6. SajType' /\ Len(keys') <= klen'
  <2>1. Len(keys) <= klen /\ klen \in Nat
    BY DEF SajInv, SajType
  <2>2. n <= klen /\ klen \in Nat
    BY <1>3, <2>1
  <2>3. Len(keys') <= klen'
    BY <1>1, <1>5, <2>2
  <2>4. SajType'
    BY <1>1, <1>2, <1>5, <2>2 DEF SajInv, SajType, Containers
  <2> QED BY <2>3, <2>4
<1>7. KeysAlive'
  BY <1>1, <1>3, <1>4, <1>5 DEF SajInv, KeysAlive
<1>8. InStep'
  <2>1. SUFFICES ASSUME excused = {}, Balanced PROVE \E f \in [1 .. Len(keys') -> Nat] : Places(f, keys', Outer, handler)
    BY <1>1 DEF InStep, Balanced
  <2>2. Len(keys') = Len(keys) - 1
    BY <1>3, <1>5
  <2> QED BY <1>1, <2>1, <2>2, TopKey DEF n
<1>9. ToldRight'
  <2>1. SUFFICES ASSUME excused = {}, Balanced PROVE SameText(told'.want, told'.got)
    BY <1>1 DEF ToldRight, Balanced
  <2> DEFINE top == keys[Len(keys)]
  <2>2. top \in Keys \X Objs
    BY <1>3
  <2>3. top[1] \in Keys /\ top[2] \in Objs
    BY <2>2
  <2>4. Alive(top, heap)
    BY <1>3, <2>1 DEF SajInv, KeysAlive
  <2>5. heap[top[2]] \in Keys /\ Seen[heap[top[2]]] = Seen[top[1]]
    BY <2>3, <2>4 DEF Alive, SajInv, CacheInv, Consistent, TypeOK, CacheType
  <2>6. Closing.key = top[1]
    BY <1>1, <2>1, TopKey
  <2>7. told'.want = top[1] /\ told'.got = heap[top[2]]
    BY <1>1, <2>6
  <2> QED BY <2>3, <2>5, <2>7 DEF SameText
<1>10. KeyFirst'
  BY <1>1 DEF KeyFirst, Kinds
<1> QED BY <1>1, <1>6, <1>7, <1>8, <1>9, <1>10 DEF SajInv

\* A document begins or ends, or another handler comes: no key is left.
LEMMA NoKeysOK ==
  ASSUME SajInv, CacheInv', SajType', Len(keys') = 0, asked' = "none", klen' = klen,
         Len(nest') = 0 \/ excused' # {}, ToldRight'
  PROVE  SajInv'
<1>1. klen \in Nat /\ 2 <= klen
  BY DEF SajInv, SajType
<1>2. Len(keys') <= klen' /\ 2 <= klen'
  BY <1>1
<1>3. 1 .. Len(keys') = {}
  OBVIOUS
<1>4. KeysAlive'
  BY <1>3 DEF KeysAlive
<1>5. InStep'
  <2>1. SUFFICES ASSUME Len(nest') = 0 PROVE \E f \in [1 .. Len(keys') -> Nat] : Places(f, keys', nest', handler')
    BY DEF InStep
  <2>2. 2 .. Len(nest') = {}
    BY <2>1
  <2>3. Places([i \in 1 .. Len(keys') |-> 0], keys', nest', handler')
    BY <1>3, <2>2 DEF Places
  <2>4. [i \in 1 .. Len(keys') |-> 0] \in [1 .. Len(keys') -> Nat]
    OBVIOUS
  <2> QED BY <2>3, <2>4
<1> QED BY <1>2, <1>4, <1>5 DEF SajInv, KeyFirst, Kinds

LEMMA ClosedRaisedOK ==
  ASSUME SajInv, CacheInv', CloseRaises
  PROVE  SajInv'
<1>1. /\ nest # <<>> /\ EndsKeyed /\ keys = <<>> /\ nest' = <<>> /\ keys' = <<>> /\ asked' = "none"
      /\ UNCHANGED <<handler, keysCached, klen, excused>>
  BY DEF CloseRaises, Close, Outside, sajOptions
<1>2. ToldRight'
  BY <1>1, TopKey DEF ToldRight, Balanced
<1>3. Len(nest') = 0 /\ Len(keys') = 0
  BY <1>1, EmptyOne
<1>4. SajType'
  BY <1>1, EmptyOne DEF SajInv, SajType
<1> QED BY <1>1, <1>2, <1>3, <1>4, NoKeysOK

LEMMA StartDocumentOK ==
  ASSUME SajInv, CacheInv', StartDocument
  PROVE  SajInv'
<1>1. /\ nest' = <<>> /\ keys' = <<>> /\ asked' = "none" /\ excused' = {} /\ told' = Untold
      /\ UNCHANGED <<handler, keysCached, klen>>
  BY DEF StartDocument, sajOptions
<1>2. ToldRight'
  BY <1>1 DEF ToldRight, SameText, Untold
<1>3. Len(nest') = 0 /\ Len(keys') = 0
  BY <1>1, EmptyOne
<1>4. SajType'
  BY <1>1, EmptyOne DEF SajInv, SajType
<1> QED BY <1>1, <1>2, <1>3, <1>4, NoKeysOK

LEMMA SetHandlerOK ==
  ASSUME SajInv, CacheInv', NEW methods \in Handlers, SetHandler(methods)
  PROVE  SajInv'
<1>1. /\ keys' = <<>> /\ asked' = "none" /\ told' = Untold /\ handler' = methods
      /\ UNCHANGED <<keysCached, klen, nest>>
      /\ excused' = excused \cup (IF nest = <<>> THEN {} ELSE {"handler replaced"})
  BY DEF SetHandler
<1>2. ToldRight'
  BY <1>1 DEF ToldRight, SameText, Untold
<1>3. methods \subseteq Methods
  <2>1. {"hash_start", "array_start", "hash_end", "array_end", "add_value"} \subseteq Methods
    <3>1. /\ {StartOf("hash"), StartOf("array")} \subseteq Methods
          /\ {EndOf("hash"), EndOf("array")} \subseteq Methods
          /\ "add_value" \in Methods
      BY DEF Methods, Kinds
    <3> QED BY <3>1 DEF StartOf, EndOf
  <2>2. methods \subseteq {"hash_start", "array_start", "hash_end", "array_end", "add_value"}
    BY SajAssumption DEF SajAssumption
  <2> QED BY <2>1, <2>2
<1>4. Len(keys') = 0 /\ (Len(nest') = 0 \/ excused' # {})
  BY <1>1, EmptyOne
<1>5. SajType'
  BY <1>1, <1>3, EmptyOne DEF SajInv, SajType
<1> QED BY <1>1, <1>2, <1>4, <1>5, NoKeysOK

LEMMA CollectedOK ==
  ASSUME SajInv, CacheInv', SajGC
  PROVE  SajInv'
<1>1. /\ UNCHANGED <<handler, keysCached, keys, klen, nest, asked, stack, req>> /\ told' = Untold
      /\ excused' = IF keysCached /\ ~ KeyValues \subseteq Marked
                    THEN excused \cup {"not marked"} ELSE excused
      /\ heap' = [o \in Objs |-> IF o \in Marked \cup Held \cup MarkedKeys THEN heap[o] ELSE None]
  BY DEF SajGC, CollectWith, Collect, sajOptions, callVars
<1>2. SajType'
  BY <1>1 DEF SajInv, SajType
<1>3. KeysAlive'
  <2>1. SUFFICES ASSUME excused' = {}, NEW i \in 1 .. Len(keys) PROVE Alive(keys[i], heap')
    BY <1>1 DEF KeysAlive
  <2>2. excused = {} /\ KeyValues \subseteq Marked \cup MarkedKeys
    BY <1>1, <2>1 DEF MarkedKeys
  <2>3. keys \in Seq(Keys \X Objs)
    BY DEF SajInv, SajType
  <2>4. keys[i] \in Keys \X Objs /\ i \in DOMAIN keys
    BY <2>3
  <2>5. keys[i][2] \in KeyValues /\ keys[i][2] \in Objs
    BY <2>4 DEF KeyValues
  <2>6. heap'[keys[i][2]] = heap[keys[i][2]]
    BY <1>1, <2>2, <2>5
  <2>7. Alive(keys[i], heap)
    BY <2>2 DEF SajInv, KeysAlive
  <2> QED BY <2>6, <2>7 DEF Alive
<1>4. InStep'
  BY <1>1 DEF SajInv, InStep, Balanced
<1>5. ToldRight' /\ KeyFirst'
  BY <1>1 DEF ToldRight, SameText, Untold, SajInv, KeyFirst, Idle, InHash
<1> QED BY <1>1, <1>2, <1>3, <1>4, <1>5 DEF SajInv

-----------------------------------------------------------------------------
LEMMA InitSajInv == SajInit => SajInv
<1> SUFFICES ASSUME SajInit PROVE SajInv
  OBVIOUS
<1>1. CacheInv
  BY InitCacheInv DEF SajInit
<1>2. /\ handler = {} /\ keysCached = TRUE /\ keys = <<>> /\ klen = KeyRoom
      /\ nest = <<>> /\ asked = "none" /\ told = Untold /\ excused = {}
  BY DEF SajInit, SajOwn
<1>3. klen \in Nat /\ 2 <= klen
  BY <1>2, SajAssumption DEF SajAssumption
<1>4. SajType
  BY <1>2, <1>3, EmptyOne DEF SajType
<1>5. Len(keys) = 0 /\ Len(nest) = 0
  BY <1>2, EmptyOne
<1> HIDE <1>2
<1>6. 1 .. Len(keys) = {} /\ 2 .. Len(nest) = {}
  BY <1>5
<1>7. InStep
  <2>1. Places([i \in 1 .. Len(keys) |-> 0], keys, nest, handler)
    BY <1>6 DEF Places
  <2>2. [i \in 1 .. Len(keys) |-> 0] \in [1 .. Len(keys) -> Nat]
    OBVIOUS
  <2> QED BY <2>1, <2>2 DEF InStep
<1>8. KeysAlive /\ KeyFirst /\ ToldRight
  BY <1>2, <1>6 DEF KeysAlive, KeyFirst, ToldRight, SameText, Untold, Kinds
<1>9. Len(keys) <= klen
  BY <1>3, <1>5
<1> QED BY <1>1, <1>3, <1>4, <1>7, <1>8, <1>9 DEF SajInv

\* A step after which the keys, the containers and the handler are what they were.
LEMMA OtherOK ==
  ASSUME SajInv, CacheInv', heap' = heap,
         UNCHANGED <<handler, keys, klen, nest, asked, excused>>, keysCached' \in BOOLEAN,
         asked = "none" \/ UNCHANGED <<req, stack>>, told' = Untold \/ told' = told
  PROVE  SajInv'
<1>1. TextsKept
  BY DEF TextsKept
<1>2. KeyFirst' /\ asked' \in Kinds \cup {"none", "value", "string"}
  BY DEF SajInv, SajType, KeyFirst, Kinds, Idle, InHash
<1> QED BY <1>1, <1>2, KeysKept

LEMMA SajStep == SajInv /\ [SajNext]_<<vars, sajVars>> => SajInv'
<1> SUFFICES ASSUME SajInv, [SajNext]_<<vars, sajVars>> PROVE SajInv'
  OBVIOUS
<1>1. CacheInv'
  BY SajCacheStep DEF SajInv
<1>2. keysCached \in BOOLEAN /\ (asked \in Kinds => ~Idle)
  BY DEF SajInv, SajType, KeyFirst
<1>3. ASSUME NEW k \in Keys, AddString(k) \/ AddKeyed(k) \/ \E kind \in Kinds : OpenKeyed(kind, k)
      PROVE  SajInv'
  BY <1>1, <1>3, AddedOK, OpenKeyedOK
<1>4. ASSUME NEW kind \in Kinds, OpenPlain(kind) PROVE SajInv'
  BY <1>1, <1>4, OpenPlainOK
<1>5. CASE Interned \/ CloseUntold \/ CloseTold \/ CloseRaises \/ StartDocument
  BY <1>1, <1>5, InternedOK, ClosedUntoldOK, ClosedToldOK, ClosedRaisedOK, StartDocumentOK
<1>6. ASSUME NEW methods \in Handlers, SetHandler(methods) PROVE SajInv'
  BY <1>1, <1>6, SetHandlerOK
<1>7. CASE SajGC
  BY <1>1, <1>7, CollectedOK
<1>8. CASE Return
  <2>1. heap' = heap /\ asked = "none"
    BY <1>8 DEF Return, DocDone, cacheVars
  <2>2. UNCHANGED <<handler, keys, klen, nest, asked, excused, keysCached, told>>
    BY <1>8 DEF Return, sajVars
  <2> QED BY <1>1, <1>2, <2>1, <2>2, OtherOK
<1>9. CASE SetKeysCached
  <2>1. heap' = heap /\ asked = "none"
    BY <1>9 DEF SetKeysCached, cacheVars
  <2>2. UNCHANGED <<handler, keys, klen, nest, asked, excused>> /\ keysCached' \in BOOLEAN /\ told' = Untold
    BY <1>2, <1>9 DEF SetKeysCached
  <2> QED BY <1>1, <2>1, <2>2, OtherOK
<1>10. CASE SajTrim
  <2>1. UNCHANGED <<heap, req, stack>>
    BY <1>10 DEF SajTrim, TrimReuse, callVars
  <2>2. UNCHANGED <<handler, keys, klen, nest, asked, excused, keysCached, told>>
    BY <1>10 DEF SajTrim, sajVars
  <2> QED BY <1>1, <1>2, <2>1, <2>2, OtherOK
<1>11. CASE UNCHANGED <<vars, sajVars>>
  <2>1. UNCHANGED <<heap, req, stack>>
    BY <1>11 DEF vars, cacheVars, callVars
  <2>2. UNCHANGED <<handler, keys, klen, nest, asked, excused, keysCached, told>>
    BY <1>11 DEF sajVars
  <2> QED BY <1>1, <1>2, <2>1, <2>2, OtherOK
<1> QED BY <1>3, <1>4, <1>5, <1>6, <1>7, <1>8, <1>9, <1>10, <1>11 DEF SajNext

\* At any depth, with any handlers and texts, the end of a container is told with the
\* key of its start, alive, but for the cases ClosesNamed lists; the stack of keys has
\* room, and "accessing key stack" is never raised otherwise.
THEOREM EndsTold == SajSpec => []ClosesNamed
<1>1. SajInv => ClosesNamed
  BY DEF SajInv, ClosesNamed, ToldRight
<1> QED BY <1>1, InitSajInv, SajStep, PTL DEF SajSpec
=============================================================================
