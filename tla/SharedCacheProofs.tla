--------------------------- MODULE SharedCacheProofs ---------------------------
(* What is proved of the shared cache: that its parts stay consistent, that  *)
(* it hands out the right values, and that it implements Interner.           *)
EXTENDS SharedCache, FiniteSetTheorems, TLAPS

-----------------------------------------------------------------------------
(* The table.                                                                *)

LEMMA BucketRange ==
  ASSUME NEW k \in Keys, NEW n \in Nat \ {0}
  PROVE  Bucket(k, n) \in 0 .. n - 1
BY SizesAssumption DEF SizesAssumption, Bucket

LEMMA ModRange ==
  ASSUME NEW u \in Int
  PROVE  u % UseMod \in 0 .. UseMod - 1
BY SizesAssumption DEF SizesAssumption

\* The table Publish leaves holds what it held and the new entry, each entry
\* in the bucket its text selects.
LEMMA PublishedTable ==
  ASSUME CacheType, Placed,
         \A m \in Chained : key[m] \in Keys /\ key'[m] = key[m],
         NEW n \in Nodes, key'[n] \in Keys,
         NEW b, b = Bucket(key'[n], size),
         Publish(b, slots[b], n, key')
  PROVE  /\ size' \in Nat \ {0}
         /\ size' = size \/ size' > size
         /\ slots' \in [0 .. size' - 1 -> SUBSET Nodes]
         /\ Chained' = Chained \cup {n}
         /\ Placed'
<1> DEFINE tbl == Pushed(slots, b, slots[b], n)
<1>1. b \in 0 .. size - 1 /\ size \in Nat \ {0}
  BY BucketRange DEF CacheType
<1>2. /\ tbl \in [0 .. size - 1 -> SUBSET Nodes]
      /\ \A i \in 0 .. size - 1 : tbl[i] = slots[i] \cup (IF i = b THEN {n} ELSE {})
  BY <1>1 DEF Pushed, CacheType
<1>3. UNION {tbl[i] : i \in 0 .. size - 1} = Chained \cup {n}
  BY <1>1, <1>2 DEF Chained
<1>4. CASE Crowded(cnt + 1, size)
  <2>1. size' = 4 * size /\ slots' = Rehashed(tbl, size, key')
    BY <1>4 DEF Publish
  <2>2. 4 * size \in Nat \ {0} /\ 4 * size > size
    BY <1>1
  <2>3. slots' = [i \in 0 .. size' - 1 |-> {m \in Chained \cup {n} : Bucket(key'[m], size') = i}]
    BY <1>3, <2>1 DEF Rehashed
  <2>4. \A m \in Chained \cup {n} : m \in Nodes /\ key'[m] \in Keys
    BY DEF Chained, CacheType
  <2>5. \A m \in Chained \cup {n} : Bucket(key'[m], size') \in 0 .. size' - 1
    BY <2>1, <2>2, <2>4, BucketRange
  <2>6. Chained' = Chained \cup {n}
    BY <2>3, <2>5 DEF Chained
  <2>7. Placed'
    BY <2>3 DEF Placed, Bucket
  <2> QED BY <2>1, <2>2, <2>3, <2>4, <2>6, <2>7
<1>5. CASE ~Crowded(cnt + 1, size)
  <2>1. size' = size /\ slots' = tbl
    BY <1>5 DEF Publish
  <2>2. Chained' = Chained \cup {n}
    BY <1>3, <2>1 DEF Chained
  <2>3. \A i \in 0 .. size - 1 : slots[i] \subseteq Chained
    BY DEF Chained
  <2>4. Placed'
    BY <1>1, <1>2, <2>1, <2>3 DEF Placed, Bucket
  <2> QED BY <1>1, <1>2, <2>1, <2>2, <2>4
<1> QED BY <1>4, <1>5

\* What a collection moves from the chains to the free list, it counts.
LEMMA CollectedCounts ==
  ASSUME IsFiniteSet(Chained), IsFiniteSet(reuse), Chained \cap reuse = {},
         cnt = Cardinality(Chained), rcnt = Cardinality(reuse),
         NEW r, NEW roots, Collect(r, roots)
  PROVE  /\ Expunged \subseteq Chained /\ IsFiniteSet(Expunged)
         /\ Chained' = Chained \ Expunged
         /\ cnt' = Cardinality(Chained') /\ cnt' \in Nat
         /\ rcnt' = Cardinality(reuse') /\ rcnt' \in Nat
<1> DEFINE E == Expunged
<1>1. E \subseteq Chained
  BY DEF Expunged
<1>2. Chained' = Chained \ E
  BY DEF Collect, Chained
<1>3. IsFiniteSet(E) /\ Cardinality(E) \in Nat /\ cnt \in Nat /\ rcnt \in Nat
  BY <1>1, FS_Subset, FS_CardinalityType
<1>4. Cardinality(Chained \ E) = cnt - Cardinality(E)
  <2>1. Chained \cap E = E
    BY <1>1
  <2> QED BY <2>1, FS_Difference
<1>5. Cardinality(Chained \ E) \in Nat
  BY FS_Difference, FS_CardinalityType
<1>6. Cardinality(reuse \cup E) = rcnt + Cardinality(E)
  <2>1. Cardinality(reuse \cap E) = 0
    BY <1>1, FS_EmptySet
  <2>2. Cardinality(reuse \cup E) = Cardinality(reuse) + Cardinality(E) - Cardinality(reuse \cap E)
    BY <1>3, FS_Union
  <2> QED BY <1>3, <2>1, <2>2
<1> QED BY <1>1, <1>2, <1>3, <1>4, <1>5, <1>6 DEF Collect

-----------------------------------------------------------------------------
(* The locals of the threads, and the counters.                              *)

\* where a thread relies on its bucket, and where its entry is filled and not linked
Holding == {"pop", "unlock1", "form", "formed", "lock2", "link"}
Filling == {"formed", "lock2", "link", "publish"}

\* what the locals of a thread mean where it stands
Locals(t) ==
  /\ pc[t] # "idle" => req[t] \in Keys
  /\ pc[t] = "pop" => cur[t] \in FreeHeads
  /\ pc[t] \in Filling \cup {"unlockhit", "read", "unlock2"} => cur[t] \in Nodes
  /\ pc[t] \in Filling => key[cur[t]] = req[t]
  /\ pc[t] \in Holding => osize[t] \in Nat /\ osize[t] <= size
  /\ pc[t] \in Holding /\ osize[t] = size => bkt[t] = Bucket(req[t], size)
  /\ pc[t] = "publish" => bkt[t] = Bucket(req[t], size) /\ chain[t] = slots[bkt[t]]

LocalsOK == \A t \in Threads : Locals(t)

\* the entries of the table have a text
Filled == \A n \in Chained : key[n] \in Keys

IInv ==
  /\ TypeOK
  /\ MutualExclusion
  /\ LocalsOK
  /\ Filled
  /\ OneOwner
  /\ Accounting
  /\ Findable
  /\ IsFiniteSet(mem)

LEMMA InitIInv == Init => IInv
<1> SUFFICES ASSUME Init PROVE IInv
  OBVIOUS
<1>1. TypeOK
  BY SizesAssumption, NoneAssumption DEF Init, CacheInit, TypeOK, CacheType, Pcs, SafePoints, Locked, SizesAssumption
<1>2. Chained = {}
  BY SizesAssumption DEF Init, CacheInit, Chained, SizesAssumption
<1>3. MutualExclusion
  BY ThreadsAssumption DEF Init, MutualExclusion, Locked, ThreadsAssumption
<1>4. LocalsOK
  BY DEF Init, LocalsOK, Locals, Filling, Holding
<1>5. Filled /\ IsFiniteSet(mem)
  BY <1>2, FS_EmptySet DEF Init, CacheInit, Filled
<1>6. OneOwner
  <2>1. \A t \in Threads : Hand(t) = {}
    BY DEF Init, Hand
  <2>2. \A i \in 0 .. size - 1 : slots[i] = {}
    BY DEF Init, CacheInit
  <2> QED BY <1>2, <2>1, <2>2 DEF OneOwner, Init, CacheInit
<1>7. Accounting
  BY <1>2, FS_EmptySet DEF Accounting, Init, CacheInit
<1>8. Findable
  BY DEF Findable, Placed, Init, CacheInit
<1> QED BY <1>1, <1>3, <1>4, <1>5, <1>6, <1>7, <1>8 DEF IInv

-----------------------------------------------------------------------------
\* A step that leaves the cache alone and gives or takes no node.
LEMMA TableKept ==
  ASSUME OneOwner, Accounting, Findable, Filled, IsFiniteSet(mem),
         UNCHANGED <<cacheVars, lost>>,
         \A t \in Threads : Hand(t)' = Hand(t)
  PROVE  (OneOwner /\ Accounting /\ Findable /\ Filled /\ IsFiniteSet(mem))'
<1>1. Chained' = Chained
  BY DEF Chained, cacheVars, tableVars
<1>2. OneOwner'
  BY <1>1 DEF OneOwner, cacheVars, tableVars, freeVars
<1>3. Accounting' /\ Filled' /\ IsFiniteSet(mem)'
  BY <1>1 DEF Accounting, Filled, cacheVars, tableVars, freeVars, nodeVars
<1>4. Findable'
  BY DEF Findable, Placed, Bucket, cacheVars, tableVars, nodeVars
<1> QED BY <1>2, <1>3, <1>4

\* The locals of a thread that does not move keep their meaning as long as the
\* table, the entries it holds and the free list it is reading do.
LEMMA OtherLocals ==
  ASSUME LocalsOK, NEW t \in Threads,
         UNCHANGED <<size, slots, reuse, key>>,
         \A u \in Threads \ {t} :
           /\ pc'[u] = pc[u] /\ req'[u] = req[u] /\ cur'[u] = cur[u]
           /\ osize'[u] = osize[u] /\ bkt'[u] = bkt[u] /\ chain'[u] = chain[u],
         Locals(t)'
  PROVE  LocalsOK'
<1> SUFFICES ASSUME NEW u \in Threads, u # t PROVE Locals(u)'
  BY DEF LocalsOK
<1> Locals(u)
  BY DEF LocalsOK
<1> QED BY DEF Locals, FreeHeads, Bucket

LEMMA CallOK ==
  ASSUME IInv, NEW t \in Threads, NEW k \in Keys, Call(t, k)
  PROVE  IInv'
<1> USE DEF IInv
<1>1. TypeOK'
  BY DEF Call, Goto, TypeOK, CacheType, Pcs, Locked, SafePoints, cacheVars, tableVars, freeVars, nodeVars
<1>2. MutualExclusion'
  BY DEF Call, Goto, MutualExclusion, TypeOK, Locked
<1>3. LocalsOK'
  <2>1. Locals(t)'
    BY DEF Call, Goto, TypeOK, Locals, Filling, Holding
  <2> QED BY <2>1, OtherLocals DEF Call, Goto, TypeOK, cacheVars, tableVars, freeVars, nodeVars
<1>4. \A u \in Threads : Hand(u)' = Hand(u)
  BY DEF Call, Goto, TypeOK, Hand
<1> QED BY <1>1, <1>2, <1>3, <1>4, TableKept DEF Call

LEMMA Lock1OK ==
  ASSUME IInv, NEW t \in Threads, Lock1(t)
  PROVE  IInv'
<1> USE DEF IInv
<1>1. TypeOK'
  BY DEF Lock1, Acquire, Goto, TypeOK, CacheType, Pcs, Locked, SafePoints, cacheVars, tableVars, freeVars, nodeVars
<1>2. MutualExclusion'
  BY ThreadsAssumption DEF Lock1, Acquire, Goto, MutualExclusion, TypeOK, Locked, ThreadsAssumption
<1>3. LocalsOK'
  <2>1. Locals(t)'
    BY DEF Lock1, Goto, TypeOK, Locals, LocalsOK, Filling, Holding
  <2> QED BY <2>1, OtherLocals DEF Lock1, Goto, TypeOK, cacheVars, tableVars, freeVars, nodeVars
<1>4. \A u \in Threads : Hand(u)' = Hand(u)
  BY DEF Lock1, Goto, TypeOK, Hand
<1> QED BY <1>1, <1>2, <1>3, <1>4, TableKept DEF Lock1

LEMMA TrimDoneOK ==
  ASSUME IInv, NEW t \in Threads, TrimDone(t)
  PROVE  IInv'
<1> USE DEF IInv
<1>1. TypeOK'
  BY DEF TrimDone, Goto, TypeOK, CacheType, Pcs, Locked, SafePoints, cacheVars, tableVars, freeVars, nodeVars
<1>2. MutualExclusion'
  BY ThreadsAssumption DEF TrimDone, Goto, MutualExclusion, TypeOK, Locked, ThreadsAssumption
<1>3. LocalsOK'
  <2>1. Locals(t)'
    BY DEF TrimDone, Goto, TypeOK, Locals, LocalsOK, Filling, Holding, FreeHeads, Bucket, cacheVars, tableVars, freeVars, nodeVars
  <2> QED BY <2>1, OtherLocals DEF TrimDone, Goto, TypeOK, cacheVars, tableVars, freeVars, nodeVars
<1>4. \A u \in Threads : Hand(u)' = Hand(u)
  BY DEF TrimDone, Goto, TypeOK, Hand
<1> QED BY <1>1, <1>2, <1>3, <1>4, TableKept DEF TrimDone

LEMMA ScanMissOK ==
  ASSUME IInv, NEW t \in Threads, ScanMiss(t)
  PROVE  IInv'
<1> USE DEF IInv
<1>0. req[t] \in Keys /\ Bucket(req[t], size) \in 0 .. size - 1
  BY BucketRange DEF ScanMiss, Goto, LocalsOK, Locals, TypeOK, CacheType
<1>1. TypeOK'
  BY <1>0, NoneAssumption DEF ScanMiss, FreeHeads, Goto, TypeOK, CacheType, Pcs, Locked, SafePoints, cacheVars, tableVars, freeVars, nodeVars
<1>2. MutualExclusion'
  BY ThreadsAssumption DEF ScanMiss, FreeHeads, Goto, MutualExclusion, TypeOK, Locked, ThreadsAssumption
<1>3. LocalsOK'
  <2>1. Locals(t)'
    BY <1>0 DEF ScanMiss, FreeHeads, Goto, TypeOK, CacheType, Locals, LocalsOK, Filling, Holding, FreeHeads, Bucket, cacheVars, tableVars, freeVars, nodeVars
  <2> QED BY <2>1, OtherLocals DEF ScanMiss, FreeHeads, Goto, TypeOK, cacheVars, tableVars, freeVars, nodeVars
<1>4. \A u \in Threads : Hand(u)' = Hand(u)
  BY DEF ScanMiss, FreeHeads, Goto, TypeOK, Hand
<1> QED BY <1>1, <1>2, <1>3, <1>4, TableKept DEF ScanMiss

LEMMA Unlock1OK ==
  ASSUME IInv, NEW t \in Threads, Unlock1(t)
  PROVE  IInv'
<1> USE DEF IInv
<1>1. TypeOK'
  BY DEF Unlock1, Release, Goto, TypeOK, CacheType, Pcs, Locked, SafePoints, cacheVars, tableVars, freeVars, nodeVars
<1>2. MutualExclusion'
  BY ThreadsAssumption DEF Unlock1, Release, Goto, MutualExclusion, TypeOK, Locked, ThreadsAssumption
<1>3. LocalsOK'
  <2>1. Locals(t)'
    BY DEF Unlock1, Release, Goto, TypeOK, Locals, LocalsOK, Filling, Holding, FreeHeads, Bucket, cacheVars, tableVars, freeVars, nodeVars
  <2> QED BY <2>1, OtherLocals DEF Unlock1, Release, Goto, TypeOK, cacheVars, tableVars, freeVars, nodeVars
<1>4. \A u \in Threads : Hand(u)' = Hand(u)
  BY DEF Unlock1, Release, Goto, TypeOK, Hand
<1> QED BY <1>1, <1>2, <1>3, <1>4, TableKept DEF Unlock1

LEMMA FormedOK ==
  ASSUME IInv, NEW t \in Threads, Formed(t)
  PROVE  IInv'
<1> USE DEF IInv
<1>1. TypeOK'
  BY DEF Formed, Goto, TypeOK, CacheType, Pcs, Locked, SafePoints, cacheVars, tableVars, freeVars, nodeVars
<1>2. MutualExclusion'
  BY ThreadsAssumption DEF Formed, Goto, MutualExclusion, TypeOK, Locked, ThreadsAssumption
<1>3. LocalsOK'
  <2>1. Locals(t)'
    BY DEF Formed, Goto, TypeOK, Locals, LocalsOK, Filling, Holding, FreeHeads, Bucket, cacheVars, tableVars, freeVars, nodeVars
  <2> QED BY <2>1, OtherLocals DEF Formed, Goto, TypeOK, cacheVars, tableVars, freeVars, nodeVars
<1>4. \A u \in Threads : Hand(u)' = Hand(u)
  BY DEF Formed, Goto, TypeOK, Hand
<1> QED BY <1>1, <1>2, <1>3, <1>4, TableKept DEF Formed

LEMMA Lock2OK ==
  ASSUME IInv, NEW t \in Threads, Lock2(t)
  PROVE  IInv'
<1> USE DEF IInv
<1>1. TypeOK'
  BY DEF Lock2, Acquire, Goto, TypeOK, CacheType, Pcs, Locked, SafePoints, cacheVars, tableVars, freeVars, nodeVars
<1>2. MutualExclusion'
  BY ThreadsAssumption DEF Lock2, Acquire, Goto, MutualExclusion, TypeOK, Locked, ThreadsAssumption
<1>3. LocalsOK'
  <2>1. Locals(t)'
    BY DEF Lock2, Acquire, Goto, TypeOK, Locals, LocalsOK, Filling, Holding, FreeHeads, Bucket, cacheVars, tableVars, freeVars, nodeVars
  <2> QED BY <2>1, OtherLocals DEF Lock2, Acquire, Goto, TypeOK, cacheVars, tableVars, freeVars, nodeVars
<1>4. \A u \in Threads : Hand(u)' = Hand(u)
  BY DEF Lock2, Acquire, Goto, TypeOK, Hand
<1> QED BY <1>1, <1>2, <1>3, <1>4, TableKept DEF Lock2

LEMMA LinkOK ==
  ASSUME IInv, NEW t \in Threads, Link(t)
  PROVE  IInv'
<1> USE DEF IInv
<1>0. req[t] \in Keys /\ Bucket(req[t], size) \in 0 .. size - 1
  BY BucketRange DEF Link, Goto, LocalsOK, Locals, TypeOK, CacheType
<1>a. LinkBucket(t) = Bucket(req[t], size)
  BY DEF LinkBucket, Link, Goto, LocalsOK, Locals, Holding
<1>b. slots[LinkBucket(t)] \in SUBSET Nodes /\ LinkBucket(t) \in Nat
  BY <1>0, <1>a DEF TypeOK, CacheType
<1>1. TypeOK'
  BY <1>b DEF Link, Goto, TypeOK, CacheType, Pcs, Locked, SafePoints, cacheVars, tableVars, freeVars, nodeVars
<1>2. MutualExclusion'
  BY ThreadsAssumption DEF Link, LinkBucket, Goto, MutualExclusion, TypeOK, Locked, ThreadsAssumption
<1>3. LocalsOK'
  <2>1. Locals(t)'
    BY <1>0, <1>a DEF Link, Goto, TypeOK, Locals, LocalsOK, Filling, Holding, FreeHeads, Bucket, cacheVars, tableVars, freeVars, nodeVars
  <2> QED BY <2>1, OtherLocals DEF Link, LinkBucket, Goto, TypeOK, cacheVars, tableVars, freeVars, nodeVars
<1>4. \A u \in Threads : Hand(u)' = Hand(u)
  BY DEF Link, LinkBucket, Goto, TypeOK, Hand
<1> QED BY <1>1, <1>2, <1>3, <1>4, TableKept DEF Link

LEMMA Unlock2OK ==
  ASSUME IInv, NEW t \in Threads, Unlock2(t)
  PROVE  IInv'
<1> USE DEF IInv
<1>0. val[cur[t]] \in Objs \cup {None}
  BY DEF Unlock2, Goto, LocalsOK, Locals, Filling, TypeOK, CacheType
<1>1. TypeOK'
  BY <1>0 DEF Unlock2, Release, Answer, Goto, TypeOK, CacheType, Pcs, Locked, SafePoints, cacheVars, tableVars, freeVars, nodeVars
<1>2. MutualExclusion'
  BY ThreadsAssumption DEF Unlock2, Release, Answer, Goto, MutualExclusion, TypeOK, Locked, ThreadsAssumption
<1>3. LocalsOK'
  <2>1. Locals(t)'
    BY DEF Unlock2, Release, Answer, Goto, TypeOK, Locals, LocalsOK, Filling, Holding, FreeHeads, Bucket, cacheVars, tableVars, freeVars, nodeVars
  <2> QED BY <2>1, OtherLocals DEF Unlock2, Release, Answer, Goto, TypeOK, cacheVars, tableVars, freeVars, nodeVars
<1>4. \A u \in Threads : Hand(u)' = Hand(u)
  BY DEF Unlock2, Release, Answer, Goto, TypeOK, Hand
<1> QED BY <1>1, <1>2, <1>3, <1>4, TableKept DEF Unlock2

LEMMA UnlockHitOK ==
  ASSUME IInv, NEW t \in Threads, UnlockHit(t)
  PROVE  IInv'
<1> USE DEF IInv
<1>1. TypeOK'
  BY DEF UnlockHit, Release, Goto, TypeOK, CacheType, Pcs, Locked, SafePoints, cacheVars, tableVars, freeVars, nodeVars
<1>2. MutualExclusion'
  BY ThreadsAssumption DEF UnlockHit, Release, Goto, MutualExclusion, TypeOK, Locked, ThreadsAssumption
<1>3. LocalsOK'
  <2>1. Locals(t)'
    BY DEF UnlockHit, Release, Goto, TypeOK, Locals, LocalsOK, Filling, Holding, FreeHeads, Bucket, cacheVars, tableVars, freeVars, nodeVars
  <2> QED BY <2>1, OtherLocals DEF UnlockHit, Release, Goto, TypeOK, cacheVars, tableVars, freeVars, nodeVars
<1>4. \A u \in Threads : Hand(u)' = Hand(u)
  BY DEF UnlockHit, Release, Goto, TypeOK, Hand
<1> QED BY <1>1, <1>2, <1>3, <1>4, TableKept DEF UnlockHit

LEMMA ReadValOK ==
  ASSUME IInv, NEW t \in Threads, ReadVal(t)
  PROVE  IInv'
<1> USE DEF IInv
<1>0. val[cur[t]] \in Objs \cup {None}
  BY DEF ReadVal, Goto, LocalsOK, Locals, Filling, TypeOK, CacheType
<1>1. TypeOK'
  BY <1>0 DEF ReadVal, Answer, Goto, TypeOK, CacheType, Pcs, Locked, SafePoints, cacheVars, tableVars, freeVars, nodeVars
<1>2. MutualExclusion'
  BY ThreadsAssumption DEF ReadVal, Answer, Goto, MutualExclusion, TypeOK, Locked, ThreadsAssumption
<1>3. LocalsOK'
  <2>1. Locals(t)'
    BY DEF ReadVal, Answer, Goto, TypeOK, Locals, LocalsOK, Filling, Holding, FreeHeads, Bucket, cacheVars, tableVars, freeVars, nodeVars
  <2> QED BY <2>1, OtherLocals DEF ReadVal, Answer, Goto, TypeOK, cacheVars, tableVars, freeVars, nodeVars
<1>4. \A u \in Threads : Hand(u)' = Hand(u)
  BY DEF ReadVal, Answer, Goto, TypeOK, Hand
<1> QED BY <1>1, <1>2, <1>3, <1>4, TableKept DEF ReadVal

LEMMA DoneOK ==
  ASSUME IInv, NEW t \in Threads, Done(t)
  PROVE  IInv'
<1> USE DEF IInv
<1>1. TypeOK'
  BY DEF Done, Goto, TypeOK, CacheType, Pcs, Locked, SafePoints, cacheVars, tableVars, freeVars, nodeVars
<1>2. MutualExclusion'
  BY ThreadsAssumption DEF Done, Goto, MutualExclusion, TypeOK, Locked, ThreadsAssumption
<1>3. LocalsOK'
  <2>1. Locals(t)'
    BY DEF Done, Goto, TypeOK, Locals, LocalsOK, Filling, Holding, FreeHeads, Bucket, cacheVars, tableVars, freeVars, nodeVars
  <2> QED BY <2>1, OtherLocals DEF Done, Goto, TypeOK, cacheVars, tableVars, freeVars, nodeVars
<1>4. \A u \in Threads : Hand(u)' = Hand(u)
  BY DEF Done, Goto, TypeOK, Hand
<1> QED BY <1>1, <1>2, <1>3, <1>4, TableKept DEF Done

-----------------------------------------------------------------------------
LEMMA TrimReuseOK ==
  ASSUME IInv, NEW t \in Threads, TrimReuse(t)
  PROVE  IInv'
<1> USE DEF IInv
<1>1. IsFiniteSet(reuse) /\ rcnt \in Nat /\ ReuseMax \in Nat /\ reuse # {}
  BY SizesAssumption, FS_Subset, FS_EmptySet DEF TrimReuse, OneOwner, Accounting, TypeOK, CacheType, SizesAssumption
<1>2. PICK n \in reuse : reuse' = reuse \ {n} /\ mem' = mem \ {n} /\ rcnt' = rcnt - 1
  BY <1>1 DEF TrimReuse, Trim, FreeHeads
<1>3. Cardinality(reuse') = Cardinality(reuse) - 1 /\ Cardinality(reuse') \in Nat
  BY <1>1, <1>2, FS_RemoveElement, FS_CardinalityType, FS_Subset
<1>4. Chained' = Chained /\ \A u \in Threads : Hand(u)' = Hand(u)
  BY DEF TrimReuse, Chained, Hand, tableVars, threadVars
<1>5. TypeOK'
  BY <1>2, <1>3 DEF Accounting, TrimReuse, TypeOK, CacheType, tableVars, nodeVars, threadVars
<1>6. MutualExclusion'
  BY DEF TrimReuse, MutualExclusion, threadVars
<1>7. LocalsOK'
  BY ThreadsAssumption DEF TrimReuse, LocalsOK, Locals, MutualExclusion, Locked, Filling, Holding, Bucket, threadVars, tableVars, nodeVars
<1>8. OneOwner'
  BY <1>2, <1>4 DEF TrimReuse, OneOwner, tableVars
<1>9. Accounting' /\ Filled' /\ Findable' /\ IsFiniteSet(mem)'
  BY <1>2, <1>3, <1>4, FS_Subset DEF Accounting, Filled, Findable, Placed, Bucket, TrimReuse, tableVars, nodeVars
<1> QED BY <1>5, <1>6, <1>7, <1>8, <1>9

LEMMA ScanHitOK ==
  ASSUME IInv, NEW t \in Threads, ScanHit(t)
  PROVE  IInv'
<1> USE DEF IInv
<1>1. PICK n \in Hits(req[t]) : Hit(n) /\ cur' = [cur EXCEPT ![t] = n]
  BY DEF ScanHit
<1>2. n \in Nodes
  BY <1>1, BucketRange DEF Hits, ScanHit, Goto, LocalsOK, Locals, TypeOK, CacheType
<1>a. use[n] + HitUse \in Int
  BY <1>2, SizesAssumption DEF SizesAssumption, TypeOK, CacheType
<1>3. (use[n] + HitUse) % UseMod \in 0 .. UseMod - 1
  BY <1>a, ModRange
<1>4. TypeOK'
  BY <1>1, <1>2, <1>3 DEF ScanHit, Hit, Goto, TypeOK, CacheType, Pcs, Locked, SafePoints, tableVars, freeVars
<1>5. MutualExclusion'
  BY DEF ScanHit, Goto, MutualExclusion, TypeOK, Locked
<1>6. LocalsOK'
  <2>1. Locals(t)'
    BY <1>1, <1>2 DEF ScanHit, Goto, TypeOK, Locals, LocalsOK, Filling, Holding
  <2> QED BY <1>1, <2>1, OtherLocals DEF ScanHit, Goto, TypeOK, tableVars, freeVars
<1>7. Chained' = Chained /\ \A u \in Threads : Hand(u)' = Hand(u)
  BY <1>1 DEF ScanHit, Goto, TypeOK, Chained, Hand, tableVars
<1>8. OneOwner'
  BY <1>7 DEF ScanHit, OneOwner, tableVars, freeVars
<1>9. Accounting' /\ Filled' /\ Findable' /\ IsFiniteSet(mem)'
  BY <1>7 DEF ScanHit, Accounting, Filled, Findable, Placed, Bucket, tableVars, freeVars
<1> QED BY <1>4, <1>5, <1>6, <1>8, <1>9

\* Pop takes the node ScanMiss found at the head of the free list: nobody else
\* can have taken it, since the lock has been held since.
LEMMA PopOK ==
  ASSUME IInv, NEW t \in Threads, Pop(t)
  PROVE  IInv'
<1> USE DEF IInv
<1>1. /\ IsFiniteSet(reuse) /\ cur[t] \in FreeHeads /\ req[t] \in Keys
      /\ lock = t /\ pc[t] = "pop" /\ pc' = [pc EXCEPT ![t] = "unlock1"]
  BY FS_Subset DEF Pop, Goto, OneOwner, LocalsOK, Locals, MutualExclusion, Locked
<1>2. Cardinality(reuse') = rcnt' /\ rcnt' \in Nat
  <2>1. CASE reuse = {}
    BY <1>1, <2>1 DEF Pop, PopReuse, FreeHeads, Accounting, TypeOK, CacheType
  <2>2. CASE reuse # {}
    <3>1. cur[t] \in reuse /\ cur[t] # None
      BY <1>1, <2>2, NoneAssumption DEF FreeHeads, TypeOK, CacheType, NoneAssumption
    <3>2. reuse' = reuse \ {cur[t]} /\ rcnt' = Cardinality(reuse) - 1
      BY <3>1 DEF Pop, PopReuse, Accounting
    <3>3. Cardinality(reuse \ {cur[t]}) = Cardinality(reuse) - 1
      BY <1>1, <3>1, FS_RemoveElement
    <3>4. Cardinality(reuse \ {cur[t]}) \in Nat
      BY <1>1, FS_RemoveElement, FS_CardinalityType
    <3> QED BY <3>2, <3>3, <3>4
  <2> QED BY <2>1, <2>2
<1>3. Chained' = Chained
  BY DEF Pop, Chained, tableVars
<1>4. /\ \A u \in Threads \ {t} : Hand(u)' = Hand(u) /\ pc'[u] \notin Locked
      /\ Hand(t) = {} /\ Hand(t)' = reuse \cap {cur[t]}
  BY <1>1, NoneAssumption DEF Pop, FreeHeads, TypeOK, CacheType, NoneAssumption, Hand, MutualExclusion
<1>5. TypeOK'
  BY <1>1, <1>2 DEF Pop, PopReuse, TypeOK, CacheType, Pcs, Locked, SafePoints, tableVars, nodeVars
<1>6. MutualExclusion'
  BY <1>1 DEF Pop, MutualExclusion, TypeOK, Locked
<1>7. LocalsOK'
  <2> SUFFICES ASSUME NEW u \in Threads PROVE Locals(u)'
    BY DEF LocalsOK
  <2>1. Locals(u)
    BY DEF LocalsOK
  <2>2. pc'[u] # "pop"
    BY <1>1, <1>4 DEF TypeOK, Locked
  <2> QED BY <1>1, <2>1, <2>2 DEF Pop, TypeOK, Locals, Filling, Holding, Bucket, tableVars, nodeVars
<1>8. OneOwner'
  BY <1>1, <1>3, <1>4 DEF Pop, PopReuse, FreeHeads, OneOwner, tableVars
<1>9. Accounting' /\ Filled' /\ Findable' /\ IsFiniteSet(mem)'
  BY <1>2, <1>3 DEF Pop, Accounting, Filled, Findable, Placed, Bucket, tableVars, nodeVars
<1> QED BY <1>5, <1>6, <1>7, <1>8, <1>9

LEMMA FormOK ==
  ASSUME IInv, NEW t \in Threads, Form(t)
  PROVE  IInv'
<1> USE DEF IInv
<1>1. PICK n \in NewNodes(t), o \in Objs :
        /\ heap' = [heap EXCEPT ![o] = req[t]]
        /\ mem' = mem \cup {n}
        /\ cur' = [cur EXCEPT ![t] = n]
        /\ key' = [key EXCEPT ![n] = req[t]]
        /\ val' = [val EXCEPT ![n] = o]
        /\ use' = [use EXCEPT ![n] = InitUse]
  BY DEF Form
<1>2. /\ pc[t] = "form" /\ pc' = [pc EXCEPT ![t] = "formed"] /\ req[t] \in Keys
      /\ UNCHANGED <<lost, tableVars, reuse, rcnt, lock, req, osize, bkt, chain, ret>>
  BY DEF Form, Goto, LocalsOK, Locals
<1>3. n \in Nodes /\ n \notin Chained \cup reuse \cup lost
      /\ \A u \in Threads \ {t} : n \notin Hand(u)
  <2>1. CASE cur[t] = None
    BY <1>1, <2>1 DEF NewNodes, OneOwner
  <2>2. CASE cur[t] # None
    <3>1. n = cur[t] /\ n \in Hand(t)
      BY <1>1, <1>2, <2>2 DEF NewNodes, Hand
    <3> QED BY <3>1, <2>2, <1>2 DEF OneOwner, TypeOK
  <2> QED BY <2>1, <2>2
<1>4. Chained' = Chained
  BY <1>2 DEF Chained, tableVars
<1>5. /\ \A u \in Threads \ {t} : Hand(u)' = Hand(u)
      /\ Hand(t)' = {n}
      /\ Hand(t) = {cur[t]} \ {None}
      /\ cur[t] = None \/ cur[t] = n
  BY <1>1, <1>2, <1>3, NoneAssumption DEF Hand, TypeOK, NewNodes, NoneAssumption
<1>6. TypeOK'
  BY <1>1, <1>2, <1>3, SizesAssumption DEF SizesAssumption, TypeOK, CacheType, Pcs, Locked, SafePoints, tableVars
<1>7. MutualExclusion'
  BY <1>2 DEF MutualExclusion, TypeOK, Locked
<1>8. LocalsOK'
  <2> SUFFICES ASSUME NEW u \in Threads PROVE Locals(u)'
    BY DEF LocalsOK
  <2>1. Locals(u)
    BY DEF LocalsOK
  <2>2. CASE u = t
    BY <1>1, <1>2, <1>3, <2>1, <2>2 DEF TypeOK, CacheType, Locals, Filling, Holding, Bucket, tableVars
  <2>3. CASE u # t
    <3>1. pc[u] \in Filling => cur[u] \in Hand(u)
      BY <2>1, NoneAssumption DEF Locals, Filling, Hand, NoneAssumption
    <3>2. pc[u] \in Filling => cur[u] # n
      BY <1>3, <2>3, <3>1
    <3>3. pc[u] \in Filling => key'[cur[u]] = key[cur[u]]
      BY <1>1, <1>3, <3>2, <2>1 DEF TypeOK, CacheType, Locals
    <3> QED BY <1>1, <1>2, <2>1, <2>3, <3>3 DEF TypeOK, Locals, FreeHeads, Filling, Holding, Bucket, tableVars
  <2> QED BY <2>2, <2>3
<1>9. OneOwner'
  BY <1>1, <1>2, <1>3, <1>4, <1>5 DEF OneOwner, tableVars
<1>10. Filled' /\ Findable'
  <2>1. \A m \in Chained : key'[m] = key[m]
    BY <1>1, <1>3 DEF TypeOK, CacheType
  <2>2. \A i \in 0 .. size - 1 : slots[i] \subseteq Chained
    BY DEF Chained
  <2> QED BY <1>2, <1>4, <2>1, <2>2 DEF Filled, Findable, Placed, Bucket, tableVars
<1>11. Accounting' /\ IsFiniteSet(mem)'
  BY <1>1, <1>2, <1>4, FS_AddElement DEF Accounting, tableVars
<1> QED BY <1>6, <1>7, <1>8, <1>9, <1>10, <1>11

LEMMA FormRaisesOK ==
  ASSUME IInv, NEW t \in Threads, FormRaises(t)
  PROVE  IInv'
<1> USE DEF IInv
<1>1. PICK n \in NewNodes(t) : mem' = mem \cup {n} /\ lost' = lost \cup {n}
  BY DEF FormRaises
<1>2. /\ pc[t] = "form" /\ pc' = [pc EXCEPT ![t] = "idle"]
      /\ cur' = [cur EXCEPT ![t] = None]
      /\ UNCHANGED <<tableVars, reuse, rcnt, nodeVars, heap, lock, chain, ret>>
  BY DEF FormRaises, Goto
<1>3. n \in Nodes /\ n \notin Chained \cup reuse
      /\ \A u \in Threads \ {t} : n \notin Hand(u)
  <2>1. CASE cur[t] = None
    BY <1>1, <2>1 DEF NewNodes, OneOwner
  <2>2. CASE cur[t] # None
    <3>1. n = cur[t] /\ n \in Hand(t)
      BY <1>1, <1>2, <2>2 DEF NewNodes, Hand
    <3> QED BY <3>1, <2>2, <1>2 DEF OneOwner, TypeOK
  <2> QED BY <2>1, <2>2
<1>4. Chained' = Chained
  BY <1>2 DEF Chained, tableVars
<1>5. /\ \A u \in Threads \ {t} : Hand(u)' = Hand(u)
      /\ Hand(t)' = {}
      /\ Hand(t) \subseteq {n}
  BY <1>1, <1>2 DEF Hand, TypeOK, NewNodes
<1>6. TypeOK'
  BY <1>1, <1>2, <1>3 DEF FormRaises, TypeOK, CacheType, Pcs, SafePoints, tableVars, nodeVars
<1>7. MutualExclusion'
  BY <1>2 DEF MutualExclusion, TypeOK, Locked
<1>8. LocalsOK'
  <2>1. Locals(t)'
    BY <1>2 DEF Locals, TypeOK, Filling, Holding
  <2> QED BY <1>2, <2>1, OtherLocals DEF FormRaises, TypeOK, tableVars, nodeVars
<1>9. OneOwner'
  BY <1>1, <1>2, <1>3, <1>4, <1>5 DEF OneOwner, tableVars
<1>10. Accounting' /\ Filled' /\ Findable' /\ IsFiniteSet(mem)'
  BY <1>1, <1>2, <1>4, FS_AddElement DEF Accounting, Filled, Findable, Placed, Bucket, tableVars, nodeVars
<1> QED BY <1>6, <1>7, <1>8, <1>9, <1>10

LEMMA PublishNodeOK ==
  ASSUME IInv, NEW t \in Threads, PublishNode(t)
  PROVE  IInv'
<1> USE DEF IInv
<1> DEFINE n == cur[t]
<1>1. /\ pc[t] = "publish" /\ pc' = [pc EXCEPT ![t] = "unlock2"] /\ lock = t
      /\ n \in Nodes /\ key[n] = req[t] /\ req[t] \in Keys
      /\ bkt[t] = Bucket(key[n], size) /\ chain[t] = slots[bkt[t]]
      /\ UNCHANGED <<lost, freeVars, nodeVars, heap, lock, req, cur, osize, bkt, chain, ret>>
  BY DEF PublishNode, Goto, LocalsOK, Locals, Filling, MutualExclusion, Locked
<1>2. Publish(bkt[t], slots[bkt[t]], n, key)
  BY <1>1 DEF PublishNode
<1>3. /\ size' \in Nat \ {0} /\ (size' = size \/ size' > size)
      /\ slots' \in [0 .. size' - 1 -> SUBSET Nodes]
      /\ Chained' = Chained \cup {n}
      /\ Findable'
  <2>1. CacheType /\ Placed /\ key' = key
    BY <1>1 DEF TypeOK, Findable, nodeVars
  <2>2. \A m \in Chained : key[m] \in Keys /\ key'[m] = key[m]
    BY <2>1 DEF Filled
  <2>3. Placed <=> Findable
    BY DEF Findable
  <2>4. Publish(bkt[t], slots[bkt[t]], n, key') /\ bkt[t] = Bucket(key'[n], size) /\ key'[n] \in Keys
    BY <1>1, <1>2, <2>1
  <2>5. (Placed <=> Findable)'
    BY DEF Findable
  <2> QED BY <1>1, <2>1, <2>2, <2>4, <2>5, PublishedTable
<1>4. /\ \A u \in Threads \ {t} : Hand(u)' = Hand(u) /\ n \notin Hand(u)
      /\ Hand(t) = {n} /\ Hand(t)' = {}
      /\ n \notin Chained \cup reuse \cup lost
  BY <1>1, NoneAssumption DEF Hand, TypeOK, OneOwner, NoneAssumption
<1>5. IsFiniteSet(Chained) /\ n \notin Chained
  BY <1>4, FS_Subset DEF OneOwner
<1>6. Cardinality(Chained') = cnt' /\ cnt' \in Nat
  <2>1. cnt' = cnt + 1
    BY <1>2 DEF Publish
  <2>2. Cardinality(Chained \cup {n}) = Cardinality(Chained) + 1
    BY <1>5, FS_AddElement
  <2> QED BY <1>3, <2>1, <2>2 DEF Accounting, TypeOK, CacheType
<1>7. TypeOK'
  BY <1>1, <1>3, <1>6 DEF TypeOK, CacheType, Pcs, Locked, SafePoints, freeVars, nodeVars
<1>8. MutualExclusion'
  BY <1>1 DEF MutualExclusion, TypeOK, Locked
<1>9. LocalsOK'
  <2> SUFFICES ASSUME NEW u \in Threads PROVE Locals(u)'
    BY DEF LocalsOK
  <2>1. Locals(u) /\ pc'[u] # "publish"
    BY <1>1 DEF LocalsOK, MutualExclusion, TypeOK, Locked
  <2>2. /\ pc'[u] \in Holding => pc[u] \in Holding /\ osize[u] \in Nat /\ osize[u] <= size
        /\ size \in Nat
    BY <1>1, <2>1 DEF Locals, Holding, TypeOK, CacheType
  <2>3. pc'[u] \in Holding => osize[u] <= size' /\ (osize[u] = size' => size' = size)
    BY <1>3, <2>2
  <2> QED BY <1>1, <2>1, <2>2, <2>3 DEF TypeOK, Locals, FreeHeads, Filling, Holding, Bucket, freeVars, nodeVars
<1>10. OneOwner'
  <2>1. \A i, j \in 0 .. size' - 1 : i # j => slots'[i] \cap slots'[j] = {}
    <3> SUFFICES ASSUME NEW i \in 0 .. size' - 1, NEW j \in 0 .. size' - 1,
                        NEW e, e \in slots'[i], e \in slots'[j]
                 PROVE  i = j
      OBVIOUS
    <3>1. \A h \in 0 .. size' - 1 : \A d \in slots'[h] : Hash[key'[d]] % size' = h
      BY <1>3 DEF Findable, Placed, Bucket
    <3>2. Hash[key'[e]] % size' = i /\ Hash[key'[e]] % size' = j
      BY <3>1
    <3> QED BY <3>2
  <2> QED BY <1>1, <1>3, <1>4, <2>1 DEF OneOwner, freeVars
<1>11. Filled' /\ Accounting' /\ IsFiniteSet(mem)'
  BY <1>1, <1>3, <1>6 DEF Filled, Accounting, freeVars, nodeVars
<1> QED BY <1>3, <1>7, <1>8, <1>9, <1>10, <1>11

\* A collection moves the unused entries from the chains to the free list.
LEMMA GCOK ==
  ASSUME IInv, GC
  PROVE  IInv'
<1> USE DEF IInv
<1> DEFINE E == Expunged
<1>1. /\ \A t \in Threads : pc[t] \in SafePoints
      /\ slots' = [i \in 0 .. size - 1 |-> slots[i] \ E]
      /\ cnt' = cnt - Cardinality(E)
      /\ reuse' = reuse \cup E
      /\ rcnt' = rcnt + Cardinality(E)
      /\ key' = [n \in Nodes |-> IF n \in E THEN None ELSE key[n]]
      /\ UNCHANGED <<size, mem, lock, threadVars, lost>>
  BY DEF GC, Stopped, Collect
<1>2. IsFiniteSet(Chained) /\ IsFiniteSet(reuse) /\ Chained \subseteq Nodes
  BY FS_Subset DEF OneOwner, Chained, TypeOK, CacheType
<1>3. /\ E \subseteq Chained /\ Chained' = Chained \ E
      /\ Cardinality(Chained') = cnt' /\ cnt' \in Nat
      /\ Cardinality(reuse') = rcnt' /\ rcnt' \in Nat
  BY <1>2, CollectedCounts DEF GC, OneOwner, Accounting
<1>7. \A t \in Threads : Hand(t)' = Hand(t)
  BY <1>1 DEF Hand, threadVars
<1>8. TypeOK'
  <2>1. use' \in [Nodes -> 0 .. UseMod - 1]
    <3>1. \A n \in Nodes : use[n] \in 0 .. UseMod - 1 /\ use[n] - 1 \in Int
      BY SizesAssumption DEF TypeOK, CacheType, SizesAssumption
    <3>2. \A n \in Nodes : (use[n] - 1) % UseMod \in 0 .. UseMod - 1
      BY <3>1, ModRange
    <3>3. \A n \in Nodes : Aged(use[n], Rate) = (use[n] - 1) % UseMod
      BY DEF Aged, Rate
    <3>4. use' = [n \in Nodes |-> IF n \in Chained \ E THEN Aged(use[n], Rate) ELSE use[n]]
      BY DEF GC, Collect
    <3> QED BY <3>1, <3>2, <3>3, <3>4
  <2>2. key' \in [Nodes -> Keys \cup {None}] /\ val' \in [Nodes -> Objs \cup {None}]
        /\ heap' \in [Objs -> Keys \cup {None}]
    BY DEF GC, Collect, TypeOK, CacheType
  <2>3. slots' \in [0 .. size' - 1 -> SUBSET Nodes] /\ reuse' \in SUBSET Nodes
    BY <1>1, <1>2, <1>3 DEF TypeOK, CacheType
  <2> QED BY <1>1, <1>3, <2>1, <2>2, <2>3 DEF TypeOK, CacheType, threadVars
<1>9. MutualExclusion'
  BY <1>1 DEF MutualExclusion, threadVars
<1>10. LocalsOK'
  <2> SUFFICES ASSUME NEW t \in Threads PROVE Locals(t)'
    BY DEF LocalsOK
  <2>1. Locals(t) /\ pc'[t] = pc[t] /\ pc[t] \in SafePoints
    BY <1>1 DEF LocalsOK, threadVars
  <2>2. pc[t] \in Filling => cur[t] \in Nodes /\ cur[t] \in Hand(t)
    BY <2>1, NoneAssumption DEF Locals, Hand, Filling, NoneAssumption
  <2>3. pc[t] \in Filling => key'[cur[t]] = key[cur[t]]
    BY <1>1, <1>2, <1>3, <2>2 DEF OneOwner
  <2> QED BY <1>1, <2>1, <2>2, <2>3 DEF Locals, SafePoints, Filling, Holding, Bucket, threadVars
<1>11. OneOwner'
  BY <1>1, <1>2, <1>3, <1>7 DEF OneOwner
<1>12. Filled' /\ Findable'
  <2>1. \A n \in Chained' : key'[n] = key[n]
    BY <1>1, <1>2, <1>3
  <2>2. \A i \in 0 .. size - 1 : slots'[i] \subseteq Chained' /\ slots'[i] \subseteq slots[i]
    BY <1>1, <1>3 DEF Chained
  <2> QED BY <1>1, <1>3, <2>1, <2>2 DEF Filled, Findable, Placed, Bucket
<1> QED BY <1>1, <1>3, <1>8, <1>9, <1>10, <1>11, <1>12 DEF Accounting

-----------------------------------------------------------------------------
LEMMA NextIInv == IInv /\ [Next]_vars => IInv'
<1> SUFFICES ASSUME IInv, [Next]_vars PROVE IInv'
  OBVIOUS
<1>1. ASSUME NEW t \in Threads, Enter(t) PROVE IInv'
  BY <1>1, CallOK, Lock1OK, TrimReuseOK, TrimDoneOK DEF Enter
<1>2. ASSUME NEW t \in Threads, Scan(t) PROVE IInv'
  BY <1>2, ScanHitOK, UnlockHitOK, ReadValOK, DoneOK, ScanMissOK, PopOK, Unlock1OK DEF Scan
<1>3. ASSUME NEW t \in Threads, Make(t) PROVE IInv'
  BY <1>3, FormOK, FormRaisesOK, FormedOK, Lock2OK, LinkOK, PublishNodeOK, Unlock2OK DEF Make
<1>4. CASE GC
  BY <1>4, GCOK
<1>5. CASE UNCHANGED vars
  <2>1. Chained' = Chained /\ \A t \in Threads : Hand(t)' = Hand(t)
    BY <1>5 DEF vars, cacheVars, tableVars, threadVars, Chained, Hand
  <2>2. IInv
    OBVIOUS
  <2>3. TypeOK' /\ MutualExclusion'
    BY <1>5, <2>2 DEF IInv, vars, cacheVars, tableVars, freeVars, nodeVars, threadVars, TypeOK, CacheType, MutualExclusion
  <2>4. LocalsOK'
    BY <1>5, <2>2 DEF IInv, vars, cacheVars, tableVars, freeVars, nodeVars, threadVars, LocalsOK, Locals, FreeHeads, Bucket
  <2>5. (OneOwner /\ Accounting /\ Findable /\ Filled /\ IsFiniteSet(mem))'
    BY <1>5, <2>1, <2>2, TableKept DEF IInv, vars
  <2> QED BY <2>3, <2>4, <2>5 DEF IInv
<1> QED BY <1>1, <1>2, <1>3, <1>4, <1>5 DEF Next

THEOREM Invariance == Spec => []IInv
<1>1. Init => IInv
  BY InitIInv
<1>2. IInv /\ [Next]_vars => IInv'
  BY NextIInv
<1> QED BY <1>1, <1>2, PTL DEF Spec

\* Every variable of the cache and of the calls keeps its type; in particular the
\* counters never fall below zero.
THEOREM TypeCorrect == Spec => []TypeOK
<1>1. IInv => TypeOK
  BY DEF IInv
<1> QED BY <1>1, Invariance, PTL

\* Exactly the thread between CACHE_LOCK and CACHE_UNLOCK owns the mutex.
THEOREM Exclusion == Spec => []MutualExclusion
<1>1. IInv => MutualExclusion
  BY DEF IInv
<1> QED BY <1>1, Invariance, PTL

\* For any number of threads, texts and entries, an entry is on one chain, on the
\* free list, in one thread's hands, or lost to a form() that raised.
THEOREM Ownership == Spec => []OneOwner
<1>1. IInv => OneOwner
  BY DEF IInv
<1> QED BY <1>1, Invariance, PTL

\* cnt and rcnt are the lengths of what they count, so the correction of an
\* "accounting error" is dead code.
THEOREM CountersRight == Spec => []Bookkeeping
<1>1. IInv => Bookkeeping
  BY DEF IInv, Bookkeeping
<1> QED BY <1>1, Invariance, PTL

\* No resize misplaces an entry, whatever the hash function.
THEOREM EntriesFindable == Spec => []Findable
<1>1. IInv => Findable
  BY DEF IInv
<1> QED BY <1>1, Invariance, PTL

-----------------------------------------------------------------------------
(***************************************************************************)
(* What a shared cache holds and hands out, and that it implements         *)
(* Interner.  The invariant VInv is about the values; it is proved          *)
(* relative to IInv, the invariant of the table and the locks.              *)
(***************************************************************************)

\* where a thread has found no entry for its text and has not added one yet
Waiting == {"pop", "unlock1", "form"} \cup Filling

\* what the value and the entry of a thread are where it stands
Values(t) ==
  /\ pc[t] = "idle" => req[t] = None
  /\ pc[t] # "done" => ret[t] = None
  /\ pc[t] \in Filling => val[cur[t]] \in Objs /\ heap[val[cur[t]]] = req[t]
  /\ pc[t] \in {"unlockhit", "read"} => cur[t] \in Chained /\ Seen[key[cur[t]]] = Seen[req[t]]
  /\ pc[t] = "unlock2" => cur[t] \in Chained /\ key[cur[t]] = req[t]
  /\ pc[t] = "done" =>
       ret[t] \in Objs /\ heap[ret[t]] \in Keys /\ Seen[heap[ret[t]]] = Seen[req[t]]

ValuesOK == \A t \in Threads : Values(t)

\* the entries of the text k, and the threads about to add one
Stored(k) == {n \in Chained : key[n] = k}
Pending(k) == {t \in Threads : req[t] = k /\ pc[t] \in Waiting}

\* Every copy in the table stands for a thread that no longer waits.
CopiesBound ==
  \A k \in Keys : Cardinality(Stored(k)) + Cardinality(Pending(k)) <= Cardinality(Threads)

VInv == ValuesOK /\ LiveEntries /\ CopiesBound

-----------------------------------------------------------------------------
LEMMA CopiesFinite ==
  ASSUME IInv, NEW k
  PROVE  /\ IsFiniteSet(Stored(k)) /\ IsFiniteSet(Pending(k)) /\ IsFiniteSet(Threads)
         /\ Cardinality(Stored(k)) \in Nat /\ Cardinality(Pending(k)) \in Nat
         /\ Cardinality(Threads) \in Nat
<1>1. IsFiniteSet(Chained)
  BY FS_Subset DEF IInv, OneOwner
<1>2. Stored(k) \subseteq Chained /\ Pending(k) \subseteq Threads
  BY DEF Stored, Pending
<1>3. IsFiniteSet(Stored(k)) /\ IsFiniteSet(Pending(k)) /\ IsFiniteSet(Threads)
  BY <1>1, <1>2, ThreadsAssumption, FS_Subset DEF ThreadsAssumption
<1> QED BY <1>3, FS_CardinalityType

\* The copies can only become fewer when entries and waiting threads do.
LEMMA FewerCopies ==
  ASSUME IInv, CopiesBound,
         \A k \in Keys : Stored(k)' \subseteq Stored(k) /\ Pending(k)' \subseteq Pending(k)
  PROVE  CopiesBound'
<1> SUFFICES ASSUME NEW k \in Keys
             PROVE  Cardinality(Stored(k)') + Cardinality(Pending(k)') <= Cardinality(Threads)
  BY DEF CopiesBound
<1>1. /\ IsFiniteSet(Stored(k)) /\ IsFiniteSet(Pending(k))
      /\ Cardinality(Stored(k)) \in Nat /\ Cardinality(Pending(k)) \in Nat
      /\ Cardinality(Threads) \in Nat
  BY CopiesFinite
<1>2. Cardinality(Stored(k)') <= Cardinality(Stored(k)) /\ Cardinality(Stored(k)') \in Nat
  BY <1>1, FS_Subset, FS_CardinalityType
<1>3. Cardinality(Pending(k)') <= Cardinality(Pending(k)) /\ Cardinality(Pending(k)') \in Nat
  BY <1>1, FS_Subset, FS_CardinalityType
<1>4. Cardinality(Stored(k)) + Cardinality(Pending(k)) <= Cardinality(Threads)
  BY DEF CopiesBound
<1> QED BY <1>1, <1>2, <1>3, <1>4

\* The value and the entry of a thread that does not move, when entries are only
\* added to the table and no value dies.
LEMMA OtherValues ==
  ASSUME ValuesOK, NEW t \in Threads,
         UNCHANGED <<key, val, heap>>, Chained \subseteq Chained',
         \A u \in Threads \ {t} :
           pc'[u] = pc[u] /\ req'[u] = req[u] /\ cur'[u] = cur[u] /\ ret'[u] = ret[u],
         Values(t)'
  PROVE  ValuesOK'
<1> SUFFICES ASSUME NEW u \in Threads, u # t PROVE Values(u)'
  BY DEF ValuesOK
<1> Values(u)
  BY DEF ValuesOK
<1> QED BY DEF Values

\* A step that leaves the entries and the values alone and makes no thread wait.
LEMMA QuietStep ==
  ASSUME IInv, VInv, NEW t \in Threads,
         UNCHANGED <<tableVars, key, val, heap>>,
         \A u \in Threads \ {t} :
           pc'[u] = pc[u] /\ req'[u] = req[u] /\ cur'[u] = cur[u] /\ ret'[u] = ret[u],
         pc'[t] \in Waiting => pc[t] \in Waiting /\ req'[t] = req[t],
         Values(t)'
  PROVE  VInv'
<1>1. Chained' = Chained
  BY DEF Chained, tableVars
<1>2. ValuesOK'
  BY <1>1, OtherValues DEF VInv
<1>3. LiveEntries'
  BY <1>1 DEF VInv, LiveEntries
<1>4. \A k \in Keys : Stored(k)' \subseteq Stored(k) /\ Pending(k)' \subseteq Pending(k)
  BY <1>1 DEF Stored, Pending
<1>5. CopiesBound'
  BY <1>4, FewerCopies DEF VInv
<1> QED BY <1>2, <1>3, <1>5 DEF VInv

-----------------------------------------------------------------------------
\* Entering and leaving the call and the locks neither makes nor adds a value.
LEMMA EnterValues ==
  ASSUME IInv, VInv, NEW t \in Threads, Enter(t)
  PROVE  VInv'
<1> USE DEF Enter, Goto, cacheVars, freeVars, nodeVars, Values, Filling, Waiting
<1>1. TypeOK /\ Values(t)
  BY DEF IInv, VInv, ValuesOK
<1>2. ASSUME NEW k \in Keys, Call(t, k) PROVE VInv'
  BY <1>1, <1>2, QuietStep DEF Call, TypeOK
<1>3. CASE Lock1(t)
  BY <1>1, <1>3, QuietStep DEF Lock1, TypeOK
<1>4. CASE TrimReuse(t)
  BY <1>1, <1>4, QuietStep DEF TrimReuse, threadVars, TypeOK
<1>5. CASE TrimDone(t)
  BY <1>1, <1>5, QuietStep DEF TrimDone, TypeOK
<1> QED BY <1>2, <1>3, <1>4, <1>5

\* A hit is an entry of the table whose value is alive; the value read after the
\* lock is gone is still that value, because no collection can come between.
LEMMA HitValues ==
  ASSUME IInv, VInv, NEW t \in Threads, ScanHit(t) \/ UnlockHit(t) \/ ReadVal(t) \/ Done(t)
  PROVE  VInv'
<1> USE DEF Goto, cacheVars, freeVars, nodeVars, Filling, Waiting
<1>1. TypeOK /\ Values(t) /\ LiveEntries /\ Filled /\ Locals(t)
  BY DEF IInv, VInv, ValuesOK, LocalsOK
<1>2. CASE ScanHit(t)
  <2>1. PICK n \in Hits(req[t]) : Hit(n) /\ cur' = [cur EXCEPT ![t] = n]
    BY <1>2 DEF ScanHit
  <2>2. req[t] \in Keys
    BY <1>1, <1>2 DEF ScanHit, Locals
  <2>3. n \in Chained /\ Seen[key[n]] = Seen[req[t]]
    BY <1>1, <2>1, <2>2, BucketRange DEF Hits, Chained, TypeOK, CacheType
  <2>4. Chained' = Chained
    BY <1>2 DEF ScanHit, Chained, tableVars
  <2>5. Values(t)'
    BY <1>1, <1>2, <2>1, <2>3, <2>4 DEF ScanHit, TypeOK, Values
  <2> QED BY <1>1, <1>2, <2>1, <2>5, QuietStep DEF ScanHit, TypeOK
<1>3. CASE UnlockHit(t)
  <2>1. Chained' = Chained
    BY <1>3 DEF UnlockHit, Chained, tableVars
  <2>2. Values(t)'
    BY <1>1, <1>3, <2>1 DEF UnlockHit, TypeOK, Values
  <2> QED BY <1>1, <1>3, <2>2, QuietStep DEF UnlockHit, TypeOK
<1>4. CASE ReadVal(t)
  <2>1. cur[t] \in Chained /\ Seen[key[cur[t]]] = Seen[req[t]]
    BY <1>1, <1>4 DEF ReadVal, Values
  <2>2. val[cur[t]] \in Objs /\ heap[val[cur[t]]] = key[cur[t]] /\ key[cur[t]] \in Keys
    BY <1>1, <2>1 DEF LiveEntries, Filled
  <2>3. Values(t)'
    BY <1>1, <1>4, <2>1, <2>2 DEF ReadVal, Answer, TypeOK, Values
  <2> QED BY <1>1, <1>4, <2>3, QuietStep DEF ReadVal, Answer, TypeOK
<1>5. CASE Done(t)
  <2>1. Values(t)'
    BY <1>1, <1>5 DEF Done, TypeOK, Values
  <2> QED BY <1>1, <1>5, <2>1, QuietStep DEF Done, TypeOK
<1> QED BY <1>2, <1>3, <1>4, <1>5

\* A thread starts waiting only when the table has no copy of its text: then the
\* copies to come are at most one for each thread.
LEMMA MissValues ==
  ASSUME IInv, VInv, NEW t \in Threads, ScanMiss(t)
  PROVE  VInv'
<1>1. TypeOK /\ Values(t) /\ Locals(t) /\ Placed
  BY DEF IInv, VInv, ValuesOK, LocalsOK, Findable
<1>2. /\ pc[t] = "scan" /\ pc' = [pc EXCEPT ![t] = "pop"] /\ req[t] \in Keys
      /\ UNCHANGED <<tableVars, key, val, heap, req, ret>> /\ Chained' = Chained
      /\ \A u \in Threads \ {t} : cur'[u] = cur[u]
  BY <1>1 DEF ScanMiss, Goto, Locals, cacheVars, nodeVars, tableVars, Chained, TypeOK
<1>3. ValuesOK'
  <2>1. Values(t)'
    BY <1>1, <1>2 DEF Values, Filling, TypeOK
  <2> QED BY <1>1, <1>2, <2>1, OtherValues DEF VInv, TypeOK
<1>4. LiveEntries'
  BY <1>2 DEF VInv, LiveEntries
<1>5. \A k \in Keys : k = req[t] => Stored(k)' = {}
  <2>1. \A i \in 0 .. size - 1 : \A n \in slots[i] : Bucket(key[n], size) = i
    BY <1>1 DEF Placed
  <2>2. \A i \in 0 .. size - 1 : \A n \in slots[i] : key[n] = req[t] => n \in Hits(req[t])
    BY <2>1 DEF Hits
  <2>3. Stored(req[t]) = {}
    BY <2>2 DEF Stored, Chained, ScanMiss
  <2> QED BY <1>2, <2>3 DEF Stored
<1>6. CopiesBound'
  <2> SUFFICES ASSUME NEW k \in Keys
               PROVE  Cardinality(Stored(k)') + Cardinality(Pending(k)') <= Cardinality(Threads)
    BY DEF CopiesBound
  <2>1. IsFiniteSet(Threads) /\ Cardinality(Threads) \in Nat
    BY CopiesFinite
  <2>2. CASE k = req[t]
    <3>1. Cardinality(Stored(k)') = 0
      BY <1>5, <2>2, FS_EmptySet
    <3>2. Cardinality(Pending(k)') <= Cardinality(Threads) /\ Cardinality(Pending(k)') \in Nat
      BY <2>1, FS_Subset, FS_CardinalityType DEF Pending
    <3> QED BY <2>1, <3>1, <3>2
  <2>3. CASE k # req[t]
    <3>1. Stored(k)' = Stored(k)
      BY <1>2 DEF Stored
    <3>2. Pending(k)' = Pending(k)
      BY <1>1, <1>2, <2>3 DEF Pending, TypeOK
    <3> QED BY <3>1, <3>2 DEF VInv, CopiesBound
  <2> QED BY <2>2, <2>3
<1> QED BY <1>3, <1>4, <1>6 DEF VInv

\* Taking a retired entry, the lock and the bucket concern no value; a form()
\* that raises ends the wait.
LEMMA PassValues ==
  ASSUME IInv, VInv, NEW t \in Threads,
         Pop(t) \/ Unlock1(t) \/ FormRaises(t) \/ Formed(t) \/ Lock2(t) \/ Link(t)
  PROVE  VInv'
<1> USE DEF Goto, cacheVars, freeVars, nodeVars, Values, Filling, Waiting
<1>1. TypeOK /\ Values(t)
  BY DEF IInv, VInv, ValuesOK
<1>2. CASE Pop(t)
  BY <1>1, <1>2, QuietStep DEF Pop, TypeOK
<1>3. CASE Unlock1(t)
  BY <1>1, <1>3, QuietStep DEF Unlock1, TypeOK
<1>4. CASE FormRaises(t)
  <2>1. /\ pc[t] = "form" /\ pc' = [pc EXCEPT ![t] = "idle"]
        /\ req' = [req EXCEPT ![t] = None] /\ cur' = [cur EXCEPT ![t] = None]
        /\ UNCHANGED <<tableVars, key, val, heap, ret>>
    BY <1>4 DEF FormRaises
  <2> QED BY <1>1, <2>1, QuietStep DEF TypeOK
<1>5. CASE Formed(t)
  BY <1>1, <1>5, QuietStep DEF Formed, TypeOK
<1>6. CASE Lock2(t)
  BY <1>1, <1>6, QuietStep DEF Lock2, TypeOK
<1>7. CASE Link(t)
  BY <1>1, <1>7, QuietStep DEF Link, TypeOK
<1> QED BY <1>2, <1>3, <1>4, <1>5, <1>6, <1>7

\* The value of the entry just added is the answer.
LEMMA UnlockValues ==
  ASSUME IInv, VInv, NEW t \in Threads, Unlock2(t)
  PROVE  VInv'
<1>1. TypeOK /\ Values(t) /\ LiveEntries /\ Locals(t)
  BY DEF IInv, VInv, ValuesOK, LocalsOK
<1>2. cur[t] \in Chained /\ key[cur[t]] = req[t] /\ req[t] \in Keys
  BY <1>1 DEF Unlock2, Goto, Values, Locals
<1>3. val[cur[t]] \in Objs /\ heap[val[cur[t]]] = req[t]
  BY <1>1, <1>2 DEF LiveEntries
<1>4. Values(t)'
  BY <1>1, <1>2, <1>3 DEF Unlock2, Answer, Goto, TypeOK, Values, Filling, cacheVars, nodeVars
<1> QED BY <1>1, <1>4, QuietStep DEF Unlock2, Answer, Goto, TypeOK, Waiting, Filling, cacheVars, nodeVars

\* A new value is made for a text without disturbing another: its object was dead,
\* its entry is on no chain and in nobody else's hands.
LEMMA FormNew ==
  ASSUME IInv, VInv, NEW t \in Threads, NEW n \in NewNodes(t), NEW o \in Objs,
         Goto(t, "form", "formed"), heap[o] = None
  PROVE  /\ n \in Nodes /\ n \notin Chained
         /\ \A u \in Threads \ {t} : pc[u] \in Filling => cur[u] # n
         /\ \A m \in Chained : val[m] # o
         /\ \A u \in Threads : pc[u] \in Filling => val[cur[u]] # o
         /\ \A u \in Threads : pc[u] = "done" => ret[u] # o
<1>1. TypeOK /\ OneOwner /\ LocalsOK /\ ValuesOK /\ LiveEntries /\ Filled
  BY DEF IInv, VInv
<1>2. n \in Nodes /\ n \notin Chained
      /\ \A u \in Threads \ {t} : n \notin Hand(u)
  <2>1. CASE cur[t] = None
    BY <1>1, <2>1 DEF NewNodes, OneOwner
  <2>2. CASE cur[t] # None
    <3>1. n = cur[t] /\ n \in Hand(t)
      BY <2>2 DEF NewNodes, Hand, Goto
    <3> QED BY <1>1, <3>1, <2>2 DEF OneOwner, TypeOK
  <2> QED BY <2>1, <2>2
<1>3. ASSUME NEW u \in Threads \ {t}, pc[u] \in Filling PROVE cur[u] # n
  <2>1. cur[u] \in Hand(u)
    BY <1>1, <1>3, NoneAssumption DEF LocalsOK, Locals, Filling, Hand, NoneAssumption
  <2> QED BY <1>2, <2>1
<1>4. \A m \in Chained : val[m] # o
  BY <1>1, NoneAssumption DEF LiveEntries, Filled, NoneAssumption
<1>5. \A u \in Threads : pc[u] \in Filling => val[cur[u]] # o
  BY <1>1, NoneAssumption DEF ValuesOK, Values, LocalsOK, Locals, Filling, NoneAssumption
<1>6. \A u \in Threads : pc[u] = "done" => ret[u] # o
  BY <1>1, NoneAssumption DEF ValuesOK, Values, NoneAssumption
<1> QED BY <1>2, <1>3, <1>4, <1>5, <1>6

LEMMA FormValues ==
  ASSUME IInv, VInv, NEW t \in Threads, Form(t)
  PROVE  VInv'
<1>1. PICK n \in NewNodes(t), o \in Objs :
        /\ heap[o] = None
        /\ heap' = [heap EXCEPT ![o] = req[t]]
        /\ cur' = [cur EXCEPT ![t] = n]
        /\ key' = [key EXCEPT ![n] = req[t]]
        /\ val' = [val EXCEPT ![n] = o]
  BY DEF Form
<1>2. /\ Goto(t, "form", "formed") /\ UNCHANGED <<tableVars, req, ret>>
      /\ Chained' = Chained
  BY DEF Form, tableVars, Chained
<1>3. /\ n \in Nodes /\ n \notin Chained
      /\ \A u \in Threads \ {t} : pc[u] \in Filling => cur[u] # n
      /\ \A m \in Chained : val[m] # o
      /\ \A u \in Threads : pc[u] \in Filling => val[cur[u]] # o
      /\ \A u \in Threads : pc[u] = "done" => ret[u] # o
  BY <1>1, <1>2, FormNew
<1>4. TypeOK /\ LocalsOK /\ ValuesOK /\ LiveEntries /\ Chained \subseteq Nodes
  BY DEF IInv, VInv, Chained, TypeOK, CacheType
<1>5. \A m \in Chained : key'[m] = key[m] /\ val'[m] = val[m] /\ heap'[val[m]] = heap[val[m]]
  BY <1>1, <1>3, <1>4 DEF TypeOK, CacheType, LiveEntries
<1>6. ValuesOK'
  <2> SUFFICES ASSUME NEW u \in Threads PROVE Values(u)'
    BY DEF ValuesOK
  <2>1. Values(u) /\ Locals(u)
    BY <1>4 DEF ValuesOK, LocalsOK
  <2>2. CASE u = t
    BY <1>1, <1>2, <1>3, <1>4, <2>2, <2>1 DEF Goto, TypeOK, CacheType, Values, Filling
  <2>3. CASE u # t
    <3>1. pc'[u] = pc[u] /\ req'[u] = req[u] /\ cur'[u] = cur[u] /\ ret'[u] = ret[u]
      BY <1>1, <1>2, <1>4, <2>3 DEF Goto, TypeOK
    <3>2. pc[u] \in Filling => val'[cur[u]] \in Objs /\ heap'[val'[cur[u]]] = req[u]
      BY <1>1, <1>3, <1>4, <2>1, <2>3 DEF TypeOK, CacheType, Values, Locals
    <3>3. pc[u] = "done" => heap'[ret[u]] = heap[ret[u]]
      BY <1>1, <1>3, <1>4, <2>1 DEF TypeOK, CacheType, Values
    <3> QED BY <1>2, <1>5, <2>1, <3>1, <3>2, <3>3 DEF Values
  <2> QED BY <2>2, <2>3
<1>7. LiveEntries'
  BY <1>2, <1>4, <1>5 DEF LiveEntries
<1>8. \A k \in Keys : Stored(k)' \subseteq Stored(k)
  BY <1>2, <1>5 DEF Stored
<1>9. \A k \in Keys : Pending(k)' \subseteq Pending(k)
  BY <1>2, <1>4 DEF Pending, Goto, TypeOK, Waiting
<1> QED BY <1>6, <1>7, <1>8, <1>9, FewerCopies DEF VInv

\* What publishing does to the set of entries.
LEMMA PublishAdds ==
  ASSUME IInv, NEW t \in Threads, PublishNode(t)
  PROVE  Chained' = Chained \cup {cur[t]} /\ cur[t] \notin Chained /\ cur[t] \in Nodes
<1> DEFINE n == cur[t]
<1>1. /\ CacheType /\ Placed /\ \A m \in Chained : key[m] \in Keys
      /\ n \in Nodes /\ key[n] = req[t] /\ req[t] \in Keys
      /\ bkt[t] = Bucket(key[n], size) /\ chain[t] = slots[bkt[t]]
      /\ pc[t] = "publish" /\ UNCHANGED key
  BY DEF IInv, PublishNode, Goto, TypeOK, Findable, Filled, LocalsOK, Locals, Filling, nodeVars
<1>2. Publish(bkt[t], slots[bkt[t]], n, key') /\ bkt[t] = Bucket(key'[n], size) /\ key'[n] \in Keys
  BY <1>1 DEF PublishNode
<1>3. Chained' = Chained \cup {n}
  BY <1>1, <1>2, PublishedTable
<1>4. n \notin Chained
  BY <1>1, NoneAssumption DEF IInv, OneOwner, Hand, NoneAssumption
<1> QED BY <1>1, <1>3, <1>4

\* Adding an entry turns a waiting thread into a copy.
LEMMA PublishValues ==
  ASSUME IInv, VInv, NEW t \in Threads, PublishNode(t)
  PROVE  VInv'
<1> DEFINE n == cur[t]
<1>1. TypeOK /\ Values(t) /\ Locals(t) /\ LiveEntries /\ ValuesOK
  BY DEF IInv, VInv, ValuesOK, LocalsOK
<1>2. /\ pc[t] = "publish" /\ pc' = [pc EXCEPT ![t] = "unlock2"]
      /\ UNCHANGED <<key, val, heap, req, cur, ret>>
      /\ key[n] = req[t] /\ req[t] \in Keys /\ val[n] \in Objs /\ heap[val[n]] = req[t]
  BY <1>1 DEF PublishNode, Goto, Locals, Values, Filling, nodeVars
<1>3. Chained' = Chained \cup {n} /\ n \notin Chained
  BY PublishAdds
<1>4. ValuesOK'
  <2>1. Values(t)'
    BY <1>1, <1>2, <1>3 DEF Values, Filling, TypeOK
  <2> QED BY <1>1, <1>2, <1>3, <2>1, OtherValues DEF TypeOK
<1>5. LiveEntries'
  BY <1>1, <1>2, <1>3 DEF LiveEntries
<1>6. CopiesBound'
  <2> SUFFICES ASSUME NEW k \in Keys
               PROVE  Cardinality(Stored(k)') + Cardinality(Pending(k)') <= Cardinality(Threads)
    BY DEF CopiesBound
  <2>1. /\ IsFiniteSet(Stored(k)) /\ IsFiniteSet(Pending(k))
        /\ Cardinality(Stored(k)) \in Nat /\ Cardinality(Pending(k)) \in Nat
        /\ Cardinality(Threads) \in Nat
    BY CopiesFinite
  <2>2. Cardinality(Stored(k)) + Cardinality(Pending(k)) <= Cardinality(Threads)
    BY DEF VInv, CopiesBound
  <2>3. CASE k = req[t]
    <3>1. Stored(k)' = Stored(k) \cup {n} /\ n \notin Stored(k)
      BY <1>2, <1>3, <2>3 DEF Stored
    <3>2. Pending(k)' = Pending(k) \ {t} /\ t \in Pending(k)
      BY <1>1, <1>2, <2>3 DEF Pending, Waiting, Filling, TypeOK
    <3>3. Cardinality(Stored(k) \cup {n}) = Cardinality(Stored(k)) + 1
      BY <2>1, <3>1, FS_AddElement
    <3>4. Cardinality(Pending(k) \ {t}) = Cardinality(Pending(k)) - 1
      BY <2>1, <3>2, FS_RemoveElement
    <3> QED BY <2>1, <2>2, <3>1, <3>2, <3>3, <3>4
  <2>4. CASE k # req[t]
    <3>1. Stored(k)' = Stored(k)
      BY <1>2, <1>3, <2>4 DEF Stored
    <3>2. Pending(k)' = Pending(k)
      BY <1>1, <1>2, <2>4 DEF Pending, Waiting, Filling, TypeOK
    <3> QED BY <2>2, <3>1, <3>2
  <2> QED BY <2>3, <2>4
<1> QED BY <1>4, <1>5, <1>6 DEF VInv

\* What a collection keeps: the entries that were used and their values, and the
\* values the threads hold.
LEMMA Survivors ==
  ASSUME IInv, VInv, GC
  PROVE  /\ Expunged \subseteq Chained /\ Chained' = Chained \ Expunged
         /\ \A t \in Threads : pc[t] \in SafePoints
         /\ UNCHANGED threadVars
         /\ \A n \in Chained' : key'[n] = key[n] /\ val'[n] = val[n] /\ heap'[val[n]] = heap[val[n]]
         /\ \A t \in Threads : pc[t] = "formed" =>
              val'[cur[t]] = val[cur[t]] /\ heap'[val[cur[t]]] = heap[val[cur[t]]]
         /\ \A t \in Threads : pc[t] = "done" => heap'[ret[t]] = heap[ret[t]]
<1> DEFINE E == Expunged
<1>1. /\ \A t \in Threads : pc[t] \in SafePoints
      /\ slots' = [i \in 0 .. size - 1 |-> slots[i] \ E]
      /\ heap' = [o \in Objs |-> IF o \in Marked \cup StackRoots THEN heap[o] ELSE None]
      /\ key' = [n \in Nodes |-> IF n \in E THEN None ELSE key[n]]
      /\ val' = [n \in Nodes |-> IF n \in E THEN None ELSE val[n]]
      /\ UNCHANGED <<size, threadVars>>
  BY DEF GC, Stopped, Collect
<1>2. /\ TypeOK /\ OneOwner /\ LocalsOK /\ ValuesOK /\ LiveEntries
      /\ IsFiniteSet(Chained) /\ Chained \subseteq Nodes
  BY FS_Subset DEF IInv, VInv, OneOwner, Chained, TypeOK, CacheType
<1>3. E \subseteq Chained /\ Chained' = Chained \ E
  <2>1. E \subseteq Chained
    BY DEF Expunged
  <2>2. Chained' = UNION {slots[i] \ E : i \in 0 .. size - 1}
    BY <1>1 DEF Chained
  <2> QED BY <2>1, <2>2 DEF Chained
<1>4. ASSUME NEW n \in Chained \ E
      PROVE  key'[n] = key[n] /\ val'[n] = val[n] /\ heap'[val[n]] = heap[val[n]]
  <2>1. n \in Nodes /\ val[n] \in Objs
    BY <1>2 DEF LiveEntries
  <2>2. cnt # 0
    BY <1>2, FS_EmptySet DEF IInv, Accounting
  <2>3. val[n] \in Marked
    BY <2>2 DEF Marked
  <2> QED BY <1>1, <2>1, <2>3
<1>5. ASSUME NEW t \in Threads, pc[t] = "formed"
      PROVE  val'[cur[t]] = val[cur[t]] /\ heap'[val[cur[t]]] = heap[val[cur[t]]]
  <2>1. cur[t] \in Nodes /\ cur[t] \notin Chained /\ val[cur[t]] \in Objs
    BY <1>2, <1>5, NoneAssumption DEF LocalsOK, Locals, ValuesOK, Values, Filling, OneOwner, Hand, NoneAssumption
  <2>2. val[cur[t]] \in StackRoots
    BY <1>5 DEF StackRoots
  <2> QED BY <1>1, <1>3, <2>1, <2>2
<1>6. ASSUME NEW t \in Threads, pc[t] = "done"
      PROVE  heap'[ret[t]] = heap[ret[t]]
  <2>1. ret[t] \in Objs /\ ret[t] \in StackRoots
    BY <1>2, <1>6 DEF ValuesOK, Values, StackRoots
  <2> QED BY <1>1, <2>1
<1> QED BY <1>1, <1>3, <1>4, <1>5, <1>6

LEMMA GCValues ==
  ASSUME IInv, VInv, GC
  PROVE  VInv'
<1>1. /\ Chained' \subseteq Chained
      /\ \A t \in Threads : pc[t] \in SafePoints
      /\ UNCHANGED threadVars
      /\ \A n \in Chained' : key'[n] = key[n] /\ val'[n] = val[n] /\ heap'[val[n]] = heap[val[n]]
      /\ \A t \in Threads : pc[t] = "formed" =>
           val'[cur[t]] = val[cur[t]] /\ heap'[val[cur[t]]] = heap[val[cur[t]]]
      /\ \A t \in Threads : pc[t] = "done" => heap'[ret[t]] = heap[ret[t]]
  BY Survivors
<1>2. ValuesOK'
  <2> SUFFICES ASSUME NEW t \in Threads PROVE Values(t)'
    BY DEF ValuesOK
  <2>1. Values(t) /\ pc[t] \in SafePoints
    BY <1>1 DEF VInv, ValuesOK
  <2>2. UNCHANGED <<pc, req, cur, ret>>
    BY <1>1 DEF threadVars
  <2> QED BY <1>1, <2>1, <2>2 DEF Values, SafePoints, Filling
<1>3. LiveEntries'
  BY <1>1 DEF VInv, LiveEntries
<1>4. \A k \in Keys : Stored(k)' \subseteq Stored(k) /\ Pending(k)' \subseteq Pending(k)
  BY <1>1 DEF Stored, Pending, threadVars
<1> QED BY <1>2, <1>3, <1>4, FewerCopies DEF VInv

-----------------------------------------------------------------------------
LEMMA InitVInv == Init => VInv
<1> SUFFICES ASSUME Init PROVE VInv
  OBVIOUS
<1>1. IInv /\ Chained = {}
  BY InitIInv DEF Init, CacheInit, Chained
<1>2. ValuesOK /\ LiveEntries
  BY <1>1 DEF Init, ValuesOK, Values, Filling, LiveEntries
<1>3. CopiesBound
  <2> SUFFICES ASSUME NEW k \in Keys
               PROVE  Cardinality(Stored(k)) + Cardinality(Pending(k)) <= Cardinality(Threads)
    BY DEF CopiesBound
  <2>1. Stored(k) = {} /\ Pending(k) = {}
    BY <1>1 DEF Init, Stored, Pending, Waiting, Filling
  <2>2. Cardinality(Threads) \in Nat
    BY <1>1, CopiesFinite
  <2> QED BY <2>1, <2>2, FS_EmptySet
<1> QED BY <1>2, <1>3 DEF VInv

LEMMA NextVInv == IInv /\ VInv /\ [Next]_vars => VInv'
<1> SUFFICES ASSUME IInv, VInv, [Next]_vars PROVE VInv'
  OBVIOUS
<1>1. ASSUME NEW t \in Threads, Enter(t) PROVE VInv'
  BY <1>1, EnterValues
<1>2. ASSUME NEW t \in Threads, Scan(t) PROVE VInv'
  BY <1>2, HitValues, MissValues, PassValues DEF Scan
<1>3. ASSUME NEW t \in Threads, Make(t) PROVE VInv'
  BY <1>3, FormValues, PassValues, PublishValues, UnlockValues DEF Make
<1>4. CASE GC
  BY <1>4, GCValues
<1>5. CASE UNCHANGED vars
  <2>1. Chained' = Chained /\ UNCHANGED <<pc, req, cur, ret, key, val, heap>>
    BY <1>5 DEF vars, cacheVars, tableVars, nodeVars, threadVars, Chained
  <2>2. ValuesOK' /\ LiveEntries'
    BY <2>1 DEF VInv, ValuesOK, Values, LiveEntries
  <2>3. \A k \in Keys : Stored(k)' \subseteq Stored(k) /\ Pending(k)' \subseteq Pending(k)
    BY <2>1 DEF Stored, Pending
  <2> QED BY <2>2, <2>3, FewerCopies DEF VInv
<1> QED BY <1>1, <1>2, <1>3, <1>4, <1>5 DEF Next

LEMMA ValuesInvariant == Spec => [](IInv /\ VInv)
<1>1. Spec => []IInv
  BY Invariance
<1>2. Init => VInv
  BY InitVInv
<1>3. IInv /\ VInv /\ [Next]_vars => VInv'
  BY NextVInv
<1> QED BY <1>1, <1>2, <1>3, PTL DEF Spec

\* Every copy of a text belongs to the thread that added it or is about to.
LEMMA BoundCopies ==
  ASSUME IInv, VInv
  PROVE  FewCopies
<1> SUFFICES ASSUME NEW k \in Keys PROVE Cardinality(Copies(k)) <= Cardinality(Threads)
  BY DEF FewCopies
<1>1. Copies(k) = Stored(k) \cup Pending(k)
  BY DEF Copies, Stored, Pending, Waiting, Filling
<1>2. /\ IsFiniteSet(Stored(k)) /\ IsFiniteSet(Pending(k))
      /\ Cardinality(Stored(k)) \in Nat /\ Cardinality(Pending(k)) \in Nat
      /\ Cardinality(Threads) \in Nat
  BY CopiesFinite
<1>3. /\ Cardinality(Stored(k) \cup Pending(k))
           = Cardinality(Stored(k)) + Cardinality(Pending(k)) - Cardinality(Stored(k) \cap Pending(k))
  BY <1>2, FS_Union
<1>4. Cardinality(Stored(k) \cap Pending(k)) \in Nat
  BY <1>2, FS_Intersection, FS_CardinalityType
<1>5. Cardinality(Stored(k)) + Cardinality(Pending(k)) <= Cardinality(Threads)
  BY DEF VInv, CopiesBound
<1> QED BY <1>1, <1>2, <1>3, <1>4, <1>5

\* For any number of threads, texts, entries and values: what the table holds is
\* alive, a call is answered with a live value of its text, and a text has at
\* most one entry for each thread.
THEOREM HandedRight == Spec => []Handed
<1>1. IInv /\ VInv => Handed
  <2> SUFFICES ASSUME IInv, VInv PROVE Handed
    OBVIOUS
  <2>1. TableAlive
    BY DEF TableAlive, VInv
  <2>2. RightAnswer
    BY NoneAssumption DEF RightAnswer, VInv, ValuesOK, Values, NoneAssumption
  <2> QED BY <2>1, <2>2, BoundCopies DEF Handed
<1> QED BY <1>1, ValuesInvariant, PTL

-----------------------------------------------------------------------------
(***************************************************************************)
(* The refinement of Interner, one lemma for each kind of step.             *)
(***************************************************************************)
PromiseVars == <<req, ret, Fresh, Held, heap>>

\* Fresh and Held, when the entries stay as they are.
LEMMA FreshKept ==
  ASSUME TypeOK, NEW t \in Threads,
         UNCHANGED <<tableVars, val>>,
         \A u \in Threads \ {t} : pc'[u] = pc[u] /\ cur'[u] = cur[u],
         Fresh'[t] = Fresh[t]
  PROVE  Fresh' = Fresh /\ Held' = Held
<1>1. Chained' = Chained
  BY DEF Chained, tableVars
<1>2. \A u \in Threads : Fresh'[u] = Fresh[u]
  BY DEF Fresh
<1> QED BY <1>1, <1>2 DEF Fresh, Held

\* The steps a caller cannot see: locking, trimming, the scan, the free list, the bucket.
LEMMA HiddenSteps ==
  ASSUME IInv, VInv, NEW t \in Threads,
         \/ Lock1(t) \/ TrimReuse(t) \/ TrimDone(t) \/ ScanHit(t) \/ UnlockHit(t) \/ ScanMiss(t)
         \/ Pop(t) \/ Unlock1(t) \/ Formed(t) \/ Lock2(t) \/ Link(t)
  PROVE  UNCHANGED PromiseVars
<1> USE DEF Goto, cacheVars, freeVars, nodeVars, PromiseVars
<1>1. TypeOK
  BY DEF IInv
<1>2. UNCHANGED <<req, ret, heap, tableVars, val>>
  BY DEF Lock1, TrimReuse, TrimDone, ScanHit, UnlockHit, ScanMiss, Pop, Unlock1, Formed, Lock2, Link, threadVars
<1>3. \A u \in Threads \ {t} : pc'[u] = pc[u] /\ cur'[u] = cur[u]
  BY <1>1 DEF Lock1, TrimReuse, TrimDone, ScanHit, UnlockHit, ScanMiss, Pop, Unlock1, Formed, Lock2, Link, threadVars, TypeOK
<1>4. Fresh'[t] = Fresh[t]
  BY <1>1, <1>2 DEF Lock1, TrimReuse, TrimDone, ScanHit, UnlockHit, ScanMiss, Pop, Unlock1, Formed, Lock2, Link, threadVars, TypeOK, Fresh
<1> QED BY <1>1, <1>2, <1>3, <1>4, FreshKept

LEMMA CallAsks ==
  ASSUME IInv, VInv, NEW t \in Threads, NEW k \in Keys, Call(t, k)
  PROVE  Promise!Ask(t, k)
<1> USE DEF Goto, cacheVars, nodeVars
<1>1. TypeOK /\ Values(t)
  BY DEF IInv, VInv, ValuesOK
<1>2. Fresh'[t] = Fresh[t]
  BY <1>1 DEF Call, Fresh, TypeOK
<1>3. Fresh' = Fresh /\ Held' = Held
  BY <1>1, <1>2, FreshKept DEF Call, TypeOK
<1>4. req[t] = None
  BY <1>1 DEF Call, Values
<1> QED BY <1>3, <1>4 DEF Call, Promise!Ask

LEMMA DoneReturns ==
  ASSUME IInv, VInv, NEW t \in Threads, Done(t)
  PROVE  Promise!Return(t)
<1> USE DEF Goto, cacheVars, nodeVars
<1>1. TypeOK /\ Values(t)
  BY DEF IInv, VInv, ValuesOK
<1>2. Fresh'[t] = Fresh[t]
  BY <1>1 DEF Done, Fresh, TypeOK
<1>3. Fresh' = Fresh /\ Held' = Held
  BY <1>1, <1>2, FreshKept DEF Done, TypeOK
<1>4. ret[t] # None
  BY <1>1, NoneAssumption DEF Done, Values, NoneAssumption
<1> QED BY <1>3, <1>4 DEF Done, Promise!Return

\* A form() that raises abandons the call.
LEMMA RaiseAbandons ==
  ASSUME IInv, VInv, NEW t \in Threads, FormRaises(t)
  PROVE  Promise!Raise(t)
<1>1. TypeOK /\ Values(t) /\ Locals(t)
  BY DEF IInv, VInv, ValuesOK, LocalsOK
<1>2. /\ pc[t] = "form" /\ pc' = [pc EXCEPT ![t] = "idle"]
      /\ req' = [req EXCEPT ![t] = None] /\ cur' = [cur EXCEPT ![t] = None]
      /\ UNCHANGED <<tableVars, val, heap, ret>>
  BY DEF FormRaises, Goto, nodeVars
<1>3. Fresh'[t] = Fresh[t] /\ Fresh[t] = None
  BY <1>1, <1>2 DEF Fresh, TypeOK
<1>4. Fresh' = Fresh /\ Held' = Held
  BY <1>1, <1>2, <1>3, FreshKept DEF TypeOK
<1>5. req[t] # None /\ ret[t] = None
  BY <1>1, <1>2, NoneAssumption DEF Values, Locals, NoneAssumption
<1> QED BY <1>2, <1>3, <1>4, <1>5 DEF Promise!Raise

\* What is read after the unlock is a value the table holds, of the text asked for.
LEMMA ReadAnswers ==
  ASSUME IInv, VInv, NEW t \in Threads, ReadVal(t)
  PROVE  \E o \in Objs : Promise!AnswerHeld(t, o)
<1> USE DEF Goto, cacheVars, nodeVars
<1> DEFINE o == val[cur[t]]
<1>1. TypeOK /\ Values(t) /\ Locals(t) /\ LiveEntries
  BY DEF IInv, VInv, ValuesOK, LocalsOK
<1>2. cur[t] \in Chained /\ Seen[key[cur[t]]] = Seen[req[t]]
  BY <1>1 DEF ReadVal, Values
<1>3. o \in Objs /\ o \in Held /\ Seen[heap[o]] = Seen[req[t]]
  BY <1>1, <1>2 DEF LiveEntries, Held
<1>4. Fresh'[t] = Fresh[t] /\ Fresh[t] = None
  BY <1>1 DEF ReadVal, Answer, Fresh, TypeOK
<1>5. Fresh' = Fresh /\ Held' = Held
  BY <1>1, <1>4, FreshKept DEF ReadVal, Answer, TypeOK
<1>6. req[t] # None /\ ret[t] = None
  BY <1>1, NoneAssumption DEF ReadVal, Values, Locals, NoneAssumption
<1>7. Promise!AnswerHeld(t, o)
  BY <1>3, <1>4, <1>5, <1>6 DEF ReadVal, Answer, Promise!AnswerHeld
<1> QED BY <1>3, <1>7

LEMMA FormMakes ==
  ASSUME IInv, VInv, NEW t \in Threads, Form(t)
  PROVE  \E o \in Objs : Promise!Make(t, o)
<1>1. PICK n \in NewNodes(t), o \in Objs :
        /\ heap[o] = None
        /\ heap' = [heap EXCEPT ![o] = req[t]]
        /\ cur' = [cur EXCEPT ![t] = n]
        /\ val' = [val EXCEPT ![n] = o]
  BY DEF Form
<1>2. /\ Goto(t, "form", "formed") /\ UNCHANGED <<tableVars, req, ret>> /\ Chained' = Chained
  BY DEF Form, tableVars, Chained
<1>3. /\ n \in Nodes /\ n \notin Chained
      /\ \A u \in Threads \ {t} : pc[u] \in Filling => cur[u] # n
  BY <1>1, <1>2, FormNew
<1>4. TypeOK /\ Chained \subseteq Nodes /\ LocalsOK /\ ValuesOK
  BY DEF IInv, VInv, Chained, TypeOK, CacheType
<1>5. Held' = Held
  <2>1. \A m \in Chained : val'[m] = val[m]
    BY <1>1, <1>3, <1>4 DEF TypeOK, CacheType
  <2> QED BY <1>2, <2>1 DEF Held
<1>6. Fresh' = [Fresh EXCEPT ![t] = o]
  <2>1. Fresh'[t] = o
    BY <1>1, <1>2, <1>3, <1>4 DEF Fresh, Goto, TypeOK, CacheType
  <2>2. ASSUME NEW u \in Threads \ {t} PROVE Fresh'[u] = Fresh[u]
    <3>1. pc'[u] = pc[u] /\ cur'[u] = cur[u]
      BY <1>1, <1>2, <1>4 DEF Goto, TypeOK
    <3>2. pc[u] \in Filling \cup {"unlock2"} => cur[u] \in Nodes /\ cur[u] # n
      BY <1>3, <1>4 DEF LocalsOK, Locals, ValuesOK, Values, Filling
    <3>3. pc[u] \in Filling \cup {"unlock2"} => val'[cur[u]] = val[cur[u]]
      BY <1>1, <1>4, <3>2 DEF TypeOK, CacheType
    <3> QED BY <3>1, <3>3 DEF Fresh, Filling
  <2> QED BY <2>1, <2>2 DEF Fresh
<1>7. req[t] # None /\ ret[t] = None /\ Fresh[t] = None
  BY <1>2, <1>4, NoneAssumption DEF Goto, LocalsOK, Locals, ValuesOK, Values, Fresh, NoneAssumption
<1>8. Promise!Make(t, o)
  BY <1>1, <1>2, <1>5, <1>6, <1>7 DEF Promise!Make
<1> QED BY <1>8

LEMMA PublishHolds ==
  ASSUME IInv, VInv, NEW t \in Threads, PublishNode(t)
  PROVE  Promise!Hold(t)
<1>1. TypeOK /\ Values(t) /\ Locals(t)
  BY DEF IInv, VInv, ValuesOK, LocalsOK
<1>2. /\ pc[t] = "publish" /\ pc' = [pc EXCEPT ![t] = "unlock2"]
      /\ UNCHANGED <<val, heap, req, cur, ret>>
  BY DEF PublishNode, Goto, nodeVars
<1>3. Chained' = Chained \cup {cur[t]}
  BY PublishAdds
<1>4. Fresh[t] = val[cur[t]] /\ Fresh[t] \in Objs
  BY <1>1, <1>2 DEF Fresh, Values, Filling
<1>5. Fresh' = Fresh
  <2>1. \A u \in Threads : Fresh'[u] = Fresh[u]
    BY <1>1, <1>2 DEF Fresh, TypeOK
  <2> QED BY <2>1 DEF Fresh
<1>6. Held' = Held \cup {Fresh[t]}
  BY <1>2, <1>3, <1>4 DEF Held
<1>7. Fresh[t] # None /\ ret[t] = None
  BY <1>1, <1>2, <1>4, NoneAssumption DEF Values, NoneAssumption
<1> QED BY <1>2, <1>5, <1>6, <1>7 DEF Promise!Hold

LEMMA UnlockAnswers ==
  ASSUME IInv, VInv, NEW t \in Threads, Unlock2(t)
  PROVE  Promise!AnswerFresh(t)
<1>1. TypeOK /\ Values(t) /\ LiveEntries
  BY DEF IInv, VInv, ValuesOK
<1>2. /\ pc[t] = "unlock2" /\ pc' = [pc EXCEPT ![t] = "done"]
      /\ ret' = [ret EXCEPT ![t] = val[cur[t]]] /\ cur' = [cur EXCEPT ![t] = None]
      /\ UNCHANGED <<tableVars, val, heap, req>>
  BY DEF Unlock2, Answer, Goto, cacheVars, nodeVars
<1>3. Fresh[t] = val[cur[t]] /\ Fresh[t] \in Held /\ heap[Fresh[t]] = req[t]
  BY <1>1, <1>2 DEF Fresh, Held, Values, LiveEntries
<1>4. Held' = Held
  BY <1>2 DEF Held, Chained, tableVars
<1>5. Fresh' = [Fresh EXCEPT ![t] = None]
  <2>1. \A u \in Threads : Fresh'[u] = IF u = t THEN None ELSE Fresh[u]
    BY <1>1, <1>2 DEF Fresh, TypeOK
  <2> QED BY <2>1 DEF Fresh
<1> QED BY <1>2, <1>3, <1>4, <1>5 DEF Promise!AnswerFresh

\* A collection forgets the entries it retires; what the table or a thread still
\* holds survives, and nothing else does.
LEMMA GCForgets ==
  ASSUME IInv, VInv, GC
  PROVE  Promise!Forget
<1>1. /\ Chained' = Chained \ Expunged
      /\ \A t \in Threads : pc[t] \in SafePoints
      /\ UNCHANGED threadVars
      /\ \A n \in Chained' : val'[n] = val[n]
      /\ \A t \in Threads : pc[t] = "formed" => val'[cur[t]] = val[cur[t]]
  BY Survivors
<1>2. Fresh' = Fresh /\ \A t \in Threads : Fresh[t] = IF pc[t] = "formed" THEN val[cur[t]] ELSE None
  <2>1. \A t \in Threads : Fresh[t] = IF pc[t] = "formed" THEN val[cur[t]] ELSE None
    BY <1>1 DEF Fresh, SafePoints
  <2>2. \A t \in Threads : Fresh'[t] = Fresh[t]
    BY <1>1 DEF Fresh, SafePoints, threadVars
  <2> QED BY <2>1, <2>2 DEF Fresh
<1>3. Held' = {val[n] : n \in Chained \ Expunged} /\ Held' \subseteq Held
  BY <1>1 DEF Held
<1>4. Marked = Held'
  <2>1. CASE cnt = 0
    <3>1. Chained = {}
      BY <2>1, FS_EmptySet, FS_Subset DEF IInv, Accounting, OneOwner
    <3> QED BY <2>1, <3>1, <1>3 DEF Marked
  <2>2. CASE cnt # 0
    BY <2>2, <1>3 DEF Marked
  <2> QED BY <2>1, <2>2
<1>5. \A o \in Objs : o \in StackRoots <=> \E t \in Threads : o \in {ret[t], Fresh[t]}
  <2> SUFFICES ASSUME NEW o \in Objs
               PROVE  o \in StackRoots <=> \E t \in Threads : o \in {ret[t], Fresh[t]}
    OBVIOUS
  <2>1. ASSUME o \in StackRoots PROVE \E t \in Threads : o \in {ret[t], Fresh[t]}
    BY <1>2, <2>1 DEF StackRoots
  <2>2. ASSUME NEW t \in Threads, o \in {ret[t], Fresh[t]} PROVE o \in StackRoots
    BY <1>2, <2>2, NoneAssumption DEF StackRoots, NoneAssumption
  <2> QED BY <2>1, <2>2
<1>6. heap' = [o \in Objs |-> IF o \in Held' \/ \E t \in Threads : o \in {ret[t], Fresh[t]}
                               THEN heap[o] ELSE None]
  BY <1>4, <1>5 DEF GC, Collect
<1> QED BY <1>1, <1>2, <1>3, <1>6 DEF Promise!Forget, threadVars

\* Every step of the cache is a step of Interner, or one a caller cannot see.
LEMMA StepKeepsPromise ==
  ASSUME IInv, VInv, [Next]_vars
  PROVE  [Promise!Next]_(Promise!vars)
<1>1. ASSUME NEW t \in Threads, Enter(t) \/ Scan(t) \/ Make(t)
      PROVE  [Promise!Next]_(Promise!vars)
  <2> USE DEF Promise!Next, Promise!vars
  <2>1. CASE \/ Lock1(t) \/ TrimReuse(t) \/ TrimDone(t) \/ ScanHit(t) \/ UnlockHit(t) \/ ScanMiss(t)
             \/ Pop(t) \/ Unlock1(t) \/ Formed(t) \/ Lock2(t) \/ Link(t)
    BY <2>1, HiddenSteps DEF PromiseVars
  <2>2. CASE \E k \in Keys : Call(t, k)
    BY <2>2, CallAsks
  <2>3. CASE ReadVal(t)
    BY <2>3, ReadAnswers
  <2>4. CASE Done(t)
    BY <2>4, DoneReturns
  <2>5. CASE Form(t)
    BY <2>5, FormMakes
  <2>6. CASE FormRaises(t)
    BY <2>6, RaiseAbandons
  <2>7. CASE PublishNode(t)
    BY <2>7, PublishHolds
  <2>8. CASE Unlock2(t)
    BY <2>8, UnlockAnswers
  <2> QED BY <1>1, <2>1, <2>2, <2>3, <2>4, <2>5, <2>6, <2>7, <2>8 DEF Enter, Scan, Make
<1>2. CASE GC
  BY <1>2, GCForgets DEF Promise!Next
<1>3. CASE UNCHANGED vars
  BY <1>3 DEF vars, cacheVars, tableVars, nodeVars, threadVars, Promise!vars, Fresh, Held, Chained
<1> QED BY <1>1, <1>2, <1>3 DEF Next

\* The cache with its table, lock, free list and collections implements Interner,
\* for any number of threads and any interleaving of their steps.
THEOREM Implements == Spec => KeepsPromise
<1>1. Init => Promise!Init
  <2> SUFFICES ASSUME Init PROVE Promise!Init
    OBVIOUS
  <2>1. Held = {}
    BY DEF Init, CacheInit, Held, Chained
  <2>2. Fresh = [t \in Threads |-> None]
    BY DEF Init, Fresh
  <2> QED BY <2>1, <2>2 DEF Init, CacheInit, Promise!Init
<1>2. IInv /\ VInv /\ [Next]_vars => [Promise!Next]_(Promise!vars)
  BY StepKeepsPromise
<1> QED BY <1>1, <1>2, ValuesInvariant, PTL DEF Spec, KeepsPromise, Promise!Spec
=============================================================================
