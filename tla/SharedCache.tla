------------------------------ MODULE SharedCache ------------------------------
(***************************************************************************)
(* A cache used by several threads: locking_intern of cache.c, as the str  *)
(* and sym caches of intern.c use it.  Ractors run it in parallel          *)
(* (rb_ext_ractor_safe), so a thread may be interrupted between any two of *)
(* the steps below.  The value is formed with the lock released.  A        *)
(* collection stops the world, and a thread can be stopped only outside    *)
(* the intern call or while it forms a value.                               *)
(***************************************************************************)
EXTENDS CacheCore

CONSTANTS
  Threads,
  Broken    \* the texts form() raises on, such as invalid UTF-8 given to form_sym

ASSUME ThreadsAssumption == None \notin Threads /\ IsFiniteSet(Threads)

VARIABLES
  lock,    \* the owner of c->mutex, None when free
  pc,      \* where each thread is in locking_intern
  req,     \* its argument key
  cur,     \* its local b
  osize,   \* its local old_size
  bkt,     \* its local bucket, as an index
  chain,   \* the chain it read from *bucket before linking
  ret,     \* the value it returns
  lost     \* history: the nodes a raising form() left in nobody's hands

threadVars == <<pc, req, cur, osize, bkt, chain, ret>>
vars == <<cacheVars, lock, threadVars, lost>>

Locked == {"trim", "scan", "pop", "unlock1", "unlockhit", "link", "publish", "unlock2"}
\* where a thread is when a collection may start: in Ruby code, or in form()
SafePoints == {"idle", "form", "formed", "done"}
Pcs == Locked \cup SafePoints \cup {"lock1", "lock2", "read"}

TypeOK ==
  /\ CacheType
  /\ lock \in Threads \cup {None}
  /\ pc \in [Threads -> Pcs]
  /\ req \in [Threads -> Keys \cup {None}]
  /\ cur \in [Threads -> Nodes \cup {None}]
  /\ osize \in [Threads -> Nat]
  /\ bkt \in [Threads -> Nat]
  /\ chain \in [Threads -> SUBSET Nodes]
  /\ ret \in [Threads -> Objs \cup {None}]
  /\ lost \in SUBSET Nodes

Init ==
  /\ CacheInit
  /\ lock = None
  /\ pc = [t \in Threads |-> "idle"]
  /\ req = [t \in Threads |-> None]
  /\ cur = [t \in Threads |-> None]
  /\ osize = [t \in Threads |-> 0]
  /\ bkt = [t \in Threads |-> 0]
  /\ chain = [t \in Threads |-> {}]
  /\ ret = [t \in Threads |-> None]
  /\ lost = {}

-----------------------------------------------------------------------------
Goto(t, from, to) == pc[t] = from /\ pc' = [pc EXCEPT ![t] = to]

\* CACHE_LOCK, CACHE_UNLOCK
AcquireUnchecked(t) == lock' = t
Acquire(t) == lock = None /\ lock' = t
Release(t) == lock' = None

Call(t, k) ==
  /\ Goto(t, "idle", "lock1")
  /\ req' = [req EXCEPT ![t] = k]
  /\ UNCHANGED <<lost, cacheVars, lock, cur, osize, bkt, chain, ret>>

Lock1(t) ==
  /\ Goto(t, "lock1", "trim")
  /\ Acquire(t)
  /\ UNCHANGED <<lost, cacheVars, req, cur, osize, bkt, chain, ret>>

TrimReuse(t) ==
  /\ pc[t] = "trim" /\ ReuseMax < rcnt
  /\ Trim
  /\ UNCHANGED <<lost, tableVars, nodeVars, heap, lock, threadVars>>

TrimDone(t) ==
  /\ ReuseMax >= rcnt
  /\ Goto(t, "trim", "scan")
  /\ UNCHANGED <<lost, cacheVars, lock, req, cur, osize, bkt, chain, ret>>

\* the first matching entry of the chain: b->use_cnt += 4
ScanHit(t) ==
  /\ Goto(t, "scan", "unlockhit")
  /\ \E n \in Hits(req[t]) :
       /\ Hit(n)
       /\ cur' = [cur EXCEPT ![t] = n]
  /\ UNCHANGED <<lost, tableVars, freeVars, key, val, heap, lock, req, osize, bkt, chain, ret>>

\* no entry: remember bucket and old_size, read the head of the free list
ScanMiss(t) ==
  /\ Goto(t, "scan", "pop")
  /\ Hits(req[t]) = {}
  /\ \E n \in FreeHeads : cur' = [cur EXCEPT ![t] = n]
  /\ osize' = [osize EXCEPT ![t] = size]
  /\ bkt' = [bkt EXCEPT ![t] = Bucket(req[t], size)]
  /\ UNCHANGED <<lost, cacheVars, lock, req, chain, ret>>

\* c->reuse = b->next; c->rcnt--
PopReuseUncounted(t) ==
  /\ reuse' = reuse \ {cur[t]}
  /\ rcnt' = rcnt

PopReuse(t) ==
  /\ reuse' = reuse \ {cur[t]}
  /\ rcnt' = IF cur[t] = None THEN rcnt ELSE rcnt - 1

Pop(t) ==
  /\ Goto(t, "pop", "unlock1")
  /\ PopReuse(t)
  /\ UNCHANGED <<lost, tableVars, mem, nodeVars, heap, lock, req, cur, osize, bkt, chain, ret>>

Unlock1(t) ==
  /\ Goto(t, "unlock1", "form")
  /\ Release(t)
  /\ UNCHANGED <<lost, cacheVars, req, cur, osize, bkt, chain, ret>>

\* OJ_CALLOC unless a retired entry was taken, c->form(), then b's fields
NewNodes(t) == IF cur[t] = None THEN Nodes \ mem ELSE {cur[t]}

Form(t) ==
  /\ Goto(t, "form", "formed")
  /\ req[t] \notin Broken
  /\ \E n \in NewNodes(t), o \in Objs :
       /\ heap[o] = None
       /\ heap' = [heap EXCEPT ![o] = req[t]]
       /\ mem' = mem \cup {n}
       /\ cur' = [cur EXCEPT ![t] = n]
       /\ key' = [key EXCEPT ![n] = req[t]]
       /\ val' = [val EXCEPT ![n] = o]
       /\ use' = [use EXCEPT ![n] = InitUse]
  /\ UNCHANGED <<lost, tableVars, reuse, rcnt, lock, req, osize, bkt, chain, ret>>

\* form() raises: longjmp out of locking_intern, the node in b is not given back
FormRaises(t) ==
  /\ Goto(t, "form", "idle")
  /\ req[t] \in Broken
  /\ \E n \in NewNodes(t) :
       /\ mem' = mem \cup {n}
       /\ lost' = lost \cup {n}
  /\ req' = [req EXCEPT ![t] = None]
  /\ cur' = [cur EXCEPT ![t] = None]
  /\ osize' = [osize EXCEPT ![t] = 0]
  /\ bkt' = [bkt EXCEPT ![t] = 0]
  /\ UNCHANGED <<tableVars, reuse, rcnt, nodeVars, heap, lock, chain, ret>>

Formed(t) ==
  /\ Goto(t, "formed", "lock2")
  /\ UNCHANGED <<lost, cacheVars, lock, req, cur, osize, bkt, chain, ret>>

Lock2(t) ==
  /\ Goto(t, "lock2", "link")
  /\ Acquire(t)
  /\ UNCHANGED <<lost, cacheVars, req, cur, osize, bkt, chain, ret>>

\* the bucket to link into: computed again if the table was resized meanwhile
LinkBucketStale(t) == bkt[t]
LinkBucket(t) == IF osize[t] # size THEN Bucket(req[t], size) ELSE bkt[t]

\* b->next = *bucket
Link(t) ==
  /\ Goto(t, "link", "publish")
  /\ bkt' = [bkt EXCEPT ![t] = LinkBucket(t)]
  /\ chain' = [chain EXCEPT ![t] = slots[LinkBucket(t)]]
  /\ UNCHANGED <<lost, cacheVars, lock, req, cur, osize, ret>>

\* *bucket = b; c->cnt++; rehash
PublishNode(t) ==
  /\ Goto(t, "publish", "unlock2")
  /\ Publish(bkt[t], chain[t], cur[t], key)
  /\ UNCHANGED <<lost, freeVars, nodeVars, heap, lock, req, cur, osize, bkt, chain, ret>>

\* the locals are dead after the return
Answer(t, v) ==
  /\ ret' = [ret EXCEPT ![t] = v]
  /\ cur' = [cur EXCEPT ![t] = None]
  /\ osize' = [osize EXCEPT ![t] = 0]
  /\ bkt' = [bkt EXCEPT ![t] = 0]
  /\ chain' = [chain EXCEPT ![t] = {}]

\* return rkey
Unlock2(t) ==
  /\ Goto(t, "unlock2", "done")
  /\ Release(t)
  /\ Answer(t, val[cur[t]])
  /\ UNCHANGED <<lost, cacheVars, req>>

UnlockHitForgotten(t) ==
  /\ Goto(t, "unlockhit", "read")
  /\ UNCHANGED <<lost, cacheVars, lock, req, cur, osize, bkt, chain, ret>>

UnlockHit(t) ==
  /\ Goto(t, "unlockhit", "read")
  /\ Release(t)
  /\ UNCHANGED <<lost, cacheVars, req, cur, osize, bkt, chain, ret>>

\* return b->val, read after the lock is gone
ReadVal(t) ==
  /\ Goto(t, "read", "done")
  /\ Answer(t, val[cur[t]])
  /\ UNCHANGED <<lost, cacheVars, lock, req>>

\* the caller drops the value
Done(t) ==
  /\ Goto(t, "done", "idle")
  /\ ret' = [ret EXCEPT ![t] = None]
  /\ req' = [req EXCEPT ![t] = None]
  /\ UNCHANGED <<lost, cacheVars, lock, cur, osize, bkt, chain>>

\* values the collector finds on a thread's stack: rkey and what was returned
StackRootsReturned == {ret[t] : t \in Threads}
StackRoots == {ret[t] : t \in Threads} \cup {val[cur[t]] : t \in {u \in Threads : pc[u] = "formed"}}

\* where the world can be stopped
Stopped == \A t \in Threads : pc[t] \in SafePoints

\* the rate of the shared caches stays at what cache_create sets
Rate == 1

GC ==
  /\ Stopped
  /\ Collect(Rate, StackRoots)
  /\ UNCHANGED <<lock, threadVars, lost>>

Enter(t) == (\E k \in Keys : Call(t, k)) \/ Lock1(t) \/ TrimReuse(t) \/ TrimDone(t)
Scan(t) == ScanHit(t) \/ UnlockHit(t) \/ ReadVal(t) \/ Done(t) \/ ScanMiss(t) \/ Pop(t) \/ Unlock1(t)
Make(t) == Form(t) \/ FormRaises(t) \/ Formed(t) \/ Lock2(t) \/ Link(t) \/ PublishNode(t) \/ Unlock2(t)

Next == (\E t \in Threads : Enter(t) \/ Scan(t) \/ Make(t)) \/ GC

Spec == Init /\ [][Next]_vars

\* A thread inside the critical section is running C code and keeps running.
InLock(t) ==
  \/ TrimReuse(t) \/ TrimDone(t) \/ ScanHit(t) \/ UnlockHit(t) \/ ScanMiss(t)
  \/ Pop(t) \/ Unlock1(t) \/ Link(t) \/ PublishNode(t) \/ Unlock2(t)
FairSpec == Spec /\ \A t \in Threads : WF_vars(InLock(t))

-----------------------------------------------------------------------------
\* the entry a thread has taken or allocated and not yet linked
Hand(t) ==
  IF pc[t] \in {"unlock1", "form", "formed", "lock2", "link", "publish"}
    THEN {cur[t]} \ {None} ELSE {}

\* Mutual exclusion of c->mutex: whoever is between CACHE_LOCK and CACHE_UNLOCK
\* owns it, and nobody owns it otherwise.
MutualExclusion == \A t \in Threads : pc[t] \in Locked <=> lock = t

\* Every entry calloc handed out is in exactly one place: on one chain, on the
\* free list, in the hands of one thread or lost to a form() that raised.  No interleaving of two misses, a
\* trim and a collection loses another, links one twice or frees one still linked.
OneOwner ==
  /\ \A i, j \in 0 .. size - 1 : i # j => slots[i] \cap slots[j] = {}
  /\ Chained \cap reuse = {}
  /\ \A t \in Threads : Hand(t) \cap (Chained \cup reuse) = {}
  /\ \A t, u \in Threads : t # u => Hand(t) \cap Hand(u) = {}
  /\ \A t \in Threads : lost \cap (Chained \cup reuse \cup Hand(t)) = {}
  /\ mem = Chained \cup reuse \cup lost \cup UNION {Hand(t) : t \in Threads}

\* The two counters agree with the lists they count, so "An accounting error
\* occured somewhere so correct it" (cache.c:185) is never reached and the
\* test for a rehash sees the true load.
Accounting == cnt = Cardinality(Chained) /\ rcnt = Cardinality(reuse)

\* The state is of its type, no counter negative, and the counters are right.
Bookkeeping == TypeOK /\ Accounting

\* An entry stays on the chain its hash selects although the table can be
\* resized while a thread holds an index computed for the old size.
Findable == Placed

\* What is in the table can be handed out: its value has survived every
\* collection although it was reachable only through a thread's stack while
\* the entry was not yet linked.
TableAlive == LiveEntries

\* A call is answered with a live value of the text it asked for, as far as
\* strncmp can tell, also when the entry is read after the lock was released.
RightAnswer ==
  \A t \in Threads : pc[t] = "done" =>
    heap[ret[t]] # None /\ Seen[heap[ret[t]]] = Seen[req[t]]

\* Dropping the lock around form() lets several threads add the same text, but
\* never more entries than there are threads.
Copies(k) ==
  {n \in Chained : key[n] = k} \cup
  {t \in Threads : req[t] = k /\ pc[t] \in {"pop", "unlock1", "form", "formed", "lock2", "link", "publish"}}
FewCopies == \A k \in Keys : Cardinality(Copies(k)) <= Cardinality(Threads)

\* What the table holds and gives out.
Handed == TableAlive /\ RightAnswer /\ FewCopies

\* The lock is always given back: no loop under it is endless.
LockReleased == \A t \in Threads : lock = t ~> lock # t

-----------------------------------------------------------------------------
\* the value a thread has made and not yet returned, and what the table holds
Fresh ==
  [t \in Threads |->
     IF pc[t] \in {"formed", "lock2", "link", "publish", "unlock2"} THEN val[cur[t]] ELSE None]
Held == {val[n] : n \in Chained}

\* The cache keeps the promise of Interner.
Promise == INSTANCE Interner WITH
  asked <- req, given <- ret, fresh <- Fresh, held <- Held, text <- heap

KeepsPromise == Promise!Spec
=============================================================================
