------------------------------ MODULE ParserCache ------------------------------
(***************************************************************************)
(* A cache owned by one parser: lockless_intern of cache.c, the expunge    *)
(* rate the parser's cache_expunge option sets, and cache_free when the    *)
(* parser drops the cache.  One thread uses it, but a collection may run   *)
(* inside form(), between the scan that missed and the insertion, and      *)
(* between calls.  The values the parser was given and still works with,   *)
(* which its own mark function or the scan of the C stack finds, are held.  *)
(***************************************************************************)
EXTENDS CacheCore

CONSTANTS
  Long,       \* the texts of CACHE_MAX_KEY bytes or more
  MaxCalls,   \* bound: how many lookups are made
  MaxSets     \* bound: how often a cache in use gets another rate or is replaced

ASSUME BoundsAssumption == MaxCalls \in Nat /\ MaxSets \in Nat

VARIABLES
  rate,    \* c->xrate
  req,     \* the text being formed, None outside the call
  bkt,     \* the local bucket, as an index
  stack,   \* the <<text asked for, value given>> pairs the parser holds
  leaked,  \* history: the nodes cache_free left allocated
  calls,   \* lookups so far
  sets     \* changes of the rate and of the cache so far

countVars == <<calls, sets>>
callVars == <<req, bkt>>
vars == <<cacheVars, rate, callVars, stack, leaked, countVars>>

Rates == 0 .. 3

TypeOK ==
  /\ CacheType
  /\ rate \in Rates
  /\ req \in Keys \cup {None}
  /\ bkt \in Nat
  /\ stack \in SUBSET (Keys \X Objs)
  /\ leaked \in SUBSET Nodes
  /\ calls \in 0 .. MaxCalls
  /\ sets \in 0 .. MaxSets

\* cache_create sets rate 1, the options may change it before the first lookup
Init ==
  /\ CacheInit
  /\ rate \in Rates
  /\ req = None
  /\ bkt = 0
  /\ stack = {}
  /\ leaked = {}
  /\ calls = 0
  /\ sets = 0

-----------------------------------------------------------------------------
Idle == req = None

CanCall == Idle /\ calls < MaxCalls

\* form() and nothing else
Form(k) ==
  /\ CanCall
  /\ \E o \in Objs :
       /\ heap[o] = None
       /\ heap' = [heap EXCEPT ![o] = k]
       /\ stack' = stack \cup {<<k, o>>}
  /\ calls' = calls + 1
  /\ UNCHANGED <<tableVars, freeVars, nodeVars, rate, callVars, leaked, sets>>

\* cache_intern of a long text
FormLong(k) == k \in Long /\ Form(k)

\* the trim loop, one turn at a time, before the scan
TrimReuse ==
  /\ CanCall /\ ReuseMax < rcnt
  /\ Trim
  /\ UNCHANGED <<tableVars, nodeVars, heap, rate, callVars, stack, leaked, countVars>>

\* b->use_cnt += 16; return b->val
LookupHit(k) ==
  /\ CanCall /\ ReuseMax >= rcnt /\ k \notin Long
  /\ \E n \in Hits(k) :
       /\ Hit(n)
       /\ stack' = stack \cup {<<k, val[n]>>}
  /\ calls' = calls + 1
  /\ UNCHANGED <<tableVars, freeVars, key, val, heap, rate, callVars, leaked, sets>>

\* the scan found nothing: c->form() is called with the bucket in a local
LookupMiss(k) ==
  /\ CanCall /\ ReuseMax >= rcnt /\ k \notin Long
  /\ Hits(k) = {}
  /\ req' = k
  /\ bkt' = Bucket(k, size)
  /\ calls' = calls + 1
  /\ UNCHANGED <<cacheVars, rate, stack, leaked, sets>>

\* only when form() has returned is the free list looked at; Variant: it is left as it was
TakenUnpopped(n) ==
  /\ reuse' = reuse
  /\ rcnt' = rcnt
Taken(n) ==
  /\ reuse' = reuse \ {n}
  /\ rcnt' = IF reuse = {} THEN rcnt ELSE rcnt - 1

NewNodes == IF reuse = {} THEN Nodes \ mem ELSE reuse

Insert ==
  /\ ~Idle
  /\ \E n \in NewNodes, o \in Objs :
       /\ heap[o] = None
       /\ heap' = [heap EXCEPT ![o] = req]
       /\ Taken(n)
       /\ mem' = mem \cup {n}
       /\ key' = [key EXCEPT ![n] = req]
       /\ val' = [val EXCEPT ![n] = o]
       /\ use' = [use EXCEPT ![n] = InitUse]
       /\ Publish(bkt, slots[bkt], n, [key EXCEPT ![n] = req])
       /\ stack' = stack \cup {<<req, o>>}
  /\ req' = None
  /\ bkt' = 0
  /\ UNCHANGED <<rate, leaked, countVars>>

\* the document is done and the parser's stack emptied
DocDone ==
  /\ Idle /\ stack # {}
  /\ stack' = {}
  /\ UNCHANGED <<cacheVars, rate, callVars, leaked, countVars>>

\* Bound: a cache in use is replaced, and its rate changed, MaxSets times.
Counted == IF mem = {} THEN sets' = sets ELSE sets < MaxSets /\ sets' = sets + 1

\* opt_cache_expunge_set, a value already clamped to 0 .. 3
SetRate(r) ==
  /\ Idle /\ r # rate
  /\ rate' = r
  /\ Counted
  /\ UNCHANGED <<cacheVars, callVars, stack, leaked, calls>>

\* cache_create
Fresh ==
  /\ size' = InitSize
  /\ slots' = [i \in 0 .. InitSize - 1 |-> {}]
  /\ cnt' = 0
  /\ reuse' = {}
  /\ rcnt' = 0

\* cache_free of this cache and cache_create of its successor: every chain is
\* freed, the free list is not
FreeCache ==
  /\ Idle
  /\ mem' = mem \ Chained
  /\ leaked' = leaked \cup reuse
  /\ Fresh
  /\ Counted
  /\ UNCHANGED <<nodeVars, heap, rate, callVars, stack, calls>>

\* cache_create without cache_free: nobody has a pointer to the old cache
LoseCache ==
  /\ Idle
  /\ leaked' = leaked \cup Chained \cup reuse
  /\ Fresh
  /\ Counted
  /\ UNCHANGED <<mem, nodeVars, heap, rate, callVars, stack, calls>>

\* A collection; roots are the values found elsewhere than in the table.
CollectWith(roots) ==
  /\ Collect(rate, roots)
  /\ UNCHANGED <<rate, callVars, stack, leaked, countVars>>

Held == {e[2] : e \in stack}
GC == CollectWith(Held)

\* What the cache does in a call and between calls; when a call is made, and when the
\* cache goes, is up to its owner.
Lookup(k) == FormLong(k) \/ LookupHit(k) \/ LookupMiss(k)
Upkeep == TrimReuse \/ DocDone \/ GC \/ \E r \in Rates : SetRate(r)

-----------------------------------------------------------------------------
\* The counters agree with the lists although the free list is looked at only
\* after form(), inside which a collection may have changed it.
Accounting == cnt = Cardinality(Chained) /\ rcnt = Cardinality(reuse)

\* A node is on one chain or on the free list, or was left behind by cache_free.
OneOwner ==
  /\ \A i, j \in 0 .. size - 1 : i # j => slots[i] \cap slots[j] = {}
  /\ Chained \cap reuse = {}
  /\ leaked \cap (Chained \cup reuse) = {}
  /\ mem = Chained \cup reuse \cup leaked

\* Without a second thread a text has one entry at most: the one being formed is
\* in no chain, although collections run meanwhile.
OneEntry ==
  /\ \A n, m \in Chained : key[n] = key[m] => n = m
  /\ \A n \in Chained : key[n] # req

\* The cache holds each text once, counted, on the chain its hash selects, and each
\* node in one place.
Consistent == TypeOK /\ Accounting /\ OneOwner /\ OneEntry /\ Placed

\* What the parser holds is alive and has the text it asked for, as far as strncmp
\* can tell, and so has every entry a later lookup can return.
RightValues ==
  /\ LiveEntries
  /\ \A e \in stack : heap[e[2]] # None /\ Seen[heap[e[2]]] = Seen[e[1]]

=============================================================================
