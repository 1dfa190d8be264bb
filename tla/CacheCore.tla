------------------------------ MODULE CacheCore ------------------------------
(***************************************************************************)
(* The data structure of ext/oj_windows/cache.c: a chained hash table of   *)
(* interned values with a free list of retired entries, and the part of    *)
(* the Ruby heap the values live in.  SharedCache and ParserCache add the   *)
(* two intern functions.                                                    *)
(*                                                                         *)
(* Abstractions: the order of the entries of a chain and of the free list  *)
(* is dropped (a chain is a set, any entry of the free list may be its     *)
(* head); a text is a member of Keys; hash_calc is an arbitrary function;  *)
(* the key and val of a retired entry, which the code leaves in place and  *)
(* never reads again, are None.                                             *)
(***************************************************************************)
EXTENDS Integers, FiniteSets

CONSTANTS
  Keys,         \* the texts that get interned
  Nodes,        \* identities of struct _slot blocks
  Objs,         \* identities of Ruby values
  None,         \* NULL, or "no value"
  Hash,         \* hash_calc
  Seen,         \* what klen and strncmp see of a text: it up to its first NUL, and its length
  InitSize,     \* buckets at creation, 1 << shift
  RehashLimit,  \* REHASH_LIMIT
  ReuseMax,     \* REUSE_MAX
  UseMod,       \* 2^32 of the code: use_cnt is a uint32_t
  InitUse,      \* use_cnt of a new entry
  HitUse        \* what a hit adds to use_cnt

ASSUME SizesAssumption ==
  /\ Hash \in [Keys -> Nat]
  /\ DOMAIN Seen = Keys
  /\ InitSize \in Nat \ {0}
  /\ RehashLimit \in Nat
  /\ ReuseMax \in Nat
  /\ UseMod \in Nat \ {0}
  /\ InitUse \in 0 .. UseMod - 1
  /\ HitUse \in 0 .. UseMod - 1

ASSUME NoneAssumption == None \notin Nodes /\ None \notin Objs /\ None \notin Keys

VARIABLES
  size,    \* c->size
  slots,   \* c->slots: bucket index -> set of the nodes chained there
  cnt,     \* c->cnt
  reuse,   \* the nodes on the free list c->reuse
  rcnt,    \* c->rcnt
  mem,     \* the nodes calloc has handed out and free has not taken back
  key,     \* s->key of each node
  val,     \* s->val of each node
  use,     \* s->use_cnt of each node
  heap     \* the text of each live Ruby value, None for a dead one

tableVars == <<size, slots, cnt>>
freeVars == <<reuse, rcnt, mem>>
nodeVars == <<key, val, use>>
cacheVars == <<tableVars, freeVars, nodeVars, heap>>

CacheType ==
  /\ size \in Nat \ {0}
  /\ slots \in [0 .. size - 1 -> SUBSET Nodes]
  /\ cnt \in Nat
  /\ reuse \in SUBSET Nodes
  /\ rcnt \in Nat
  /\ mem \in SUBSET Nodes
  /\ key \in [Nodes -> Keys \cup {None}]
  /\ val \in [Nodes -> Objs \cup {None}]
  /\ use \in [Nodes -> 0 .. UseMod - 1]
  /\ heap \in [Objs -> Keys \cup {None}]

\* cache_create
CacheInit ==
  /\ size = InitSize
  /\ slots = [i \in 0 .. InitSize - 1 |-> {}]
  /\ cnt = 0
  /\ reuse = {}
  /\ rcnt = 0
  /\ mem = {}
  /\ key = [n \in Nodes |-> None]
  /\ val = [n \in Nodes |-> None]
  /\ use = [n \in Nodes |-> 0]
  /\ heap = [o \in Objs |-> None]

-----------------------------------------------------------------------------
\* h & c->mask for a table of n buckets
Bucket(k, n) == Hash[k] % n

\* every node on a chain of the table
Chained == UNION {slots[i] : i \in 0 .. size - 1}

HitsByBucket(k) == slots[Bucket(k, size)]

\* the entries the scan of k's chain would stop at
Hits(k) == {n \in slots[Bucket(k, size)] : Seen[key[n]] = Seen[k]}

\* c->reuse as an expression: some node of the free list, or NULL
FreeHeads == IF reuse = {} THEN {None} ELSE reuse

Pushed(tbl, b, chain, n) == [tbl EXCEPT ![b] = chain \cup {n}]

Crowded(c, sz) == RehashLimit < c \div sz

\* the chains of a table of 4 * sz buckets, ks being the texts of the entries
Rehashed(tbl, sz, ks) ==
  [i \in 0 .. 4 * sz - 1 |->
     {n \in UNION {tbl[j] : j \in 0 .. sz - 1} : Bucket(ks[n], 4 * sz) = i}]

\* the entry n is pushed on bucket b, whose chain was read as chain, counted, and
\* the table quadrupled when it is full
Publish(b, chain, n, ks) ==
  LET tbl == Pushed(slots, b, chain, n) IN
  /\ cnt' = cnt + 1
  /\ IF Crowded(cnt + 1, size)
       THEN /\ size' = 4 * size
            /\ slots' = Rehashed(tbl, size, ks)
       ELSE /\ size' = size
            /\ slots' = tbl

\* one turn of the loop  while (REUSE_MAX < c->rcnt) : free the head of the
\* list, or correct the count when there is none
Trim ==
  \E n \in FreeHeads :
    /\ reuse' = reuse \ {n}
    /\ mem' = mem \ {n}
    /\ rcnt' = IF reuse = {} THEN 0 ELSE rcnt - 1

\* what a hit adds to an entry
Hit(n) == use' = [use EXCEPT ![n] = (@ + HitUse) % UseMod]

-----------------------------------------------------------------------------


\* the use_cnt of a surviving entry after a mark at expunge rate r
Aged(u, r) ==
  CASE r = 0 -> u
    [] r = 2 -> (u - 2) % UseMod
    [] r = 3 -> u \div 2
    [] OTHER -> (u - 1) % UseMod

Unused(n) == use[n] = 0

\* what cache_mark retires: nothing when the table is empty
Expunged == IF cnt = 0 THEN {} ELSE {n \in Chained : Unused(n)}

MarkedHot == {val[n] : n \in {m \in Chained : use[m] > 1}}

\* the values cache_mark passes to rb_gc_mark
Marked == IF cnt = 0 THEN {} ELSE {val[n] : n \in Chained \ Expunged}

(***************************************************************************)
(* One collection: cache_mark at rate r, then the sweep of every value     *)
(* neither marked nor found on a stack (roots).  Runs with the world       *)
(* stopped.                                                                 *)
(***************************************************************************)
Collect(r, roots) ==
  /\ slots' = [i \in 0 .. size - 1 |-> slots[i] \ Expunged]
  /\ cnt' = cnt - Cardinality(Expunged)
  /\ reuse' = reuse \cup Expunged
  /\ rcnt' = rcnt + Cardinality(Expunged)
  /\ use' = [n \in Nodes |->
               IF n \in Chained \ Expunged THEN Aged(use[n], r) ELSE use[n]]
  /\ heap' = [o \in Objs |-> IF o \in Marked \cup roots THEN heap[o] ELSE None]
  /\ key' = [n \in Nodes |-> IF n \in Expunged THEN None ELSE key[n]]
  /\ val' = [n \in Nodes |-> IF n \in Expunged THEN None ELSE val[n]]
  /\ UNCHANGED <<size, mem>>

-----------------------------------------------------------------------------
\* an entry is on the chain its hash selects for the present size
Placed == \A i \in 0 .. size - 1 : \A n \in slots[i] : Bucket(key[n], size) = i

\* the value of an entry in the table is alive and is the entry's text
LiveEntries == \A n \in Chained : val[n] \in Objs /\ heap[val[n]] = key[n]
=============================================================================
