------------------------------- MODULE Interner -------------------------------
(***************************************************************************)
(* What a value cache promises its callers, with no table, lock or free    *)
(* list: a call for a text is answered by a live value of that text, or of *)
(* one that differs only after a NUL, and                                   *)
(* the answer is either a value the cache already holds or a new one the   *)
(* cache holds from then on.  The cache may forget values at any time; a   *)
(* value dies only when neither the cache nor a caller holds it.            *)
(***************************************************************************)
CONSTANTS Threads, Keys, Objs, None, Seen

VARIABLES
  asked,   \* the text each thread is waiting for, None between calls
  given,   \* the value each thread was answered with, None before
  fresh,   \* the value a thread has made and not yet put in the cache
  held,    \* the values the cache holds
  text     \* the text of each live value, None for a dead one

vars == <<asked, given, fresh, held, text>>

Init ==
  /\ asked = [t \in Threads |-> None]
  /\ given = [t \in Threads |-> None]
  /\ fresh = [t \in Threads |-> None]
  /\ held = {}
  /\ text = [o \in Objs |-> None]

Ask(t, k) ==
  /\ asked[t] = None
  /\ asked' = [asked EXCEPT ![t] = k]
  /\ UNCHANGED <<given, fresh, held, text>>

Make(t, o) ==
  /\ asked[t] # None /\ given[t] = None /\ fresh[t] = None
  /\ text[o] = None
  /\ fresh' = [fresh EXCEPT ![t] = o]
  /\ text' = [text EXCEPT ![o] = asked[t]]
  /\ UNCHANGED <<asked, given, held>>

\* the answer is a value the cache holds
AnswerHeld(t, o) ==
  /\ asked[t] # None /\ given[t] = None /\ fresh[t] = None
  /\ o \in held /\ Seen[text[o]] = Seen[asked[t]]
  /\ given' = [given EXCEPT ![t] = o]
  /\ UNCHANGED <<asked, fresh, held, text>>

\* the made value enters the cache ...
Hold(t) ==
  /\ fresh[t] # None /\ given[t] = None
  /\ held' = held \cup {fresh[t]}
  /\ UNCHANGED <<asked, given, fresh, text>>

\* ... and is the answer
AnswerFresh(t) ==
  /\ fresh[t] \in held /\ text[fresh[t]] = asked[t]
  /\ given' = [given EXCEPT ![t] = fresh[t]]
  /\ fresh' = [fresh EXCEPT ![t] = None]
  /\ UNCHANGED <<asked, held, text>>

\* a text no value can be made of: the call is abandoned
Raise(t) ==
  /\ asked[t] # None /\ given[t] = None /\ fresh[t] = None
  /\ asked' = [asked EXCEPT ![t] = None]
  /\ UNCHANGED <<given, fresh, held, text>>

Return(t) ==
  /\ given[t] # None
  /\ asked' = [asked EXCEPT ![t] = None]
  /\ given' = [given EXCEPT ![t] = None]
  /\ UNCHANGED <<fresh, held, text>>

\* the cache forgets some values and the dead ones are collected; a value the
\* cache or a thread still holds survives
Forget ==
  \E rest \in SUBSET held :
    /\ held' = rest
    /\ text' = [o \in Objs |->
                 IF o \in rest \/ \E t \in Threads : o \in {given[t], fresh[t]}
                   THEN text[o] ELSE None]
    /\ UNCHANGED <<asked, given, fresh>>

Next ==
  \/ \E t \in Threads :
       \/ \E k \in Keys : Ask(t, k)
       \/ \E o \in Objs : Make(t, o) \/ AnswerHeld(t, o)
       \/ Hold(t) \/ AnswerFresh(t) \/ Raise(t) \/ Return(t)
  \/ Forget

Spec == Init /\ [][Next]_vars
=============================================================================
