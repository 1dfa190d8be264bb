---------------------------- MODULE MCParserCaches ----------------------------
(* The caches of a parser, owned by the usual delegate or by that of a handler. *)
EXTENDS UsualCaches, SajKeys, TLC

CONSTANTS k1, k2, k3, long

VARIABLE owner   \* the delegate of the parser

\* all in one bucket of one; k1 apart from k2 and k3 in a table of four
MCHash == [k \in Keys |-> CASE k = k1 -> 1 [] k = k2 -> 6 [] k = k3 -> 10 [] k = long -> 3]

\* k3 differs from k2 only after a NUL
MCSeen == [k \in Keys |-> IF k = k3 THEN k2 ELSE k]

\* all methods; those for one kind; ends without starts
MCHandlers == {Methods, {"hash_start", "hash_end"}, {"hash_end"}}

usualVars == <<keyOptions, classOptions, defined, given>>

EitherInit ==
  /\ owner \in {"usual", "saj"}
  /\ OwnerInit /\ SajOwn
  /\ owner = "saj" => rate = 1

UsualStep == owner = "usual" /\ OwnerNext /\ UNCHANGED <<owner, sajVars>>
SajStep == owner = "saj" /\ SajNext /\ UNCHANGED <<owner, usualVars>>
EitherNext == UsualStep \/ SajStep
EitherSpec == EitherInit /\ [][EitherNext]_<<owner, vars, usualVars, sajVars>>

\* Bounds: classes are looked up before keys are, or not at all, and keys are cached
\* while the cache of Symbols has something in it.  A handler is told values at the top
\* and one level down, arrays are in the outer two levels, the innermost is for one handler
\* whose keys are cached, and what makes it lose keys happens before the options change.
ClassesFresh == missClass = "ignore" /\ classCache = NoCache /\ defined = {}
KeysFresh == calls = 0 /\ cacheKeys /\ ~symCache /\ keyCache = "str"
Bounded == (ClassesFresh \/ KeysFresh) /\ (owner = "usual" => mem = {} \/ cacheKeys)
  /\ (owner = "saj" => /\ Balanced \/ calls <= 1
                       /\ excused = {} \/ sets = 0
                       /\ asked \in {"string", "value"} => Len(nest) <= 1
                       /\ \A i \in 3 .. Len(nest) : nest[i].kind = "hash"
                       /\ Len(nest) = MaxNest => keysCached /\ handler = Methods)
Symmetry == Permutations(Nodes) \cup Permutations(Objs)
=============================================================================
