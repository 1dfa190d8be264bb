---------------------------- MODULE MCSharedCache ----------------------------
EXTENDS SharedCache, TLC

CONSTANTS k1, k2, twin, bad

\* k1 and k2 share the bucket of a table of one, not one of four
MCHash == [k \in Keys |-> CASE k = k1 -> 1 [] k = k2 -> 6 [] k = twin -> 5 [] k = bad -> 3]

\* twin differs from k2 only after a NUL
MCSeen == [k \in Keys |-> IF k = twin THEN k2 ELSE k]

Symmetry == Permutations(Threads) \cup Permutations(Nodes) \cup Permutations(Objs)
=============================================================================
