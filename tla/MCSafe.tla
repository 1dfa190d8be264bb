-------------------------------- MODULE MCSafe --------------------------------
EXTENDS Safe

Create == [Defaults EXCEPT !.create = TRUE]
\* Defaults; a class for hashes; create_id with each use of the class found and
\* each answer to one that is not; omit_null with and without it.
MCSettings ==
    {Defaults, Create, [Create EXCEPT !.missing_class = "auto"],
     [Defaults EXCEPT !.hash_class = TRUE], [Create EXCEPT !.hash_class = TRUE],
     [Defaults EXCEPT !.omit_null = TRUE], [Create EXCEPT !.omit_null = TRUE],
     [Defaults EXCEPT !.array_class = TRUE], [Defaults EXCEPT !.raise_on_empty = TRUE],
     [Create EXCEPT !.missing_class = "raise"],
     [Create EXCEPT !.ignore_json_create = TRUE]}

\* Each limit by itself, and two together; 5 stands for nil's bits, out of reach.
None == [object |-> {}, array |-> {}, depth |-> {}, total |-> {}]
MCLimits ==
    {None, [None EXCEPT !.object = {1}], [None EXCEPT !.depth = {0}], [None EXCEPT !.depth = {1}],
     [None EXCEPT !.total = {3}], [None EXCEPT !.array = {1}, !.total = {3}]}

\* Bounds: limits, a block, more capacity, and a key that is not create_id's, with a
\* few of the settings.
SecondKey == "j" = key \/ "j" \in Range(kstack)
Bounded == /\ limits # None => set \in {Defaults, Create} /\ ~SecondKey /\ buf # "J"
           /\ block => set \in {Defaults, Create}
           /\ caps.v # InitCap => set = Defaults
           /\ SecondKey => set \in {Defaults, [Create EXCEPT !.hash_class = TRUE]}
=============================================================================
