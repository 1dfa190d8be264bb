----------------------------- MODULE MCClassic ------------------------------
(* Instances of Classic.                                                     *)
EXTENDS Classic

\* A call of Oj.strict_load with a string, as a record to be changed.
Strict == [source |-> "parse.c", mode |-> "strict", proc |-> FALSE, maxDepth |-> 0, hashKey |-> FALSE,
           emptyString |-> TRUE, nilnil |-> FALSE, quirks |-> TRUE, create |-> FALSE]
Stream(c)   == [c EXCEPT !.source = "sparse.c"]
Compat      == [Strict EXCEPT !.mode = "compat"]
Handler     == [Strict EXCEPT !.mode = "callbacks", !.hashKey = TRUE]
InMemory    == {Strict, [Strict EXCEPT !.proc = TRUE], [Compat EXCEPT !.create = TRUE], Handler,
                [Compat EXCEPT !.maxDepth = 1, !.quirks = FALSE, !.emptyString = FALSE],
                [Handler EXCEPT !.hashKey = FALSE, !.proc = TRUE, !.emptyString = FALSE],
                [Strict EXCEPT !.emptyString = FALSE, !.nilnil = TRUE]}
AllConfigs  == InMemory \cup {Stream(c) : c \in InMemory}

MCCreateId == <<"^", "o">>
MCStrings  == {"a", "ab escaped", "id"}
MCTextOf   == ("a" :> <<"a">>) @@ ("ab escaped" :> <<"a", "b">>) @@ ("id" :> MCCreateId)
MCEscaped  == {"ab escaped"}
=============================================================================
