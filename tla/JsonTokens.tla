----------------------------- MODULE JsonTokens -----------------------------
(* The reference for what writes or reads JSON token by token: a reader of   *)
(* JSON texts in a row.  A string is a member's name where a name is due.    *)
EXTENDS Naturals, Sequences, SequencesExt

Token == {"{", "}", "[", "]", ",", ":", "string", "value"}

\* at: what may come next; open: the containers that are open.
Fresh == [at |-> "start", open |-> <<>>]
Bad   == [at |-> "bad", open |-> <<>>]

TakesValue(d) == d.at \in {"start", "element", "element or ]", "member"}
TakesName(d)  == d.at \in {"name", "name or }"}
Inside(d, kind) == d.open # <<>> /\ Last(d.open) = kind

\* Where the reader stands when a value is complete inside the containers open.
Past(open) == [at |-> IF open = <<>> THEN "start" ELSE "comma", open |-> open]

Read(d, token) ==
    CASE token \in {"value", "string"} /\ TakesValue(d) -> Past(d.open)
      [] token = "string" /\ TakesName(d) -> [d EXCEPT !.at = "colon"]
      [] token = ":" /\ d.at = "colon" -> [d EXCEPT !.at = "member"]
      [] token = "{" /\ TakesValue(d) -> [at |-> "name or }", open |-> Append(d.open, "object")]
      [] token = "[" /\ TakesValue(d) -> [at |-> "element or ]", open |-> Append(d.open, "array")]
      [] token = "," /\ d.at = "comma" ->
            [d EXCEPT !.at = IF Inside(d, "object") THEN "name" ELSE "element"]
      [] token = "}" /\ Inside(d, "object") /\ d.at \in {"comma", "name or }"} -> Past(Front(d.open))
      [] token = "]" /\ Inside(d, "array") /\ d.at \in {"comma", "element or ]"} -> Past(Front(d.open))
      [] OTHER -> Bad

\* Where it stands when it has read tokens, one after the other.
ReadAll(d, tokens) ==
    LET after[n \in 0..Len(tokens)] == IF n = 0 THEN d ELSE Read(after[n - 1], tokens[n])
    IN  after[Len(tokens)]
=============================================================================
