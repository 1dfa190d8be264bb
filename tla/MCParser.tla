------------------------------ MODULE MCParser ------------------------------
(* Documents over all byte classes but two that the tables treat like another *)
(* one: "tab" is "sp" outside strings and "ctl" inside, "E" is "e" in numbers *)
(* and "hex" elsewhere.                                                       *)
EXTENDS ParserGrammar

MCAlphabet == Classes \ {"tab", "E"}
=============================================================================
