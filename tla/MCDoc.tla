------------------------------- MODULE MCDoc --------------------------------
(* Every text of up to four tokens is opened; some documents are moved in.   *)
EXTENDS Doc

MCNames   == {"a", "slash", "back"}
MCNumbers == {"7", "7.5", "7e1"}
MCCharsOf == ("a" :> <<"a">>) @@ ("slash" :> <<"a", "/", "b">>) @@ ("back" :> <<"a", "\\", "b">>)
             @@ ("7" :> <<"7">>) @@ ("7.5" :> <<"7", ".", "5">>) @@ ("7e1" :> <<"7", "e", "1">>)
Tokens    == {"{", "}", "[", "]", ",", ":", "a", "7", "7.5", "7e1", "null"}
MCDocuments == {<<"[", "7", ",", "[", "7.5", "]", "]">>,
                <<"{", "a", ":", "[", "7", "]", ",", "slash", ":", "null", "}">>,
                <<"[", "[", "[", "[", "7", "]", "]", "]", "]">>,
                <<"{", "back", ":", "7", ",", "a", ":", "null", ",", "a", ":", "7", "}">>}
MCTexts == UNION {[1..n -> Tokens] : n \in 0..4} \cup MCDocuments
MCPaths == {<<"/">>, <<".", ".">>, <<".", ".", "/", "a">>, <<"2">>, <<"a">>, <<"/", "a", "/", "1">>, <<"2", "/", "1">>,
            <<"a", "\\", "/", "b">>, <<"/", "1", "/", "1", "/", "1">>}
=============================================================================
