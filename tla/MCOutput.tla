------------------------------ MODULE MCOutput ------------------------------
(* Every text of up to three pieces: characters of each class of the tables,  *)
(* characters of one to six bytes, and parts of them.                        *)
EXTENDS Output

Pieces == {<<0>>, <<1>>, <<9>>, <<10>>, <<34>>, <<47>>, <<58>>, <<60>>, <<65>>, <<92>>, <<94>>, <<105>>, <<127>>,
           <<195, 169>>, <<226, 128, 168>>, <<226, 130, 172>>, <<240, 159, 152, 128>>,
           <<128>>, <<195>>, <<226>>, <<240, 159>>, <<192, 128>>, <<248, 136, 128, 128, 128>>, <<255>>}
MCTexts == {<<>>} \cup Pieces \cup {a \o b : a, b \in Pieces} \cup {a \o b \o c : a, b, c \in Pieces}
MCStreamed == {<<34, 34>>, <<34, 65, 34>>}
=============================================================================
