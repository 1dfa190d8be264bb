------------------------------- MODULE MCNumber -------------------------------
(* Number with its limits scaled down: 499 is the largest integer, 99 the       *)
(* largest mantissa of a fraction, and 512 stands for 2^16 so that 499, the     *)
(* largest exponent computed, wraps as 49329 does.                              *)
EXTENDS Number

AllBytes    == {"0", "1", "7", "-", "+", ".", "e"}
NoOrOldText == {<<>>, <<"7", "e", "1">>}
=============================================================================
