-------------------------- MODULE DelegateProtocol --------------------------
(* What a delegate may rely on, whatever the input is: the calls of a parse  *)
(* are well nested, and each is taken from the row of funcs[] that belongs   *)
(* to the container it happens in.  The delegates keep their own stacks and  *)
(* check nothing: an unmatched close would make usual.c pop an empty stack.  *)
EXTENDS JsonBytes

VARIABLES
    stack,  \* the containers opened and not closed, outermost first
    out     \* the calls of the last step

NumberFuns == {"add_int", "add_float", "add_big"}
ValueFuns  == NumberFuns \cup {"add_null", "add_true", "add_false", "add_str"}
Kinds      == {"array", "object"}

Init == stack = <<>> /\ out = <<>>

\* A new document.
Start == stack' = <<>> /\ out' = <<>>

\* Bytes that complete nothing.
Silent == stack' = stack /\ out' = <<>>

Value == stack' = stack /\ \E fun \in ValueFuns : out' = <<Call(fun, Context(stack))>>

Open == \E kind \in Kinds :
            /\ stack' = Append(stack, kind)
            /\ out' = <<Call(OpenFun(kind), Context(stack))>>

\* A number that ends where its container does is delivered first.
Close == \E kind \in Kinds :
            /\ stack # <<>> /\ stack[Len(stack)] = kind
            /\ stack' = SubSeq(stack, 1, Len(stack) - 1)
            /\ LET close == Call(CloseFun(kind), Context(stack'))
               IN  \/ out' = <<close>>
                   \/ \E fun \in NumberFuns : out' = <<Call(fun, Context(stack)), close>>

Next == Start \/ Silent \/ Value \/ Open \/ Close

Spec == Init /\ [][Next]_<<stack, out>>
=============================================================================
