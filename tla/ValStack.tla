------------------------------ MODULE ValStack ------------------------------
(* The stack of the classic parsers (val_stack.h, val_stack.c): one Val for  *)
(* each container that is open.  Popped Vals stay where they are and are     *)
(* read there.  The Vals live in blocks of memory: the first one is part of  *)
(* the ParseInfo and stays; each growth copies them into a later one, and    *)
(* frees the block they were in unless that was the first.                   *)
EXTENDS Integers, Sequences, TLC

CONSTANTS
    StackInc,    \* STACK_INC: Vals a block grows by
    KeyWidth,    \* 2^16: klen counts modulo this
    KArray       \* places in karray

ASSUME ValStackAssumption == StackInc \in Nat \ {0} /\ KeyWidth \in Nat \ {0} /\ KArray \in Nat \ {0}

VARIABLES
    slots,       \* the Vals, the popped ones at the end among them
    tail,        \* how many are in use
    room,        \* Vals that fit into the block
    block        \* the block of memory, counted from 0, the base

stackVars == <<slots, tail, room, block>>

None  == "none"
Undef == <<"undef">>   \* Qundef
Unmade == <<>>         \* no value was made of a key
\* A key: where its bytes are ("text", "heap", or "karray" in the Val, which was in that
\* block), what was read, klen, and the value the handler made, in a row of its own.
NoKey == [at |-> None, block |-> 0, text |-> <<>>, klen |-> 0, made |-> Unmade]

Val(val, next) == [val |-> val, next |-> next, key |-> NoKey, classname |-> None]

Top == slots[tail]
\* ValNext of the innermost container
NextIs(states) == \E i \in {tail} \ {0} : slots[i].next \in states
ExpectsValue == {"ARRAY_NEW", "ARRAY_ELEMENT", "HASH_VALUE"}
ExpectsKey   == {"HASH_NEW", "HASH_KEY"}

\* A block that was freed when the stack grew out of it.
Freed(b) == 0 < b /\ b < block
\* The bytes at parent->key, up to klen.
KeyText(key) == IF key.at = "karray" /\ Freed(key.block) THEN <<"freed">> ELSE SubSeq(key.text, 1, key.klen)

\* oj_stack_init
StackInit ==
    /\ slots = <<Val(Undef, "NONE")>> /\ tail = 0 /\ room = StackInc /\ block = 0

\* stack_push.  realloc moves the block or leaves it where it is.
Push(v) ==
    /\ tail' = tail + 1
    /\ slots' = [i \in 1..(IF tail < Len(slots) THEN Len(slots) ELSE tail + 1) |->
                    IF i = tail + 1 THEN v ELSE slots[i]]
    /\ IF room <= tail
       THEN /\ room' = room + StackInc
            /\ block' \in {block + 1} \cup (IF block > 0 THEN {block} ELSE {})
       ELSE UNCHANGED <<room, block>>
=============================================================================
