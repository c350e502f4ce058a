-------------------------------- MODULE Heap -------------------------------
(***************************************************************************)
(* What kmalloc and kfree promise: memory for an object is nobody else's,  *)
(* until the object is freed.  Any request may fail.                       *)
(***************************************************************************)
EXTENDS Naturals

CONSTANTS Objects, Sizes, End     \* the memory is 0 .. End - 1

VARIABLE place      \* of each object: [from, size], or the size 0
vars == place

Nowhere == [from |-> 0, size |-> 0]
Bytes(o) == place[o].from .. place[o].from + place[o].size - 1

Init == place = [o \in Objects |-> Nowhere]

kmalloc(o, size, from) ==
    /\ place[o] = Nowhere
    /\ from + size <= End
    /\ place' = [place EXCEPT ![o] = [from |-> from, size |-> size]]
    /\ \A q \in Objects : Bytes(q) \cap from .. from + size - 1 = {}

kfree(o) == /\ place[o] # Nowhere
            /\ place' = [place EXCEPT ![o] = Nowhere]

Next == \E o \in Objects :
            \/ kfree(o)
            \/ \E size \in Sizes, from \in 0 .. End - 1 : kmalloc(o, size, from)

Spec == Init /\ [][Next]_vars
=============================================================================
