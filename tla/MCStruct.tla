------------------------------ MODULE MCStruct ------------------------------
(* Model checking instance of Struct: a sub-struct without dynamic memory, *)
(* a string, and a sub-struct with a number and a string.                  *)
EXTENDS Struct

CONSTANTS s1, s2
Symmetric == Permutations({s1, s2})

MCDescriptors ==
    [T |-> <<[tag |-> 1, kind |-> "P"], [tag |-> 2, kind |-> Dynamic],
             [tag |-> 4, kind |-> "S"]>>,
     P |-> <<[tag |-> 2, kind |-> Plain]>>,
     S |-> <<[tag |-> 3, kind |-> Dynamic]>>]
=============================================================================
