--------------------------- MODULE MCOrderedQueue ---------------------------
(* An instance of OrderedQueue for TLC: four elements, two of which share   *)
(* an ordering value.                                                       *)
EXTENDS OrderedQueue

El(i, o) == [id |-> i, ord |-> o]

MixedElements == {El("a", 2), El("b", 2), El("c", 1), El("d", 3)}

=============================================================================
