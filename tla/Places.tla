---------------------------------- MODULE Places ----------------------------------
(***************************************************************************)
(* Selecting from a sequence by place.  Where the program filters a list,  *)
(* the modules say which places stay and take what stands there.           *)
(***************************************************************************)
EXTENDS Naturals, FiniteSets

\* The elements at some places, in order.
At(seq, places) ==
    LET Place(k) == CHOOSE i \in places : Cardinality({j \in places : j <= i}) = k
    IN  [k \in 1 .. Cardinality(places) |-> seq[Place(k)]]
=============================================================================
