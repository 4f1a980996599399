-------------------------------- MODULE MCHandoff --------------------------------
(* Handoff for TLC: sessions and rules are interchangeable, ids are not.   *)
EXTENDS Handoff, TLC

Interchangeable == Permutations(Session) \cup Permutations(Rule) \cup Permutations(Config)
=============================================================================
