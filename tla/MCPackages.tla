------------------------------- MODULE MCPackages -------------------------------
(* Packages for TLC: processes, ids and dates are interchangeable.         *)
EXTENDS Packages, TLC

Interchangeable == Permutations(Process) \cup Permutations(Id) \cup Permutations(Date)
=============================================================================
