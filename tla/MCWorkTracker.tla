---------------------------- MODULE MCWorkTracker ----------------------------
(* WorkTracker for TLC.  Ids, fingerprints and sessions are model values    *)
(* that the specification only compares, so each set is symmetric.          *)
EXTENDS WorkTracker, TLC

Symmetry == Permutations(UnitId) \cup Permutations(Fingerprint) \cup Permutations(Session)

=============================================================================
