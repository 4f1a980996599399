----------------------------- MODULE MCHandoffReports -----------------------------
(* HandoffReports for TLC: sessions and titles are interchangeable.        *)
EXTENDS HandoffReports, TLC

Interchangeable == Permutations(Session) \cup Permutations(Title)
=============================================================================
