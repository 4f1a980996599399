--------------------------- MODULE MCCheckpointStore ---------------------------
(* CheckpointStore for TLC: processes are only compared, so symmetric.      *)
EXTENDS CheckpointStore, TLC

Symmetry == Permutations(Process)

=============================================================================
