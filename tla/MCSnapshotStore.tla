--------------------------- MODULE MCSnapshotStore ---------------------------
(* SnapshotStore and its history for TLC: interchangeable panes. *)
EXTENDS StoreHistory, TLC

Symmetry == Permutations(Panes)
=============================================================================
