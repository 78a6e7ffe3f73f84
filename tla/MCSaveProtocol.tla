--------------------------- MODULE MCSaveProtocol ---------------------------
(* SaveProtocol for TLC: the processes that run WaitIdle stand apart. *)
EXTENDS SaveProtocol, TLC

Symmetry == Permutations(Procs \ Idlers) \cup Permutations(Panes)
=============================================================================
