------------------------------ MODULE MCAttach ------------------------------
(* Attach for TLC: interchangeable processes, and what may happen to them. *)
EXTENDS Attach, TLC

Symmetry == Permutations(Procs)

Calm == {}
Failing == {"fails", "killed"}
Meddling == {"users"}
OnlyFailing == {{"fails"}}
Everything == OnlyFailing \cup {Calm, Failing, Meddling}
OnlyKilled == {{"killed"}}
=============================================================================
