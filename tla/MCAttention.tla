----------------------------- MODULE MCAttention -----------------------------
(* Attention for TLC: the flags programs set, and the modes. *)
EXTENDS Attention

CONSTANTS p1, p2, w1, w2, r1, r2

Flag(s, f, o) == [state |-> s, failed |-> f, owned |-> o]
ThreeFlags == {Flag("needs-you", FALSE, TRUE), Flag("done", FALSE, TRUE), Flag("done", TRUE, FALSE)}
TwoFlags == {Flag("needs-you", FALSE, TRUE), Flag("done", TRUE, FALSE)}
OneFlag == {Flag("done", FALSE, TRUE)}

Mode(runners, wanted, windows, moving, redrawing) ==
    [runners |-> runners, wanted |-> wanted, windows |-> windows,
     moving |-> moving, redrawing |-> redrawing]

Serial == Mode({r1}, TwoFlags, {w1, w2}, TRUE, FALSE)
Still == Mode({r1}, ThreeFlags, {w1}, FALSE, TRUE)
Together == Mode({r1, r2}, OneFlag, {w1}, FALSE, FALSE)
Everything == {Serial, Still, Together}
OnlySerial == {Mode({r1}, TwoFlags, {w1}, TRUE, FALSE)}
OnlyOwners == {Mode({r1}, {Flag("done", FALSE, TRUE)}, {w1}, FALSE, FALSE)}
=============================================================================
