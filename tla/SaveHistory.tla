----------------------------- MODULE SaveHistory -----------------------------
(***************************************************************************)
(* SaveProtocol with history variables that record what each pane has been *)
(* since a save read it, so that it can be shown to implement              *)
(* SnapshotRegister.                                                       *)
(***************************************************************************)
EXTENDS SaveProtocol

VARIABLES
    shown,  \* since the newest snapshot was read
    fresh   \* since the save in flight has read tmux

\* What holds of each pane: what it is, and Absent once it is forgotten.
Now == [x \in Panes |-> {live[x], Kept[x]}]

\* Some process takes the step from one place in the code to another.
Moves(from, to) == \E p \in Procs : pc[p] = from /\ pc'[p] = to

\* A save has read the panes; a save has compared its snapshot with the
\* newest and found nothing new, or has written it.
ReadStep == Moves("read", "build")
CommitStep == \E p \in Procs : Unchanged(p) \/ Write(p)

HInit ==
    /\ Init
    /\ shown = Now
    /\ fresh = Now

HNext ==
    /\ Next
    /\ fresh' = [x \in Panes |-> IF ReadStep THEN Now[x] ELSE fresh[x] \cup Now'[x]]
    /\ shown' = [x \in Panes |-> IF CommitStep THEN fresh[x] ELSE shown[x] \cup Now'[x]]

HSpec == HInit /\ [][HNext]_<<vars, shown, fresh>>

HFairSpec == HSpec /\ Fairness

\* The newest snapshot never goes back: the two locks, and reading tmux
\* under the lock that covers the write, implement the register.
Register == INSTANCE SnapshotRegister WITH now <- Now
NeverGoesBack == Register!Spec
=============================================================================
