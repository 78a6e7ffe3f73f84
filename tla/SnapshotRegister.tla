-------------------------- MODULE SnapshotRegister --------------------------
(***************************************************************************)
(* What the saves of tmux-revive promise about the newest snapshot,        *)
(* whoever writes it and however many processes save at once: it never     *)
(* goes back.  Each snapshot says of every pane something that held at or  *)
(* after the moment the snapshot before it was read.                       *)
(***************************************************************************)
CONSTANTS Panes, Value, Absent, Shell

VARIABLES
    now,    \* what holds of each pane now; of a forgotten one also Absent
    saved,  \* the newest snapshot
    shown   \* what each pane has been since the snapshot was read

Snapshot == [Panes -> Value]

\* What a snapshot may say of pane x.  The program of a pane is looked up
\* after the pane itself was read: one that is gone by then runs none.
MaySay(x) == shown[x] \cup (IF shown[x] \subseteq {Absent} THEN {} ELSE {Shell})

Init ==
    /\ now \in [Panes -> (SUBSET Value) \ {{}}]
    /\ saved \in Snapshot
    /\ shown = now

\* The server changes.
Change ==
    /\ now' \in [Panes -> (SUBSET Value) \ {{}}]
    /\ shown' = [x \in Panes |-> shown[x] \cup now'[x]]
    /\ UNCHANGED saved

\* A save finishes, or finds nothing new; it was read at a moment since
\* which the panes have been shown'.
Save ==
    /\ saved' \in Snapshot
    /\ \A x \in Panes : saved'[x] \in MaySay(x)
    /\ shown' \in [Panes -> SUBSET Value]
    /\ \A x \in Panes : now[x] \subseteq shown'[x] /\ shown'[x] \subseteq shown[x]
    /\ UNCHANGED now

\* A session is forgotten on a server whose state is not yet restored.
Drop ==
    /\ \E x \in Panes : saved' = [saved EXCEPT ![x] = Absent]
    /\ UNCHANGED <<now, shown>>

Next == Change \/ Save \/ Drop

Spec == Init /\ [][Next]_<<now, saved, shown>>
=============================================================================
