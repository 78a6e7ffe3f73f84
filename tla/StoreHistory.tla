---------------------------- MODULE StoreHistory ----------------------------
(***************************************************************************)
(* SnapshotStore with a history variable that remembers the files a save   *)
(* has decided upon, so that what a save of details leaves can be compared *)
(* with what it found.                                                     *)
(***************************************************************************)
EXTENDS SnapshotStore

VARIABLE before   \* the files when the save in progress chose the one to replace

HInit == Init /\ before = <<>>

HNext ==
    /\ Next
    /\ before' = CASE saver'.pc \in {"idle", "commit"} -> <<>>
                   [] saver.pc = "commit" /\ saver'.pc = "rename" -> files
                   [] OTHER -> before

HSpec == HInit /\ [][HNext]_<<vars, before>>
-----------------------------------------------------------------------------
Latest == Max(DOMAIN before)

\* The save in progress has found only details changed since the newest
\* snapshot, in a folder that no crash has left with more files than it should.
OnlyDetails ==
    /\ DOMAIN before # {} /\ Cardinality(DOMAIN before) <= Keep
    /\ before[Latest].panes = saver.snap.panes

OlderStay ==
    \A t \in DOMAIN before \ {Latest} : t \in Entries /\ files[t] = before[t]

\* A save that changes only details replaces the newest snapshot, "so that a
\* drag-resize or a run of cd commands cannot push older snapshots out": at
\* every moment of it all older snapshots are there as they were.
DetailsPushNothingOut == OnlyDetails => OlderStay
=============================================================================
